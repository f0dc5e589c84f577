------------------------------ MODULE IRLinker ------------------------------
(***************************************************************************)
(* Link-time merging of modules: BackendBuilder::ensurePrepared clones the *)
(* source module and lets ir::IRLinker::linkModules merge a clone of each  *)
(* additional module into it, one after the other.                         *)
(*                                                                         *)
(* Module 0 is the destination.  An object is a function or a global       *)
(* variable of one module, named <<module, name>>.  A function is defined  *)
(* when it has basic blocks, a global when it has an initializer; body[o]  *)
(* says whose blocks or initializer o holds now.  A call site <<o, t>> is  *)
(* an operand in the blocks that o was built with, which refers to t of    *)
(* the same module; sites are independent of each other, so every defined  *)
(* function gets one for every object of its module.                       *)
(*                                                                         *)
(* Functions and globals are merged through separate name tables; the      *)
(* model keeps their names apart (Funs and Globs are disjoint).            *)
(***************************************************************************)
EXTENDS Naturals

CONSTANTS Funs, Globs,   \* the names of functions and of global variables
          Last,          \* modules 1 .. Last are linked into module 0
          Freed,         \* the owner of an object that has been destroyed
          Null           \* a null operand; also: no basic blocks, no initializer

SymbolNames == Funs \cup Globs
Modules == 0 .. Last
Symbols == Modules \X SymbolNames
Sites == (Modules \X Funs) \X Symbols

ASSUME MergeAssumption ==
    /\ Funs \cap Globs = {}
    /\ Last \in Nat
    /\ Freed \notin Modules
    /\ Null \notin Symbols

VARIABLES
    given,    \* what each module holds when the build starts
    owner,    \* owner[o]: the module whose list holds o, or Freed
    body,     \* body[o]: the object whose blocks or initializer o has, or Null
    ref,      \* ref[s]: the object the operand s refers to, or Null
    cur,      \* the module linkModules is merging (Last + 1: none is left)
    failed    \* linkModules returned false

mergeVars == <<given, owner, body, ref, cur, failed>>

Strength == {"absent", "declared", "defined"}

----------------------------------------------------------------------------
(* MergeInit: any set of modules a front end can build.  cloneModule gives *)
(* each module its own objects and lets every operand refer to one of them.*)
MergeInit ==
    /\ given \in [Symbols -> Strength]
    /\ owner = [o \in Symbols |-> IF given[o] = "absent" THEN Freed ELSE o[1]]
    /\ body = [o \in Symbols |-> IF given[o] = "defined" THEN o ELSE Null]
    /\ ref = [s \in Sites |-> IF /\ s[1][1] = s[2][1]
                                 /\ given[s[1]] = "defined"
                                 /\ given[s[2]] # "absent"
                              THEN s[2] ELSE Null]
    /\ cur = 1
    /\ failed = FALSE

(* existingGlobals and existingFuncs: the names the destination holds.     *)
Exists(n) == \E d \in Symbols : owner[d] = 0 /\ d[2] = n

Running == cur <= Last /\ ~failed

(* The next object to merge: the front of srcGlobals until that list is    *)
(* empty, then the front of srcFuncs.  The order inside a list is any.     *)
Front(o) ==
    /\ owner[o] = cur
    /\ o[2] \in Funs => \A p \in Symbols : owner[p] = cur => p[2] \in Funs

DestroySilently(S) ==                 \* variant: the uses keep their pointer
    /\ owner' = [o \in Symbols |-> IF o \in S THEN Freed ELSE owner[o]]
    /\ UNCHANGED ref

(* ~Value: an object that dies leaves a null operand at each of its uses.  *)
Destroy(S) ==
    /\ owner' = [o \in Symbols |-> IF o \in S THEN Freed ELSE owner[o]]
    /\ ref' = [s \in Sites |-> IF ref[s] \in S THEN Null ELSE ref[s]]

AddCopy(o) ==                         \* variant: a copy is added, o dies
    /\ Running /\ Front(o) /\ ~Exists(o[2])
    /\ owner' = [owner EXCEPT ![o] = 0]
    /\ ref' = [s \in Sites |-> IF ref[s] = o THEN Null ELSE ref[s]]
    /\ UNCHANGED <<given, body, cur, failed>>

(* The name is new: the object itself moves to the destination.            *)
Add(o) ==
    /\ Running /\ Front(o) /\ ~Exists(o[2])
    /\ owner' = [owner EXCEPT ![o] = 0]
    /\ UNCHANGED <<given, body, ref, cur, failed>>

SkipAny(o) ==                         \* variant: the first object of a name wins
    /\ Running /\ Front(o) /\ Exists(o[2])
    /\ Destroy({o})
    /\ UNCHANGED <<given, body, cur, failed>>

(* The name exists and the source only declares it: the object is dropped. *)
Skip(o) ==
    /\ Running /\ Front(o) /\ Exists(o[2])
    /\ body[o] = Null
    /\ Destroy({o})
    /\ UNCHANGED <<given, body, cur, failed>>

FillByReplacing(o, d) ==              \* variant: o takes the declaration's place
    /\ Running /\ Front(o)
    /\ owner[d] = 0 /\ d[2] = o[2]
    /\ body[o] # Null /\ body[d] = Null
    /\ owner' = [owner EXCEPT ![d] = Freed, ![o] = 0]
    /\ ref' = [s \in Sites |-> IF ref[s] = d THEN Null ELSE ref[s]]
    /\ UNCHANGED <<given, body, cur, failed>>

(* The destination only declares the name: it takes over the blocks or the *)
(* initializer, and the source object, now empty, is destroyed.            *)
Fill(o, d) ==
    /\ Running /\ Front(o)
    /\ owner[d] = 0 /\ d[2] = o[2]
    /\ body[o] # Null /\ body[d] = Null
    /\ body' = [body EXCEPT ![d] = body[o], ![o] = Null]
    /\ Destroy({o})
    /\ UNCHANGED <<given, cur, failed>>

CollideAny(o, d) ==                   \* variant: a second object is an error
    /\ Running /\ Front(o)
    /\ owner[d] = 0 /\ d[2] = o[2]
    /\ body[o] # Null
    /\ failed' = TRUE
    /\ Destroy({p \in Symbols : owner[p] = cur})
    /\ UNCHANGED <<given, body, cur>>

(* Both define the name: an error.  The source module dies with all that   *)
(* it still holds; what was merged before stays in the destination.        *)
Collide(o, d) ==
    /\ Running /\ Front(o)
    /\ owner[d] = 0 /\ d[2] = o[2]
    /\ body[o] # Null /\ body[d] # Null
    /\ failed' = TRUE
    /\ Destroy({p \in Symbols : owner[p] = cur})
    /\ UNCHANGED <<given, body, cur>>

(* linkModules returns true; ensurePrepared goes on to the next module.    *)
NextModule ==
    /\ Running
    /\ \A o \in Symbols : owner[o] # cur
    /\ cur' = cur + 1
    /\ UNCHANGED <<given, owner, body, ref, failed>>

MergeOne(o) ==
    \/ Add(o)
    \/ Skip(o)
    \/ \E d \in Symbols : Fill(o, d) \/ Collide(o, d)

MergeNext == NextModule \/ \E o \in Symbols : MergeOne(o)

MergeSpec == MergeInit /\ [][MergeNext]_mergeVars

----------------------------------------------------------------------------
(* Every object that has been merged into the destination or dropped.      *)
Handled(o) == given[o] # "absent" /\ owner[o] \in {0, Freed}

AllMerged == cur = Last + 1

(* A site lies in the destination when the blocks it is part of do.        *)
InUnit(s) == \E d \in Symbols : owner[d] = 0 /\ body[d] = s[1]

MergeTypeOK ==
    /\ given \in [Symbols -> Strength]
    /\ owner \in [Symbols -> Modules \cup {Freed}]
    /\ body \in [Symbols -> Symbols \cup {Null}]
    /\ ref \in [Sites -> Symbols \cup {Null}]
    /\ cur \in 1 .. Last + 1
    /\ failed \in BOOLEAN

(* Module::getFunction and the code generator find a symbol by its name:   *)
(* the destination never holds two objects with one name.                  *)
OneObjectPerName ==
    \A d, e \in Symbols : owner[d] = 0 /\ owner[e] = 0 /\ d[2] = e[2] => d = e

(* A definition beats the declarations of its name, wherever they come     *)
(* from: until an error, a name whose definition has been merged is held   *)
(* by the destination together with that very definition.                  *)
DefinitionsWin ==
    ~failed => \A o \in Symbols : Handled(o) =>
        \E d \in Symbols : /\ owner[d] = 0 /\ d[2] = o[2]
                           /\ given[o] = "defined" => body[d] = o

(* linkModules refuses exactly the builds in which two modules define one  *)
(* name, whatever the order in which the lists are walked.                 *)
TwoDefinitions ==
    \E o, p \in Symbols : /\ o # p /\ o[2] = p[2]
                          /\ given[o] = "defined" /\ given[p] = "defined"
FailsOnCollisionOnly ==
    /\ failed => TwoDefinitions
    /\ AllMerged => ~TwoDefinitions

(* Merging a module never disturbs what the destination's own code refers  *)
(* to, not even when a declaration it calls gets a body from elsewhere.    *)
OwnCallsSurvive ==
    \A s \in Sites :
        s[1][1] = 0 /\ s[2][1] = 0 /\ given[s[1]] = "defined" /\ given[s[2]] # "absent"
            => ref[s] = s[2] /\ owner[s[2]] = 0

(* An operand of merged code never points into a destroyed object, also    *)
(* not after an error half way through a module.                           *)
NoDanglingOperand ==
    \A s \in Sites : ref[s] # Null /\ InUnit(s) => owner[ref[s]] # Freed

(* An operand is lost only when its name was taken: a module all of whose  *)
(* names are new keeps every reference it came with.                       *)
OnlySharedNamesAreLost ==
    ~failed => \A s \in Sites :
        InUnit(s) /\ s[1][1] = s[2][1] /\ given[s[2]] # "absent" /\ ref[s] = Null
            => \E m \in 0 .. s[2][1] - 1 : given[<<m, s[2][2]>>] # "absent"
=============================================================================
