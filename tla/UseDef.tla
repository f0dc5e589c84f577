------------------------------- MODULE UseDef -------------------------------
(***************************************************************************)
(* The use-def graph of the Fyra IR: Value, Use, User, Instruction,        *)
(* BasicBlock and PhiNode (src/src/ir).                                    *)
(*                                                                         *)
(* Every operand of an instruction is a Use object owned by the            *)
(* instruction.  A Use holds a raw pointer to the value it reads, and the  *)
(* value holds the list of raw pointers to its Uses.  Nothing but the      *)
(* discipline of Use::set keeps the two directions together, while every   *)
(* pass replaces values, detaches and destroys instructions, erases phi    *)
(* entries and deletes whole blocks.                                       *)
(*                                                                         *)
(* Abstractions.  A std::list<Use*> is the number of times it holds each   *)
(* Use: push_back adds one, list::remove takes every copy out, and the     *)
(* order of the list is left out, since no operation depends on it.  An    *)
(* instruction sits in the list of its parent block.  The name of a block  *)
(* is the constant Name[b], for PhiNode matches entries by name too.       *)
(***************************************************************************)
EXTENDS Naturals, Sequences, FiniteSets

CONSTANTS
  Instrs,       \* the instructions that may exist, the phis among them
  Phis,         \* those that are PhiNodes
  Blocks,       \* the basic blocks
  Consts,       \* constants and parameters, which outlive every instruction
  Uses,         \* the Use objects that may exist
  Name,         \* the name of each block
  None,         \* the null pointer
  MaxOperands,  \* bound: the length of an operand vector
  MaxArgs       \* bound: the operands an instruction is constructed with

Values == Instrs \cup Blocks \cup Consts

ASSUME ValueAssumption ==
  /\ Phis \subseteq Instrs
  /\ Instrs \cap Blocks = {} /\ Instrs \cap Consts = {} /\ Blocks \cap Consts = {}
  /\ None \notin Values
  /\ MaxOperands \in Nat /\ MaxArgs \in 0 .. MaxOperands

VARIABLES
  live,       \* the values that have been constructed and not destroyed
  parent,     \* Instruction::parent, the block whose list owns the instruction
  sweep,      \* a pass at removeInstructions: its list, the blocks still to do
  operands,   \* User::operands, a vector of owned Use objects
  user,       \* Use::user; None while the Use object does not exist
  val,        \* Use::v, the value a Use reads
  use_list    \* Value::use_list, how often the list of a value holds a Use

vars == <<live, parent, sweep, operands, user, val, use_list>>

Pointer == Values \cup {None}

NoSweep == [list |-> {}, todo |-> {}]
Idle    == sweep = NoSweep

TypeOK ==
  /\ live \subseteq Values
  /\ parent \in [Instrs -> Blocks \cup {None}]
  /\ sweep \in [list : SUBSET Instrs, todo : SUBSET Blocks]
  /\ operands \in [Instrs -> Seq(Uses)]
  /\ user \in [Uses -> Instrs \cup {None}]
  /\ val \in [Uses -> Pointer]
  /\ use_list \in [Values -> [Uses -> Nat]]

Init ==
  /\ live = Blocks \cup Consts
  /\ parent = [i \in Instrs |-> None]
  /\ sweep = NoSweep
  /\ operands = [i \in Instrs |-> <<>>]
  /\ user = [u \in Uses |-> None]
  /\ val = [u \in Uses |-> None]
  /\ use_list = [v \in Values |-> [u \in Uses |-> 0]]

-----------------------------------------------------------------------------
(* Use::set for every use of the set S at once: use u is set to new[u].  A
   call touches only its own Use, so a loop of calls is one simultaneous
   update.  A Use that already reads the new value returns early.          *)

AfterSet(S, new) == [u \in Uses |-> IF u \in S THEN new[u] ELSE val[u]]

(* Variant of the next definition with a bug: the list of the old value is
   never cleared.                                                           *)
ListsAfterSetStale(S, new) ==
  [v \in Values |-> [u \in Uses |->
     IF u \in S /\ val[u] # new[u] /\ v = new[u] THEN use_list[v][u] + 1 ELSE use_list[v][u]]]

ListsAfterSet(S, new) ==
  [v \in Values |-> [u \in Uses |->
     IF u \notin S \/ val[u] = new[u] THEN use_list[v][u]
     ELSE IF v = new[u] THEN use_list[v][u] + 1     \* addUse: push_back
     ELSE IF v = val[u] THEN 0                      \* removeUse: list::remove
     ELSE use_list[v][u]]]

SetAll(S, new) == val' = AfterSet(S, new) /\ use_list' = ListsAfterSet(S, new)

ToNull == [u \in Uses |-> None]

UsersOf(v) == {u \in Uses : use_list[v][u] > 0}
OwnedBy(I) == {u \in Uses : user[u] \in I}
Free       == {u \in Uses : user[u] = None}
RangeOf(s) == {s[k] : k \in 1 .. Len(s)}

(* A variant of Destroy with a bug: ~Value forgets the readers.             *)
DestroySilently(D, detached) ==
  /\ SetAll(OwnedBy(D \cup detached), ToNull)
  /\ user' = [u \in Uses |-> IF user[u] \in D THEN None ELSE user[u]]
  /\ operands' = [i \in Instrs |-> IF i \in D THEN <<>> ELSE operands[i]]
  /\ live' = live \ D

(* The destructors of the values D: the operand vector of each instruction
   dies first, each Use setting itself to null, then ~Value nulls whoever
   still reads the value.  Detached instructions only lose their operands.
   The parent of what dies is left as it is, in memory that is freed.      *)
Destroy(D, detached) ==
  /\ SetAll(OwnedBy(D \cup detached) \cup UNION {UsersOf(v) : v \in D}, ToNull)
  /\ user' = [u \in Uses |-> IF user[u] \in D THEN None ELSE user[u]]
  /\ operands' = [i \in Instrs |-> IF i \in D THEN <<>> ELSE operands[i]]
  /\ live' = live \ D

(* Nobody but the list of a sweep holds the address of what was destroyed.  *)
ForgetDead == parent' = [i \in Instrs |-> IF i \in live' THEN parent[i] ELSE None]

-----------------------------------------------------------------------------
(* Instruction::Instruction with its n operands, and addInstruction: args is
   the vector of values, us the Use objects addOperand allocates for them.  *)
CreateInstruction(i, b, n) ==
  /\ Idle /\ i \in Instrs \ live /\ b \in live
  /\ i \in Phis => n = 0
  /\ \E us \in [1 .. n -> Free], args \in [1 .. n -> live] :
       /\ \A j, k \in 1 .. n : us[j] = us[k] => j = k
       /\ operands' = [operands EXCEPT ![i] = us]
       /\ user' = [u \in Uses |-> IF u \in RangeOf(us) THEN i ELSE user[u]]
       /\ SetAll(RangeOf(us),
                 [u \in Uses |-> IF u \in RangeOf(us)
                                 THEN args[CHOOSE k \in 1 .. n : us[k] = u] ELSE None])
  /\ live' = live \cup {i}
  /\ parent' = [parent EXCEPT ![i] = b]
  /\ UNCHANGED sweep

(* A pass redirects one operand: op->set(value).  The operands that name the
   incoming blocks of a phi are redirected to another block only.           *)
SetOperand(i, k, v) ==
  /\ Idle /\ i \in live /\ v \in live /\ k \in 1 .. Len(operands[i])
  /\ i \in Phis => (k % 2 = 1 <=> v \in Blocks)
  /\ SetAll({operands[i][k]}, [u \in Uses |-> v])
  /\ UNCHANGED <<live, parent, sweep, operands, user>>

(* Value::replaceAllUsesWith: a copy of the use list is walked.  The passes
   replace an instruction by a value or by null and a block by a block.     *)
ReplaceAllUsesWith(v, w) ==
  /\ Idle /\ v \in live /\ w \in live \cup {None}
  /\ v \in Blocks => w \in Blocks \cup {None}
  /\ v \notin Blocks => w \notin Blocks
  /\ SetAll(UsersOf(v), [u \in Uses |-> w])
  /\ UNCHANGED <<live, parent, sweep, operands, user>>

(* A pass has collected the instructions R and calls removeInstructions on
   the blocks B in turn: on every block of the function (CopyElimination,
   Mem2Reg), or on the one block it works on (the others).                  *)
BeginSweep(R, B) ==
  /\ Idle /\ R # {} /\ R \subseteq live /\ B # {} /\ B \subseteq live
  /\ sweep' = [list |-> R, todo |-> B]
  /\ UNCHANGED <<live, parent, operands, user, val, use_list>>

(* The instructions of the list whose getParent() is b.  An instruction that
   an earlier call destroyed is asked too: its memory still holds its last
   parent, or has been overwritten and yields no block.                     *)
ReadAsOwn(b, overwritten) == {i \in sweep.list \ overwritten : parent[i] = b}

LastBlock(b) == sweep.todo = {b}

AfterCall(b) ==
  /\ sweep' = IF LastBlock(b) THEN NoSweep ELSE [sweep EXCEPT !.todo = @ \ {b}]
  /\ IF LastBlock(b) THEN ForgetDead ELSE UNCHANGED parent

(* A variant of RemoveInstructions with a bug: the operands are dropped
   before the parent is compared.                                           *)
RemoveInstructionsEagerly(b) ==
  /\ b \in sweep.todo
  /\ \E overwritten \in SUBSET (sweep.list \ live) :
       Destroy(ReadAsOwn(b, overwritten), sweep.list)
  /\ AfterCall(b)

(* BasicBlock::removeInstructions(to_remove) on block b: the instructions of
   the list that it takes for its own lose their operands and then, with the
   nodes of its own list, their lives.  No memory is allocated between two
   calls of a sweep, so that nothing lives at a destroyed address.          *)
RemoveInstructions(b) ==
  /\ b \in sweep.todo
  /\ \E overwritten \in SUBSET (sweep.list \ live) :
       LET own == ReadAsOwn(b, overwritten) IN Destroy(own, own)
  /\ AfterCall(b)

(* Erasing a block from its function: the instructions of its list die, then
   the block itself, which nulls the branches and phi entries naming it.    *)
EraseBlock(b) ==
  /\ Idle /\ b \in live
  /\ LET D == {b} \cup {i \in live \cap Instrs : parent[i] = b} IN Destroy(D, {})
  /\ ForgetDead /\ UNCHANGED sweep

(* The move of an instruction into another block (LICM, block merging, the
   inliner's split): unlinked from one list, setParent, linked into another. *)
MoveInstruction(i, b) ==
  /\ Idle /\ i \in live \cap Instrs /\ b \in live /\ parent[i] # b
  /\ parent' = [parent EXCEPT ![i] = b]
  /\ UNCHANGED <<live, sweep, operands, user, val, use_list>>

-----------------------------------------------------------------------------
(* PhiNode.  The operands are pairs <block, value>.                          *)

NamesBlock(v, b) == v = b \/ (v \in Blocks /\ Name[v] = Name[b])

Matching(p, b) ==
  {k \in 1 .. Len(operands[p]) : k % 2 = 1 /\ NamesBlock(val[operands[p][k]], b)}

IsFirstMatch(p, b, k) == k \in Matching(p, b) /\ \A m \in Matching(p, b) : k <= m

SetIncomingFound(p, b, v) ==
  /\ \E k \in 1 .. Len(operands[p]) - 1 :
       /\ IsFirstMatch(p, b, k)
       /\ SetAll({operands[p][k + 1]}, [u \in Uses |-> v])
  /\ UNCHANGED <<live, parent, sweep, operands, user>>

SetIncomingNew(p, b, v) ==
  /\ Matching(p, b) = {} /\ Len(operands[p]) + 2 <= MaxOperands
  /\ \E u1 \in Free, u2 \in Free :
       /\ u1 # u2
       /\ operands' = [operands EXCEPT ![p] = @ \o <<u1, u2>>]
       /\ user' = [user EXCEPT ![u1] = p, ![u2] = p]
       /\ SetAll({u1, u2}, [u \in Uses |-> IF u = u1 THEN b ELSE IF u = u2 THEN v ELSE None])
  /\ UNCHANGED <<live, parent, sweep>>

(* PhiNode::setIncomingValueForBlock and addIncoming.                        *)
SetIncomingValueForBlock(p, b, v) ==
  /\ Idle /\ p \in live \cap Phis /\ b \in live \cap Blocks
  /\ v \in (live \ Blocks) \cup {None}
  /\ SetIncomingFound(p, b, v) \/ SetIncomingNew(p, b, v)

(* A variant of WithoutPair with a bug: the block goes, the value stays.     *)
WithoutBlock(s, k) == SubSeq(s, 1, k - 1) \o SubSeq(s, k + 1, Len(s))

(* What vector::erase of the k-th and the next element leaves.               *)
WithoutPair(s, k) == SubSeq(s, 1, k - 1) \o SubSeq(s, k + 2, Len(s))

(* PhiNode::removeIncomingValue: the two Use objects of the entry die.       *)
RemoveIncomingValue(p, b) ==
  /\ Idle /\ p \in live \cap Phis /\ b \in live \cap Blocks
  /\ \E k \in 1 .. Len(operands[p]) - 1 :
       LET gone == {operands[p][k], operands[p][k + 1]}
       IN  /\ IsFirstMatch(p, b, k)
           /\ operands' = [operands EXCEPT ![p] = WithoutPair(@, k)]
           /\ user' = [u \in Uses |-> IF u \in gone THEN None ELSE user[u]]
           /\ SetAll(gone, ToNull)
  /\ UNCHANGED <<live, parent, sweep>>

-----------------------------------------------------------------------------
Next ==
  \/ \E i \in Instrs, b \in Blocks, n \in 0 .. MaxArgs : CreateInstruction(i, b, n)
  \/ \E i \in Instrs, k \in 1 .. MaxOperands, v \in Values : SetOperand(i, k, v)
  \/ \E v \in Values, w \in Pointer : ReplaceAllUsesWith(v, w)
  \/ \E R \in SUBSET Instrs, B \in SUBSET Blocks : BeginSweep(R, B)
  \/ \E b \in Blocks : RemoveInstructions(b)
  \/ \E b \in Blocks : EraseBlock(b)
  \/ \E i \in Instrs, b \in Blocks : MoveInstruction(i, b)
  \/ \E p \in Phis, b \in Blocks, v \in Pointer : SetIncomingValueForBlock(p, b, v)
  \/ \E p \in Phis, b \in Blocks : RemoveIncomingValue(p, b)

Spec == Init /\ [][Next]_vars

-----------------------------------------------------------------------------
(* Every use list is exact: it holds each Use that reads the value once, and
   no other, so that replaceAllUsesWith misses no reader, use_empty is true
   only of a value nobody reads, and no list holds a destroyed Use.         *)
UseListExact ==
  \A v \in live : \A u \in Uses :
    use_list[v][u] = IF user[u] # None /\ val[u] = v THEN 1 ELSE 0

(* No operand of a live instruction reads a destroyed value, whatever the
   order in which passes replaced, detached, moved and destroyed.           *)
NoDanglingOperand ==
  \A u \in Uses : user[u] # None => user[u] \in live /\ val[u] \in live \cup {None}

(* The operands of a phi stay <block, value> pairs: code that steps through
   them two by two never takes a value for a block or a block for a value.  *)
PhiAlternates ==
  \A p \in Phis :
    /\ Len(operands[p]) % 2 = 0
    /\ \A k \in 1 .. Len(operands[p]) :
         IF k % 2 = 1 THEN val[operands[p][k]] \in Blocks \cup {None}
         ELSE val[operands[p][k]] \notin Blocks

(* Destruction is local: a step that destroys values leaves alone every
   operand of a surviving instruction whose value survives too; and a call of
   a sweep, which asks for the parent of instructions that the calls before
   it have destroyed, takes none of those for its own, so that no operand of
   a destroyed instruction is written.                                      *)
DestructionIsLocal ==
  [][/\ \A u \in Uses :
          (/\ live' # live /\ user[u] # None /\ user[u] \in live' /\ val[u] \in live')
            => user'[u] = user[u] /\ val'[u] = val[u]
     /\ \A b \in sweep.todo \ sweep'.todo : ReadAsOwn(b, {}) \subseteq live]_vars
=============================================================================
