--------------------------- MODULE InternalLinker ---------------------------
(***************************************************************************)
(* target::artifact::linker::InternalLinker                                *)
(* (src/src/target/artifact/linker/InternalLinker.cpp), as                 *)
(* BackendBuilder::emitExecutable calls it: extractLazyArchiveMembers adds *)
(* archive members to the objects of the build until no undefined name is  *)
(* provided any more, then link lays the sections out, resolves the        *)
(* symbols, adds a start stub and evaluates the relocations.               *)
(*                                                                         *)
(* Objects 1 .. Inputs are given to the build, the first one made from its *)
(* module; the others are the members of its archives, in their order.     *)
(* What an object holds of a name is "none", a "ref" (relocations against  *)
(* it), an "undef" (an undefined symbol no relocation names), a "local" of *)
(* its own that its relocations name, or a "global" it defines.  What a    *)
(* relocation is bound to is kept as the object whose definition it is:    *)
(* its address is that object's place.                                     *)
(***************************************************************************)
EXTENDS Naturals, Sequences, FiniteSets

CONSTANTS
  Inputs, Members,    \* how many objects and how many archive members
  Names,              \* of symbols
  Main, Start,        \* main and _start, two of them
  Placed,             \* 1 .. Placed: the sections link places, in their order;
                      \* 0 is any section that its list does not name
  SectionOf,          \* the section in which a name is defined
  SectionNames,       \* the names that are those of their sections
  Align, Page,        \* alignment of the pieces and of the sections
  StubSize, ThunkSize,\* the bytes of the start stub and of an import thunk, 0
                      \* for a target that has no thunks
  Builds,             \* the builds considered
  None, Stub, Thunk, Slot, Merged   \* see below

Objects  == 1 .. Inputs + Members
Sections == 0 .. Placed
Text     == 1

Holds == {"none", "ref", "undef", "local", "global"}

(* A build: what each object holds of the names, the bytes of its sections,
   the one section of it that relocations patch; the objects for another
   target than the first; the symbols of libraries; whether the output is an
   executable for a system where it needs a start stub.                     *)
Build == [holds : [Objects -> [Names -> Holds]],
          size : [Objects -> [Sections -> Nat]],
          patched : [Objects -> Sections],
          foreign : SUBSET Objects,
          imports : [Names -> {"none", "function", "data"}],
          startable : BOOLEAN]

Errors == {"target", "duplicate", "unresolved", "evaluate", "no thunk"}

(* A name's definer, and whether it is global.                              *)
Entries == [def : Objects \cup {Stub}, global : BOOLEAN]

ASSUME LinkerAssumption ==
  /\ Inputs \in Nat \ {0} /\ Members \in Nat
  /\ Placed \in Nat \ {0}
  /\ IsFiniteSet(Names) /\ Main \in Names /\ Start \in Names /\ Main # Start
  /\ SectionOf \in [Names -> Sections] /\ SectionNames \subseteq Names
  /\ Align \in Nat \ {0} /\ Page \in Nat \ {0}
  /\ StubSize \in Nat /\ ThunkSize \in Nat
  /\ Builds \subseteq Build
  /\ {None, Stub, Thunk, Slot, Merged} \cap Objects = {}
  /\ None \notin {Stub, Thunk, Slot, Merged} \cup Errors \cup Nat \cup Entries
  /\ Stub \notin {Thunk, Slot} /\ Merged \notin {Thunk, Slot}

VARIABLES
  build,      \* the build that is linked
  phase,      \* "round", "visit", "check", "place", "resolve", "start",
              \* "relocate", "end"
  linked,     \* inOutArtifacts: the objects to link, in order
  extracted,  \* the members whose extracted flag is set
  wanted,     \* unresolvedGlobals of the round
  progress,   \* whether the round has extracted a member
  obj, sec,   \* loop indices: a member or a position in linked; a section
  offset, vma,\* currentOffset, currentVma
  base, length,   \* address and size of each section of the image, or None
  place,      \* place[o][s]: outputOffset of the piece, or None
  symbols,    \* image symbols: definer and isGlobal of each name, or None
  stub, thunk,\* offsets in .text of the start stub and of each thunk, or None
  pending,    \* the names of the current object still to be relocated
  bound,      \* bound[o][n]: what o's relocations against n were bound to
  error       \* lastError_, None if there is none

extraction == <<linked, extracted, wanted, progress>>
layout == <<offset, vma, base, place>>
binding == <<pending, bound>>
vars == <<build, phase, extraction, obj, sec, layout, length, symbols, stub,
          thunk, binding, error>>

Linked == {linked[i] : i \in 1 .. Len(linked)}

Globals(o) == {n \in Names : build.holds[o][n] = "global"}
Locals(o)  == {n \in Names : build.holds[o][n] = "local"}
Refs(o)    == {n \in Names : build.holds[o][n] \in {"ref", "local"}}
Undefs(o)  == {n \in Names : build.holds[o][n] = "undef"}

Size(o, s) == build.size[o][s]

TypeOK ==
  /\ build \in Build
  /\ phase \in {"round", "visit", "check", "place", "resolve", "start", "relocate", "end"}
  /\ linked \in Seq(Objects) /\ extracted \subseteq Objects
  /\ wanted \subseteq Names /\ progress \in BOOLEAN
  /\ obj \in Nat \ {0} /\ sec \in 1 .. Placed + 1
  /\ offset \in Nat /\ vma \in Nat
  /\ base \in [Sections -> Nat \cup {None}]
  /\ length \in [Sections -> Nat]
  /\ place \in [Objects -> [Sections -> Nat \cup {None}]]
  /\ symbols \in [Names -> Entries \cup {None}]
  /\ stub \in Nat \cup {None} /\ thunk \in [Names -> Nat \cup {None}]
  /\ pending \subseteq Names
  /\ bound \in [Objects -> [Names -> Objects \cup {None, Stub, Thunk, Slot, Merged}]]
  /\ error \in Errors \cup {None}

Init ==
  /\ build \in Builds
  /\ phase = "round"
  /\ linked = [i \in 1 .. Inputs |-> i] /\ extracted = {}
  /\ wanted = {} /\ progress = TRUE
  /\ obj = 1 /\ sec = 1 /\ offset = 0 /\ vma = Page
  /\ base = [s \in Sections |-> None] /\ length = [s \in Sections |-> 0]
  /\ place = [o \in Objects |-> [s \in Sections |-> None]]
  /\ symbols = [n \in Names |-> None]
  /\ stub = None /\ thunk = [n \in Names |-> None]
  /\ pending = {} /\ bound = [o \in Objects |-> [n \in Names |-> None]]
  /\ error = None

-----------------------------------------------------------------------------
(* extractLazyArchiveMembers.                                               *)
DefinedGlobals == UNION {Globals(o) : o \in Linked}

(* Every relocation counts, also one against a local of its own object.     *)
UnresolvedGlobals ==
  (UNION {Refs(o) \cup Undefs(o) : o \in Linked}) \ DefinedGlobals

StartRoundAgain ==                    \* variant: progress is not reset
  /\ phase = "round"
  /\ IF progress /\ UnresolvedGlobals # {}
     THEN /\ phase' = "visit" /\ wanted' = UnresolvedGlobals
          /\ obj' = Inputs + 1
     ELSE /\ phase' = "check" /\ obj' = 1
          /\ UNCHANGED wanted
  /\ UNCHANGED <<build, linked, extracted, progress, sec, layout, length, symbols,
                 stub, thunk, binding, error>>

(* A round starts when the last one made progress and something is wanted;
   otherwise link is called.                                                *)
StartRound ==
  /\ phase = "round"
  /\ IF progress /\ UnresolvedGlobals # {}
     THEN /\ phase' = "visit" /\ wanted' = UnresolvedGlobals
          /\ progress' = FALSE /\ obj' = Inputs + 1
     ELSE /\ phase' = "check" /\ obj' = 1
          /\ UNCHANGED <<wanted, progress>>
  /\ UNCHANGED <<build, linked, extracted, sec, layout, length, symbols, stub,
                 thunk, binding, error>>

ProvidesAny(m) ==                     \* variant: a local would do
  (Globals(m) \cup Locals(m)) \cap wanted # {}

Provides(m) == Globals(m) \cap wanted # {}

Extract ==
  /\ phase = "visit" /\ obj \in Objects
  /\ obj \notin extracted /\ Provides(obj)
  /\ linked' = Append(linked, obj) /\ extracted' = extracted \cup {obj}
  /\ progress' = TRUE /\ obj' = obj + 1
  /\ UNCHANGED <<build, phase, wanted, sec, layout, length, symbols, stub, thunk,
                 binding, error>>

PassOver ==
  /\ phase = "visit" /\ obj \in Objects
  /\ obj \in extracted \/ ~Provides(obj)
  /\ obj' = obj + 1
  /\ UNCHANGED <<build, phase, extraction, sec, layout, length, symbols, stub,
                 thunk, binding, error>>

EndOnlyRound ==                       \* variant: a single round
  /\ phase = "visit" /\ obj \notin Objects
  /\ phase' = "round" /\ progress' = FALSE
  /\ UNCHANGED <<build, linked, extracted, wanted, obj, sec, layout, length, symbols,
                 stub, thunk, binding, error>>

EndRound ==
  /\ phase = "visit" /\ obj \notin Objects
  /\ phase' = "round"
  /\ UNCHANGED <<build, extraction, obj, sec, layout, length, symbols, stub,
                 thunk, binding, error>>

-----------------------------------------------------------------------------
AlignUp(x, a) == ((x + a - 1) \div a) * a

Stop(reason) ==
  /\ error' = reason /\ phase' = "end"
  /\ UNCHANGED <<build, extraction, obj, sec, layout, length, symbols, stub, thunk,
                 binding>>

(* link: all objects must be for the target of the first.                   *)
CheckTargets ==
  /\ phase = "check"
  /\ Linked \cap build.foreign = {}
  /\ phase' = "place"
  /\ UNCHANGED <<build, extraction, obj, sec, layout, length, symbols, stub, thunk,
                 binding, error>>

RefuseTarget ==
  /\ phase = "check"
  /\ Linked \cap build.foreign # {}
  /\ Stop("target")

(* link, the layout loop.                                                   *)
PlacePiece ==
  /\ phase = "place" /\ obj <= Len(linked)
  /\ LET o == linked[obj]
         at == AlignUp(offset, Align)
     IN  IF Size(o, sec) = 0
         THEN UNCHANGED <<place, offset>>
         ELSE /\ place' = [place EXCEPT ![o][sec] = at]
              /\ offset' = at + Size(o, sec)
  /\ obj' = obj + 1
  /\ UNCHANGED <<build, phase, extraction, sec, vma, base, length, symbols, stub,
                 thunk, binding, error>>

EndSection ==
  /\ phase = "place" /\ obj = Len(linked) + 1
  /\ IF offset = 0
     THEN UNCHANGED <<base, length, vma>>
     ELSE /\ base' = [base EXCEPT ![sec] = vma]
          /\ length' = [length EXCEPT ![sec] = offset]
          /\ vma' = AlignUp(vma + offset, Page)
  /\ sec' = sec + 1 /\ obj' = 1 /\ offset' = 0
  /\ phase' = IF sec = Placed THEN "resolve" ELSE "place"
  /\ UNCHANGED <<build, extraction, place, symbols, stub, thunk, binding, error>>

-----------------------------------------------------------------------------
ClashesAny(o) ==                      \* variant: a local is in the way
  {n \in Globals(o) : symbols[n] # None}

RecordLast(o) ==                      \* variant: the last definition wins
  [n \in Names |->
     IF n \in Globals(o) \cup Locals(o) THEN [def |-> o, global |-> n \in Globals(o)]
     ELSE symbols[n]]

(* link, symbol resolution, an object at a time.  A global may take the place
   of a local of an earlier object, never that of another global.           *)
Clashes(o) == {n \in Globals(o) : symbols[n] # None /\ symbols[n].global}

Record(o) ==
  [n \in Names |->
     IF n \in Globals(o) THEN [def |-> o, global |-> TRUE]
     ELSE IF n \in Locals(o) /\ symbols[n] = None THEN [def |-> o, global |-> FALSE]
     ELSE symbols[n]]

ResolveSymbols ==
  /\ phase = "resolve" /\ obj <= Len(linked)
  /\ Clashes(linked[obj]) = {}
  /\ symbols' = Record(linked[obj])
  /\ obj' = obj + 1
  /\ UNCHANGED <<build, phase, extraction, sec, layout, length, stub, thunk,
                 binding, error>>

ReportDuplicate ==
  /\ phase = "resolve" /\ obj <= Len(linked)
  /\ Clashes(linked[obj]) # {}
  /\ Stop("duplicate")

EndResolve ==
  /\ phase = "resolve" /\ obj = Len(linked) + 1
  /\ phase' = "start" /\ obj' = 1
  /\ UNCHANGED <<build, extraction, sec, layout, length, symbols, stub, thunk,
                 binding, error>>

(* The start stub is appended to .text, which was laid out without it.      *)
NeedsStub ==
  /\ build.startable
  /\ symbols[Start] = None /\ symbols[Main] # None
  /\ base[Text] # None

AddStart ==
  /\ phase = "start"
  /\ IF NeedsStub
     THEN /\ stub' = length[Text]
          /\ length' = [length EXCEPT ![Text] = @ + StubSize]
          /\ symbols' = [symbols EXCEPT ![Start] = [def |-> Stub, global |-> TRUE]]
     ELSE UNCHANGED <<stub, length, symbols>>
  /\ phase' = "relocate" /\ pending' = Refs(linked[1])
  /\ UNCHANGED <<build, extraction, obj, sec, layout, thunk, bound, error>>

-----------------------------------------------------------------------------
(* link, relocations.  An object's own are taken in any order.              *)
Here == linked[obj]

Relocating(n) == phase = "relocate" /\ n \in pending

InSection(n) == n \in SectionNames /\ base[SectionOf[n]] # None

Bind(n, target) ==
  /\ pending' = pending \ {n}
  /\ bound' = [bound EXCEPT ![Here][n] = target]
  /\ UNCHANGED <<build, phase, extraction, obj, sec, layout, symbols, stub, error>>

(* The section to patch is not in the image: the relocation is left out.    *)
Ignore(n) ==
  /\ Relocating(n) /\ base[build.patched[Here]] = None
  /\ pending' = pending \ {n}
  /\ UNCHANGED <<build, phase, extraction, obj, sec, layout, length, symbols,
                 stub, thunk, bound, error>>

BindSymbol(n) ==
  /\ Relocating(n) /\ base[build.patched[Here]] # None
  /\ symbols[n] # None
  /\ Bind(n, symbols[n].def) /\ UNCHANGED <<length, thunk>>

BindSection(n) ==
  /\ Relocating(n) /\ base[build.patched[Here]] # None
  /\ symbols[n] = None /\ InSection(n)
  /\ Bind(n, Merged) /\ UNCHANGED <<length, thunk>>

Imported(n, kind) ==
  /\ Relocating(n) /\ base[build.patched[Here]] # None
  /\ symbols[n] = None /\ ~InSection(n)
  /\ build.imports[n] = kind

BindSlot(n) ==
  /\ Imported(n, "data")
  /\ Bind(n, Slot) /\ UNCHANGED <<length, thunk>>

HasThunks == base[Text] # None /\ ThunkSize > 0

BindFreshThunk(n) ==                  \* variant: every relocation gets a thunk
  /\ Imported(n, "function") /\ HasThunks
  /\ thunk' = [thunk EXCEPT ![n] = length[Text]]
  /\ length' = [length EXCEPT ![Text] = @ + ThunkSize]
  /\ Bind(n, Thunk)

(* The first relocation against an imported function appends its thunk.     *)
BindThunk(n) ==
  /\ Imported(n, "function") /\ HasThunks
  /\ IF thunk[n] # None
     THEN UNCHANGED <<length, thunk>>
     ELSE /\ thunk' = [thunk EXCEPT ![n] = length[Text]]
          /\ length' = [length EXCEPT ![Text] = @ + ThunkSize]
  /\ Bind(n, Thunk)

NoThunk(n) ==
  /\ Imported(n, "function") /\ ~HasThunks
  /\ Stop("no thunk")

ReportUnresolved(n) ==
  /\ Imported(n, "none")
  /\ Stop("unresolved")

(* The type of a relocation is unknown, or its offset or its value does not
   fit: the bytes that decide it are not modelled.                          *)
RejectRelocation(n) ==
  /\ Relocating(n) /\ base[build.patched[Here]] # None
  /\ \/ symbols[n] # None \/ InSection(n)
     \/ build.imports[n] = "function" /\ HasThunks
  /\ Stop("evaluate")

NextObject ==
  /\ phase = "relocate" /\ pending = {} /\ obj < Len(linked)
  /\ obj' = obj + 1 /\ pending' = Refs(linked[obj + 1])
  /\ UNCHANGED <<build, phase, extraction, sec, layout, length, symbols, stub,
                 thunk, bound, error>>

Finish ==
  /\ phase = "relocate" /\ pending = {} /\ obj = Len(linked)
  /\ phase' = "end"
  /\ UNCHANGED <<build, extraction, obj, sec, layout, length, symbols, stub,
                 thunk, binding, error>>

Relocate(n) ==
  \/ Ignore(n) \/ BindSymbol(n) \/ BindSection(n) \/ BindSlot(n) \/ BindThunk(n)
  \/ NoThunk(n) \/ ReportUnresolved(n) \/ RejectRelocation(n)

Next ==
  \/ StartRound \/ Extract \/ PassOver \/ EndRound
  \/ CheckTargets \/ RefuseTarget \/ PlacePiece \/ EndSection
  \/ ResolveSymbols \/ ReportDuplicate \/ EndResolve \/ AddStart
  \/ \E n \in Names : Relocate(n)
  \/ NextObject \/ Finish

Spec == Init /\ [][Next]_vars

(* One call of the linker runs to its end.                                  *)
FairSpec == Spec /\ WF_vars(Next)
-----------------------------------------------------------------------------
Mentions(o) == Refs(o) \cup Undefs(o)

(* An archive member is linked once, and only when it defines a name that an
   object linked before it mentions and that no input defines.              *)
ExtractionIsNeeded ==
  \A i \in 1 .. Len(linked) : linked[i] > Inputs =>
    /\ \A j \in 1 .. i - 1 : linked[j] # linked[i]
    /\ \E n \in Globals(linked[i]), j \in 1 .. i - 1 :
         n \in Mentions(linked[j]) /\ \A o \in 1 .. Inputs : n \notin Globals(o)

(* Extraction goes on until no member that was left in an archive defines a
   name that is mentioned and undefined.                                    *)
ExtractionIsEnough ==
  phase \notin {"round", "visit"} =>
    \A m \in Objects \ Linked : Globals(m) \cap UnresolvedGlobals = {}

DefinedTwice ==
  \E o, p \in Linked : o # p /\ Globals(o) \cap Globals(p) # {}

(* A local is mentioned by no other object: what the linker's one table of
   names takes for granted.                                                 *)
LocalsAreOwn ==
  \A o, p \in Linked : o # p => \A n \in Locals(o) : build.holds[p][n] = "none"

(* Two definitions are reported whenever there are two, and only then; a name
   is reported as undefined only when nothing defines it.                   *)
ErrorsAreDeserved ==
  /\ error = "duplicate" => DefinedTwice
  /\ DefinedTwice =>
       phase \notin {"start", "relocate"} /\ (phase = "end" => error # None)
  /\ error = "unresolved" =>
       \E o \in Linked : \E n \in Refs(o) :
         /\ build.imports[n] = "none"
         /\ \A p \in Linked : n \notin Globals(p) \cup Locals(p)

(* A relocation is bound to the one global definition of its name, whatever
   locals and imports share it; without one, to the object's own local or,
   if it is nobody's, to what the image or a library provides.  When link
   succeeds nothing is left unbound, save in a section that is not placed.  *)
ReferencesBind ==
  \A o \in Linked, n \in Names :
    /\ bound[o][n] # None =>
         /\ \A d \in Linked : n \in Globals(d) => bound[o][n] = d
         /\ (LocalsAreOwn /\ n \in Locals(o)) => bound[o][n] = o
         /\ bound[o][n] \in {Slot, Thunk} => build.imports[n] # "none"
    /\ (phase = "end" /\ error = None /\ n \in Refs(o)) =>
         bound[o][n] # None \/ base[build.patched[o]] = None

Apart(a, m, b, k) == a + m <= b \/ b + k <= a

(* The names that may need a thunk.                                         *)
Imports == {n \in Names : build.imports[n] = "function" /\ n \notin DefinedGlobals}

(* Pieces, stub and thunks share no byte of their section; and the sections
   of the image share none either, as long as a stub and one thunk for each
   imported function fit into the room that .text leaves in its last page.  *)
NothingOverlaps ==
  /\ \A s \in 1 .. Placed, o, p \in Objects :
       (o # p /\ place[o][s] # None /\ place[p][s] # None) =>
         Apart(place[o][s], Size(o, s), place[p][s], Size(p, s))
  /\ \A n \in Names : thunk[n] # None =>
       /\ \A o \in Objects : place[o][Text] # None =>
            Apart(place[o][Text], Size(o, Text), thunk[n], ThunkSize)
       /\ \A p \in Names \ {n} : thunk[p] # None =>
            Apart(thunk[n], ThunkSize, thunk[p], ThunkSize)
       /\ stub # None => Apart(thunk[n], ThunkSize, stub, StubSize)
  /\ stub # None => \A o \in Objects : place[o][Text] # None =>
       Apart(place[o][Text], Size(o, Text), stub, StubSize)
  /\ \A s, t \in 1 .. Placed : (s < t /\ base[s] # None /\ base[t] # None) =>
       \/ base[s] + length[s] <= base[t]
       \/ /\ s = Text
          /\ \E o \in Objects : place[o][Text] # None /\
               base[Text] + place[o][Text] + Size(o, Text)
                 + StubSize + ThunkSize * Cardinality(Imports) > base[t]

(* Extraction and the loops of link come to an end.                         *)
LinkEnds == <>(phase = "end")
=============================================================================
