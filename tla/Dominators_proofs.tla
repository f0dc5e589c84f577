------------------------- MODULE Dominators_proofs -------------------------
(***************************************************************************)
(* What the dominator and frontier analyses promise on every graph,        *)
(* whatever the number of blocks.                                          *)
(*                                                                         *)
(* DominatorsOnEveryPath: a round that changed nothing leaves every set    *)
(* equal to its equation; along an edge the equation adds at most the      *)
(* block that is entered.  TreeIsExactAlways: the sets never fall below    *)
(* the dominators of the paths (AbovePaths), and a block reached without   *)
(* passing d keeps d out of every solution, so the fixpoint is exactly     *)
(* them; they form a chain, of which Closest takes the last.               *)
(* FrontierIsExactAlways: what is still missing from the frontiers is what *)
(* the runners that are under way, or still to come, will add (Owed).      *)
(* MotionKeepsSSAAlways, of LoopMotion: what was on every way to a block   *)
(* when the loops were found still is when preheaders have been put in     *)
(* (MotionInv), so an operand that is outside of a loop is computed before *)
(* the preheader, and what reads a hoisted value comes behind it.          *)
(***************************************************************************)
EXTENDS LoopMotion, CFG_proofs, SequenceTheorems, TLAPS

(* The entry is a block, and so is every index a round visits.              *)
LEMMA BlockIndices ==
  /\ Entry \in Blocks
  /\ None \notin Blocks
  /\ 2 .. N \subseteq Blocks \ {Entry} /\ Blocks \ {Entry} \subseteq 2 .. N
BY BlocksAssumption DEF Blocks, Entry, None

(* The equation of a block yields blocks.                                   *)
LEMMA NewDomSetType ==
  ASSUME NEW b \in Blocks
  PROVE  NewDomSet(b) \subseteq Blocks
BY DEF NewDomSet

-----------------------------------------------------------------------------
(* Type correctness of the analyses and of the walk.                        *)
LEMMA TypeInit == Init => TypeOK
<1> SUFFICES ASSUME Init PROVE TypeOK
  OBVIOUS
<1>1. succ \in [Blocks -> SUBSET Blocks]
  BY GraphType, GraphsAssumption DEF Init
<1>2. next \in 2 .. N + 1
  BY BlocksAssumption DEF Init
<1> QED
  BY <1>1, <1>2, BlockIndices DEF Init, TypeOK

LEMMA TypeStep == TypeOK /\ [Next]_vars => TypeOK'
<1> SUFFICES ASSUME TypeOK, [Next]_vars PROVE TypeOK'
  OBVIOUS
<1>1. CASE VisitBlock
  <2>1. next \in Blocks /\ next + 1 \in 2 .. N + 1
    BY <1>1, BlocksAssumption DEF TypeOK, VisitBlock, Blocks
  <2>2. domSets' \in [Blocks -> SUBSET Blocks]
    BY <1>1, <2>1, NewDomSetType DEF TypeOK, VisitBlock
  <2> QED
    BY <1>1, <2>1, <2>2 DEF TypeOK, VisitBlock
<1>2. CASE EndRound
  <2>1. 2 \in 2 .. N + 1
    BY BlocksAssumption
  <2> QED
    BY <1>2, <2>1 DEF TypeOK, EndRound, analysis
<1>3. CASE BuildTree
  <2>1. todo' \subseteq Blocks \X Blocks
    BY <1>3 DEF BuildTree, Joins
  <2> QED
    BY <1>3, <2>1 DEF TypeOK, BuildTree
<1>4. ASSUME NEW x \in Blocks \X Blocks, StartRunner(x) PROVE TypeOK'
  BY <1>4 DEF TypeOK, StartRunner
<1>5. CASE Climb
  <2>1. runner \in Blocks
    BY <1>5 DEF TypeOK, Climb, Resting
  <2>2. frontiers' \in [Blocks -> SUBSET Blocks]
    BY <1>5, <2>1 DEF TypeOK, Climb
  <2>3. runner' \in Blocks \cup {None}
    BY <1>5, <2>1 DEF TypeOK, Climb
  <2> QED
    BY <1>5, <2>2, <2>3 DEF TypeOK, Climb
<1>6. CASE Finish
  BY <1>6 DEF TypeOK, Finish, analysis
<1>7. CASE Execute
  BY <1>7 DEF TypeOK, Execute, analysis
<1>8. CASE Walk
  <2>1. cur' \in Blocks
    BY <1>8 DEF TypeOK, Walk
  <2> QED
    BY <1>8, <2>1 DEF TypeOK, Walk, analysis
<1>9. CASE UNCHANGED vars
  BY <1>9 DEF TypeOK, vars, analysis
<1> QED
  BY <1>1, <1>2, <1>3, <1>4, <1>5, <1>6, <1>7, <1>8, <1>9 DEF Next, Analyse

THEOREM TypeCorrect == Spec => []TypeOK
BY TypeInit, TypeStep, PTL DEF Spec

-----------------------------------------------------------------------------
(* The sets that a round without a change has visited solve their equations,
   and once the rounds have ended all of them do.                           *)
Stable ==
  /\ domSets[Entry] = {Entry}
  /\ (phase = "sets" /\ ~changed) => \A b \in 2 .. next - 1 : domSets[b] = NewDomSet(b)
  /\ phase # "sets" => \A b \in 2 .. N : domSets[b] = NewDomSet(b)

(* The walker has not left the entry before it starts.                      *)
Walked ==
  /\ phase # "walk" => cur = Entry /\ seen = {Entry}
  /\ DominatorsAreOnEveryPath

PathInv == TypeOK /\ Stable /\ Walked

(* The equations read the graph and the sets only.                          *)
LEMMA NewDomSetFrame ==
  ASSUME succ' = succ, domSets' = domSets
  PROVE  \A b : NewDomSet(b)' = NewDomSet(b)
BY DEF NewDomSet, Preds

(* A step that leaves the graph, the sets and the phase alone, or moves on
   from one phase after the rounds to another, keeps the sets stable.       *)
LEMMA StableFrame ==
  ASSUME Stable, succ' = succ, domSets' = domSets,
         \/ phase' = phase /\ next' = next /\ changed' = changed
         \/ phase # "sets" /\ phase' # "sets"
  PROVE  Stable'
BY NewDomSetFrame DEF Stable

(* Whoever enters a block has seen its dominators if he had seen those of the
   block he comes from.                                                     *)
LEMMA Edge ==
  ASSUME TypeOK, Stable, phase # "sets",
         NEW p \in Blocks, NEW b \in succ[p]
  PROVE  domSets[b] \subseteq {b} \cup domSets[p]
<1>1. b \in Blocks
  BY DEF TypeOK
<1>2. CASE b = Entry
  BY <1>2 DEF Stable
<1>3. CASE b # Entry
  <2>1. domSets[b] = NewDomSet(b)
    BY <1>1, <1>3, BlockIndices DEF Stable
  <2>2. p \in Preds(succ, b)
    BY DEF Preds
  <2> QED
    BY <2>1, <2>2 DEF NewDomSet
<1> QED
  BY <1>2, <1>3

(* A visit keeps the sets stable: if it changed nothing, the block visited
   solves its equation, and the equations of the others have not moved.     *)
LEMMA VisitKeepsStable ==
  ASSUME TypeOK, Stable, VisitBlock
  PROVE  Stable'
<1>1. next \in 2 .. N /\ next \in Blocks /\ next # Entry
  BY BlocksAssumption DEF TypeOK, VisitBlock, Blocks, Entry
<1>2. domSets'[Entry] = {Entry}
  BY <1>1, BlockIndices DEF TypeOK, VisitBlock, Stable
<1>3. ASSUME ~changed'
      PROVE  \A b \in 2 .. next' - 1 : domSets'[b] = NewDomSet(b)'
  <2>1. ~changed /\ NewDomSet(next) = domSets[next]
    BY <1>3 DEF VisitBlock, TypeOK
  <2>2. domSets' = domSets
    BY <2>1 DEF VisitBlock, TypeOK
  <2>3. \A b : NewDomSet(b)' = NewDomSet(b)
    BY <2>2, NewDomSetFrame DEF VisitBlock
  <2>4. \A b \in 2 .. next : domSets[b] = NewDomSet(b)
    <3> SUFFICES ASSUME NEW b \in 2 .. next PROVE domSets[b] = NewDomSet(b)
      OBVIOUS
    <3>1. CASE b = next
      BY <3>1, <2>1
    <3>2. CASE b # next
      <4>1. b \in 2 .. next - 1
        BY <3>2, <1>1
      <4> QED
        BY <4>1, <2>1 DEF Stable, VisitBlock
    <3> QED
      BY <3>1, <3>2
  <2>5. next' - 1 = next
    BY <1>1 DEF VisitBlock
  <2> QED
    BY <2>2, <2>3, <2>4, <2>5
<1> QED
  BY <1>2, <1>3 DEF Stable, VisitBlock

(* The last round changed nothing, so every equation holds after it.        *)
LEMMA EndKeepsStable ==
  ASSUME TypeOK, Stable, EndRound
  PROVE  Stable'
<1>1. \A b : NewDomSet(b)' = NewDomSet(b)
  BY NewDomSetFrame DEF EndRound, analysis
<1>2. domSets' = domSets /\ phase' \in {"sets", "tree"} /\ next' = 2
  BY DEF EndRound, analysis
<1>3. \A b \in 2 .. next' - 1 : FALSE
  BY <1>2
<1>4. ASSUME phase' # "sets"
      PROVE  \A b \in 2 .. N : domSets[b] = NewDomSet(b)
  <2>1. ~changed /\ phase = "sets" /\ next - 1 = N
    BY <1>4, BlocksAssumption DEF EndRound
  <2> QED
    BY <2>1 DEF Stable
<1> QED
  BY <1>1, <1>2, <1>3, <1>4 DEF Stable

(* Whatever path the function takes, it has entered every dominator that the
   analysis computed for the block it is in.                                *)
THEOREM DominatorsOnEveryPath == Spec => []DominatorsAreOnEveryPath
<1>1. Init => Stable /\ Walked
  <2> SUFFICES ASSUME Init PROVE Stable /\ Walked
    OBVIOUS
  <2>1. domSets[Entry] = {Entry}
    BY BlockIndices DEF Init
  <2>2. \A b \in 2 .. next - 1 : FALSE
    BY DEF Init
  <2> QED
    BY <2>1, <2>2 DEF Init, Stable, Walked, DominatorsAreOnEveryPath
<1>2. TypeOK /\ Stable /\ Walked /\ [Next]_vars => Stable' /\ Walked'
  <2> SUFFICES ASSUME TypeOK, Stable, Walked, [Next]_vars
               PROVE  Stable' /\ Walked'
    OBVIOUS
  <2>1. CASE VisitBlock
    BY <2>1, VisitKeepsStable DEF VisitBlock, Walked, DominatorsAreOnEveryPath
  <2>2. CASE EndRound
    <3>1. phase # "walk" /\ phase' # "walk"
      BY <2>2 DEF EndRound
    <3> QED
      BY <2>2, <3>1, EndKeepsStable DEF EndRound, Walked, DominatorsAreOnEveryPath
  <2>3. CASE BuildTree
    BY <2>3, StableFrame DEF BuildTree, Walked, DominatorsAreOnEveryPath
  <2>4. ASSUME NEW x \in Blocks \X Blocks, StartRunner(x) PROVE Stable' /\ Walked'
    BY <2>4, StableFrame DEF StartRunner, Walked, DominatorsAreOnEveryPath
  <2>5. CASE Climb
    BY <2>5, StableFrame DEF Climb, Walked, DominatorsAreOnEveryPath
  <2>6. CASE Finish
    BY <2>6, StableFrame DEF Finish, analysis, Walked, DominatorsAreOnEveryPath
  <2>7. CASE Execute
    <3>1. Stable'
      BY <2>7, StableFrame DEF Execute, analysis
    <3>2. cur = Entry /\ seen = {Entry} /\ domSets[Entry] = {Entry}
      BY <2>7 DEF Execute, Walked, Stable
    <3> QED
      BY <2>7, <3>1, <3>2 DEF Execute, analysis, Walked, DominatorsAreOnEveryPath
  <2>8. CASE Walk
    <3>1. Stable'
      BY <2>8, StableFrame DEF Walk, analysis
    <3>2. domSets[cur'] \subseteq {cur'} \cup domSets[cur]
      BY <2>8, Edge DEF Walk, TypeOK
    <3> QED
      BY <2>8, <3>1, <3>2 DEF Walk, analysis, Walked, DominatorsAreOnEveryPath
  <2>9. CASE UNCHANGED vars
    BY <2>9, StableFrame DEF vars, analysis, Walked, DominatorsAreOnEveryPath
  <2> QED
    BY <2>1, <2>2, <2>3, <2>4, <2>5, <2>6, <2>7, <2>8, <2>9 DEF Next, Analyse
<1>3. Walked => DominatorsAreOnEveryPath
  BY DEF Walked
<1> QED
  BY <1>1, <1>2, <1>3, TypeCorrect, PTL DEF Spec

-----------------------------------------------------------------------------
(* Every set holds at least what its equation yields, so a visit can only
   take blocks away.                                                        *)
Above == \A b \in 2 .. N : NewDomSet(b) \subseteq domSets[b]

(* Smaller sets yield smaller equations.                                    *)
LEMMA Monotone ==
  ASSUME succ' = succ, \A b \in Blocks : domSets'[b] \subseteq domSets[b]
  PROVE  \A b : NewDomSet(b)' \subseteq NewDomSet(b)
BY DEF NewDomSet, Preds

(* A visit shrinks the set of the block it visits and touches no other.     *)
LEMMA VisitShrinks ==
  ASSUME TypeOK, Above, VisitBlock
  PROVE  \A b \in Blocks : domSets'[b] \subseteq domSets[b]
<1>1. next \in 2 .. N
  BY BlocksAssumption DEF TypeOK, VisitBlock
<1> QED
  BY <1>1 DEF TypeOK, Above, VisitBlock

(* No set ever grows back while the rounds go on.                           *)
THEOREM SetsShrink == Spec => SetsOnlyShrink
<1>1. Init /\ TypeOK => Above
  <2> SUFFICES ASSUME Init, NEW b \in 2 .. N PROVE NewDomSet(b) \subseteq domSets[b]
    BY DEF Above
  <2>1. b \in Blocks /\ b # Entry
    BY BlockIndices
  <2> QED
    BY <2>1, NewDomSetType DEF Init
<1>2. ASSUME TypeOK, Above, [Next]_vars
      PROVE  Above' /\ \A b \in Blocks : domSets'[b] \subseteq domSets[b]
  <2>1. CASE VisitBlock
    <3>1. \A b \in Blocks : domSets'[b] \subseteq domSets[b]
      BY <2>1, <1>2, VisitShrinks
    <3>2. \A b : NewDomSet(b)' \subseteq NewDomSet(b)
      BY <2>1, <3>1, Monotone DEF VisitBlock
    <3>3. ASSUME NEW b \in 2 .. N PROVE NewDomSet(b) \subseteq domSets'[b]
      BY <2>1, <1>2, BlockIndices DEF TypeOK, Above, VisitBlock
    <3> QED
      BY <3>1, <3>2, <3>3 DEF Above
  <2>2. CASE ~VisitBlock
    <3>1. succ' = succ /\ domSets' = domSets
      BY <2>2, <1>2 DEF Next, Analyse, EndRound, BuildTree, StartRunner, Climb, Finish,
                        Execute, Walk, vars, analysis
    <3> QED
      BY <3>1, <1>2, NewDomSetFrame DEF Above
  <2> QED
    BY <2>1, <2>2
<1>3. ASSUME TypeOK, Above, [Next]_vars
      PROVE  [\A b \in Blocks : domSets'[b] \subseteq domSets[b]]_vars
  BY <1>2, <1>3
<1> QED
  BY <1>1, <1>2, <1>3, TypeCorrect, PTL DEF Spec, SetsOnlyShrink
-----------------------------------------------------------------------------
(* S satisfies the equations of the analysis, perhaps with less than they
   allow.                                                                   *)
Solves(S) ==
  /\ S[Entry] \subseteq {Entry}
  /\ \A b \in 2 .. N : S[b] \subseteq
       {b} \cup {d \in Blocks : /\ Preds(succ, b) # {}
                               /\ \A p \in Preds(succ, b) : d \in S[p]}

Bounded(S) == Solves(S) => \A b \in Blocks : S[b] \subseteq domSets[b]

(* The sets never fall below a solution of the equations, whatever order the
   blocks are visited in: with DominatorsOnEveryPath's fixpoint, what the
   rounds end with is the largest solution, not an arbitrary one.           *)
THEOREM LargestSolution ==
  ASSUME NEW S \in [Blocks -> SUBSET Blocks]
  PROVE  Spec => []Bounded(S)
<1>1. Init => Bounded(S)
  BY DEF Init, Bounded, Solves
<1>2. TypeOK /\ Bounded(S) /\ [Next]_vars => Bounded(S)'
  <2> SUFFICES ASSUME TypeOK, Bounded(S), [Next]_vars, Solves(S)', NEW b \in Blocks
               PROVE  S[b] \subseteq domSets'[b]
    BY DEF Bounded
  <2>1. succ' = succ
    BY DEF Next, Analyse, VisitBlock, EndRound, BuildTree, StartRunner, Climb, Finish,
           Execute, Walk, vars
  <2>2. Solves(S)
    BY <2>1 DEF Solves, Preds
  <2>3. \A x \in Blocks : S[x] \subseteq domSets[x]
    BY <2>2 DEF Bounded
  <2>4. CASE VisitBlock /\ b = next
    <3>1. b \in 2 .. N
      BY <2>4, BlocksAssumption DEF TypeOK, VisitBlock
    <3>2. S[b] \subseteq NewDomSet(b)
      BY <3>1, <2>2, <2>3 DEF Solves, NewDomSet, Preds
    <3> QED
      BY <2>4, <3>2 DEF TypeOK, VisitBlock
  <2>5. CASE VisitBlock /\ b # next
    BY <2>5, <2>3 DEF TypeOK, VisitBlock
  <2>6. CASE ~VisitBlock
    <3>1. domSets' = domSets
      BY <2>6 DEF Next, Analyse, EndRound, BuildTree, StartRunner, Climb, Finish,
                  Execute, Walk, vars, analysis
    <3> QED
      BY <3>1, <2>3
  <2> QED
    BY <2>4, <2>5, <2>6
<1> QED
  BY <1>1, <1>2, TypeCorrect, PTL DEF Spec
-----------------------------------------------------------------------------
(* The sets against the paths.  What DomSetOf defines by paths solves the
   equations, so the sets stay above it (AbovePaths); once no visit changes
   anything more, a block outside of a set is avoided on the way (Exact).     *)
AbovePaths == \A b \in Blocks : DomSetOf(succ, b) \subseteq domSets[b]

Exact == \A b \in Blocks : domSets[b] = DomSetOf(succ, b)

LEMMA RootsType == Roots(succ) \subseteq Blocks
BY BlockIndices DEF Roots

LEMMA DomSetAlt ==
  \A b : DomSetOf(succ, b) = {d \in Blocks : DomFrom(succ, Roots(succ), d, b)}
BY DEF DomSetOf, DomFrom

LEMMA PathsSolve ==
  ASSUME TypeOK
  PROVE  /\ DomSetOf(succ, Entry) \subseteq {Entry}
         /\ \A b \in Blocks \ {Entry} : DomSetOf(succ, b) \subseteq
              {b} \cup {d \in Blocks : /\ Preds(succ, b) # {}
                                       /\ \A p \in Preds(succ, b) : d \in DomSetOf(succ, p)}
<1>1. succ \in [Blocks -> SUBSET Blocks] /\ Roots(succ) \in SUBSET Blocks
  BY RootsType DEF TypeOK
<1>2. DomSetOf(succ, Entry) \subseteq {Entry}
  <2>1. Entry \in Roots(succ)
    BY DEF Roots
  <2> QED BY <1>1, <2>1, DomSetAlt, DomOfStart
<1>3. ASSUME NEW b \in Blocks, NEW d \in DomSetOf(succ, b), d # b
      PROVE  /\ d \in Blocks /\ Preds(succ, b) # {}
             /\ \A p \in Preds(succ, b) : d \in DomSetOf(succ, p)
  <2>1. d \in Blocks /\ DomFrom(succ, Roots(succ), d, b)
    BY DomSetAlt
  <2>2. Preds(succ, b) # {}
    <3> SUFFICES ASSUME Preds(succ, b) = {} PROVE FALSE
      OBVIOUS
    <3>1. b \in Roots(succ)
      BY DEF Roots
    <3> QED BY <1>1, <1>3, <2>1, <3>1, DomOfStart
  <2>3. \A p \in Preds(succ, b) : DomFrom(succ, Roots(succ), d, p)
    BY <1>1, <1>3, <2>1, DomOfPred DEF Preds
  <2> QED BY <2>1, <2>2, <2>3, DomSetAlt
<1> QED BY <1>2, <1>3

LEMMA FixpointExact ==
  ASSUME TypeOK, Stable, AbovePaths, phase # "sets"
  PROVE  Exact
<1> SUFFICES ASSUME NEW b \in Blocks, NEW d \in domSets[b]
             PROVE  d \in DomSetOf(succ, b)
  BY DEF Exact, AbovePaths
<1>1. d \in Blocks
  BY DEF TypeOK
<1> DEFINE T == {x \in Blocks : d \notin domSets[x]}
<1>2. \A x \in Blocks \ {Entry} : domSets[x] = NewDomSet(x)
  BY BlockIndices DEF Stable
<1>3. Roots(succ) \ {d} \subseteq T
  <2> SUFFICES ASSUME NEW x \in Roots(succ), x # d PROVE x \in Blocks /\ d \notin domSets[x]
    OBVIOUS
  <2>1. CASE x = Entry
    BY <2>1, BlockIndices DEF Stable
  <2>2. CASE x \in Blocks \ {Entry} /\ Preds(succ, x) = {}
    BY <1>2, <2>2 DEF NewDomSet
  <2> QED BY <2>1, <2>2 DEF Roots
<1>4. ASSUME NEW x \in T, NEW y \in succ[x], y # d PROVE y \in T
  <2>1. y \in Blocks /\ x \in Preds(succ, y)
    BY DEF TypeOK, Preds
  <2>2. CASE y = Entry
    BY <1>4, <2>1, <2>2 DEF Stable
  <2>3. CASE y # Entry
    <3>1. domSets[y] = NewDomSet(y)
      BY <1>2, <2>1, <2>3
    <3> QED BY <1>4, <2>1, <3>1 DEF NewDomSet
  <2> QED BY <2>2, <2>3
<1>5. b \notin T
  OBVIOUS
<1> HIDE DEF T
<1>6. ReachAvoiding(succ, Roots(succ), {d}) \subseteq T
  BY <1>3, <1>4, ReachLeast
<1> QED BY <1>1, <1>5, <1>6 DEF DomSetOf

(* Being in a set is an order on the blocks, a partial one if every block is
   reached from a root.                                                      *)
LEMMA DomSetOrder ==
  ASSUME TypeOK, Exact
  PROVE  /\ \A b \in Blocks : b \in domSets[b]
         /\ \A b, c \in Blocks : b \in domSets[c] => domSets[b] \subseteq domSets[c]
         /\ \A b \in Blocks : \A p \in Preds(succ, b) : domSets[b] \ {b} \subseteq domSets[p]
         /\ Rooted(succ) => \A b, c \in Blocks : b \in domSets[c] /\ c \in domSets[b] => b = c
<1> DEFINE F == Roots(succ)
<1>1. succ \in [Blocks -> SUBSET Blocks] /\ F \in SUBSET Blocks
  BY RootsType DEF TypeOK
<1>2. \A b, d \in Blocks : d \in domSets[b] <=> DomFrom(succ, F, d, b)
  BY DomSetAlt DEF Exact
<1>3. \A b \in Blocks : domSets[b] \subseteq Blocks
  BY DEF TypeOK
<1> HIDE DEF F
<1>4. \A b \in Blocks : b \in domSets[b]
  BY <1>1, <1>2, DomReflexive
<1>5. \A b, c \in Blocks : b \in domSets[c] => domSets[b] \subseteq domSets[c]
  BY <1>1, <1>2, <1>3, DomTransitive
<1>6. ASSUME NEW b \in Blocks, NEW p \in Preds(succ, b), NEW d \in domSets[b], d # b
      PROVE  d \in domSets[p]
  <2>1. p \in Blocks /\ b \in succ[p] /\ d \in Blocks
    BY <1>3, <1>6 DEF Preds
  <2>2. DomFrom(succ, F, d, b)
    BY <1>2, <1>6, <2>1
  <2>3. DomFrom(succ, F, d, p)
    BY <1>1, <1>6, <2>1, <2>2, DomOfPred
  <2> QED BY <1>2, <2>1, <2>3
<1>7. ASSUME Rooted(succ), NEW b \in Blocks, NEW c \in Blocks, b \in domSets[c], c \in domSets[b]
      PROVE  b = c
  <2>1. c \in ReachAvoiding(succ, F, {})
    BY <1>7 DEF Rooted, F
  <2> QED BY <1>1, <1>2, <1>7, <2>1, DomAntisymmetric
<1> QED BY <1>4, <1>5, <1>6, <1>7

(* The tree once it is built.                                                *)
TreeBuilt ==
  phase \in {"frontier", "done", "walk"} =>
    \A b \in Blocks : IF b = Entry \/ Closest(b) = {} THEN idom[b] = None
                      ELSE idom[b] \in Closest(b)

(* A block hangs below the one dominator whose dominators are the strict ones
   of the block, if it has any.                                              *)
LEMMA TreeHangs ==
  ASSUME TypeOK, Stable, Exact, TreeBuilt, Rooted(succ), phase \in {"frontier", "done", "walk"},
         NEW b \in Blocks
  PROVE  /\ domSets[b] \ {b} = {} => idom[b] = None
         /\ domSets[b] \ {b} # {} => idom[b] \in domSets[b] \ {b} /\ domSets[idom[b]] = domSets[b] \ {b}
<1> DEFINE S == domSets[b] \ {b}
<1>1. S \subseteq Blocks /\ \A d \in S : d \in Blocks
  BY DEF TypeOK
<1>2. CASE S = {}
  <2>1. Closest(b) = {}
    BY <1>2 DEF Closest
  <2>2. idom[b] = None
    BY <2>1 DEF TreeBuilt
  <2> QED BY <1>2, <2>2
<1>3. CASE S # {}
  <2>1. succ \in [Blocks -> SUBSET Blocks] /\ Roots(succ) \in SUBSET Blocks
    BY RootsType DEF TypeOK
  <2>2. b \in ReachAvoiding(succ, Roots(succ), {})
    BY DEF Rooted
  <2>3. \A d \in S : DomFrom(succ, Roots(succ), d, b)
    BY DomSetAlt DEF Exact
  <2> HIDE DEF S
  <2>4. PICK d \in S : \A e \in S : DomFrom(succ, Roots(succ), e, d)
    BY <1>1, <1>3, <2>1, <2>2, <2>3, ClosestExists
  <2>5. \A e \in S : e \in domSets[d]
    BY <1>1, <2>4, DomSetAlt DEF Exact
  <2>6. d \in Closest(b)
    BY <2>5 DEF Closest, S
  <2>7. b # Entry
    BY <1>3 DEF Stable, S
  <2>8. idom[b] \in Closest(b)
    BY <2>6, <2>7 DEF TreeBuilt
  <2>9. idom[b] \in S /\ \A e \in S \ {idom[b]} : e \in domSets[idom[b]]
    BY <2>8 DEF Closest, S
  <2>10. idom[b] \in Blocks /\ idom[b] \in domSets[b] /\ idom[b] # b
    BY <1>1, <2>9 DEF S
  <2>11. S \subseteq domSets[idom[b]]
    BY <2>9, <2>10, DomSetOrder
  <2>12. domSets[idom[b]] \subseteq domSets[b]
    BY <2>10, DomSetOrder
  <2>13. b \notin domSets[idom[b]]
    BY <2>10, DomSetOrder
  <2> QED BY <1>3, <2>9, <2>11, <2>12, <2>13 DEF S
<1> QED BY <1>2, <1>3

LEMMA TreeIsExact ==
  ASSUME TypeOK, Stable, AbovePaths, TreeBuilt
  PROVE  TreeExact
<1> SUFFICES ASSUME Done PROVE TreeExact
  BY DEF TreeExact
<1>1. Exact /\ phase \in {"frontier", "done", "walk"}
  BY FixpointExact DEF Done
<1>2. ASSUME AllReachable(succ), NEW b \in Blocks \ {Entry}
      PROVE  /\ StrictlyDominates(succ, idom[b], b)
             /\ \A d \in Blocks : StrictlyDominates(succ, d, b) => Dominates(succ, d, idom[b])
  <2>1. Roots(succ) = {Entry} /\ Rooted(succ)
    BY <1>2, OneRoot DEF TypeOK
  <2>2. \A c, d \in Blocks : d \in domSets[c] <=> Dominates(succ, d, c)
    BY <1>1, <2>1 DEF Exact, DomSetOf, Dominates
  <2>3. Entry \in domSets[b]
    <3> DEFINE Nothing == {}
    <3>1. {Entry} \ {Entry} \subseteq Nothing /\ \A x \in Nothing : succ[x] \ {Entry} \subseteq Nothing
      OBVIOUS
    <3> HIDE DEF Nothing
    <3>2. ReachAvoiding(succ, {Entry}, {Entry}) \subseteq Nothing
      BY <3>1, ReachLeast
    <3>3. Dominates(succ, Entry, b)
      BY <3>2 DEF Dominates, Nothing
    <3> QED BY <2>2, <3>3, BlockIndices
  <2>4. idom[b] \in domSets[b] \ {b} /\ domSets[idom[b]] = domSets[b] \ {b}
    BY <1>1, <1>2, <2>1, <2>3, TreeHangs
  <2>5. idom[b] \in Blocks
    BY <2>4 DEF TypeOK
  <2> QED BY <2>2, <2>4, <2>5 DEF StrictlyDominates
<1> QED BY <1>1, <1>2 DEF TreeExact, Exact

(* One invariant for the sets and the tree.                                  *)
SetsInv == TypeOK /\ Stable /\ AbovePaths /\ TreeBuilt

LEMMA SetsInit == Init => SetsInv
<1> SUFFICES ASSUME Init PROVE SetsInv
  OBVIOUS
<1>1. TypeOK
  BY TypeInit
<1>2. domSets[Entry] = {Entry} /\ \A b \in 2 .. next - 1 : FALSE
  BY BlockIndices DEF Init
<1>3. Stable
  BY <1>2 DEF Init, Stable
<1>4. AbovePaths
  <2> SUFFICES ASSUME NEW b \in Blocks PROVE DomSetOf(succ, b) \subseteq domSets[b]
    BY DEF AbovePaths
  <2>1. DomSetOf(succ, Entry) \subseteq {Entry} /\ DomSetOf(succ, b) \subseteq Blocks
    BY <1>1, PathsSolve, DomSetAlt
  <2> QED BY <2>1 DEF Init
<1> QED BY <1>1, <1>3, <1>4 DEF SetsInv, TreeBuilt, Init

(* Which steps concern the sets and the tree.                                *)
LEMMA SetSteps ==
  ASSUME TypeOK, [Next]_vars
  PROVE  /\ succ' = succ
         /\ \/ VisitBlock \/ EndRound \/ BuildTree
            \/ /\ UNCHANGED <<domSets, idom>>
               /\ \/ phase' = phase /\ next' = next /\ changed' = changed
                  \/ phase \notin {"sets", "tree"} /\ phase' \in {"frontier", "done", "walk"}
BY DEF Next, Analyse, VisitBlock, EndRound, BuildTree, StartRunner, Climb, Finish, Execute, Walk, vars, analysis

LEMMA ClosestFrame ==
  ASSUME domSets' = domSets
  PROVE  \A b : Closest(b)' = Closest(b)
BY DEF Closest

LEMMA SetsStep == SetsInv /\ TypeOK' /\ [Next]_vars => SetsInv'
<1> SUFFICES ASSUME SetsInv, TypeOK', [Next]_vars PROVE SetsInv'
  OBVIOUS
<1> USE DEF SetsInv
<1>1. succ' = succ
  BY SetSteps
<1>2. CASE VisitBlock
  <2>1. Stable' /\ TreeBuilt'
    BY <1>2, VisitKeepsStable DEF VisitBlock, TreeBuilt
  <2>2. next \in 2 .. N /\ next \in Blocks \ {Entry}
    BY <1>2, BlocksAssumption, BlockIndices DEF TypeOK, VisitBlock
  <2>3. \A b \in Blocks : domSets'[b] = IF b = next THEN NewDomSet(next) ELSE domSets[b]
    BY <1>2, <2>2 DEF TypeOK, VisitBlock
  <2>4. DomSetOf(succ, next) \subseteq NewDomSet(next)
    <3> SUFFICES ASSUME NEW d \in DomSetOf(succ, next), d # next PROVE d \in NewDomSet(next)
      BY DEF NewDomSet
    <3>1. /\ d \in Blocks /\ Preds(succ, next) # {}
          /\ \A p \in Preds(succ, next) : d \in DomSetOf(succ, p)
      BY <2>2, PathsSolve
    <3>2. \A p \in Preds(succ, next) : p \in Blocks
      BY DEF Preds
    <3> QED BY <3>1, <3>2 DEF NewDomSet, AbovePaths
  <2> QED BY <1>1, <2>1, <2>3, <2>4 DEF AbovePaths
<1>3. CASE EndRound
  <2>1. domSets' = domSets /\ phase' \in {"sets", "tree"}
    BY <1>3 DEF EndRound, analysis
  <2> QED BY <1>1, <1>3, <2>1, EndKeepsStable DEF AbovePaths, TreeBuilt
<1>4. CASE BuildTree
  <2>1. /\ domSets' = domSets /\ phase = "tree" /\ phase' = "frontier"
        /\ \A b \in Blocks : IF b = Entry \/ Closest(b) = {} THEN idom'[b] = None
                             ELSE idom'[b] \in Closest(b)
    BY <1>4 DEF BuildTree
  <2> QED BY <1>1, <2>1, StableFrame, ClosestFrame DEF AbovePaths, TreeBuilt
<1>5. CASE /\ UNCHANGED <<domSets, idom>>
           /\ \/ phase' = phase /\ next' = next /\ changed' = changed
              \/ phase \notin {"sets", "tree"} /\ phase' \in {"frontier", "done", "walk"}
  <2>1. phase' \in {"frontier", "done", "walk"} => phase \in {"frontier", "done", "walk"}
    BY <1>5 DEF TypeOK
  <2> QED BY <1>1, <1>5, <2>1, StableFrame, ClosestFrame DEF AbovePaths, TreeBuilt
<1> QED BY <1>2, <1>3, <1>4, <1>5, SetSteps

(* On every graph, when the rounds are done each set is exactly the set of
   the blocks without which no path from a root leads to the block; and when
   every block is reachable, the tree hangs each block below the closest of
   its strict dominators.                                                    *)
THEOREM TreeIsExactAlways == Spec => []TreeExact
<1>1. Init => SetsInv
  BY SetsInit
<1>2. SetsInv /\ TypeOK' /\ [Next]_vars => SetsInv'
  BY SetsStep
<1>3. SetsInv => TreeExact
  BY TreeIsExact DEF SetsInv
<1> QED BY <1>1, <1>2, <1>3, TypeCorrect, PTL DEF Spec
-----------------------------------------------------------------------------
(* The frontiers.  A runner that has not come to rest is in a dominator of a
   predecessor of the join, not above the join's place in the tree; for each
   pair that is no longer waiting, the join is in the frontiers of the blocks
   it has to be in, those below the runner of this pair excepted.            *)
Edges == {x \in Joins(succ) \X Blocks : x[2] \in Preds(succ, x[1])}

Owed(j, p) == domSets[p] \ (domSets[j] \ {j})

Under(j) == IF j = join /\ runner # None THEN domSets[runner] ELSE {}

Marked ==
  /\ \A x \in Blocks : frontiers[x] \subseteq JoinFrontierOf(succ, x)
  /\ \A e \in Edges \ todo : \A x \in Owed(e[1], e[2]) \ Under(e[1]) : e[1] \in frontiers[x]

RunnerPlace ==
  runner # None =>
    /\ join \in Joins(succ) /\ \E p \in Preds(succ, join) : runner \in domSets[p]
    /\ idom[join] # None => idom[join] \in domSets[runner]

Climbing ==
  /\ phase \in {"sets", "tree"} => runner = None /\ \A x \in Blocks : frontiers[x] = {}
  /\ phase \in {"frontier", "done", "walk"} => todo \subseteq Edges /\ Marked /\ RunnerPlace
  /\ phase \in {"done", "walk"} => todo = {} /\ Resting

FrontierInv == Rooted(succ) => Climbing

LEMMA JoinFrontierAlt ==
  ASSUME TypeOK, Exact
  PROVE  \A x \in Blocks : JoinFrontierOf(succ, x) =
           {b \in Joins(succ) : \E p \in Preds(succ, b) : x \in Owed(b, p)}
<1>1. \A b \in Blocks : domSets[b] = DomSetOf(succ, b)
  BY DEF Exact
<1>2. \A b \in Joins(succ) : b \in Blocks /\ \A p \in Preds(succ, b) : p \in Blocks
  BY DEF Joins, Preds
<1> QED BY <1>1, <1>2 DEF JoinFrontierOf, Owed

(* A runner at rest has nothing below it that is owed.                       *)
LEMMA RestingOwesNothing ==
  ASSUME SetsInv, Exact, Rooted(succ), phase \in {"frontier", "done", "walk"}, Resting,
         NEW p
  PROVE  Owed(join, p) \cap Under(join) = {}
<1>1. CASE runner = None
  BY <1>1 DEF Under
<1>2. CASE runner # None /\ runner = idom[join]
  <2>1. join \in Blocks
    BY DEF SetsInv, TypeOK
  <2>2. domSets[idom[join]] = domSets[join] \ {join}
    BY <1>2, <2>1, TreeHangs DEF SetsInv
  <2> QED BY <1>2, <2>2 DEF Owed, Under
<1> QED BY <1>1, <1>2 DEF Resting

LEMMA StartFrontier ==
  ASSUME SetsInv, Exact, Rooted(succ), Climbing,
         NEW e \in Blocks \X Blocks, StartRunner(e)
  PROVE  Climbing'
<1>1. /\ phase = "frontier" /\ Resting /\ e \in todo /\ todo' = todo \ {e}
      /\ join' = e[1] /\ runner' = e[2]
      /\ UNCHANGED <<succ, phase, domSets, idom, frontiers>>
  BY DEF StartRunner
<1>2. e \in Edges /\ e[1] \in Joins(succ) /\ e[2] \in Preds(succ, e[1])
      /\ e[1] \in Blocks /\ e[2] \in Blocks /\ e = <<e[1], e[2]>>
  BY <1>1 DEF Climbing, Edges
<1>3. Edges' = Edges /\ todo' \subseteq Edges'
  BY <1>1 DEF Edges, Climbing, Joins, Preds
<1>4. \A x \in Blocks : JoinFrontierOf(succ, x)' = JoinFrontierOf(succ, x)
  BY <1>1
<1>5. \A j, p : Owed(j, p)' = Owed(j, p)
  BY <1>1 DEF Owed
<1>6. ASSUME NEW d \in Edges \ todo', NEW x \in Owed(d[1], d[2]) \ Under(d[1])'
      PROVE  d[1] \in frontiers[x]
  <2>1. CASE d = e
    <3>1. runner' # None /\ Under(d[1])' = domSets[d[2]]
      BY <1>1, <1>2, <2>1, BlockIndices DEF Under
    <3> QED BY <1>6, <3>1 DEF Owed
  <2>2. CASE d # e
    <3>1. d \in Edges \ todo
      BY <1>1, <1>6, <2>2
    <3>2. x \notin Under(d[1])
      BY <1>1, <1>6, RestingOwesNothing DEF Under
    <3> QED BY <1>1, <1>6, <3>1, <3>2 DEF Climbing, Marked
  <2> QED BY <2>1, <2>2
<1>7. Marked'
  BY <1>1, <1>3, <1>4, <1>5, <1>6 DEF Marked, Climbing
<1>8. RunnerPlace'
  <2>1. e[2] \in domSets[e[2]]
    BY <1>2, DomSetOrder DEF SetsInv
  <2>2. idom[e[1]] # None => idom[e[1]] \in domSets[e[2]]
    <3>1. idom[e[1]] # None => idom[e[1]] \in domSets[e[1]] \ {e[1]}
      BY <1>1, <1>2, TreeHangs DEF SetsInv
    <3>2. domSets[e[1]] \ {e[1]} \subseteq domSets[e[2]]
      BY <1>2, DomSetOrder DEF SetsInv
    <3> QED BY <3>1, <3>2
  <2>3. Joins(succ)' = Joins(succ) /\ Preds(succ, e[1])' = Preds(succ, e[1])
    BY <1>1
  <2> QED BY <1>1, <1>2, <2>1, <2>2, <2>3 DEF RunnerPlace
<1> QED BY <1>1, <1>3, <1>7, <1>8 DEF Climbing

LEMMA ClimbFrontier ==
  ASSUME SetsInv, Exact, Rooted(succ), Climbing, Climb
  PROVE  Climbing'
<1>1. /\ phase = "frontier" /\ runner # None /\ runner # idom[join]
      /\ frontiers' = [frontiers EXCEPT ![runner] = @ \cup {join}] /\ runner' = idom[runner]
      /\ UNCHANGED <<succ, phase, domSets, idom, todo, join>>
  BY DEF Climb, Resting
<1>2. /\ runner \in Blocks /\ join \in Blocks /\ join \in Joins(succ)
      /\ frontiers \in [Blocks -> SUBSET Blocks]
  BY <1>1 DEF SetsInv, TypeOK, Climbing, RunnerPlace
<1>3. PICK p \in Preds(succ, join) : runner \in domSets[p]
  BY <1>1 DEF Climbing, RunnerPlace
<1>4. p \in Blocks
  BY DEF Preds
<1>5. /\ domSets[runner] \ {runner} = {} => idom[runner] = None
      /\ domSets[runner] \ {runner} # {} =>
           /\ idom[runner] \in domSets[runner] \ {runner}
           /\ domSets[idom[runner]] = domSets[runner] \ {runner}
  BY <1>1, <1>2, TreeHangs DEF SetsInv
<1>6. /\ domSets[join] \ {join} = {} => idom[join] = None
      /\ domSets[join] \ {join} # {} =>
           /\ idom[join] \in domSets[join] \ {join}
           /\ domSets[idom[join]] = domSets[join] \ {join}
  BY <1>1, <1>2, TreeHangs DEF SetsInv
<1>7. None \notin domSets[join] /\ None \notin domSets[runner]
  BY <1>2, BlockIndices DEF SetsInv, TypeOK
<1>8. runner \notin domSets[join] \ {join}
  <2> SUFFICES ASSUME runner \in domSets[join] \ {join} PROVE FALSE
    OBVIOUS
  <2>1. runner \in domSets[idom[join]] /\ idom[join] # None /\ idom[join] \in Blocks
    BY <1>2, <1>6, <1>7 DEF SetsInv, TypeOK
  <2>2. idom[join] \in domSets[runner]
    BY <1>1, <2>1 DEF Climbing, RunnerPlace
  <2> QED BY <1>1, <1>2, <2>1, <2>2, DomSetOrder DEF SetsInv
<1>9. \A x \in Blocks : frontiers'[x] = IF x = runner THEN frontiers[x] \cup {join} ELSE frontiers[x]
  BY <1>1, <1>2
<1>10. join \in JoinFrontierOf(succ, runner)
  BY <1>2, <1>3, <1>8, JoinFrontierAlt DEF Owed, SetsInv
<1>11. /\ Edges' = Edges /\ \A j, q : Owed(j, q)' = Owed(j, q)
       /\ \A x \in Blocks : JoinFrontierOf(succ, x)' = JoinFrontierOf(succ, x)
  BY <1>1 DEF Edges, Joins, Preds, Owed
<1>12. Under(join) \subseteq Under(join)' \cup {runner}
  <2>1. Under(join) = domSets[runner]
    BY <1>1 DEF Under
  <2>2. domSets[runner] \ {runner} # {} => Under(join)' = domSets[runner] \ {runner}
    BY <1>1, <1>5, <1>7 DEF Under
  <2> QED BY <2>1, <2>2
<1>13. ASSUME NEW e \in Edges \ todo, NEW x \in Owed(e[1], e[2]) \ Under(e[1])'
       PROVE  e[1] \in frontiers'[x]
  <2>1. e[2] \in Blocks /\ x \in Blocks
    BY <1>13 DEF Owed, Edges, SetsInv, TypeOK
  <2>2. CASE x \notin Under(e[1])
    <3>1. e[1] \in frontiers[x]
      BY <1>1, <1>13, <2>2 DEF Climbing, Marked
    <3> QED BY <1>9, <2>1, <3>1
  <2>3. CASE x \in Under(e[1])
    <3>1. e[1] = join
      BY <2>3 DEF Under
    <3>2. x = runner
      BY <1>1, <1>12, <1>13, <2>3, <3>1 DEF Under
    <3> QED BY <1>9, <2>1, <3>1, <3>2
  <2> QED BY <2>2, <2>3
<1>14. Marked'
  BY <1>1, <1>9, <1>10, <1>11, <1>13 DEF Marked, Climbing
<1>15. RunnerPlace'
  <2> SUFFICES ASSUME runner' # None
               PROVE  /\ runner' \in domSets[p]
                      /\ idom[join] # None => idom[join] \in domSets[runner']
    BY <1>1, <1>2, <1>3 DEF RunnerPlace
  <2>1. runner' \in domSets[runner] /\ domSets[runner'] = domSets[runner] \ {runner}
    BY <1>1, <1>5
  <2>2. runner' \in domSets[p]
    BY <1>2, <1>3, <1>4, <2>1, DomSetOrder DEF SetsInv
  <2>3. idom[join] # None => idom[join] \in domSets[runner]
    BY <1>1 DEF Climbing, RunnerPlace
  <2> QED BY <1>1, <2>1, <2>2, <2>3
<1> QED BY <1>1, <1>11, <1>14, <1>15 DEF Climbing

LEMMA FrontierStep ==
  ASSUME SetsInv, FrontierInv, [Next]_vars
  PROVE  FrontierInv'
<1> SUFFICES ASSUME Rooted(succ)' PROVE Climbing'
  BY DEF FrontierInv
<1>1. succ' = succ /\ TypeOK
  BY SetSteps DEF SetsInv
<1>2. Rooted(succ) /\ Climbing
  BY <1>1 DEF FrontierInv
<1>3. phase # "sets" => Exact
  BY FixpointExact DEF SetsInv
<1>4. CASE VisitBlock \/ EndRound
  <2>1. /\ phase = "sets" /\ phase' \in {"sets", "tree"}
        /\ UNCHANGED <<runner, frontiers>>
    BY <1>4 DEF VisitBlock, EndRound, analysis
  <2> QED BY <1>2, <2>1 DEF Climbing
<1>5. CASE BuildTree
  <2>1. /\ phase = "tree" /\ phase' = "frontier" /\ todo' = Edges
        /\ UNCHANGED <<succ, runner, frontiers>>
    BY <1>5 DEF BuildTree, Edges
  <2>2. runner' = None /\ \A x \in Blocks : frontiers'[x] = {}
    BY <1>2, <2>1 DEF Climbing
  <2>3. Edges' = Edges
    BY <2>1 DEF Edges, Joins, Preds
  <2> QED BY <2>1, <2>2, <2>3 DEF Climbing, Marked, RunnerPlace
<1>6. ASSUME NEW e \in Blocks \X Blocks, StartRunner(e) PROVE Climbing'
  <2>1. phase = "frontier"
    BY <1>6 DEF StartRunner
  <2> QED BY <1>2, <1>3, <1>6, <2>1, StartFrontier
<1>7. CASE Climb
  <2>1. phase = "frontier"
    BY <1>7 DEF Climb
  <2> QED BY <1>2, <1>3, <1>7, <2>1, ClimbFrontier
<1>8. CASE /\ UNCHANGED <<domSets, idom, todo, join, runner, frontiers>>
           /\ \/ phase' = phase
              \/ phase = "frontier" /\ phase' = "done" /\ todo = {} /\ Resting
              \/ phase = "done" /\ phase' = "walk"
  <2>1. /\ Edges' = Edges /\ \A j, q : Owed(j, q)' = Owed(j, q)
        /\ \A x \in Blocks : JoinFrontierOf(succ, x)' = JoinFrontierOf(succ, x)
        /\ \A j : Under(j)' = Under(j)
    BY <1>1, <1>8 DEF Edges, Joins, Preds, Owed, Under
  <2>2. Marked => Marked'
    BY <1>8, <2>1 DEF Marked
  <2>3. RunnerPlace => RunnerPlace'
    BY <1>1, <1>8 DEF RunnerPlace, Joins, Preds
  <2>4. Resting => Resting'
    BY <1>8 DEF Resting
  <2>5. phase' \in {"done", "walk"} => todo' = {} /\ Resting'
    BY <1>2, <1>8, <2>4 DEF Climbing
  <2>6. phase' \in {"frontier", "done", "walk"} => todo' \subseteq Edges' /\ Marked' /\ RunnerPlace'
    BY <1>2, <1>8, <2>1, <2>2, <2>3 DEF Climbing
  <2> QED BY <1>2, <1>8, <2>5, <2>6 DEF Climbing
<1>9. CASE Finish \/ Execute \/ Walk \/ UNCHANGED vars
  BY <1>8, <1>9 DEF Finish, Execute, Walk, vars, analysis
<1> QED BY <1>4, <1>5, <1>6, <1>7, <1>9 DEF Next, Analyse

LEMMA FrontiersAreExact ==
  ASSUME SetsInv, FrontierInv
  PROVE  FrontierExact
<1> SUFFICES ASSUME Done, Rooted(succ) PROVE FrontierExact
  BY DEF FrontierExact
<1>1. Exact /\ Climbing /\ phase = "done" /\ TypeOK
  BY FixpointExact DEF FrontierInv, SetsInv, Done
<1>2. ASSUME NEW x \in Blocks PROVE frontiers[x] = JoinFrontierOf(succ, x)
  <2>1. frontiers[x] \subseteq JoinFrontierOf(succ, x)
    BY <1>1 DEF Climbing, Marked
  <2>2. ASSUME NEW b \in Joins(succ), NEW p \in Preds(succ, b), x \in Owed(b, p)
        PROVE  b \in frontiers[x]
    <3>1. b \in Blocks /\ p \in Blocks
      BY DEF Joins, Preds
    <3>2. <<b, p>> \in Edges \ todo
      BY <1>1, <3>1 DEF Edges, Climbing
    <3>3. x \notin Under(b)
      <4>1. Owed(join, p) \cap Under(join) = {}
        BY <1>1, RestingOwesNothing DEF Climbing
      <4> QED BY <2>2, <4>1 DEF Under
    <3>4. \A y \in Owed(b, p) \ Under(b) : b \in frontiers[y]
      BY <1>1, <3>2 DEF Climbing, Marked
    <3> QED BY <2>2, <3>3, <3>4
  <2>3. JoinFrontierOf(succ, x) = {b \in Joins(succ) : \E p \in Preds(succ, b) : x \in Owed(b, p)}
    BY <1>1, JoinFrontierAlt
  <2>4. JoinFrontierOf(succ, x) \subseteq frontiers[x]
    BY <2>2, <2>3
  <2> QED BY <2>1, <2>4
<1>3. ASSUME AllReachable(succ), Preds(succ, Entry) = {}, NEW x \in Blocks
      PROVE  frontiers[x] = FrontierOf(succ, x)
  BY <1>1, <1>2, <1>3, FrontiersAgree DEF TypeOK
<1> QED BY <1>2, <1>3 DEF FrontierExact

(* On every graph in which no cycle hangs in the air, the runners mark exactly
   the joins where a block stops dominating what arrives; if every block is
   reachable and nothing jumps to the entry, that is the dominance frontier. *)
THEOREM FrontierIsExactAlways == Spec => []FrontierExact
<1>1. Init => SetsInv
  BY SetsInit
<1>2. SetsInv /\ TypeOK' /\ [Next]_vars => SetsInv'
  BY SetsStep
<1>3. Init => FrontierInv
  BY DEF Init, FrontierInv, Climbing
<1>4. SetsInv /\ FrontierInv /\ [Next]_vars => FrontierInv'
  BY FrontierStep
<1>5. SetsInv /\ FrontierInv => FrontierExact
  BY FrontiersAreExact
<1> QED BY <1>1, <1>2, <1>3, <1>4, <1>5, TypeCorrect, PTL DEF Spec

-----------------------------------------------------------------------------
(* Loop motion.  The graph gets blocks; what ReachedIn says of the graph there is
   rests on the layers of CFG_proofs.                                         *)
GraphOf(M, g) == M \in Nat /\ g \in [1 .. M -> SUBSET (1 .. M)]

Stages(M, g, a, d, r) ==
  /\ ReachedIn(g, a, d) = r[M] /\ r[0] = {a} \ {d}
  /\ \A n \in Nat : n < M => r[n + 1] = Spread(g, {a}, {d}, r[n])

LEMMA ReachedLayers ==
  ASSUME NEW M, NEW g, GraphOf(M, g), NEW a, NEW d
  PROVE  \E r : Stages(M, g, a, d, r)
<1>0. M \in Nat
  BY DEF GraphOf
<1>1. Cardinality(DOMAIN g) = M
  <2>1. Cardinality(1 .. M) = M
    BY <1>0, FS_Interval
  <2>2. DOMAIN g = 1 .. M
    BY DEF GraphOf
  <2> QED BY <2>1, <2>2
<1> DEFINE r == CHOOSE h : Layers(g, {a}, {d}, M, h)
<1>2. Layers(g, {a}, {d}, M, r)
  BY <1>0, LayersExist
<1>3. ReachedIn(g, a, d) = r[M]
  BY <1>1 DEF ReachedIn, Layers, Spread
<1> HIDE DEF r
<1>4. r[0] = {a} \ {d}
  BY <1>0, <1>2 DEF Layers
<1>5. ASSUME NEW n \in Nat, n < M PROVE r[n + 1] = Spread(g, {a}, {d}, r[n])
  <2>1. n + 1 \in 0 .. M /\ n + 1 # 0 /\ (n + 1) - 1 = n
    BY <1>0, <1>5
  <2> QED BY <1>2, <2>1 DEF Layers
<1> QED BY <1>3, <1>4, <1>5 DEF Stages

LEMMA ReachedLeast ==
  ASSUME NEW M, NEW g, GraphOf(M, g), NEW a, NEW d, NEW T,
         {a} \ {d} \subseteq T, \A b \in T : g[b] \ {d} \subseteq T
  PROVE  ReachedIn(g, a, d) \subseteq T
<1>0. M \in Nat
  BY DEF GraphOf
<1> PICK r : Stages(M, g, a, d, r)
  BY ReachedLayers
<1>1. /\ ReachedIn(g, a, d) = r[M] /\ r[0] = {a} \ {d}
      /\ \A n \in Nat : n < M => r[n + 1] = Spread(g, {a}, {d}, r[n])
  BY DEF Stages
<1> DEFINE I == {n \in Nat : n <= M => r[n] \subseteq T}
<1>2. 0 \in I
  BY <1>1
<1>3. ASSUME NEW n \in Nat, n \in I PROVE n + 1 \in I
  <2> SUFFICES ASSUME n + 1 <= M PROVE r[n + 1] \subseteq T
    OBVIOUS
  <2>1. n < M /\ n <= M
    BY <1>0
  <2>2. r[n + 1] = Spread(g, {a}, {d}, r[n]) /\ r[n] \subseteq T
    BY <1>1, <1>3, <2>1
  <2> QED BY <2>2 DEF Spread
<1> HIDE DEF I
<1>4. M \in I
  BY <1>0, <1>2, <1>3, Induction
<1> QED BY <1>1, <1>4 DEF I

LEMMA ReachedClosed ==
  ASSUME NEW M, NEW g, GraphOf(M, g), NEW a \in 1 .. M, NEW d
  PROVE  /\ ReachedIn(g, a, d) \subseteq (1 .. M) \ {d}
         /\ {a} \ {d} \subseteq ReachedIn(g, a, d)
         /\ \A b \in ReachedIn(g, a, d) : g[b] \ {d} \subseteq ReachedIn(g, a, d)
<1>0. M \in Nat /\ g \in [1 .. M -> SUBSET (1 .. M)]
  BY DEF GraphOf
<1> PICK r : Stages(M, g, a, d, r)
  BY ReachedLayers
<1>1. /\ ReachedIn(g, a, d) = r[M] /\ r[0] = {a} \ {d}
      /\ \A n \in Nat : n < M => r[n + 1] = Spread(g, {a}, {d}, r[n])
  BY DEF Stages
<1> DEFINE B == 1 .. M
           Sp(S) == Spread(g, {a}, {d}, S)
<1>3. \A S \in SUBSET B : Sp(S) \subseteq B \ {d}
  BY <1>0 DEF Spread
<1>4. \A S, T \in SUBSET B : S \subseteq T => Sp(S) \subseteq Sp(T)
  BY DEF Spread
<1>5. IsFiniteSet(B) /\ Cardinality(B) = M
  BY <1>0, FS_Interval
<1> DEFINE I == {n \in Nat : n <= M =>
                   /\ r[n] \subseteq B \ {d} /\ {a} \ {d} \subseteq r[n]
                   /\ r[n] \subseteq Sp(r[n])
                   /\ r[n] = Sp(r[n]) \/ Cardinality(r[n]) >= n}
<1>6. 0 \in I
  <2>1. r[0] \subseteq Sp(r[0])
    BY <1>1 DEF Spread
  <2>2. r[0] \subseteq B \ {d} /\ {a} \ {d} \subseteq r[0]
    BY <1>1
  <2> HIDE DEF B
  <2>3. Cardinality(r[0]) >= 0
    BY <1>5, <2>2, FS_Subset, FS_CardinalityType
  <2> HIDE DEF Sp
  <2> QED BY <2>1, <2>2, <2>3
<1>12. B = 1 .. M
  OBVIOUS
<1> HIDE DEF B, Sp
<1>7. ASSUME NEW n \in Nat, n \in I PROVE n + 1 \in I
  <2> SUFFICES ASSUME n + 1 <= M
               PROVE  /\ r[n + 1] \subseteq B \ {d} /\ {a} \ {d} \subseteq r[n + 1]
                      /\ r[n + 1] \subseteq Sp(r[n + 1])
                      /\ r[n + 1] = Sp(r[n + 1]) \/ Cardinality(r[n + 1]) >= n + 1
    OBVIOUS
  <2>1. n < M /\ n <= M
    BY <1>0
  <2>2. r[n + 1] = Sp(r[n])
    BY <1>1, <2>1 DEF Sp
  <2>3. /\ r[n] \subseteq B \ {d} /\ {a} \ {d} \subseteq r[n] /\ r[n] \subseteq Sp(r[n])
        /\ r[n] = Sp(r[n]) \/ Cardinality(r[n]) >= n
    BY <1>7, <2>1
  <2> HIDE DEF I
  <2>4. r[n + 1] \subseteq B \ {d}
    BY <1>3, <2>2, <2>3
  <2>5. {a} \ {d} \subseteq r[n + 1] /\ r[n] \subseteq r[n + 1]
    BY <2>2, <2>3
  <2>6. Sp(r[n]) \subseteq Sp(r[n + 1])
    BY <1>4, <2>3, <2>4, <2>5
  <2>7. ASSUME r[n + 1] # Sp(r[n + 1]) PROVE Cardinality(r[n + 1]) >= n + 1
    <3>1. r[n] # r[n + 1] /\ r[n] # Sp(r[n])
      BY <2>2, <2>7
    <3>2. IsFiniteSet(r[n + 1])
      BY <1>5, <2>4, FS_Subset
    <3>3. /\ IsFiniteSet(r[n]) /\ Cardinality(r[n]) < Cardinality(r[n + 1])
          /\ Cardinality(r[n]) \in Nat /\ Cardinality(r[n + 1]) \in Nat
      BY <2>5, <3>1, <3>2, FS_Subset, FS_CardinalityType
    <3>4. Cardinality(r[n]) >= n
      BY <2>3, <3>1
    <3> QED BY <3>3, <3>4
  <2> QED BY <2>2, <2>4, <2>5, <2>6, <2>7
<1> HIDE DEF I
<1>8. M \in I
  BY <1>0, <1>6, <1>7, Induction
<1>9. /\ r[M] \subseteq B \ {d} /\ {a} \ {d} \subseteq r[M]
      /\ r[M] \subseteq Sp(r[M]) /\ (r[M] = Sp(r[M]) \/ Cardinality(r[M]) >= M)
  BY <1>0, <1>8 DEF I
<1>10. r[M] = Sp(r[M])
  <2>1. CASE Cardinality(r[M]) >= M
    <3>1. r[M] \subseteq B
      BY <1>9
    <3>2. Cardinality(r[M]) <= M /\ Cardinality(r[M]) \in Nat
      BY <1>5, <3>1, FS_Subset, FS_CardinalityType
    <3>3. Cardinality(r[M]) = Cardinality(B)
      BY <1>0, <1>5, <2>1, <3>2
    <3>4. r[M] = B
      BY <1>5, <3>1, <3>3, FS_Subset
    <3>5. Sp(r[M]) \subseteq B
      BY <1>3, <3>1
    <3> QED BY <1>9, <3>4, <3>5
  <2> QED BY <1>9, <2>1
<1>11. \A b \in r[M] : g[b] \ {d} \subseteq Sp(r[M])
  BY DEF Sp, Spread
<1> QED BY <1>1, <1>9, <1>10, <1>11, <1>12

(* d is on every path from a to b.                                            *)
Cuts(g, a, d, b) == b \notin ReachedIn(g, a, d)

(* Graphs all of whose blocks are reached from the first.                     *)
Connected(M, g, a) ==
  /\ GraphOf(M, g) /\ a \in 1 .. M
  /\ \A b \in 1 .. M : b \in ReachedIn(g, a, None)

LEMMA CutsTransitive ==
  ASSUME NEW M, NEW g, NEW a, Connected(M, g, a), NEW d, NEW b, NEW c,
         Cuts(g, a, d, b), Cuts(g, a, b, c)
  PROVE  Cuts(g, a, d, c)
<1>1. PICK D, B : D = ReachedIn(g, a, d) /\ B = ReachedIn(g, a, b)
  OBVIOUS
<1>2. /\ {a} \ {d} \subseteq D /\ \A x \in D : g[x] \ {d} \subseteq D
      /\ {a} \ {b} \subseteq B /\ \A x \in B : g[x] \ {b} \subseteq B
  BY <1>1, ReachedClosed DEF Connected
<1>3. b \notin D /\ c \notin B
  BY <1>1 DEF Cuts
<1>4. PICK T : T = D \cap B
  OBVIOUS
<1>5. {a} \ {d} \subseteq T /\ \A x \in T : g[x] \ {d} \subseteq T
  BY <1>2, <1>3, <1>4
<1>6. ReachedIn(g, a, d) \subseteq T
  BY <1>5, ReachedLeast DEF Connected
<1> QED BY <1>3, <1>4, <1>6 DEF Cuts

LEMMA CutsAntisymmetric ==
  ASSUME NEW M, NEW g, NEW a, Connected(M, g, a), NEW d \in 1 .. M, NEW b \in 1 .. M,
         Cuts(g, a, d, b), Cuts(g, a, b, d)
  PROVE  d = b
<1> SUFFICES ASSUME d # b PROVE FALSE
  OBVIOUS
<1>1. PICK D, B : D = ReachedIn(g, a, d) /\ B = ReachedIn(g, a, b)
  OBVIOUS
<1>2. /\ {a} \ {d} \subseteq D /\ \A x \in D : g[x] \ {d} \subseteq D
      /\ {a} \ {b} \subseteq B /\ \A x \in B : g[x] \ {b} \subseteq B
      /\ d \notin D
  BY <1>1, ReachedClosed DEF Connected
<1>3. b \notin D /\ d \notin B
  BY <1>1 DEF Cuts
<1>4. PICK T : T = D \cap B
  OBVIOUS
<1>5. {a} \ {None} \subseteq T /\ \A x \in T : g[x] \ {None} \subseteq T
  BY <1>2, <1>3, <1>4
<1>6. ReachedIn(g, a, None) \subseteq T
  BY <1>5, ReachedLeast DEF Connected
<1> QED BY <1>2, <1>4, <1>6 DEF Connected

LEMMA CutsOfPred ==
  ASSUME NEW M, NEW g, NEW a, Connected(M, g, a), NEW d, NEW p \in 1 .. M, NEW b \in g[p],
         Cuts(g, a, d, b), d # b
  PROVE  Cuts(g, a, d, p)
<1>1. PICK D : D = ReachedIn(g, a, d)
  OBVIOUS
<1>2. \A x \in D : g[x] \ {d} \subseteq D
  BY <1>1, ReachedClosed DEF Connected
<1> QED BY <1>1, <1>2 DEF Cuts

LEMMA CutsItself ==
  ASSUME NEW M, NEW g, NEW a, Connected(M, g, a), NEW d
  PROVE  Cuts(g, a, d, d)
<1>1. ReachedIn(g, a, d) \subseteq (1 .. M) \ {d}
  BY ReachedClosed DEF Connected
<1> QED BY <1>1 DEF Cuts

-----------------------------------------------------------------------------
(* What is known of the graph that the loops are found in.                    *)
Known ==
  /\ succ \in [Blocks -> SUBSET Blocks] /\ AllReachable(succ)
  /\ \A e \in BackEdges : Dominates(succ, e[2], e[1])

(* A loop is entered by its header only, which dominates all of it; and from each
   of its blocks an edge leads on in the loop.                                *)
LEMMA LoopShape ==
  ASSUME Known, Preds(succ, Entry) = {}, NEW e \in BackEdges
  PROVE  /\ e = <<e[1], e[2]>> /\ e[1] \in LoopBlocks(e) /\ e[2] \in LoopBlocks(e)
         /\ LoopBlocks(e) \subseteq Blocks /\ Entry \notin LoopBlocks(e)
         /\ \A x \in LoopBlocks(e) \ {e[2]} : \A p \in Blocks : x \in succ[p] => p \in LoopBlocks(e)
         /\ \A b \in LoopBlocks(e) : Dominates(succ, e[2], b)
         /\ \A p \in LoopBlocks(e) : succ[p] \cap LoopBlocks(e) # {}
<1>1. PICK l \in Blocks, h \in Blocks :
        e = <<l, h>> /\ e[1] = l /\ e[2] = h /\ h \in succ[l] /\ Dominates(succ, h, l)
  BY DEF BackEdges, Known
<1>2. PICK rev \in [Blocks -> SUBSET Blocks] : rev = [b \in Blocks |-> Preds(succ, b)]
  <2>1. [b \in Blocks |-> Preds(succ, b)] \in [Blocks -> SUBSET Blocks]
    BY DEF Preds
  <2> QED BY <2>1
<1>3. \A x, p \in Blocks : p \in rev[x] <=> x \in succ[p]
  BY <1>2 DEF Preds
<1>4. PICK R : R = ReachAvoiding(rev, {l}, {h})
  OBVIOUS
<1>5. PICK L : L = LoopBlocks(e)
  OBVIOUS
<1>6. L = {h} \cup R
  BY <1>1, <1>2, <1>4, <1>5 DEF LoopBlocks
<1>7. R \subseteq Blocks \ {h} /\ {l} \ {h} \subseteq R /\ \A x \in R : rev[x] \ {h} \subseteq R
  <2>1. {l} \in SUBSET Blocks
    BY <1>1
  <2> QED BY <1>4, <2>1, ReachClosed
<1>8. succ \in [Blocks -> SUBSET Blocks] /\ {Entry} \in SUBSET Blocks
  BY EntryIsBlock DEF Known
<1>9. h # Entry
  BY <1>1, <1>8 DEF Preds
<1>10. PICK A : A = ReachAvoiding(succ, {Entry}, {h})
  OBVIOUS
<1>11. A \subseteq Blocks \ {h} /\ {Entry} \ {h} \subseteq A /\ \A x \in A : succ[x] \ {h} \subseteq A
  BY <1>8, <1>10, ReachClosed
<1>12. l \notin A
  BY <1>1, <1>10 DEF Dominates
<1>13. R \subseteq Blocks \ A
  <2>1. PICK K : K = Blocks \ A
    OBVIOUS
  <2>2. {l} \ {h} \subseteq K
    BY <1>1, <1>12, <2>1
  <2>3. \A x \in K : rev[x] \ {h} \subseteq K \/ x = h
    BY <1>2, <1>3, <1>11, <2>1
  <2>4. PICK J : J = K \ {h}
    OBVIOUS
  <2>5. {l} \ {h} \subseteq J /\ \A x \in J : rev[x] \ {h} \subseteq J
    BY <2>2, <2>3, <2>4
  <2>6. ReachAvoiding(rev, {l}, {h}) \subseteq J
    BY <2>5, ReachLeast
  <2> QED BY <1>4, <2>1, <2>4, <2>6
<1>14. \A b \in L : b \notin A
  BY <1>6, <1>11, <1>13
<1>15. Entry \notin L
  BY <1>9, <1>11, <1>14
<1>16. ASSUME NEW x \in L \ {h}, NEW p \in Blocks, x \in succ[p] PROVE p \in L
  BY <1>3, <1>6, <1>7, <1>16
<1>17. l \in L /\ h \in L /\ L \subseteq Blocks
  BY <1>1, <1>6, <1>7
<1>18. \A p \in R : succ[p] \cap L # {}
  <2>1. PICK J : J = {x \in R : succ[x] \cap L # {}}
    OBVIOUS
  <2>2. {l} \ {h} \subseteq J
    BY <1>1, <1>7, <1>17, <2>1
  <2>3. \A x \in J : rev[x] \ {h} \subseteq J
    <3> SUFFICES ASSUME NEW x \in J, NEW p \in rev[x] \ {h} PROVE p \in J
      OBVIOUS
    <3>1. x \in R /\ x \in L /\ x \in Blocks /\ p \in Blocks
      BY <1>2, <1>6, <1>7, <2>1
    <3>2. p \in R /\ x \in succ[p]
      BY <1>3, <1>7, <3>1
    <3> QED BY <2>1, <3>1, <3>2
  <2>4. ReachAvoiding(rev, {l}, {h}) \subseteq J
    BY <2>2, <2>3, ReachLeast
  <2> QED BY <1>4, <2>1, <2>4
<1>19. succ[h] \cap L # {}
  <2> SUFFICES ASSUME succ[h] \cap L = {} PROVE FALSE
    OBVIOUS
  <2>1. l \in R
    BY <1>1, <1>7, <1>17
  <2>2. PICK K : K = Blocks \ R
    OBVIOUS
  <2>3. {Entry} \ {} \subseteq K
    BY <1>6, <1>8, <1>15, <2>2
  <2>4. \A x \in K : succ[x] \ {} \subseteq K
    <3> SUFFICES ASSUME NEW x \in K, NEW y \in succ[x], y \in R PROVE FALSE
      BY <1>8, <2>2
    <3>1. x \in Blocks /\ x \notin R /\ y \in L /\ y \in Blocks
      BY <1>6, <1>7, <2>2
    <3>2. x # h
      BY <3>1
    <3>3. x \in rev[y]
      BY <1>3, <3>1
    <3> QED BY <1>7, <3>1, <3>2, <3>3
  <2>5. ReachAvoiding(succ, {Entry}, {}) \subseteq K
    BY <2>3, <2>4, ReachLeast
  <2> QED BY <1>1, <2>1, <2>2, <2>5 DEF Known, AllReachable, Reachable
<1>20. \A b \in L : Dominates(succ, h, b)
  BY <1>10, <1>14 DEF Dominates
<1> QED BY <1>1, <1>5, <1>6, <1>15, <1>16, <1>17, <1>18, <1>19, <1>20

(* The header of a loop that was processed before is not in a loop that comes later,
   unless it is the header of that one, too.                                  *)
LEMMA EarlierHeader ==
  ASSUME Known, OuterFirst, NEW d \in BackEdges, NEW e \in BackEdges, d[1] <= e[1],
         d[2] \in LoopBlocks(e)
  PROVE  d[2] = e[2]
<1>1. e[1] \in Nat /\ d[1] \in Nat
  BY BlocksAssumption DEF BackEdges, Blocks
<1>2. e[2] # d[2] => e[1] < d[1]
  BY DEF OuterFirst
<1> QED BY <1>1, <1>2

(* The only edge into h from where h has not been comes from p.               *)
LEMMA OnlyWayIn ==
  ASSUME NEW M, NEW g, NEW a, Connected(M, g, a), NEW h \in 1 .. M, h # a,
         NEW p \in 1 .. M, p # h, h \in g[p],
         \A q \in 1 .. M : h \in g[q] => q = p \/ Cuts(g, a, h, q)
  PROVE  /\ Cuts(g, a, p, h)
         /\ \A q \in 1 .. M : Cuts(g, a, q, h) /\ q # h => Cuts(g, a, q, p)
<1>1. PICK H, P : H = ReachedIn(g, a, h) /\ P = ReachedIn(g, a, p)
  OBVIOUS
<1>2. /\ {a} \ {h} \subseteq H /\ \A x \in H : g[x] \ {h} \subseteq H
      /\ H \subseteq 1 .. M /\ h \notin H
      /\ P \subseteq 1 .. M /\ p \notin P
  BY <1>1, ReachedClosed DEF Connected
<1>3. PICK T : T = H \ {p}
  OBVIOUS
<1>4. {a} \ {p} \subseteq T
  BY <1>2, <1>3
<1>5. \A x \in T : g[x] \ {p} \subseteq T
  <2> SUFFICES ASSUME NEW x \in T, NEW y \in g[x], y # p PROVE y \in T
    OBVIOUS
  <2>1. x \in H /\ x \in 1 .. M /\ x # p
    BY <1>2, <1>3
  <2>2. y # h
    BY <1>1, <2>1 DEF Cuts
  <2> QED BY <1>2, <1>3, <2>1, <2>2
<1>6. P \subseteq T
  BY <1>1, <1>4, <1>5, ReachedLeast DEF Connected
<1>7. Cuts(g, a, p, h)
  BY <1>1, <1>2, <1>3, <1>6 DEF Cuts
<1> QED BY <1>7, CutsOfPred

(* A block n on some of the edges into h, which are all from where h has not been. *)
Inserted(M, g, h, O, f) ==
  /\ O \subseteq {q \in 1 .. M : h \in g[q]}
  /\ f = [p \in 1 .. M + 1 |-> IF p = M + 1 THEN {h}
                               ELSE IF p \in O THEN (g[p] \ {h}) \cup {M + 1} ELSE g[p]]

LEMMA InsertedBlock ==
  ASSUME NEW M, NEW g, NEW a, Connected(M, g, a), NEW h \in 1 .. M, h # a, NEW O, NEW f,
         Inserted(M, g, h, O, f), \A q \in 1 .. M : h \in g[q] => q \in O \/ Cuts(g, a, h, q)
  PROVE  /\ O # {} /\ Connected(M + 1, f, a)
         /\ \A d, b \in 1 .. M : Cuts(g, a, d, b) => Cuts(f, a, d, b)
         /\ Cuts(f, a, M + 1, h)
         /\ \A d \in 1 .. M : Cuts(g, a, d, h) /\ d # h => Cuts(f, a, d, M + 1)
<1>1. /\ M \in Nat /\ g \in [1 .. M -> SUBSET (1 .. M)] /\ a \in 1 .. M
      /\ \A b \in 1 .. M : b \in ReachedIn(g, a, None)
  BY DEF Connected, GraphOf
<1>2. PICK n : n = M + 1
  OBVIOUS
<1>3. 1 .. n = (1 .. M) \cup {n} /\ n \notin 1 .. M /\ n # None
  BY <1>1, <1>2 DEF None
<1>4. O \subseteq 1 .. M /\ \A q \in O : h \in g[q]
  BY DEF Inserted
<1>5. /\ f \in [1 .. n -> SUBSET (1 .. n)] /\ f[n] = {h}
      /\ \A p \in O : f[p] = (g[p] \ {h}) \cup {n}
      /\ \A p \in (1 .. M) \ O : f[p] = g[p]
  BY <1>1, <1>2, <1>3, <1>4 DEF Inserted
<1>6. GraphOf(n, f) /\ GraphOf(M, g) /\ a \in 1 .. n
  BY <1>1, <1>2, <1>3, <1>5 DEF GraphOf
<1>7. PICK H : H = ReachedIn(g, a, h)
  OBVIOUS
<1>8. {a} \ {h} \subseteq H /\ (\A x \in H : g[x] \ {h} \subseteq H) /\ H \subseteq 1 .. M /\ h \notin H
  BY <1>1, <1>6, <1>7, ReachedClosed
<1>9. \A q \in H : h \in g[q] => q \in O
  BY <1>7, <1>8 DEF Cuts
<1>10. O # {}
  <2> SUFFICES ASSUME O = {} PROVE FALSE
    OBVIOUS
  <2>1. {a} \ {None} \subseteq H /\ \A x \in H : g[x] \ {None} \subseteq H
    BY <1>8, <1>9
  <2>2. ReachedIn(g, a, None) \subseteq H
    BY <1>6, <2>1, ReachedLeast
  <2> QED BY <1>1, <1>8, <2>2
<1>11. Connected(n, f, a)
  <2>1. PICK T : T = ReachedIn(f, a, None)
    OBVIOUS
  <2>2. {a} \ {None} \subseteq T /\ \A x \in T : f[x] \ {None} \subseteq T
    BY <1>6, <2>1, ReachedClosed
  <2>3. \A x \in T \cap (1 .. M) : g[x] \ {None} \subseteq T
    <3> SUFFICES ASSUME NEW x \in T \cap (1 .. M), NEW y \in g[x], y # None PROVE y \in T
      OBVIOUS
    <3>1. CASE x \notin O
      BY <1>5, <2>2, <3>1
    <3>2. CASE x \in O
      <4>1. n \in T
        BY <1>3, <1>5, <2>2, <3>2
      <4>2. h \in T
        BY <1>3, <1>5, <2>2, <4>1 DEF None
      <4> QED BY <1>5, <2>2, <3>2, <4>2
    <3> QED BY <3>1, <3>2
  <2>4. PICK K : K = T \cap (1 .. M)
    OBVIOUS
  <2>5. {a} \ {None} \subseteq K /\ \A x \in K : g[x] \ {None} \subseteq K
    BY <1>1, <2>2, <2>3, <2>4
  <2>6. ReachedIn(g, a, None) \subseteq K
    BY <1>6, <2>5, ReachedLeast
  <2>7. \A b \in 1 .. M : b \in T
    BY <1>1, <2>4, <2>6
  <2>8. n \in T
    BY <1>3, <1>4, <1>5, <1>10, <2>2, <2>7
  <2> QED BY <1>3, <1>6, <2>1, <2>7, <2>8 DEF Connected
<1>12. ASSUME NEW d \in 1 .. M
       PROVE  ReachedIn(f, a, d) \subseteq ReachedIn(g, a, d)
                                   \cup {x \in {n} : O \cap ReachedIn(g, a, d) # {}}
  <2>1. PICK D : D = ReachedIn(g, a, d)
    OBVIOUS
  <2>2. {a} \ {d} \subseteq D /\ (\A x \in D : g[x] \ {d} \subseteq D) /\ D \subseteq 1 .. M
    BY <1>1, <1>6, <2>1, ReachedClosed
  <2>3. PICK T : T = D \cup {x \in {n} : O \cap D # {}}
    OBVIOUS
  <2>4. {a} \ {d} \subseteq T
    BY <2>2, <2>3
  <2>5. \A x \in T : f[x] \ {d} \subseteq T
    <3> SUFFICES ASSUME NEW x \in T, NEW y \in f[x], y # d PROVE y \in T
      OBVIOUS
    <3>1. CASE x = n
      <4>1. PICK o \in O : o \in D
        BY <1>3, <2>2, <2>3, <3>1
      <4>2. y = h
        BY <1>5, <3>1
      <4> QED BY <1>4, <2>2, <2>3, <4>1, <4>2
    <3>2. CASE x \in D
      <4>1. CASE x \in O
        BY <1>5, <2>2, <2>3, <3>2, <4>1
      <4>2. CASE x \notin O
        BY <1>5, <2>2, <2>3, <3>2, <4>2
      <4> QED BY <4>1, <4>2
    <3> QED BY <2>3, <3>1, <3>2
  <2>6. ReachedIn(f, a, d) \subseteq T
    BY <1>6, <2>4, <2>5, ReachedLeast
  <2> QED BY <2>1, <2>3, <2>6
<1>13. \A d, b \in 1 .. M : Cuts(g, a, d, b) => Cuts(f, a, d, b)
  BY <1>3, <1>12 DEF Cuts
<1>14. ASSUME NEW d \in 1 .. M, Cuts(g, a, d, h), d # h PROVE Cuts(f, a, d, n)
  <2>1. \A o \in O : Cuts(g, a, d, o)
    BY <1>1, <1>4, <1>14, CutsOfPred
  <2>2. n \notin ReachedIn(g, a, d)
    <3>1. ReachedIn(g, a, d) \subseteq 1 .. M
      BY <1>1, <1>6, ReachedClosed
    <3> QED BY <1>3, <3>1
  <2> QED BY <1>12, <2>1, <2>2 DEF Cuts
<1>15. Cuts(f, a, n, h)
  <2>1. \A x \in H : f[x] \ {n} \subseteq H
    <3> SUFFICES ASSUME NEW x \in H, NEW y \in f[x], y # n PROVE y \in H
      OBVIOUS
    <3>1. x \in 1 .. M
      BY <1>8
    <3>2. CASE x \in O
      BY <1>5, <1>8, <3>2
    <3>3. CASE x \notin O
      BY <1>5, <1>8, <1>9, <3>1, <3>3
    <3> QED BY <3>2, <3>3
  <2>2. {a} \ {n} \subseteq H
    BY <1>8
  <2>3. ReachedIn(f, a, n) \subseteq H
    BY <1>6, <2>1, <2>2, ReachedLeast
  <2> QED BY <1>8, <2>3 DEF Cuts
<1> QED BY <1>2, <1>10, <1>11, <1>13, <1>14, <1>15

-----------------------------------------------------------------------------
(* Moving one instruction.                                                    *)
LEMMA WithOne ==
  ASSUME NEW f, NEW b, NEW v
  PROVE  /\ DOMAIN With(f, b, v) = DOMAIN f \cup {b} /\ With(f, b, v)[b] = v
         /\ \A x \in DOMAIN f : x # b => With(f, b, v)[x] = f[x]
BY DEF With

LEMMA Shorter ==
  ASSUME NEW T, NEW s \in Seq(T), NEW k \in 1 .. Len(s)
  PROVE  /\ RemoveAt(s, k) \in Seq(T) /\ Len(RemoveAt(s, k)) = Len(s) - 1
         /\ \A i \in 1 .. Len(s) - 1 : RemoveAt(s, k)[i] = IF i < k THEN s[i] ELSE s[i + 1]
<1>1. PICK n \in Nat : n = Len(s) /\ k \in 1 .. n
  OBVIOUS
<1>2. PICK a : a = SubSeq(s, 1, k - 1)
  OBVIOUS
<1>3. PICK z : z = SubSeq(s, k + 1, n)
  OBVIOUS
<1>4. a \in Seq(T) /\ Len(a) = k - 1 /\ \A i \in 1 .. k - 1 : a[i] = s[i]
  <2>1. \A i \in 1 .. k - 1 : i \in 1 .. Len(s)
    BY <1>1
  <2> QED BY <1>1, <1>2, <2>1, SubSeqProperties
<1>5. z \in Seq(T) /\ Len(z) = n - k /\ \A i \in 1 .. n - k : z[i] = s[k + i]
  <2>1. \A i \in k + 1 .. n : i \in 1 .. Len(s)
    BY <1>1
  <2>2. k + 1 \in Int /\ n \in Int
    BY <1>1
  <2>3. z \in Seq(T) /\ Len(z) = (IF k + 1 <= n THEN n - (k + 1) + 1 ELSE 0)
        /\ \A i \in 1 .. n - (k + 1) + 1 : z[i] = s[(k + 1) + i - 1]
    BY <1>3, <2>1, <2>2, SubSeqProperties
  <2>4. Len(z) = n - k
    BY <1>1, <2>3
  <2>5. n - (k + 1) + 1 = n - k /\ \A i \in 1 .. n - k : (k + 1) + i - 1 = k + i
    BY <1>1
  <2> QED BY <2>3, <2>4, <2>5
<1>6. RemoveAt(s, k) = a \o z
  BY <1>1, <1>2, <1>3 DEF RemoveAt
<1>7. a \o z \in Seq(T) /\ Len(a \o z) = n - 1
  <2>1. a \o z \in Seq(T) /\ Len(a \o z) = Len(a) + Len(z)
    BY <1>4, <1>5, ConcatProperties
  <2> QED BY <1>1, <1>4, <1>5, <2>1
<1>8. ASSUME NEW i \in 1 .. n - 1 PROVE (a \o z)[i] = IF i < k THEN s[i] ELSE s[i + 1]
  <2>1. i \in 1 .. Len(a) + Len(z)
    BY <1>1, <1>4, <1>5
  <2>2. (a \o z)[i] = IF i <= Len(a) THEN a[i] ELSE z[i - Len(a)]
    BY <1>4, <1>5, <2>1, ConcatProperties
  <2>3. CASE i < k
    BY <1>1, <1>4, <2>2, <2>3
  <2>4. CASE ~(i < k)
    <3>1. i - (k - 1) \in 1 .. n - k /\ k + (i - (k - 1)) = i + 1 /\ ~(i <= k - 1)
      BY <1>1, <2>4
    <3> QED BY <1>4, <1>5, <2>2, <2>4, <3>1
  <2> QED BY <2>3, <2>4
<1> QED BY <1>1, <1>6, <1>7, <1>8

-----------------------------------------------------------------------------
Size == Cardinality(DOMAIN edges)

PredsNow(b) == {p \in DOMAIN edges : b \in edges[p]}

Processed == BackEdges \ pending

Formed ==
  /\ Connected(Size, edges, Entry) /\ entry = Entry /\ N <= Size
  /\ parent \in [Blocks -> 1 .. Size] /\ entries \in [1 .. Size -> SUBSET (1 .. Size)]
  /\ code \in [Blocks -> Instruction]

Placed(M) ==
  /\ body \in [1 .. M -> Seq(Blocks)]
  /\ \A b \in 1 .. M : \A i, j \in 1 .. Len(body[b]) :
       parent[body[b][i]] = b /\ (body[b][i] = body[b][j] => i = j)
  /\ \A c \in Blocks : \E i \in 1 .. Len(body[parent[c]]) : body[parent[c]][i] = c

Kept ==
  /\ \A b \in Blocks : edges[b] \cap Blocks \subseteq succ[b]
  /\ \A b \in Blocks : \A s \in succ[b] \ edges[b] :
       edges[b] \ Blocks # {} /\ \E d \in Processed : d[2] = s
  /\ \A d, b \in Blocks : Dominates(succ, d, b) => Cuts(edges, Entry, d, b)

Current(e) ==
  /\ e \in Processed /\ header = e[2] /\ inLoop = LoopBlocks(e)
  /\ \A d \in Processed : d[1] <= e[1]

Ordered ==
  /\ pending \subseteq BackEdges
  /\ \A d \in Processed, e \in pending : d[1] <= e[1]
  /\ header # None => \E e \in BackEdges : Current(e)

Ready ==
  header # None /\ preheader # None =>
    preheader \in 1 .. Size /\ edges[preheader] = {header} /\ Outside = {preheader}

Moved ==
  \A c \in hoisted : c \in Blocks /\ \E d \in Processed :
    /\ parent[c] \notin LoopBlocks(d)
    /\ parent[c] \in Blocks => /\ succ[parent[c]] = {d[2]}
                               /\ Cuts(edges, Entry, parent[c], d[2])

Computed == \A c \in Blocks : \A r \in code[c].reads : ComputedBefore(r, c)

PhisMatch ==
  /\ \A b \in 1 .. Size : HasPhi(b) => entries[b] = PredsNow(b)
  /\ \A b \in Blocks : ~HasPhi(b) => entries[b] = {}

MotionInv ==
  Known /\ Formed /\ Placed(Size) /\ Kept /\ Ordered /\ Ready /\ Moved /\ Computed /\ PhisMatch

(* What an instruction that moves to another block leaves as it is.           *)
LEMMA MoveKeepsOrder ==
  ASSUME NEW M \in Nat, NEW m \in Nat, Placed(M), parent \in [Blocks -> 1 .. M],
         NEW c \in Blocks, NEW p \in 1 .. m, p # parent[c],
         m = M \/ (m = M + 1 /\ p = m), Move(c, p)
  PROVE  /\ parent' = [parent EXCEPT ![c] = p]
         /\ body' \in [1 .. m -> Seq(Blocks)]
         /\ \A b \in 1 .. m : \A i, j \in 1 .. Len(body'[b]) :
              parent'[body'[b][i]] = b /\ (body'[b][i] = body'[b][j] => i = j)
         /\ \A d \in Blocks : \E i \in 1 .. Len(body'[parent'[d]]) : body'[parent'[d]][i] = d
         /\ \A d, x \in Blocks : d # c /\ x # c /\ Precedes(d, x) => Precedes(d, x)'
         /\ \A d \in Blocks : d # c /\ parent[d] = p => Precedes(d, c)'
<1>1. /\ body \in [1 .. M -> Seq(Blocks)]
      /\ \A b \in 1 .. M : \A i, j \in 1 .. Len(body[b]) :
           parent[body[b][i]] = b /\ (body[b][i] = body[b][j] => i = j)
      /\ \A d \in Blocks : \E i \in 1 .. Len(body[parent[d]]) : body[parent[d]][i] = d
  BY DEF Placed
<1>2. PICK q \in 1 .. M : q = parent[c]
  OBVIOUS
<1>3. PICK s \in Seq(Blocks) : s = body[q]
  BY <1>1
<1>29. \A i, j \in 1 .. Len(s) : s[i] = s[j] => i = j
  <2>1. \A i, j \in 1 .. Len(body[q]) : body[q][i] = body[q][j] => i = j
    BY <1>1
  <2> QED BY <1>3, <2>1
<1>4. PICK k \in 1 .. Len(s) : k = CHOOSE i \in 1 .. Len(s) : s[i] = c
  BY <1>1, <1>2, <1>3
<1>5. s[k] = c /\ \A i \in 1 .. Len(s) : s[i] = c => i = k
  <2>1. \E i \in 1 .. Len(s) : s[i] = c
    BY <1>1, <1>2, <1>3
  <2> QED BY <1>4, <1>29, <2>1
<1>6. PICK u \in Seq(Blocks) : u = RemoveAt(s, k)
  BY Shorter
<1>7. PICK l \in Nat : l = Len(s) /\ k \in 1 .. l
  OBVIOUS
<1>8. Len(u) = l - 1 /\ \A i \in 1 .. l - 1 : u[i] = IF i < k THEN s[i] ELSE s[i + 1]
  BY <1>6, <1>7, Shorter
<1>9. PICK t \in Seq(Blocks) : t = IF p \in DOMAIN body THEN body[p] ELSE <<>>
  <2>1. DOMAIN body = 1 .. M
    BY <1>1
  <2>2. p \in 1 .. M => body[p] \in Seq(Blocks)
    BY <1>1
  <2>3. <<>> \in Seq(Blocks)
    OBVIOUS
  <2>4. (IF p \in DOMAIN body THEN body[p] ELSE <<>>) \in Seq(Blocks)
    BY <2>1, <2>2, <2>3
  <2> QED BY <2>4
<1>10. PICK a \in Seq(Blocks) : a = Append(t, c)
  BY AppendProperties
<1>11. PICK w \in Nat : w = Len(t)
  OBVIOUS
<1>12. Len(a) = w + 1 /\ a[w + 1] = c /\ \A i \in 1 .. w : a[i] = t[i]
  BY <1>10, <1>11, AppendProperties
<1>13. /\ body' = With([body EXCEPT ![q] = u], p, a)
       /\ parent' = [parent EXCEPT ![c] = p]
  BY <1>2, <1>3, <1>4, <1>6, <1>9, <1>10 DEF Move
<1>14. 1 .. m = (1 .. M) \cup {p}
  OBVIOUS
<1>15. /\ DOMAIN body' = 1 .. m /\ body'[p] = a
       /\ \A b \in 1 .. M : b # p => body'[b] = IF b = q THEN u ELSE body[b]
  <2> DEFINE f == [body EXCEPT ![q] = u]
  <2>1. DOMAIN f = 1 .. M
    BY <1>1
  <2>2. \A b \in 1 .. M : f[b] = IF b = q THEN u ELSE body[b]
    BY <1>1
  <2> HIDE DEF f
  <2>3. /\ DOMAIN With(f, p, a) = (1 .. M) \cup {p} /\ With(f, p, a)[p] = a
        /\ \A b \in 1 .. M : b # p => With(f, p, a)[b] = f[b]
    BY <2>1 DEF With
  <2> QED BY <1>13, <1>14, <2>2, <2>3 DEF f
<1>16. q # p
  BY <1>2
<1>17. \A d \in Blocks : parent'[d] = IF d = c THEN p ELSE parent[d]
  BY <1>13
<1>18. p \in 1 .. M => t = body[p]
  BY <1>1, <1>9
<1>19. p \notin 1 .. M => t = <<>> /\ w = 0
  BY <1>1, <1>9, <1>11
<1> DEFINE Same(b) == b \in 1 .. M /\ b # p /\ b # q
<1>20. body' \in [1 .. m -> Seq(Blocks)]
  <2>1. \A b \in 1 .. m : body'[b] \in Seq(Blocks)
    BY <1>1, <1>14, <1>15
  <2>2. body' = [b \in 1 .. m |-> body'[b]]
    BY <1>13, <1>15 DEF With
  <2> QED BY <2>1, <2>2
<1>21. ASSUME NEW i \in 1 .. w PROVE t[i] \in Blocks /\ t[i] # c /\ parent[t[i]] = p
  <2>1. p \in 1 .. M
    BY <1>19
  <2>2. t = body[p] /\ i \in 1 .. Len(body[p])
    BY <1>11, <1>18, <2>1
  <2>3. parent[t[i]] = p
    BY <1>1, <2>1, <2>2
  <2> QED BY <1>2, <1>11, <1>16, <2>3
<1>22. ASSUME NEW i, NEW j \in 1 .. w, i \in 1 .. w, t[i] = t[j] PROVE i = j
  <2>1. p \in 1 .. M
    BY <1>19
  <2>2. t = body[p] /\ i \in 1 .. Len(body[p]) /\ j \in 1 .. Len(body[p])
    BY <1>11, <1>18, <1>22, <2>1
  <2> QED BY <1>1, <1>22, <2>1, <2>2
<1>23. ASSUME NEW i \in 1 .. l - 1
       PROVE  /\ u[i] \in Blocks /\ u[i] # c /\ parent[u[i]] = q
              /\ \E e \in 1 .. l : u[i] = s[e] /\ e # k /\ i = (IF e < k THEN e ELSE e - 1)
  <2>1. PICK e \in 1 .. l : e = (IF i < k THEN i ELSE i + 1)
    BY <1>7
  <2>2. u[i] = s[e] /\ e # k /\ i = (IF e < k THEN e ELSE e - 1)
    BY <1>7, <1>8, <2>1
  <2>3. s[e] # c /\ s[e] \in Blocks
    BY <1>5, <1>7, <2>2
  <2>4. parent[s[e]] = q
    BY <1>1, <1>3, <1>7
  <2> QED BY <2>2, <2>3, <2>4
<1>24. ASSUME NEW e \in 1 .. l, e # k
       PROVE  \E i \in 1 .. l - 1 : u[i] = s[e] /\ i = (IF e < k THEN e ELSE e - 1)
  <2>1. PICK i \in 1 .. l - 1 : i = (IF e < k THEN e ELSE e - 1)
    BY <1>7, <1>24
  <2>2. u[i] = s[e]
    <3>1. CASE e < k
      BY <1>8, <2>1, <3>1
    <3>2. CASE ~(e < k)
      <4>1. i = e - 1 /\ ~(i < k) /\ i + 1 = e
        BY <1>7, <1>24, <2>1, <3>2
      <4> QED BY <1>8, <4>1
    <3> QED BY <3>1, <3>2
  <2> QED BY <2>1, <2>2
<1>25. ASSUME NEW b \in 1 .. m, NEW i \in 1 .. Len(body'[b]), NEW j \in 1 .. Len(body'[b])
       PROVE  parent'[body'[b][i]] = b /\ (body'[b][i] = body'[b][j] => i = j)
  <2>1. CASE b = p
    <3>1. body'[b] = a /\ i \in 1 .. w + 1 /\ j \in 1 .. w + 1
      BY <1>12, <1>15, <1>25, <2>1
    <3>2. parent'[a[i]] = p
      <4>1. CASE i = w + 1
        BY <1>12, <1>17, <4>1
      <4>2. CASE i # w + 1
        <5>1. i \in 1 .. w
          BY <3>1, <4>2
        <5>2. t[i] \in Blocks /\ t[i] # c /\ parent[t[i]] = p
          BY <1>21, <5>1
        <5> QED BY <1>12, <1>17, <5>1, <5>2
      <4> QED BY <4>1, <4>2
    <3>3. ASSUME a[i] = a[j] PROVE i = j
      <4>1. i = w + 1 \/ i \in 1 .. w
        BY <3>1
      <4>2. j = w + 1 \/ j \in 1 .. w
        BY <3>1
      <4>3. \A e \in 1 .. w : a[e] # c /\ a[e] = t[e]
        BY <1>12, <1>21
      <4>4. \A e, o \in 1 .. w : t[e] = t[o] => e = o
        BY <1>22
      <4> QED BY <1>12, <3>3, <4>1, <4>2, <4>3, <4>4
    <3> QED BY <2>1, <3>1, <3>2, <3>3
  <2>2. CASE b = q
    <3>1. body'[b] = u
      BY <1>15, <1>16, <2>2
    <3>2. i \in 1 .. l - 1 /\ j \in 1 .. l - 1
      BY <1>8, <1>25, <3>1
    <3>3. parent'[u[i]] = q
      BY <1>17, <1>23, <3>2
    <3>4. ASSUME u[i] = u[j] PROVE i = j
      <4>1. PICK e \in 1 .. l : u[i] = s[e] /\ i = (IF e < k THEN e ELSE e - 1)
        BY <1>23, <3>2
      <4>2. PICK o \in 1 .. l : u[j] = s[o] /\ j = (IF o < k THEN o ELSE o - 1)
        BY <1>23, <3>2
      <4>3. s[e] = s[o]
        BY <3>4, <4>1, <4>2
      <4>4. e = o
        BY <1>7, <1>29, <4>3
      <4> QED BY <4>1, <4>2, <4>4
    <3> QED BY <2>2, <3>1, <3>3, <3>4
  <2>3. CASE Same(b)
    <3>1. body'[b] = body[b]
      BY <1>15, <2>3
    <3>2. i \in 1 .. Len(body[b]) /\ j \in 1 .. Len(body[b])
      BY <1>25, <3>1
    <3>3. parent[body[b][i]] = b /\ (body[b][i] = body[b][j] => i = j)
      BY <1>1, <2>3, <3>2
    <3>4. body[b][i] \in Blocks /\ body[b][i] # c
      <4>1. body[b] \in Seq(Blocks)
        BY <1>1, <2>3
      <4>2. body[b][i] \in Blocks
        BY <3>2, <4>1, ElementOfSeq
      <4> QED BY <1>2, <2>3, <3>3, <4>2
    <3> QED BY <1>17, <3>1, <3>3, <3>4
  <2> QED BY <1>14, <2>1, <2>2, <2>3
<1>26. ASSUME NEW d \in Blocks
       PROVE  \E i \in 1 .. Len(body'[parent'[d]]) : body'[parent'[d]][i] = d
  <2>1. CASE d = c
    <3>1. w + 1 \in 1 .. Len(a)
      BY <1>12
    <3> QED BY <1>12, <1>15, <1>17, <2>1, <3>1
  <2>2. CASE d # c
    <3>1. parent'[d] = parent[d]
      BY <1>17, <2>2
    <3>2. PICK i \in 1 .. Len(body[parent[d]]) : body[parent[d]][i] = d
      BY <1>1
    <3>3. CASE parent[d] = p
      <4>1. p \in 1 .. M
        BY <3>3
      <4>2. i \in 1 .. w /\ t[i] = d
        BY <1>11, <1>18, <3>2, <3>3, <4>1
      <4>3. i \in 1 .. w + 1 /\ a[i] = d
        BY <1>12, <4>2
      <4>4. i \in 1 .. Len(a)
        BY <1>12, <4>3
      <4> QED BY <1>15, <3>1, <3>3, <4>3, <4>4
    <3>4. CASE parent[d] = q
      <4>1. i \in 1 .. l /\ s[i] = d /\ i # k
        BY <1>3, <1>5, <1>7, <2>2, <3>2, <3>4
      <4>2. PICK o \in 1 .. l - 1 : u[o] = d
        BY <1>24, <4>1
      <4>3. o \in 1 .. Len(u) /\ body'[q] = u
        BY <1>8, <1>15, <1>16
      <4> QED BY <3>1, <3>4, <4>2, <4>3
    <3>5. CASE Same(parent[d])
      BY <1>15, <3>1, <3>2, <3>5
    <3> QED BY <3>3, <3>4, <3>5
  <2> QED BY <2>1, <2>2
<1>27. ASSUME NEW d \in Blocks, NEW x \in Blocks, d # c, x # c, Precedes(d, x)
       PROVE  Precedes(d, x)'
  <2>1. parent[d] = parent[x] /\ parent'[d] = parent[d] /\ parent'[x] = parent[x]
    BY <1>17, <1>27 DEF Precedes
  <2>2. PICK i, j \in 1 .. Len(body[parent[x]]) :
          i < j /\ body[parent[x]][i] = d /\ body[parent[x]][j] = x
    BY <1>27 DEF Precedes
  <2>3. \E e, o \in 1 .. Len(body'[parent[x]]) :
          e < o /\ body'[parent[x]][e] = d /\ body'[parent[x]][o] = x
    <3>1. CASE parent[x] = p
      <4>1. p \in 1 .. M
        BY <3>1
      <4>2. i \in 1 .. w /\ j \in 1 .. w /\ t[i] = d /\ t[j] = x
        BY <1>11, <1>18, <2>2, <3>1, <4>1
      <4>3. a[i] = d /\ a[j] = x
        BY <1>12, <4>2
      <4>4. i \in 1 .. Len(a) /\ j \in 1 .. Len(a)
        <5>1. Len(a) = w + 1
          BY <1>12
        <5> QED BY <4>2, <5>1
      <4> QED BY <1>15, <2>2, <3>1, <4>3, <4>4
    <3>2. CASE parent[x] = q
      <4>1. i \in 1 .. l /\ j \in 1 .. l /\ s[i] = d /\ s[j] = x /\ i # k /\ j # k
        BY <1>3, <1>5, <1>7, <1>27, <2>2, <3>2
      <4>2. PICK e \in 1 .. l - 1 : u[e] = d /\ e = (IF i < k THEN i ELSE i - 1)
        BY <1>24, <4>1
      <4>3. PICK o \in 1 .. l - 1 : u[o] = x /\ o = (IF j < k THEN j ELSE j - 1)
        BY <1>24, <4>1
      <4>4. e < o
        BY <1>7, <2>2, <4>1, <4>2, <4>3
      <4>5. e \in 1 .. Len(u) /\ o \in 1 .. Len(u) /\ body'[q] = u
        BY <1>8, <1>15, <1>16
      <4> QED BY <3>2, <4>2, <4>3, <4>4, <4>5
    <3>3. CASE Same(parent[x])
      BY <1>15, <2>2, <3>3
    <3> QED BY <3>1, <3>2, <3>3
  <2> QED BY <2>1, <2>3 DEF Precedes
<1>28. ASSUME NEW d \in Blocks, d # c, parent[d] = p PROVE Precedes(d, c)'
  <2>1. p \in 1 .. M
    BY <1>28
  <2>2. PICK i \in 1 .. Len(body[p]) : body[p][i] = d
    BY <1>1, <1>28
  <2>3. i \in 1 .. w /\ t[i] = d
    BY <1>11, <1>18, <2>1, <2>2
  <2>4. /\ i \in 1 .. Len(a) /\ w + 1 \in 1 .. Len(a) /\ i < w + 1
        /\ a[i] = d /\ a[w + 1] = c
    BY <1>12, <2>3
  <2>5. parent'[d] = p /\ parent'[c] = p /\ body'[p] = a
    BY <1>15, <1>17, <1>28
  <2> QED BY <2>4, <2>5 DEF Precedes
<1> QED BY <1>13, <1>20, <1>25, <1>26, <1>27, <1>28

-----------------------------------------------------------------------------
LEMMA SizeOf ==
  ASSUME NEW m \in Nat, DOMAIN edges = 1 .. m
  PROVE  Size = m
<1>1. Cardinality(1 .. m) = m
  BY FS_Interval
<1> QED BY <1>1 DEF Size

LEMMA NextIsNew ==
  ASSUME NEW m \in Nat \ {0}, DOMAIN edges = 1 .. m
  PROVE  NewBlock = m + 1
<1>1. m \in 1 .. m /\ \A y \in 1 .. m : m >= y
  OBVIOUS
<1>2. \A x \in 1 .. m : (\A y \in 1 .. m : x >= y) => x = m
  BY <1>1
<1>3. Max(1 .. m) = m
  BY <1>1, <1>2 DEF Max
<1> QED BY <1>3 DEF NewBlock

(* What is known of a loop while it is processed.                             *)
LoopFacts(e) ==
  /\ Known /\ OuterFirst /\ Preds(succ, Entry) = {}
  /\ Connected(Size, edges, Entry) /\ N <= Size /\ Kept /\ e \in BackEdges /\ Current(e)

(* An edge inside the loop is still there, unless it leads to the header.     *)
LEMMA InnerEdges ==
  ASSUME NEW e, LoopFacts(e), NEW x \in Blocks, NEW y \in succ[x], y \in inLoop, y # header
  PROVE  y \in edges[x]
<1>1. Known /\ OuterFirst /\ Kept /\ e \in BackEdges /\ Current(e)
  BY DEF LoopFacts
<1> SUFFICES ASSUME y \notin edges[x] PROVE FALSE
  OBVIOUS
<1>2. PICK d \in Processed : d[2] = y
  BY <1>1 DEF Kept
<1>3. d \in BackEdges /\ d[1] <= e[1] /\ d[2] \in LoopBlocks(e) /\ e[2] = header
  BY <1>1, <1>2 DEF Current, Processed
<1>4. d[2] = e[2]
  BY <1>1, <1>3, EarlierHeader
<1> QED BY <1>2, <1>3, <1>4

(* A block outside that is on every way to a block of the loop is on every way to
   the header.                                                                *)
LEMMA OutsideCutsHeader ==
  ASSUME NEW e, LoopFacts(e), NEW q \in 1 .. Size, q \notin inLoop, NEW b \in inLoop,
         Cuts(edges, Entry, q, b)
  PROVE  Cuts(edges, Entry, q, header)
<1>1. /\ Known /\ Preds(succ, Entry) = {} /\ Connected(Size, edges, Entry) /\ e \in BackEdges
      /\ header = e[2] /\ inLoop = LoopBlocks(e)
  BY DEF LoopFacts, Current
<1> SUFFICES ASSUME ~Cuts(edges, Entry, q, header) PROVE FALSE
  OBVIOUS
<1>2. PICK R : R = ReachedIn(edges, Entry, q)
  OBVIOUS
<1>3. header \in R /\ b \notin R
  BY <1>2 DEF Cuts
<1>4. \A x \in R : edges[x] \ {q} \subseteq R
  BY <1>1, <1>2, ReachedClosed DEF Connected
<1>5. /\ Entry \notin inLoop /\ inLoop \subseteq Blocks
      /\ \A x \in inLoop \ {header} : \A p \in Blocks : x \in succ[p] => p \in inLoop
  BY <1>1, LoopShape
<1>6. PICK K : K = {x \in Blocks : x \notin inLoop \/ x \in R}
  OBVIOUS
<1>7. {Entry} \ {} \subseteq K
  BY <1>5, <1>6, EntryIsBlock
<1>8. \A x \in K : succ[x] \ {} \subseteq K
  <2> SUFFICES ASSUME NEW x \in K, NEW y \in succ[x], y \in inLoop PROVE y \in R
    BY <1>1, <1>6 DEF Known
  <2>1. CASE y = header
    BY <1>3, <2>1
  <2>2. CASE y # header
    <3>1. x \in Blocks /\ x \in inLoop /\ x \in R
      BY <1>5, <1>6, <2>2
    <3>2. y \in edges[x]
      BY <2>2, <3>1, InnerEdges
    <3> QED BY <1>4, <3>1, <3>2
  <2> QED BY <2>1, <2>2
<1>9. ReachAvoiding(succ, {Entry}, {}) \subseteq K
  BY <1>7, <1>8, ReachLeast
<1>10. b \in K
  BY <1>1, <1>5, <1>9 DEF Known, AllReachable, Reachable
<1> QED BY <1>3, <1>6, <1>10

(* An operand of an instruction that may be hoisted has left the loop.        *)
LEMMA OperandOutside ==
  ASSUME NEW e, LoopFacts(e), Moved, parent \in [Blocks -> 1 .. Size], code \in [Blocks -> Instruction],
         NEW c \in Blocks, CanHoist(c), NEW r \in code[c].reads
  PROVE  r \in Blocks /\ parent[r] \notin inLoop
<1>1. /\ Known /\ OuterFirst /\ Preds(succ, Entry) = {} /\ Connected(Size, edges, Entry)
      /\ N <= Size /\ Kept /\ e \in BackEdges /\ Current(e)
  BY DEF LoopFacts
<1>2. header = e[2] /\ inLoop = LoopBlocks(e) /\ \A d \in Processed : d[1] <= e[1]
  BY <1>1 DEF Current
<1>3. r \in Blocks
  BY DEF Instruction
<1> SUFFICES ASSUME parent[r] \in inLoop PROVE FALSE
  BY <1>3
<1>4. r \in hoisted
  BY DEF CanHoist
<1>5. PICK p : p = parent[r]
  OBVIOUS
<1>6. inLoop \subseteq Blocks /\ (\A b \in inLoop : Dominates(succ, header, b))
      /\ \A x \in inLoop : succ[x] \cap inLoop # {}
  BY <1>1, <1>2, LoopShape
<1>7. p \in inLoop /\ p \in Blocks
  BY <1>5, <1>6
<1>8. PICK d \in Processed : p \notin LoopBlocks(d) /\ succ[p] = {d[2]} /\ Cuts(edges, Entry, p, d[2])
  BY <1>4, <1>5, <1>7 DEF Moved
<1>9. d \in BackEdges /\ d[1] <= e[1] /\ d[2] \in LoopBlocks(e)
  BY <1>2, <1>6, <1>7, <1>8 DEF Processed
<1>10. d[2] = header
  BY <1>1, <1>2, <1>9, EarlierHeader
<1>11. d[2] \in LoopBlocks(d)
  BY <1>1, <1>9, LoopShape
<1>12. header \in Blocks /\ header # p
  BY <1>2, <1>6, <1>8, <1>9, <1>10, <1>11
<1>13. Cuts(edges, Entry, header, p)
  BY <1>1, <1>6, <1>7, <1>12 DEF Kept
<1>14. p \in 1 .. Size /\ header \in 1 .. Size
  <2>1. N \in Nat /\ Size \in Nat
    BY <1>1, BlocksAssumption DEF Connected, GraphOf
  <2> QED BY <1>1, <1>7, <1>12, <2>1 DEF Blocks
<1>15. Cuts(edges, Entry, p, header)
  BY <1>8, <1>10
<1>16. p = header
  BY <1>1, <1>13, <1>14, <1>15, CutsAntisymmetric
<1> QED BY <1>12, <1>16

(* What the block p that an instruction moves to is, in the graph with m blocks
   that there is then.                                                        *)
Preheader(m, p) ==
  /\ Size' = m /\ Connected(m, edges', Entry) /\ (m = Size \/ (m = Size + 1 /\ p = m))
  /\ p \in 1 .. m /\ p \notin inLoop /\ edges'[p] = {header}
  /\ {q \in DOMAIN edges' : header \in edges'[q]} \ inLoop = {p}
  /\ \A d, b \in 1 .. Size : Cuts(edges, Entry, d, b) => Cuts(edges', Entry, d, b)
  /\ Cuts(edges', Entry, p, header)
  /\ \A q \in 1 .. Size : Cuts(edges, Entry, q, header) /\ q # header => Cuts(edges', Entry, q, p)

LEMMA LoopHeader ==
  ASSUME NEW e, LoopFacts(e)
  PROVE  /\ header \in Blocks /\ header \in inLoop /\ header # Entry /\ inLoop \subseteq Blocks
         /\ Blocks \subseteq 1 .. Size /\ DOMAIN edges = 1 .. Size /\ Size \in Nat \ {0}
         /\ \A q \in inLoop : Cuts(edges, Entry, header, q)
<1>1. /\ Known /\ Preds(succ, Entry) = {} /\ Connected(Size, edges, Entry)
      /\ N <= Size /\ Kept /\ e \in BackEdges /\ header = e[2] /\ inLoop = LoopBlocks(e)
  BY DEF LoopFacts, Current
<1>2. /\ header \in inLoop /\ inLoop \subseteq Blocks /\ Entry \notin inLoop
      /\ \A q \in inLoop : Dominates(succ, header, q)
  BY <1>1, LoopShape
<1>3. Size \in Nat /\ DOMAIN edges = 1 .. Size /\ Entry \in 1 .. Size
  BY <1>1 DEF Connected, GraphOf
<1>4. Blocks \subseteq 1 .. Size
  BY <1>1, <1>3, BlocksAssumption DEF Blocks
<1>5. \A q \in inLoop : Cuts(edges, Entry, header, q)
  BY <1>1, <1>2 DEF Kept
<1> QED BY <1>2, <1>3, <1>4, <1>5

LEMMA ExistingWay ==
  ASSUME NEW e, LoopFacts(e), Ready, header # None, NEW p \in Existing, UNCHANGED edges
  PROVE  Preheader(Size, p)
<1>1. Connected(Size, edges, Entry)
  BY DEF LoopFacts
<1>2. /\ header \in Blocks /\ header \in inLoop /\ header # Entry
      /\ Blocks \subseteq 1 .. Size /\ DOMAIN edges = 1 .. Size
      /\ \A q \in inLoop : Cuts(edges, Entry, header, q)
  BY LoopHeader
<1>3. Outside = {p} /\ edges[p] = {header}
  BY DEF Existing, Ready
<1>4. p \in 1 .. Size /\ p \notin inLoop /\ \A q \in 1 .. Size : header \in edges[q] => q = p \/ q \in inLoop
  BY <1>2, <1>3 DEF Outside
<1>5. p # header /\ header \in edges[p] /\ header \in 1 .. Size
  BY <1>2, <1>3, <1>4
<1>6. \A q \in 1 .. Size : header \in edges[q] => q = p \/ Cuts(edges, Entry, header, q)
  BY <1>2, <1>4
<1>7. /\ Cuts(edges, Entry, p, header)
      /\ \A q \in 1 .. Size : Cuts(edges, Entry, q, header) /\ q # header => Cuts(edges, Entry, q, p)
  BY <1>1, <1>2, <1>4, <1>5, <1>6, OnlyWayIn
<1>8. Size' = Size
  BY DEF Size
<1>9. {q \in DOMAIN edges : header \in edges[q]} \ inLoop = {p}
  BY <1>3 DEF Outside
<1> QED BY <1>1, <1>3, <1>4, <1>7, <1>8, <1>9 DEF Preheader

LEMMA CreatedGraph ==
  ASSUME NEW e, LoopFacts(e), CreatePreheader
  PROVE  /\ Inserted(Size, edges, header, Outside, edges') /\ Outside # {}
         /\ NewBlock = Size + 1 /\ Preheader(Size + 1, Size + 1)
<1>1. Connected(Size, edges, Entry)
  BY DEF LoopFacts
<1>2. /\ header \in Blocks /\ header \in inLoop /\ header # Entry /\ inLoop \subseteq Blocks
      /\ Blocks \subseteq 1 .. Size /\ DOMAIN edges = 1 .. Size /\ Size \in Nat \ {0}
      /\ \A q \in inLoop : Cuts(edges, Entry, header, q)
  BY LoopHeader
<1>3. NewBlock = Size + 1
  BY <1>2, NextIsNew
<1>4. PICK n : n = Size + 1
  OBVIOUS
<1>5. PICK g : g = [p \in DOMAIN edges |-> Redirected(p)]
  OBVIOUS
<1>6. edges' = With(g, n, {header})
  BY <1>3, <1>4, <1>5 DEF CreatePreheader
<1>7. 1 .. n = (1 .. Size) \cup {n} /\ n \notin 1 .. Size
  BY <1>2, <1>4
<1>8. edges' = [p \in 1 .. n |-> IF p = n THEN {header}
                                 ELSE IF p \in Outside THEN (edges[p] \ {header}) \cup {n} ELSE edges[p]]
  <2>1. \A p \in 1 .. Size : g[p] = IF p \in Outside THEN (edges[p] \ {header}) \cup {n} ELSE edges[p]
    BY <1>2, <1>3, <1>4, <1>5 DEF Redirected
  <2>2. DOMAIN g = 1 .. Size
    BY <1>2, <1>5
  <2>3. edges' = [p \in 1 .. n |-> IF p = n THEN {header} ELSE g[p]]
    BY <1>6, <1>7, <2>2 DEF With
  <2> QED BY <1>7, <2>1, <2>3
<1>9. Outside \subseteq {q \in 1 .. Size : header \in edges[q]}
  BY <1>2 DEF Outside
<1>10. Inserted(Size, edges, header, Outside, edges')
  BY <1>4, <1>8, <1>9 DEF Inserted
<1>11. \A q \in 1 .. Size : header \in edges[q] => q \in Outside \/ Cuts(edges, Entry, header, q)
  BY <1>2 DEF Outside
<1>12. header \in 1 .. Size
  BY <1>2
<1> HIDE DEF Outside
<1>13. /\ Outside # {} /\ Connected(n, edges', Entry)
       /\ \A d, b \in 1 .. Size : Cuts(edges, Entry, d, b) => Cuts(edges', Entry, d, b)
       /\ Cuts(edges', Entry, n, header)
       /\ \A d \in 1 .. Size : Cuts(edges, Entry, d, header) /\ d # header => Cuts(edges', Entry, d, n)
  BY <1>1, <1>2, <1>4, <1>10, <1>11, <1>12, InsertedBlock
<1>14. Size' = n
  <2>1. DOMAIN edges' = 1 .. n /\ n \in Nat
    BY <1>2, <1>4, <1>8
  <2>2. Cardinality(1 .. n) = n
    BY <2>1, FS_Interval
  <2> QED BY <2>1, <2>2 DEF Size
<1>15. edges'[n] = {header} /\ n \in 1 .. n /\ n \notin inLoop
  BY <1>2, <1>4, <1>7, <1>8
<1>16. {q \in DOMAIN edges' : header \in edges'[q]} \ inLoop = {n}
  <2>1. DOMAIN edges' = 1 .. n
    BY <1>8
  <2>2. ASSUME NEW q \in 1 .. Size, header \in edges'[q] PROVE q \in inLoop
    <3>1. q \notin Outside
      BY <1>2, <1>7, <1>8, <2>2
    <3>2. header \in edges[q]
      BY <1>7, <1>8, <2>2, <3>1
    <3> QED BY <1>2, <3>1, <3>2 DEF Outside
  <2> QED BY <1>7, <1>15, <2>1, <2>2
<1> QED BY <1>3, <1>4, <1>10, <1>13, <1>14, <1>15, <1>16 DEF Preheader

(* A new block on edges to the header leaves what the graph was found with.   *)
LEMMA KeptByInsertion ==
  ASSUME NEW e, LoopFacts(e), CreatePreheader, UNCHANGED <<succ, domSets, pending>>
  PROVE  Kept'
<1>1. Kept /\ e \in BackEdges /\ Current(e)
  BY DEF LoopFacts
<1>2. /\ header \in Blocks /\ Blocks \subseteq 1 .. Size /\ Size \in Nat
  BY LoopHeader
<1>3. /\ Inserted(Size, edges, header, Outside, edges') /\ Preheader(Size + 1, Size + 1)
  BY CreatedGraph
<1>4. \A b \in Blocks : edges'[b] = IF b \in Outside THEN (edges[b] \ {header}) \cup {Size + 1} ELSE edges[b]
  BY <1>2, <1>3 DEF Inserted
<1>5. Processed' = Processed
  BY DEF Processed, BackEdges
<1>6. Size + 1 \notin Blocks
  BY <1>2
<1>7. ASSUME NEW b \in Blocks PROVE edges'[b] \cap Blocks \subseteq succ'[b]
  <2>1. edges[b] \cap Blocks \subseteq succ[b]
    BY <1>1 DEF Kept
  <2>2. edges'[b] \cap Blocks \subseteq edges[b] \cap Blocks
    BY <1>4, <1>6
  <2> QED BY <2>1, <2>2
<1>8. ASSUME NEW b \in Blocks, NEW s \in succ'[b] \ edges'[b]
      PROVE  edges'[b] \ Blocks # {} /\ \E d \in Processed' : d[2] = s
  <2>1. CASE s \notin edges[b]
    <3>1. edges[b] \ Blocks # {} /\ \E d \in Processed : d[2] = s
      BY <1>1, <1>8, <2>1 DEF Kept
    <3>2. edges[b] \ Blocks \subseteq edges'[b] \ Blocks
      BY <1>2, <1>4
    <3> QED BY <1>5, <3>1, <3>2
  <2>2. CASE s \in edges[b]
    <3>1. b \in Outside /\ s = header
      BY <1>4, <1>8, <2>2
    <3>2. Size + 1 \in edges'[b] \ Blocks
      BY <1>4, <1>6, <3>1
    <3>3. e \in Processed /\ e[2] = header
      BY <1>1 DEF Current
    <3> QED BY <1>5, <3>1, <3>2, <3>3
  <2> QED BY <2>1, <2>2
<1>9. ASSUME NEW d \in Blocks, NEW b \in Blocks, Dominates(succ', d, b)
      PROVE  Cuts(edges', Entry, d, b)
  <2>1. Cuts(edges, Entry, d, b)
    BY <1>1, <1>9 DEF Kept
  <2> QED BY <1>2, <1>3, <2>1 DEF Preheader
<1> QED BY <1>7, <1>8, <1>9 DEF Kept

(* The instruction that moves reads what is computed before the loop, and all that
   read it come after the preheader.                                          *)
LEMMA ComputedByHoist ==
  ASSUME NEW e, LoopFacts(e), Formed, Placed(Size), Moved, Computed,
         NEW c \in Blocks, parent[c] \in inLoop, CanHoist(c),
         NEW m, NEW p, Preheader(m, p), Move(c, p), code' = code, entry' = Entry
  PROVE  Computed'
<1>1. /\ header \in Blocks /\ header \in inLoop /\ header # Entry /\ inLoop \subseteq Blocks
      /\ Blocks \subseteq 1 .. Size /\ Size \in Nat \ {0}
      /\ \A q \in inLoop : Cuts(edges, Entry, header, q)
  BY LoopHeader
<1>2. /\ parent \in [Blocks -> 1 .. Size] /\ code \in [Blocks -> Instruction]
      /\ entry = Entry /\ Connected(Size, edges, Entry)
  BY DEF Formed
<1>3. /\ Connected(m, edges', Entry) /\ (m = Size \/ (m = Size + 1 /\ p = m))
      /\ p \in 1 .. m /\ p \notin inLoop
      /\ \A d, b \in 1 .. Size : Cuts(edges, Entry, d, b) => Cuts(edges', Entry, d, b)
      /\ Cuts(edges', Entry, p, header)
      /\ \A q \in 1 .. Size : Cuts(edges, Entry, q, header) /\ q # header => Cuts(edges', Entry, q, p)
  BY DEF Preheader
<1>4. m \in Nat /\ p # parent[c]
  BY <1>1, <1>3
<1>5. parent' = [parent EXCEPT ![c] = p]
  BY <1>1, <1>2, <1>3, <1>4, MoveKeepsOrder
<1>6. /\ \A d, x \in Blocks : d # c /\ x # c /\ Precedes(d, x) => Precedes(d, x)'
      /\ \A d \in Blocks : d # c /\ parent[d] = p => Precedes(d, c)'
  <2>1. \A d, x \in Blocks : d # c /\ x # c /\ Precedes(d, x) => Precedes(d, x)'
    BY <1>1, <1>2, <1>3, <1>4, MoveKeepsOrder
  <2>2. \A d \in Blocks : d # c /\ parent[d] = p => Precedes(d, c)'
    BY <1>1, <1>2, <1>3, <1>4, MoveKeepsOrder
  <2> QED BY <2>1, <2>2
<1>7. parent'[c] = p /\ \A d \in Blocks : d # c => parent'[d] = parent[d]
  BY <1>2, <1>5
<1>8. \A x \in Blocks : \A r \in code[x].reads : r \in Blocks
  BY <1>2 DEF Instruction
<1>9. \A b \in Blocks : parent[b] \in 1 .. Size
  BY <1>2
<1>10. PICK b \in inLoop : b = parent[c]
  OBVIOUS
<1>11. header \in 1 .. Size /\ b \in 1 .. Size /\ b \in Blocks
  BY <1>1, <1>10
<1>12. Cuts(edges', Entry, p, b)
  <2>1. Cuts(edges', Entry, header, b)
    BY <1>1, <1>3, <1>10, <1>11
  <2> QED BY <1>3, <2>1, CutsTransitive
<1> SUFFICES ASSUME NEW x \in Blocks, NEW r \in code[x].reads PROVE ComputedBefore(r, x)'
  BY DEF Computed
<1>13. r \in Blocks /\ ComputedBefore(r, x)
  BY <1>8 DEF Computed
<1>14. CASE x = c /\ r = c
  <2>1. Precedes(c, c)
    BY <1>13, <1>14 DEF ComputedBefore
  <2>2. PICK j, k \in 1 .. Len(body[b]) : j < k /\ body[b][j] = c /\ body[b][k] = c
    BY <1>10, <2>1 DEF Precedes
  <2>3. j = k
    BY <1>11, <2>2 DEF Placed
  <2> QED BY <2>2, <2>3
<1>15. CASE x = c /\ r # c
  <2>1. parent[r] \notin inLoop /\ parent[r] \in 1 .. Size
    BY <1>2, <1>9, <1>13, <1>15, OperandOutside
  <2>2. PICK q \in 1 .. Size : q = parent[r] /\ q \notin inLoop /\ q # b /\ q # header
    BY <1>1, <1>10, <2>1
  <2>3. Cuts(edges, Entry, q, b)
    BY <1>2, <1>10, <1>13, <1>15, <2>2 DEF ComputedBefore, Cuts
  <2>4. Cuts(edges, Entry, q, header)
    BY <2>2, <2>3, OutsideCutsHeader
  <2>5. Cuts(edges', Entry, q, p)
    BY <1>3, <2>2, <2>4
  <2>6. parent'[r] = q /\ parent'[x] = p
    BY <1>7, <1>13, <1>15, <2>2
  <2>7. q = p => Precedes(r, x)'
    BY <1>6, <1>13, <1>15, <2>2
  <2>8. q # p => parent'[x] \notin ReachedIn(edges', entry', parent'[r])
    BY <2>5, <2>6 DEF Cuts
  <2> QED BY <2>6, <2>7, <2>8 DEF ComputedBefore
<1>16. CASE x # c /\ r = c
  <2>1. PICK y \in 1 .. Size : y = parent[x]
    BY <1>9
  <2>2. Cuts(edges', Entry, b, y)
    <3>1. CASE y = b
      BY <1>3, <3>1, CutsItself
    <3>2. CASE y # b
      <4>1. Cuts(edges, Entry, b, y)
        BY <1>2, <1>10, <1>13, <1>16, <2>1, <3>2 DEF ComputedBefore, Cuts
      <4> QED BY <1>3, <1>11, <2>1, <4>1
    <3> QED BY <3>1, <3>2
  <2>3. Cuts(edges', Entry, p, y)
    BY <1>3, <1>12, <2>2, CutsTransitive
  <2>4. y # p
    <3> SUFFICES ASSUME y = p PROVE FALSE
      OBVIOUS
    <3>1. b \in 1 .. m
      BY <1>1, <1>3, <1>11
    <3>2. b = p
      BY <1>3, <1>12, <2>2, <3>1, CutsAntisymmetric
    <3> QED BY <1>3, <3>2
  <2>5. parent'[r] = p /\ parent'[x] = y
    BY <1>7, <1>16, <2>1
  <2> QED BY <2>3, <2>4, <2>5 DEF ComputedBefore, Cuts
<1>17. CASE x # c /\ r # c
  <2>1. parent'[r] = parent[r] /\ parent'[x] = parent[x]
    BY <1>7, <1>13, <1>17
  <2>2. CASE parent[r] = parent[x]
    <3>1. Precedes(r, x)'
      BY <1>6, <1>13, <1>17, <2>2 DEF ComputedBefore
    <3> QED BY <2>1, <2>2, <3>1 DEF ComputedBefore
  <2>3. CASE parent[r] # parent[x]
    <3>1. Cuts(edges, Entry, parent[r], parent[x])
      BY <1>2, <1>13, <2>3 DEF ComputedBefore, Cuts
    <3>2. Cuts(edges', Entry, parent[r], parent[x])
      BY <1>3, <1>9, <1>13, <3>1
    <3> QED BY <2>1, <2>3, <3>2 DEF ComputedBefore, Cuts
  <2> QED BY <2>2, <2>3
<1> QED BY <1>14, <1>15, <1>16, <1>17

(* The phis of the header and of the new block have the operands that the edges into
   them ask for.                                                              *)
LEMMA PhisByInsertion ==
  ASSUME NEW e, LoopFacts(e), Formed, PhisMatch, CreatePreheader, code' = code
  PROVE  PhisMatch' /\ entries' \in [1 .. Size + 1 -> SUBSET (1 .. Size + 1)]
<1>1. /\ header \in Blocks /\ inLoop \subseteq Blocks
      /\ Blocks \subseteq 1 .. Size /\ DOMAIN edges = 1 .. Size /\ Size \in Nat \ {0}
  BY LoopHeader
<1>2. /\ Inserted(Size, edges, header, Outside, edges') /\ Outside # {}
      /\ NewBlock = Size + 1 /\ Preheader(Size + 1, Size + 1)
  BY CreatedGraph
<1>3. PICK n : n = Size + 1
  OBVIOUS
<1>4. 1 .. n = (1 .. Size) \cup {n} /\ n \notin 1 .. Size /\ n \notin Blocks
  BY <1>1, <1>3
<1>5. /\ DOMAIN edges' = 1 .. n /\ edges'[n] = {header}
      /\ \A q \in 1 .. Size : edges'[q] = IF q \in Outside THEN (edges[q] \ {header}) \cup {n} ELSE edges[q]
      /\ Outside \subseteq 1 .. Size /\ \A q \in Outside : header \in edges[q]
  BY <1>2, <1>3, <1>4 DEF Inserted
<1>6. edges \in [1 .. Size -> SUBSET (1 .. Size)] /\ entries \in [1 .. Size -> SUBSET (1 .. Size)]
  BY DEF Formed, Connected, GraphOf
<1>7. Size' = n
  BY <1>2, <1>3 DEF Preheader
<1> DEFINE several == Cardinality(Outside) > 1
           moved == entries[header] \cap Outside
           phi == IF code[header].kind = "phi" /\ (several \/ moved # {})
                  THEN (entries[header] \ Outside) \cup {n} ELSE entries[header]
           own == IF several THEN moved ELSE {}
<1>8. entries' = With([entries EXCEPT ![header] = phi], n, own)
  BY <1>2, <1>3 DEF CreatePreheader
<1> HIDE DEF several
<1>9. phi \subseteq 1 .. n /\ own \subseteq 1 .. n
  BY <1>1, <1>4, <1>6
<1> HIDE DEF phi, own
<1>10. /\ DOMAIN entries' = 1 .. n /\ entries'[n] = own /\ entries'[header] = phi
       /\ \A b \in 1 .. Size : b # header => entries'[b] = entries[b]
       /\ entries' = [b \in 1 .. n |-> entries'[b]]
  <2> DEFINE f == [entries EXCEPT ![header] = phi]
  <2>1. DOMAIN f = 1 .. Size /\ f[header] = phi /\ \A b \in 1 .. Size : b # header => f[b] = entries[b]
    BY <1>1, <1>6
  <2>2. entries' = With(f, n, own)
    BY <1>8
  <2> HIDE DEF f
  <2>3. entries' = [b \in 1 .. n |-> IF b = n THEN own ELSE f[b]]
    BY <1>4, <2>1, <2>2 DEF With
  <2>4. header \in 1 .. Size
    BY <1>1
  <2> QED BY <1>4, <2>1, <2>3, <2>4
<1>11. entries' \in [1 .. n -> SUBSET (1 .. n)]
  <2>1. \A b \in 1 .. n : entries'[b] \subseteq 1 .. n
    BY <1>4, <1>6, <1>9, <1>10
  <2> QED BY <1>10, <2>1
<1>22. PICK h \in Blocks : h = header
  BY <1>1
<1>12. PredsNow(h)' = (PredsNow(h) \ Outside) \cup {n}
  <2>1. \A q \in 1 .. Size : h \in edges'[q] <=> h \in edges[q] /\ q \notin Outside
    BY <1>1, <1>4, <1>5, <1>22
  <2>2. h \in edges'[n]
    BY <1>5, <1>22
  <2>3. {q \in 1 .. n : h \in edges'[q]} = ({q \in 1 .. Size : h \in edges[q]} \ Outside) \cup {n}
    BY <1>4, <2>1, <2>2
  <2>4. PredsNow(h)' = {q \in 1 .. n : h \in edges'[q]}
    BY <1>5 DEF PredsNow
  <2>5. PredsNow(h) = {q \in 1 .. Size : h \in edges[q]}
    BY <1>1 DEF PredsNow
  <2> QED BY <2>3, <2>4, <2>5
<1>13. \A q \in 1 .. n : n \in edges'[q] <=> q \in Outside
  BY <1>1, <1>4, <1>5, <1>6
<1>14. ASSUME NEW b \in 1 .. Size, b # header PROVE PredsNow(b)' = PredsNow(b)
  <2>1. \A q \in 1 .. Size : b \in edges'[q] <=> b \in edges[q]
    BY <1>4, <1>5, <1>14
  <2>2. b \notin edges'[n]
    BY <1>5, <1>14
  <2> QED BY <1>1, <1>4, <1>5, <2>1, <2>2 DEF PredsNow
<1>15. PhisMatch
  OBVIOUS
<1>16. HasPhi(header) => entries[header] = PredsNow(header) /\ moved = Outside
  <2>1. HasPhi(header) => entries[header] = PredsNow(header)
    BY <1>1, <1>15 DEF PhisMatch
  <2>2. Outside \subseteq PredsNow(header)
    BY <1>1, <1>5 DEF PredsNow
  <2> QED BY <2>1, <2>2
<1>17. ~HasPhi(header) => entries[header] = {}
  BY <1>1, <1>15 DEF PhisMatch
<1>18. HasPhi(header) <=> code[header].kind = "phi"
  BY <1>1 DEF HasPhi
<1>19. ASSUME NEW b \in Blocks PROVE HasPhi(b)' <=> HasPhi(b)
  BY DEF HasPhi
<1>20. ASSUME NEW b \in 1 .. n, HasPhi(b)' PROVE entries'[b] = PredsNow(b)'
  <2>1. CASE b = n
    <3>1. own # {}
      BY <1>4, <1>10, <1>20, <2>1 DEF HasPhi
    <3>2. own = moved
      BY <3>1 DEF own
    <3>3. HasPhi(header)
      BY <1>17, <3>1, <3>2
    <3>4. PredsNow(n)' = Outside
      BY <1>4, <1>5, <1>13 DEF PredsNow
    <3> QED BY <1>10, <1>16, <2>1, <3>2, <3>3, <3>4
  <2>2. CASE b = header
    <3>1. HasPhi(header)
      BY <1>1, <1>19, <1>20, <2>2
    <3>2. phi = (entries[header] \ Outside) \cup {n}
      BY <1>2, <1>16, <1>18, <3>1 DEF phi
    <3>3. entries'[b] = (PredsNow(h) \ Outside) \cup {n}
      BY <1>10, <1>16, <1>22, <2>2, <3>1, <3>2
    <3>4. b = h
      BY <1>22, <2>2
    <3>5. PredsNow(b)' = PredsNow(h)'
      BY <3>4
    <3> QED BY <1>12, <3>3, <3>5
  <2>3. CASE b # n /\ b # header
    <3>1. b \in 1 .. Size
      BY <1>4, <2>3
    <3>2. entries'[b] = entries[b] /\ PredsNow(b)' = PredsNow(b)
      BY <1>10, <1>14, <2>3, <3>1
    <3>3. HasPhi(b)
      BY <1>20, <3>2 DEF HasPhi
    <3> QED BY <1>15, <3>1, <3>2, <3>3 DEF PhisMatch
  <2> QED BY <2>1, <2>2, <2>3
<1>21. ASSUME NEW b \in Blocks, ~HasPhi(b)' PROVE entries'[b] = {}
  <2>1. entries[b] = {}
    BY <1>15, <1>19, <1>21 DEF PhisMatch
  <2>2. CASE b = header
    BY <1>10, <1>18, <1>19, <1>21, <2>1, <2>2 DEF phi
  <2>3. CASE b # header
    BY <1>1, <1>10, <2>1, <2>3
  <2> QED BY <2>2, <2>3
<1> QED BY <1>3, <1>7, <1>11, <1>20, <1>21 DEF PhisMatch

(* Where an instruction is hoisted to, whether the block was there before or not. *)
LEMMA HoistsTo ==
  ASSUME MotionInv, OuterFirst, Preds(succ, Entry) = {}, NEW c \in Blocks, Hoist(c)
  PROVE  \E e \in BackEdges, m \in Nat :
           /\ LoopFacts(e) /\ Preheader(m, preheader') /\ Move(c, preheader')
           /\ entry' = Entry /\ Kept' /\ PhisMatch' /\ entries' \in [1 .. m -> SUBSET (1 .. m)]
<1>1. Known /\ Formed /\ Kept /\ Ordered /\ Ready /\ PhisMatch
  BY DEF MotionInv
<1>2. /\ header # None /\ Move(c, preheader') /\ code' = code
      /\ UNCHANGED vars /\ UNCHANGED <<pending, header, inLoop>>
  BY DEF Hoist
<1>3. UNCHANGED <<succ, domSets, pending>>
  BY <1>2 DEF vars, analysis
<1>4. PICK e \in BackEdges : LoopFacts(e)
  BY <1>1, <1>2 DEF Ordered, LoopFacts, Formed
<1>5. /\ header \in Blocks /\ header # Entry /\ Size \in Nat
  BY <1>4, LoopHeader
<1>6. entry = Entry /\ entries \in [1 .. Size -> SUBSET (1 .. Size)]
  BY <1>1 DEF Formed
<1>7. CASE Existing # {}
  <2>1. preheader' \in Existing /\ UNCHANGED <<entry, edges, entries>>
    BY <1>7 DEF Hoist
  <2>2. Preheader(Size, preheader')
    BY <1>1, <1>2, <1>4, <2>1, ExistingWay
  <2>3. Kept'
    BY <1>1, <1>3, <2>1 DEF Kept, Processed, BackEdges
  <2>4. PhisMatch'
    BY <1>1, <1>2, <2>1 DEF PhisMatch, HasPhi, PredsNow, Size
  <2> QED BY <1>2, <1>4, <1>5, <1>6, <2>1, <2>2, <2>3, <2>4
<1>8. CASE ~(Existing # {})
  <2>1. preheader' = NewBlock /\ CreatePreheader
    BY <1>8 DEF Hoist
  <2>2. Preheader(Size + 1, preheader')
    BY <1>4, <2>1, CreatedGraph
  <2>3. Kept'
    BY <1>3, <1>4, <2>1, KeptByInsertion
  <2>4. PhisMatch' /\ entries' \in [1 .. Size + 1 -> SUBSET (1 .. Size + 1)]
    BY <1>1, <1>2, <1>4, <2>1, PhisByInsertion
  <2>5. entry' = Entry
    BY <1>5, <1>6, <2>1 DEF CreatePreheader
  <2> QED BY <1>2, <1>4, <1>5, <2>2, <2>3, <2>4, <2>5
<1> QED BY <1>7, <1>8

LEMMA HoistKeeps ==
  ASSUME MotionInv, OuterFirst, Preds(succ, Entry) = {}, NEW c \in Blocks, Hoist(c)
  PROVE  MotionInv'
<1>1. /\ Known /\ Formed /\ Placed(Size) /\ Kept /\ Ordered /\ Ready /\ Moved /\ Computed
      /\ PhisMatch
  BY DEF MotionInv
<1>2. /\ parent[c] \in inLoop /\ CanHoist(c) /\ hoisted' = hoisted \cup {c}
      /\ code' = code /\ UNCHANGED vars /\ UNCHANGED <<pending, header, inLoop>>
  BY DEF Hoist
<1>3. UNCHANGED <<succ, domSets>>
  BY <1>2 DEF vars, analysis
<1>4. PICK e \in BackEdges, m \in Nat :
        /\ LoopFacts(e) /\ Preheader(m, preheader') /\ Move(c, preheader')
        /\ entry' = Entry /\ Kept' /\ PhisMatch' /\ entries' \in [1 .. m -> SUBSET (1 .. m)]
  BY HoistsTo
<1>5. PICK p : p = preheader'
  OBVIOUS
<1>6. /\ Size' = m /\ Connected(m, edges', Entry) /\ (m = Size \/ (m = Size + 1 /\ p = m))
      /\ p \in 1 .. m /\ p \notin inLoop /\ edges'[p] = {header}
      /\ {q \in DOMAIN edges' : header \in edges'[q]} \ inLoop = {p}
      /\ \A d, b \in 1 .. Size : Cuts(edges, Entry, d, b) => Cuts(edges', Entry, d, b)
      /\ Cuts(edges', Entry, p, header)
  BY <1>4, <1>5 DEF Preheader
<1>7. /\ header \in Blocks /\ inLoop \subseteq Blocks /\ Blocks \subseteq 1 .. Size
      /\ Size \in Nat /\ header = e[2] /\ inLoop = LoopBlocks(e) /\ e \in Processed
  BY <1>4, LoopHeader DEF LoopFacts, Current
<1>8. /\ parent \in [Blocks -> 1 .. Size] /\ code \in [Blocks -> Instruction] /\ N <= Size
  BY <1>1 DEF Formed
<1>9. Move(c, p) /\ p # parent[c]
  BY <1>2, <1>4, <1>5, <1>6
<1>10. parent' = [parent EXCEPT ![c] = p]
  BY <1>1, <1>6, <1>7, <1>8, <1>9, MoveKeepsOrder
<1>11. Formed'
  <2>1. parent' \in [Blocks -> 1 .. m]
    BY <1>6, <1>7, <1>8, <1>10
  <2>2. N <= m
    BY <1>6, <1>7, <1>8, BlocksAssumption
  <2> QED BY <1>2, <1>4, <1>6, <1>8, <2>1, <2>2 DEF Formed
<1>12. Placed(Size)'
  <2>1. body' \in [1 .. m -> Seq(Blocks)]
    BY <1>1, <1>6, <1>7, <1>8, <1>9, MoveKeepsOrder
  <2>2. \A b \in 1 .. m : \A i, j \in 1 .. Len(body'[b]) :
          parent'[body'[b][i]] = b /\ (body'[b][i] = body'[b][j] => i = j)
    BY <1>1, <1>6, <1>7, <1>8, <1>9, MoveKeepsOrder
  <2>3. \A d \in Blocks : \E i \in 1 .. Len(body'[parent'[d]]) : body'[parent'[d]][i] = d
    BY <1>1, <1>6, <1>7, <1>8, <1>9, MoveKeepsOrder
  <2> QED BY <1>6, <2>1, <2>2, <2>3 DEF Placed
<1>13. Known'
  BY <1>1, <1>3 DEF Known, BackEdges
<1>14. Processed' = Processed /\ BackEdges' = BackEdges
  BY <1>2, <1>3 DEF Processed, BackEdges
<1>15. \A d : LoopBlocks(d)' = LoopBlocks(d)
  BY <1>3 DEF LoopBlocks
<1>16. Ordered'
  BY <1>1, <1>2, <1>14, <1>15 DEF Ordered, Current
<1>17. Ready'
  <2>1. Outside' = {p}
    BY <1>2, <1>6 DEF Outside
  <2> QED BY <1>2, <1>5, <1>6, <2>1 DEF Ready
<1>18. Moved'
  <2> SUFFICES ASSUME NEW a \in hoisted \cup {c}
               PROVE  a \in Blocks /\ \E d \in Processed :
                        /\ parent'[a] \notin LoopBlocks(d)
                        /\ parent'[a] \in Blocks => /\ succ[parent'[a]] = {d[2]}
                                                    /\ Cuts(edges', Entry, parent'[a], d[2])
    BY <1>2, <1>3, <1>14, <1>15 DEF Moved
  <2>1. CASE a = c
    <3>1. parent'[a] = p /\ a \in Blocks
      BY <1>8, <1>10, <2>1
    <3>2. ASSUME p \in Blocks PROVE succ[p] = {header}
      <4>1. edges'[p] \cap Blocks \subseteq succ[p]
        BY <1>3, <1>4, <3>2 DEF Kept
      <4>2. ASSUME NEW s \in succ[p] \ edges'[p] PROVE FALSE
        <5>1. edges'[p] \ Blocks # {}
          BY <1>3, <1>4, <3>2, <4>2 DEF Kept
        <5> QED BY <1>6, <1>7, <5>1
      <4> QED BY <1>6, <1>7, <4>1, <4>2
    <3> QED BY <1>6, <1>7, <3>1, <3>2
  <2>2. CASE a # c
    <3>1. a \in Blocks /\ parent'[a] = parent[a]
      BY <1>1, <1>8, <1>10, <2>2 DEF Moved
    <3>2. PICK d \in Processed :
            /\ parent[a] \notin LoopBlocks(d)
            /\ parent[a] \in Blocks => succ[parent[a]] = {d[2]} /\ Cuts(edges, Entry, parent[a], d[2])
      BY <1>1, <2>2 DEF Moved
    <3>3. d[2] \in Blocks
      BY <3>2 DEF Processed, BackEdges
    <3> QED BY <1>6, <1>7, <3>1, <3>2, <3>3
  <2> QED BY <2>1, <2>2
<1>19. Computed'
  <2>1. Preheader(m, p)
    BY <1>4, <1>5
  <2> QED BY <1>1, <1>2, <1>4, <1>9, <2>1, ComputedByHoist
<1> QED BY <1>4, <1>11, <1>12, <1>13, <1>16, <1>17, <1>18, <1>19 DEF MotionInv

(* Before the loops are found the function is as it was parsed.               *)
Untouched ==
  /\ entry = Entry /\ edges = succ
  /\ body = [b \in Blocks |-> <<b>>] /\ parent = [c \in Blocks |-> c]
  /\ pending = {} /\ hoisted = {} /\ header = None /\ inLoop = {} /\ preheader = None

LEMMA ReachedAtFirst ==
  ASSUME succ \in [Blocks -> SUBSET Blocks], AllReachable(succ)
  PROVE  /\ Connected(N, succ, Entry)
         /\ \A d, b \in Blocks : Dominates(succ, d, b) => Cuts(succ, Entry, d, b)
<1>1. GraphOf(N, succ) /\ Entry \in 1 .. N /\ N \in Nat
  BY BlocksAssumption, EntryIsBlock DEF GraphOf, Blocks
<1>2. ASSUME NEW b \in 1 .. N PROVE b \in ReachedIn(succ, Entry, None)
  <2>1. PICK T : T = ReachedIn(succ, Entry, None)
    OBVIOUS
  <2>2. /\ {Entry} \ {None} \subseteq T /\ \A x \in T : succ[x] \ {None} \subseteq T
        /\ T \subseteq 1 .. N
    BY <1>1, <2>1, ReachedClosed
  <2>3. None \notin Blocks
    BY BlocksAssumption DEF None, Blocks
  <2>4. {Entry} \ {} \subseteq T
    BY <2>2, <2>3, EntryIsBlock
  <2>5. \A x \in T : succ[x] \ {} \subseteq T
    BY <2>2, <2>3 DEF Blocks
  <2>6. ReachAvoiding(succ, {Entry}, {}) \subseteq T
    BY <2>4, <2>5, ReachLeast
  <2> QED BY <2>1, <2>6 DEF AllReachable, Reachable, Blocks
<1>3. ASSUME NEW d \in Blocks, NEW b \in Blocks, Dominates(succ, d, b) PROVE Cuts(succ, Entry, d, b)
  <2>1. PICK T : T = ReachAvoiding(succ, {Entry}, {d})
    OBVIOUS
  <2>2. {Entry} \ {d} \subseteq T /\ \A x \in T : succ[x] \ {d} \subseteq T
    <3>1. {Entry} \in SUBSET Blocks
      BY EntryIsBlock
    <3> QED BY <2>1, <3>1, ReachClosed
  <2>3. ReachedIn(succ, Entry, d) \subseteq T
    BY <1>1, <2>2, ReachedLeast
  <2> QED BY <1>3, <2>1, <2>3 DEF Dominates, Cuts
<1> QED BY <1>1, <1>2, <1>3 DEF Connected

(* The loops that are found are those of the dominators.                      *)
LEMMA FindLoopsStarts ==
  ASSUME SetsInv, Untouched, FindLoops
  PROVE  MotionInv'
<1>1. TypeOK /\ Stable /\ AbovePaths /\ phase = "done"
  BY DEF SetsInv, FindLoops
<1>2. Exact
  BY <1>1, FixpointExact
<1>3. /\ UNCHANGED <<succ, domSets>> /\ pending' = BackEdges
      /\ UNCHANGED <<entry, edges, body, parent, header, inLoop, preheader, hoisted>>
  BY DEF FindLoops, analysed, analysis
<1>4. PICK C \in Codes : /\ WellFormed(C) /\ code' = C
                         /\ entries' = [b \in Blocks |-> IF C[b].kind = "phi" THEN Preds(succ, b) ELSE {}]
  BY DEF FindLoops
<1>5. succ \in [Blocks -> SUBSET Blocks] /\ AllReachable(succ) /\ N \in Nat \ {0}
  BY <1>1, <1>4, BlocksAssumption DEF TypeOK, WellFormed
<1>6. C \in [Blocks -> Instruction]
  BY CodesAssumption
<1>7. /\ Connected(N, succ, Entry)
      /\ \A d, b \in Blocks : Dominates(succ, d, b) => Cuts(succ, Entry, d, b)
  BY <1>5, ReachedAtFirst
<1>8. DOMAIN succ = 1 .. N /\ Blocks = 1 .. N
  BY <1>5 DEF Blocks
<1>9. Size' = N
  <2>1. Cardinality(1 .. N) = N
    BY <1>5, FS_Interval
  <2>2. edges' = succ
    BY <1>3 DEF Untouched
  <2> QED BY <1>8, <2>1, <2>2 DEF Size
<1>10. /\ edges' = succ /\ entry' = Entry /\ parent' = [c \in Blocks |-> c]
       /\ body' = [b \in Blocks |-> <<b>>] /\ hoisted' = {} /\ header' = None
  BY <1>3 DEF Untouched
<1>11. Known'
  <2>1. \A e \in BackEdges : Dominates(succ, e[2], e[1])
    <3> SUFFICES ASSUME NEW e \in BackEdges PROVE Dominates(succ, e[2], e[1])
      OBVIOUS
    <3>1. e[1] \in Blocks /\ e[2] \in DomSetOf(succ, e[1])
      BY <1>2 DEF BackEdges, Exact
    <3>2. e[1] \notin ReachAvoiding(succ, Roots(succ), {e[2]})
      BY <3>1 DEF DomSetOf
    <3>3. PICK T : T = ReachAvoiding(succ, Roots(succ), {e[2]})
      OBVIOUS
    <3>4. Roots(succ) \ {e[2]} \subseteq T /\ \A x \in T : succ[x] \ {e[2]} \subseteq T
      <4>1. PICK S \in SUBSET Blocks : S = Roots(succ)
        BY RootsType
      <4>2. PICK D : D = {e[2]}
        OBVIOUS
      <4>3. T = ReachAvoiding(succ, S, D)
        BY <3>3, <4>1, <4>2
      <4>4. succ \in [Blocks -> SUBSET Blocks]
        BY <1>5
      <4>5. S \ D \subseteq T /\ \A x \in T : succ[x] \ D \subseteq T
        BY <4>3, <4>4, ReachClosed
      <4> QED BY <4>1, <4>2, <4>5
    <3>5. {Entry} \ {e[2]} \subseteq T
      BY <3>4 DEF Roots
    <3>6. ReachAvoiding(succ, {Entry}, {e[2]}) \subseteq T
      BY <3>4, <3>5, ReachLeast
    <3> QED BY <3>2, <3>3, <3>6 DEF Dominates
  <2>2. BackEdges' = BackEdges
    BY <1>3 DEF BackEdges
  <2> QED BY <1>3, <1>5, <2>1, <2>2 DEF Known
<1>12. Formed'
  <2>1. parent' \in [Blocks -> 1 .. N]
    BY <1>8, <1>10
  <2>2. entries' \in [1 .. N -> SUBSET (1 .. N)]
    BY <1>4, <1>8 DEF Preds
  <2> QED BY <1>4, <1>5, <1>6, <1>7, <1>9, <1>10, <2>1, <2>2 DEF Formed
<1>13. Placed(Size)'
  <2>1. \A b \in Blocks : body'[b] = <<b>> /\ parent'[b] = b
    BY <1>10
  <2>2. body' \in [1 .. N -> Seq(Blocks)]
    BY <1>8, <1>10
  <2>3. \A b \in Blocks : Len(body'[b]) = 1 /\ body'[b][1] = b
    BY <2>1
  <2>4. \A b \in 1 .. N : \A i, j \in 1 .. Len(body'[b]) :
          parent'[body'[b][i]] = b /\ (body'[b][i] = body'[b][j] => i = j)
    BY <1>8, <2>1, <2>3
  <2>5. \A c \in Blocks : \E i \in 1 .. Len(body'[parent'[c]]) : body'[parent'[c]][i] = c
    BY <2>1, <2>3
  <2> QED BY <1>9, <2>2, <2>4, <2>5 DEF Placed
<1>14. Processed' = {} /\ pending' = BackEdges'
  BY <1>3 DEF Processed, BackEdges
<1>15. Kept'
  <2>1. \A b \in Blocks : edges'[b] \cap Blocks \subseteq succ'[b] /\ succ'[b] \ edges'[b] = {}
    BY <1>3, <1>10
  <2>2. \A d, b \in Blocks : Dominates(succ', d, b) => Cuts(edges', Entry, d, b)
    BY <1>3, <1>7, <1>10
  <2> QED BY <2>1, <2>2 DEF Kept
<1>16. Ordered' /\ Ready' /\ Moved'
  BY <1>10, <1>14 DEF Ordered, Ready, Moved
<1>17. Computed'
  <2> SUFFICES ASSUME NEW c \in Blocks, NEW r \in C[c].reads PROVE ComputedBefore(r, c)'
    BY <1>4 DEF Computed
  <2>1. r \in Blocks /\ StrictlyDominates(succ, r, c)
    BY <1>4, <1>6 DEF WellFormed, Instruction
  <2>2. r # c /\ Cuts(succ, Entry, r, c)
    BY <1>7, <2>1 DEF StrictlyDominates
  <2>3. parent'[r] = r /\ parent'[c] = c
    BY <1>10, <2>1
  <2> QED BY <1>10, <2>2, <2>3 DEF ComputedBefore, Cuts
<1>18. PhisMatch'
  <2>1. \A b \in Blocks : HasPhi(b)' <=> C[b].kind = "phi"
    BY <1>4 DEF HasPhi
  <2>2. \A b \in Blocks : PredsNow(b)' = Preds(succ, b)
    BY <1>8, <1>10 DEF PredsNow, Preds
  <2>3. \A b \in Blocks : entries'[b] = IF C[b].kind = "phi" THEN Preds(succ, b) ELSE {}
    BY <1>4
  <2> QED BY <1>8, <1>9, <2>1, <2>2, <2>3 DEF PhisMatch
<1> QED BY <1>11, <1>12, <1>13, <1>15, <1>16, <1>17, <1>18 DEF MotionInv

(* Nothing but the order of the loops is at stake between two loops.          *)
Still == UNCHANGED <<succ, domSets, code, function, hoisted>>

LEMMA StillFrame ==
  ASSUME MotionInv, Still, BackEdges \ pending \subseteq BackEdges \ pending'
  PROVE  Known' /\ Formed' /\ Placed(Size)' /\ Kept' /\ Moved' /\ Computed' /\ PhisMatch'
<1>1. /\ Known /\ Formed /\ Placed(Size) /\ Kept /\ Moved /\ Computed /\ PhisMatch
  BY DEF MotionInv
<1>2. /\ UNCHANGED <<succ, domSets, code, hoisted>>
      /\ UNCHANGED <<entry, edges, body, parent, entries>>
  BY DEF Still, function
<1>3. Size' = Size /\ BackEdges' = BackEdges
  BY <1>2 DEF Size, BackEdges
<1>4. Processed \subseteq Processed'
  BY <1>3 DEF Processed
<1>5. Known'
  BY <1>1, <1>2, <1>3 DEF Known
<1>6. Formed' /\ Placed(Size)'
  BY <1>1, <1>2, <1>3 DEF Formed, Placed
<1>7. Kept'
  BY <1>1, <1>2, <1>4 DEF Kept
<1>8. Moved'
  <2>1. \A d : LoopBlocks(d)' = LoopBlocks(d)
    BY <1>2 DEF LoopBlocks
  <2> QED BY <1>1, <1>2, <1>4, <2>1 DEF Moved
<1>9. Computed'
  <2>1. \A d, c : ComputedBefore(d, c)' <=> ComputedBefore(d, c)
    BY <1>2 DEF ComputedBefore, Precedes
  <2> QED BY <1>1, <1>2, <2>1 DEF Computed
<1>10. PhisMatch'
  BY <1>1, <1>2, <1>3 DEF PhisMatch, HasPhi, PredsNow
<1> QED BY <1>5, <1>6, <1>7, <1>8, <1>9, <1>10

LEMMA NextLoopKeeps ==
  ASSUME MotionInv, NEW e \in pending, NextLoop(e)
  PROVE  MotionInv'
<1>1. /\ (\A d \in pending : e[1] <= d[1]) /\ header' = e[2] /\ inLoop' = LoopBlocks(e)
      /\ preheader' = None /\ pending' = pending \ {e} /\ UNCHANGED vars /\ Still
  BY DEF NextLoop, Still, vars, analysis
<1>2. Ordered
  BY DEF MotionInv
<1>3. UNCHANGED <<succ, domSets>>
  BY <1>1 DEF Still
<1>4. BackEdges' = BackEdges /\ e \in BackEdges
  BY <1>2, <1>3 DEF BackEdges, Ordered
<1>5. Processed' = Processed \cup {e}
  BY <1>1, <1>4 DEF Processed
<1>6. /\ Known' /\ Formed' /\ Placed(Size)' /\ Kept' /\ Moved' /\ Computed' /\ PhisMatch'
  BY <1>1, StillFrame
<1>7. Ready'
  BY <1>1 DEF Ready
<1>8. \A d \in Processed : d[1] <= e[1]
  BY <1>2 DEF Ordered
<1>9. e[1] \in Nat
  BY <1>4, BlocksAssumption DEF BackEdges, Blocks
<1>10. Ordered'
  <2>1. pending' \subseteq BackEdges'
    BY <1>1, <1>2, <1>4 DEF Ordered
  <2>2. \A d \in Processed', a \in pending' : d[1] <= a[1]
    BY <1>1, <1>2, <1>5 DEF Ordered
  <2>3. Current(e)'
    <3>1. LoopBlocks(e)' = LoopBlocks(e)
      BY <1>3 DEF LoopBlocks
    <3>2. \A d \in Processed' : d[1] <= e[1]
      BY <1>5, <1>8, <1>9
    <3> QED BY <1>1, <1>5, <3>1, <3>2 DEF Current
  <2> QED BY <1>4, <2>1, <2>2, <2>3 DEF Ordered
<1> QED BY <1>6, <1>7, <1>10 DEF MotionInv

LEMMA RestKeeps ==
  ASSUME MotionInv, Still, pending' = pending,
         header' = None \/ UNCHANGED <<header, inLoop, preheader>>
  PROVE  MotionInv'
<1>1. Ordered /\ Ready
  BY DEF MotionInv
<1>2. UNCHANGED <<succ, domSets, edges>>
  BY DEF Still, function
<1>3. BackEdges' = BackEdges /\ Processed' = Processed /\ \A d : LoopBlocks(d)' = LoopBlocks(d)
  BY <1>2 DEF BackEdges, Processed, LoopBlocks
<1>4. /\ Known' /\ Formed' /\ Placed(Size)' /\ Kept' /\ Moved' /\ Computed' /\ PhisMatch'
  BY StillFrame
<1>5. Ordered'
  BY <1>1, <1>3 DEF Ordered, Current
<1>6. Ready'
  BY <1>1, <1>2 DEF Ready, Outside, Size
<1> QED BY <1>4, <1>5, <1>6 DEF MotionInv

(* Before the loops are found the analyses are what they are; from then on, under
   the conditions of MotionKeepsSSA, the invariant of the motion holds.       *)
LoopsInv ==
  /\ ~Moving => SetsInv /\ Untouched
  /\ Moving /\ Preds(succ, Entry) = {} /\ OuterFirst => MotionInv

LEMMA LoopsInit == MotionInit => LoopsInv
<1> SUFFICES ASSUME MotionInit PROVE LoopsInv
  OBVIOUS
<1>1. SetsInv
  BY SetsInit DEF MotionInit
<1>2. phase = "sets"
  BY DEF MotionInit, Init
<1>3. Untouched
  BY DEF MotionInit, Untouched
<1> QED BY <1>1, <1>2, <1>3 DEF LoopsInv, Moving

LEMMA LoopsStep == LoopsInv /\ [MotionNext]_allVars => LoopsInv'
<1> SUFFICES ASSUME LoopsInv, [MotionNext]_allVars PROVE LoopsInv'
  OBVIOUS
<1>1. CASE Analyse /\ UNCHANGED motion
  <2>1. phase \in {"sets", "tree", "frontier"}
    BY <1>1 DEF Analyse, VisitBlock, EndRound, BuildTree, StartRunner, Climb, Finish
  <2>2. SetsInv /\ Untouched
    BY <2>1 DEF LoopsInv, Moving
  <2>3. [Next]_vars
    BY <1>1 DEF Next
  <2>4. TypeOK' /\ SetsInv'
    BY <2>2, <2>3, TypeStep, SetsStep DEF SetsInv
  <2>5. succ' = succ
    BY <2>2, <2>3, SetSteps DEF SetsInv
  <2>6. ~Moving'
    BY <2>4 DEF TypeOK, Moving
  <2>7. Untouched'
    BY <1>1, <2>2, <2>5 DEF Untouched, motion, function
  <2> QED BY <2>4, <2>6, <2>7 DEF LoopsInv
<1>2. CASE FindLoops
  <2>1. phase = "done" /\ phase' = "move"
    BY <1>2 DEF FindLoops
  <2>2. SetsInv /\ Untouched
    BY <2>1 DEF LoopsInv, Moving
  <2>3. MotionInv'
    BY <1>2, <2>2, FindLoopsStarts
  <2> QED BY <2>1, <2>3 DEF LoopsInv, Moving
<1>3. ASSUME Moving, UNCHANGED <<succ, domSets>>, Moving',
             MotionInv /\ Preds(succ, Entry) = {} /\ OuterFirst => MotionInv'
      PROVE  LoopsInv'
  <2>1. (Preds(succ, Entry) = {} /\ OuterFirst)' <=> Preds(succ, Entry) = {} /\ OuterFirst
    BY <1>3 DEF OuterFirst, BackEdges, LoopBlocks
  <2> QED BY <1>3, <2>1 DEF LoopsInv
<1>4. CASE \E e \in pending : NextLoop(e)
  <2>1. PICK e \in pending : NextLoop(e)
    BY <1>4
  <2>2. phase = "move" /\ UNCHANGED <<phase, succ, domSets>>
    BY <2>1 DEF NextLoop, vars, analysis
  <2> QED BY <1>3, <2>1, <2>2, NextLoopKeeps DEF Moving
<1>5. CASE \E c \in Blocks : Hoist(c)
  <2>1. PICK c \in Blocks : Hoist(c)
    BY <1>5
  <2>2. phase = "move" /\ UNCHANGED <<phase, succ, domSets>>
    BY <2>1 DEF Hoist, vars, analysis
  <2> QED BY <1>3, <2>1, <2>2, HoistKeeps DEF Moving
<1>6. CASE EndLoop
  <2>1. /\ phase = "move" /\ UNCHANGED <<phase, succ, domSets>> /\ header' = None
        /\ pending' = pending /\ Still
    BY <1>6 DEF EndLoop, Still, vars, analysis
  <2> QED BY <1>3, <2>1, RestKeeps DEF Moving
<1>7. CASE EndMotion
  <2>1. /\ phase = "move" /\ phase' = "moved" /\ UNCHANGED <<succ, domSets>>
        /\ UNCHANGED <<header, inLoop, preheader>> /\ pending' = pending /\ Still
    BY <1>7 DEF EndMotion, analysed, analysis, Still
  <2> QED BY <1>3, <2>1, RestKeeps DEF Moving
<1>8. CASE UNCHANGED allVars
  <2>1. UNCHANGED vars /\ UNCHANGED motion
    BY <1>8 DEF allVars
  <2>2. /\ UNCHANGED <<phase, succ, domSets>> /\ UNCHANGED <<header, inLoop, preheader>>
        /\ pending' = pending /\ Still
    BY <2>1 DEF vars, analysis, motion, Still
  <2>3. CASE Moving
    <3>1. Moving'
      BY <2>2, <2>3 DEF Moving
    <3> QED BY <1>3, <2>2, <2>3, <3>1, RestKeeps
  <2>4. CASE ~Moving
    <3>1. SetsInv /\ Untouched /\ ~Moving'
      BY <2>2, <2>4 DEF LoopsInv, Moving
    <3>2. TypeOK' /\ SetsInv'
      BY <2>1, <3>1, TypeStep, SetsStep DEF SetsInv
    <3>3. Untouched'
      BY <2>1, <3>1, <2>2 DEF Untouched, motion, function
    <3> QED BY <3>1, <3>2, <3>3 DEF LoopsInv
  <2> QED BY <2>3, <2>4
<1> QED BY <1>1, <1>2, <1>4, <1>5, <1>6, <1>7, <1>8 DEF MotionNext

(* Invariant code motion keeps the function in SSA form, where no loop is left
   before the one around it and nothing jumps to the entry: on every path an operand
   is computed before it is read, wherever hoisting has put the two and whatever
   preheaders have been made, and every phi has an operand for each predecessor. *)
THEOREM MotionKeepsSSAAlways == MotionSpec => []MotionKeepsSSA
<1>1. LoopsInv => MotionKeepsSSA
  <2> SUFFICES ASSUME LoopsInv, Moving, Preds(succ, Entry) = {}, OuterFirst PROVE StillSSA
    BY DEF MotionKeepsSSA
  <2>1. Formed /\ Computed /\ PhisMatch
    BY DEF LoopsInv, MotionInv
  <2>2. DOMAIN edges = 1 .. Size
    BY <2>1 DEF Formed, Connected, GraphOf
  <2> QED BY <2>1, <2>2 DEF StillSSA, Computed, PhisMatch, PredsNow
<1> QED BY <1>1, LoopsInit, LoopsStep, PTL DEF MotionSpec
=============================================================================
