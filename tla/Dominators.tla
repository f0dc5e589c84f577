----------------------------- MODULE Dominators -----------------------------
(***************************************************************************)
(* DominatorTree::run and DominanceFrontier::run                           *)
(* (src/src/transforms/DominatorTree.cpp, DominanceFrontier.cpp) on the    *)
(* graph that CFGBuilder builds: the iteration over the dominator sets one *)
(* block at a time, the immediate dominators, and the runner that climbs   *)
(* the tree from each predecessor of a join.                               *)
(*                                                                         *)
(* When the analyses are done a walker executes the function: it starts at *)
(* the entry, follows any edge and remembers the blocks it has entered.    *)
(* What the analyses claim about paths becomes an invariant of the walk.   *)
(***************************************************************************)
EXTENDS CFG

CONSTANT Graphs     \* the terminators of the functions that are analysed

ASSUME GraphsAssumption == Graphs \subseteq [Blocks -> Terminators]

VARIABLES
  succ,       \* BasicBlock::successors of each block
  phase,      \* "sets", "tree", "frontier", "done", then "walk"
  next,       \* the block the round visits next
  changed,    \* whether the round has changed a set
  domSets,    \* the dominator sets
  idom,       \* iDomMap, None where the map has no entry or a null one
  todo,       \* the pairs <<join, predecessor>> whose runner has not started
  join,       \* the join whose predecessor the runner climbs from
  runner,     \* the runner, or None
  frontiers,  \* the dominance frontiers
  cur, seen   \* the walker: the block it is in, those it has entered

analysis == <<domSets, idom, todo, join, runner, frontiers>>
vars == <<succ, phase, next, changed, analysis, cur, seen>>

None == 0

TypeOK ==
  /\ succ \in [Blocks -> SUBSET Blocks]
  /\ phase \in {"sets", "tree", "frontier", "done", "walk"}
  /\ next \in 2 .. N + 1
  /\ changed \in BOOLEAN
  /\ domSets \in [Blocks -> SUBSET Blocks]
  /\ idom \in [Blocks -> Blocks \cup {None}]
  /\ todo \subseteq Blocks \X Blocks
  /\ join \in Blocks
  /\ runner \in Blocks \cup {None}
  /\ frontiers \in [Blocks -> SUBSET Blocks]
  /\ cur \in Blocks /\ seen \subseteq Blocks

Init ==
  /\ \E term \in Graphs : succ = Graph(term)
  /\ phase = "sets" /\ next = 2 /\ changed = FALSE
  /\ domSets = [b \in Blocks |-> IF b = Entry THEN {Entry} ELSE Blocks]
  /\ idom = [b \in Blocks |-> None]
  /\ todo = {} /\ join = Entry /\ runner = None
  /\ frontiers = [b \in Blocks |-> {}]
  /\ cur = Entry /\ seen = {Entry}

-----------------------------------------------------------------------------
(* The dominators all predecessors agree on, and the block itself; a block
   without predecessors is left with itself.                                *)
NewDomSet(b) ==
  {b} \cup {d \in Blocks : /\ Preds(succ, b) # {}
                           /\ \A p \in Preds(succ, b) : d \in domSets[p]}

VisitBlock ==
  /\ phase = "sets" /\ next <= N
  /\ domSets' = [domSets EXCEPT ![next] = NewDomSet(next)]
  /\ changed' = (changed \/ NewDomSet(next) # domSets[next])
  /\ next' = next + 1
  /\ UNCHANGED <<succ, phase, idom, todo, join, runner, frontiers, cur, seen>>

EndRoundSticky ==                     \* variant: changed is never reset
  /\ phase = "sets" /\ next = N + 1
  /\ phase' = IF changed THEN "sets" ELSE "tree"
  /\ next' = 2 /\ changed' = changed
  /\ UNCHANGED <<succ, analysis, cur, seen>>

(* The end of a round of the while loop.                                    *)
EndRound ==
  /\ phase = "sets" /\ next = N + 1
  /\ phase' = IF changed THEN "sets" ELSE "tree"
  /\ next' = 2 /\ changed' = FALSE
  /\ UNCHANGED <<succ, analysis, cur, seen>>

ClosestAny(b) == domSets[b] \ {b}     \* variant: any strict dominator

(* The strict dominators of b that all the other ones dominate.  The loop
   takes the first in the order of addresses.                               *)
Closest(b) ==
  LET sdom == domSets[b] \ {b}
  IN  {d1 \in sdom : \A d2 \in sdom \ {d1} : d2 \in domSets[d1]}

BuildTree ==
  /\ phase = "tree" /\ phase' = "frontier"
  /\ idom' \in [Blocks -> Blocks \cup {None}]
  /\ \A b \in Blocks : IF b = Entry \/ Closest(b) = {} THEN idom'[b] = None
                       ELSE idom'[b] \in Closest(b)
  /\ todo' = {x \in Joins(succ) \X Blocks : x[2] \in Preds(succ, x[1])}
  /\ UNCHANGED <<succ, next, changed, domSets, join, runner, frontiers, cur, seen>>

-----------------------------------------------------------------------------
(* DominanceFrontier::run: joins in the order of the block list, and their
   predecessors in the order CFGBuilder added them, the same one.           *)
Before(x, y) == x[1] < y[1] \/ (x[1] = y[1] /\ x[2] < y[2])

Resting == runner = None \/ runner = idom[join]

StartRunner(x) ==
  /\ phase = "frontier" /\ Resting
  /\ x \in todo /\ \A y \in todo \ {x} : Before(x, y)
  /\ todo' = todo \ {x}
  /\ join' = x[1] /\ runner' = x[2]
  /\ UNCHANGED <<succ, phase, next, changed, domSets, idom, frontiers, cur, seen>>

ClimbAbove ==                         \* variant: the runner moves before it marks
  /\ phase = "frontier" /\ ~Resting
  /\ runner' = idom[runner]
  /\ frontiers' = IF runner' = None THEN frontiers
                  ELSE [frontiers EXCEPT ![runner'] = @ \cup {join}]
  /\ UNCHANGED <<succ, phase, next, changed, domSets, idom, todo, join, cur, seen>>

Climb ==
  /\ phase = "frontier" /\ ~Resting
  /\ frontiers' = [frontiers EXCEPT ![runner] = @ \cup {join}]
  /\ runner' = idom[runner]
  /\ UNCHANGED <<succ, phase, next, changed, domSets, idom, todo, join, cur, seen>>

Finish ==
  /\ phase = "frontier" /\ todo = {} /\ Resting
  /\ phase' = "done"
  /\ UNCHANGED <<succ, next, changed, analysis, cur, seen>>

(* The function is executed: the walker takes an edge.                      *)
Execute ==
  /\ phase = "done" /\ phase' = "walk"
  /\ UNCHANGED <<succ, next, changed, analysis, cur, seen>>

Walk ==
  /\ phase = "walk"
  /\ cur' \in succ[cur] /\ seen' = seen \cup {cur'}
  /\ UNCHANGED <<succ, phase, next, changed, analysis>>

Analyse == VisitBlock \/ EndRound \/ BuildTree
             \/ (\E x \in Blocks \X Blocks : StartRunner(x)) \/ Climb \/ Finish

Next == Analyse \/ Execute \/ Walk

Spec == Init /\ [][Next]_vars

(* The analyses are a loop that nothing interrupts.                         *)
FairSpec == Spec /\ WF_vars(Analyse)

-----------------------------------------------------------------------------
Done == phase = "done"

(* Whoever executes the function has entered every dominator of the block
   it is in, whatever else the graph holds.  This is what lets a value that
   is defined in a dominator be used.                                       *)
DominatorsAreOnEveryPath == phase = "walk" => domSets[cur] \subseteq seen

(* A set never grows back while the loop runs: it must end.                 *)
SetsOnlyShrink == [][\A b \in Blocks : domSets'[b] \subseteq domSets[b]]_vars

(* The sets are the largest solution of the equations; when every block is
   reachable, that is every dominator there is, and the tree hangs each
   block below the closest of them.                                         *)
TreeExact ==
  Done =>
    /\ \A b \in Blocks : domSets[b] = DomSetOf(succ, b)
    /\ AllReachable(succ) => \A b \in Blocks \ {Entry} :
         /\ StrictlyDominates(succ, idom[b], b)
         /\ \A d \in Blocks : StrictlyDominates(succ, d, b) => Dominates(succ, d, idom[b])

(* Every runner has marked the dominators of its predecessor that do not
   dominate the join, unless the graph has a cycle that no root reaches.
   When every block is reachable and nothing jumps to the entry, that is the
   dominance frontier.                                                      *)
FrontierExact ==
  (Done /\ Rooted(succ)) => \A x \in Blocks :
    /\ frontiers[x] = JoinFrontierOf(succ, x)
    /\ (AllReachable(succ) /\ Preds(succ, Entry) = {}) => frontiers[x] = FrontierOf(succ, x)

(* The analyses of a function end, whatever order the fixpoint is reached in
   and wherever the runners start, unless a cycle hangs in the air.          *)
Terminates == Rooted(succ) => <>Done
=============================================================================
