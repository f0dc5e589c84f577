-------------------------------- MODULE CFG --------------------------------
(***************************************************************************)
(* Control flow graphs of the Fyra IR and what the analyses over them are  *)
(* measured against.  A function has the blocks 1 .. N in the order of its *)
(* block list, and block 1 is the entry.  CFGBuilder                       *)
(* (src/src/transforms/CFGBuilder.cpp) reads the edges off the first       *)
(* terminator of each block; a block without one falls through.            *)
(***************************************************************************)
EXTENDS Naturals, FiniteSets

CONSTANT N     \* the number of blocks

ASSUME BlocksAssumption == N \in Nat \ {0}

Blocks == 1 .. N
Entry  == 1

(* The first terminator of a block: jmp and br name one or two blocks, ret
   none; falls says that the block has no terminator.                       *)
Terminators ==
  {[falls |-> TRUE, targets |-> {}]} \cup
  [falls : {FALSE}, targets : {T \in SUBSET Blocks : Cardinality(T) <= 2}]

(* CFGBuilder::run, successors and predecessors.                            *)
Successors(term, b) ==
  IF term[b].falls THEN {b + 1} \cap Blocks ELSE term[b].targets

Graph(term) == [b \in Blocks |-> Successors(term, b)]

Preds(succ, b) == {p \in Blocks : b \in succ[p]}

-----------------------------------------------------------------------------
(* The blocks that a path from the set From reaches without entering D.     *)
ReachAvoiding(succ, From, D) ==
  LET reach[n \in 0 .. N] ==
        IF n = 0 THEN From \ D
        ELSE (From \cup UNION {succ[b] : b \in reach[n - 1]}) \ D
  IN  reach[N]

Reachable(succ) == ReachAvoiding(succ, {Entry}, {})

AllReachable(succ) == Reachable(succ) = Blocks

(* d is on every path from the entry to b.                                  *)
Dominates(succ, d, b) == b \notin ReachAvoiding(succ, {Entry}, {d})

StrictlyDominates(succ, d, b) == d # b /\ Dominates(succ, d, b)

(* What the analyses compute on any graph.  The largest solution of the
   equations of DominatorTree::run takes every block without predecessors
   for a start of execution, as it does the entry.                          *)
Roots(succ) == {Entry} \cup {b \in Blocks : Preds(succ, b) = {}}

Rooted(succ) == ReachAvoiding(succ, Roots(succ), {}) = Blocks

DomSetOf(succ, b) == {d \in Blocks : b \notin ReachAvoiding(succ, Roots(succ), {d})}

Joins(succ) == {b \in Blocks : Cardinality(Preds(succ, b)) >= 2}

JoinFrontierOf(succ, x) ==
  {b \in Joins(succ) : /\ \E p \in Preds(succ, b) : x \in DomSetOf(succ, p)
                       /\ x \notin DomSetOf(succ, b) \ {b}}

(* Where a definition in x stops being the only one that arrives.           *)
FrontierOf(succ, x) ==
  {b \in Blocks : /\ \E p \in Preds(succ, b) : Dominates(succ, x, p)
                  /\ ~StrictlyDominates(succ, x, b)}
=============================================================================
