----------------------------- MODULE LoopMotion -----------------------------
(***************************************************************************)
(* LoopInvariantCodeMotion::performTransformation (src/src/transforms) on  *)
(* the dominator sets that DominatorTree has computed: the loops, one for  *)
(* every edge back, are found once; then the invariant instructions of one *)
(* loop after the other move to its preheader, which may be a new block.   *)
(*                                                                         *)
(* A block is parsed with one instruction besides its terminator: a "phi", *)
(* a "pure" one, or one that is "fixed": with effects, or a division that  *)
(* may trap.  An instruction is named by the block it was parsed in.  New  *)
(* blocks are numbered from N + 1.                                         *)
(***************************************************************************)
EXTENDS Dominators, SequencesExt

CONSTANT Codes     \* the instructions a function may have

Instruction == [kind : {"phi", "pure", "fixed"}, reads : SUBSET Blocks]

ASSUME CodesAssumption == Codes \subseteq [Blocks -> Instruction]

VARIABLES
  code,      \* the instructions
  entry,     \* the first block of the list
  edges,     \* the successors of each block there is now
  body,      \* the instructions of each block, without phis of preheaders
  parent,    \* the block each instruction is in
  entries,   \* the blocks that the phi of each block has an operand for
  pending,   \* the edges back whose loops are still to be processed
  header,    \* Loop::header of the loop that is processed, or None
  inLoop,    \* Loop::blocks
  preheader, \* Loop::preheader, or None
  hoisted    \* hoistedInstructions_

function == <<entry, edges, body, parent, entries>>
motion == <<code, function, pending, header, inLoop, preheader, hoisted>>
analysed == <<succ, next, changed, analysis, cur, seen>>
allVars == <<vars, motion>>

MotionInit ==
  /\ Init
  /\ code = [b \in Blocks |-> [kind |-> "fixed", reads |-> {}]]
  /\ entry = Entry /\ edges = succ
  /\ body = [b \in Blocks |-> <<b>>] /\ parent = [c \in Blocks |-> c]
  /\ entries = [b \in Blocks |-> {}]
  /\ pending = {} /\ hoisted = {}
  /\ header = None /\ inLoop = {} /\ preheader = None

-----------------------------------------------------------------------------
(* What SSA construction leaves.  Every block has a terminator.             *)
WellFormed(c) ==
  /\ AllReachable(succ)
  /\ \A b \in Blocks :
       /\ c[b].kind = "phi" => c[b].reads = {} /\ b \in Joins(succ)
       /\ \A r \in c[b].reads : StrictlyDominates(succ, r, b)

(* findBackEdges: an edge to a block that dominates its source.             *)
BackEdges == {e \in Blocks \X Blocks : e[2] \in succ[e[1]] /\ e[2] \in domSets[e[1]]}

(* buildLoop: what reaches the latch without passing the header.            *)
LoopBlocks(e) ==
  {e[2]} \cup ReachAvoiding([b \in Blocks |-> Preds(succ, b)], {e[1]}, {e[2]})

FindLoops ==
  /\ phase = "done" /\ phase' = "move"
  /\ \E c \in Codes :
       /\ WellFormed(c)
       /\ code' = c
       /\ entries' = [b \in Blocks |-> IF c[b].kind = "phi" THEN Preds(succ, b) ELSE {}]
  /\ pending' = BackEdges
  /\ UNCHANGED <<analysed, entry, edges, body, parent, header, inLoop, preheader, hoisted>>

(* Loops are processed in the order of their latches in the block list, those
   of one latch in the order of its targets.                                *)
NextLoop(e) ==
  /\ phase = "move" /\ header = None
  /\ e \in pending /\ \A d \in pending : e[1] <= d[1]
  /\ header' = e[2] /\ inLoop' = LoopBlocks(e) /\ preheader' = None
  /\ pending' = pending \ {e}
  /\ UNCHANGED <<vars, code, function, hoisted>>

-----------------------------------------------------------------------------
Precedes(d, c) ==
  /\ parent[d] = parent[c]
  /\ \E j, k \in 1 .. Len(body[parent[c]]) :
       j < k /\ body[parent[c]][j] = d /\ body[parent[c]][k] = c

(* isLoopInvariant and canHoistInstruction.                                 *)
CanHoist(c) ==
  /\ code[c].kind = "pure"
  /\ \A r \in code[c].reads : parent[r] \notin inLoop \/ r \in hoisted

(* getOrCreatePreheader.                                                    *)
Outside == {p \in DOMAIN edges : header \in edges[p]} \ inLoop

Existing ==
  IF preheader # None THEN {preheader}
  ELSE {p \in Outside : Outside = {p} /\ edges[p] = {header}}

NewBlock == Max(DOMAIN edges) + 1

With(f, b, v) == [x \in DOMAIN f \cup {b} |-> IF x = b THEN v ELSE f[x]]

Redirected(p) ==
  IF p \in Outside THEN (edges[p] \ {header}) \cup {NewBlock} ELSE edges[p]

CreateWithoutPhis ==                  \* variant: the phi of the header is left alone
  /\ edges' = With([p \in DOMAIN edges |-> Redirected(p)], NewBlock, {header})
  /\ entry' = IF entry = header THEN NewBlock ELSE entry
  /\ entries' = With(entries, NewBlock, {})

(* The phi of the header takes what came from outside from the new block,
   which has a phi of its own if that was more than one value.              *)
CreatePreheader ==
  LET n == NewBlock
      several == Cardinality(Outside) > 1
      moved == entries[header] \cap Outside
      phi == IF code[header].kind = "phi" /\ (several \/ moved # {})
             THEN (entries[header] \ Outside) \cup {n} ELSE entries[header]
  IN  /\ edges' = With([p \in DOMAIN edges |-> Redirected(p)], n, {header})
      /\ entry' = IF entry = header THEN n ELSE entry
      /\ entries' = With([entries EXCEPT ![header] = phi], n, IF several THEN moved ELSE {})

(* moveInstruction, to a block p that may be new.                           *)
Move(c, p) ==
  LET source == body[parent[c]]
      target == IF p \in DOMAIN body THEN body[p] ELSE <<>>
      k == CHOOSE i \in 1 .. Len(source) : source[i] = c
  IN  /\ body' = With([body EXCEPT ![parent[c]] = RemoveAt(source, k)], p, Append(target, c))
      /\ parent' = [parent EXCEPT ![c] = p]

(* hoistInvariantInstructions: the blocks of a loop are a set of pointers, so
   any may come first.                                                      *)
Hoist(c) ==
  /\ phase = "move" /\ header # None
  /\ parent[c] \in inLoop /\ CanHoist(c)
  /\ \A d \in Blocks : Precedes(d, c) => ~CanHoist(d)
  /\ hoisted' = hoisted \cup {c}
  /\ IF Existing # {}
     THEN preheader' \in Existing /\ UNCHANGED <<entry, edges, entries>>
     ELSE preheader' = NewBlock /\ CreatePreheader
  /\ Move(c, preheader')
  /\ UNCHANGED <<vars, code, pending, header, inLoop>>

EndLoop ==
  /\ phase = "move" /\ header # None
  /\ \A c \in Blocks : ~(parent[c] \in inLoop /\ CanHoist(c))
  /\ header' = None /\ inLoop' = {}
  /\ UNCHANGED <<vars, code, function, pending, preheader, hoisted>>

EndMotion ==
  /\ phase = "move" /\ header = None /\ pending = {}
  /\ phase' = "moved"
  /\ UNCHANGED <<analysed, code, function, pending, header, inLoop, preheader, hoisted>>

MotionNext ==
  \/ Analyse /\ UNCHANGED motion
  \/ FindLoops \/ (\E e \in pending : NextLoop(e))
  \/ (\E c \in Blocks : Hoist(c)) \/ EndLoop \/ EndMotion

MotionSpec == MotionInit /\ [][MotionNext]_allVars

(* A pass is a loop that nothing interrupts.                                *)
FairMotionSpec == MotionSpec /\ WF_allVars(MotionNext)
-----------------------------------------------------------------------------
(* The blocks that a path from a in the graph g reaches without entering d.  *)
ReachedIn(g, a, d) ==
  LET reach[n \in 0 .. Cardinality(DOMAIN g)] ==
        IF n = 0 THEN {a} \ {d}
        ELSE ({a} \cup UNION {g[b] : b \in reach[n - 1]}) \ {d}
  IN  reach[Cardinality(DOMAIN g)]

ComputedBefore(r, c) ==
  IF parent[r] = parent[c] THEN Precedes(r, c)
  ELSE parent[c] \notin ReachedIn(edges, entry, parent[r])

Moving == phase \in {"move", "moved"}

HasPhi(b) == IF b \in Blocks THEN code[b].kind = "phi" ELSE entries[b] # {}

(* The function is in SSA form: whatever path is executed, an operand is
   computed before it is read, and again whenever what it depends on is; a phi
   has an operand for each predecessor.                                     *)
StillSSA ==
  Moving =>
    /\ \A c \in Blocks : \A r \in code[c].reads : ComputedBefore(r, c)
    /\ \A b \in DOMAIN edges :
         HasPhi(b) => entries[b] = {p \in DOMAIN edges : b \in edges[p]}

(* No loop is processed before one that its header is in.                   *)
OuterFirst ==
  \A e, d \in BackEdges :
    e[2] # d[2] /\ e[2] \in LoopBlocks(d) => d[1] < e[1]

(* Where no loop is left before the one around it, and nothing jumps to the
   entry, motion leaves SSA form.                                           *)
MotionKeepsSSA ==
  Moving /\ Preds(succ, Entry) = {} /\ OuterFirst => StillSSA

(* The analyses of a function end, unless a cycle hangs in the air, and so
   does the motion.                                                         *)
MotionEnds == Terminates /\ (AllReachable(succ) => <>(phase = "moved"))
=============================================================================
