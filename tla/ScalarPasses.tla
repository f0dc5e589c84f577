---------------------------- MODULE ScalarPasses ----------------------------
(***************************************************************************)
(* Rounds of the scalar passes of CompilerPipeline::runOptimizations: SCCP,*)
(* CopyElimination, GVN, ControlFlowSimplification,                        *)
(* DeadInstructionElimination, and InstCombinePass, with which the next    *)
(* round begins (src/src/transforms).  After any round the function is     *)
(* executed twice in lockstep, as the round found it and as it left it,    *)
(* with any argument and any results of loads and calls.                   *)
(***************************************************************************)
EXTENDS Simplification

CONSTANT Rounds     \* maxIterations

ASSUME RoundsAssumption == Rounds \in Nat \ {0}

(* Variables are written before they are read on any path: where one may not
   be, SSARenamer leaves a null in a phi.                                   *)
ASSUME OperandsAssumption ==
  \A f \in Programs : \A b \in Blocks :
    Null \notin OpReads(f.op[b]) \cup TermReads(f.term[b]) \cup PhiReads(f, b)

VARIABLES
  fn,          \* the function as the passes leave it
  round,       \* iteration
  table,       \* exprTable: <<instruction, what its key was made of>>
  visited,     \* the blocks that GVN has been through in this turn
  turns,       \* the turns of GVN's loop that are over
  changed,     \* passChanged, of GVN
  combined,    \* whether the last InstCombinePass has changed something
  here, there  \* machines that execute before and fn

machines == <<here, there>>
numbering == <<table, visited, turns, changed, combined>>
vars == <<before, fn, phase, round, analysis, numbering, machines>>

MaxTurns == 5    \* maxPasses

Phases == {"analyse", "constants", "copies", "numbers", "branches", "phis", "blocks",
           "phis again", "merge", "dead blocks", "dead", "combine", "combined", "done", "run"}

TypeOK ==
  /\ before \in Function /\ fn \in Function
  /\ phase \in Phases /\ round \in 1 .. Rounds
  /\ lat \in [Instrs -> Lattice]
  /\ edges \subseteq Blocks \X Blocks /\ reached \subseteq Blocks /\ blocks \subseteq Blocks
  /\ instrs \subseteq {"phi", "op", "term"} \X Blocks
  /\ cur \in Blocks \cup {0} /\ next \in Nat
  /\ table \subseteq Blocks \X Op /\ visited \subseteq Blocks
  /\ turns \in 0 .. MaxTurns /\ changed \in BOOLEAN /\ combined \in BOOLEAN
  /\ here \in Machine /\ there \in Machine

Init ==
  /\ before \in Programs /\ fn = before
  /\ phase = "analyse" /\ round = 1
  /\ StartAnalysis
  /\ table = {} /\ visited = {} /\ turns = 0 /\ changed = FALSE /\ combined = FALSE
  /\ here = Boot(Zero) /\ there = Boot(Zero)

-----------------------------------------------------------------------------
ErasePhis(f, B) ==
  [f EXCEPT !.phis = @ \ B,
            !.inc = [b \in Blocks |-> IF b \in B THEN [p \in Blocks |-> Absent] ELSE f.inc[b]]]

(* PhiNode::removeIncomingValue: b no longer leads to the phi of Other[b].  *)
RemoveIncoming(f, Left) ==
  [f EXCEPT !.inc = [s \in Blocks |-> [p \in Blocks |->
                       IF <<p, s>> \in Left THEN Absent ELSE f.inc[s][p]]]]

(* SCCP::performTransformation, after the analysis.                         *)
Known(f) == {c \in Pieces(f, reached) : \E d \in Data : lat[<<"op", c>>] = {d}}

ReplaceConstants(f) ==
  EraseOps(Replace(f, [i \in {"op"} \X Known(f) |-> Const(CHOOSE d \in Data : d \in lat[i])]),
           Known(f))

-----------------------------------------------------------------------------
(* CopyElimination::run.                                                    *)
Copies(f) ==
  {c \in Pieces(f, Blocks) : f.op[c].code = "copy" /\ f.op[c].x \notin {<<"op", c>>, Null}}

EliminateCopiesOnce(f) ==             \* variant: chains are not resolved
  EraseOps(Replace(f, [i \in {"op"} \X Copies(f) |-> f.op[i[2]].x]), Copies(f))

(* A copy of a copy is resolved to what is copied first.  Copies that copy
   each other, in blocks never executed, are erased with their uses.        *)
EliminateCopies(f) ==
  LET copies == Copies(f)
      IsCopy(v) == v[1] = "op" /\ v[2] \in copies
      copied == {v \in {f.op[c].x : c \in copies} : ~IsCopy(v)}
      source[n \in 0 .. N] == [c \in Blocks |->
        LET v == IF n = 0 THEN f.op[c].x ELSE source[n - 1][c]
        IN  IF n > 0 /\ IsCopy(v) THEN f.op[v[2]].x ELSE v]
  IN  EraseOps(Replace(f, [i \in {"op"} \X copies |->
                 IF source[N][i[2]] \in copied THEN source[N][i[2]] ELSE Null]), copies)

-----------------------------------------------------------------------------
(* ControlFlowSimplification::simplifyConstantBranches.                     *)
Decided(f) == {b \in Live(f) : f.term[b].code = "jnz" /\ IsConst(f.term[b].x)}

Kept(t)  == IF t.x = Const(Zero) THEN t.f ELSE t.t
Other(t) == IF t.x = Const(Zero) THEN t.t ELSE t.f

Jump(s) == [code |-> "jmp", x |-> Null, t |-> s, f |-> s]

Straighten(f) ==
  [f EXCEPT !.term = [b \in Blocks |-> IF b \in Decided(f) THEN Jump(Kept(f.term[b]))
                                       ELSE f.term[b]]]

FoldBranchesOnly(f) == Straighten(f)  \* variant: phis keep what no longer arrives

FoldBranches(f) ==
  RemoveIncoming(Straighten(f), {<<b, Other(f.term[b])>> : b \in Decided(f)})

(* ControlFlowSimplification::simplifySingleIncomingPhis, a block.  A phi
   that is its own value leaves nulls behind when it is erased.             *)
SimplifyPhi(f, b) ==
  IF b \in f.phis /\ \E p \in Blocks : Preds(Succ(f), b) = {p} /\ f.inc[b][p] \notin {Absent, Null}
  THEN LET p == CHOOSE q \in Blocks : Preds(Succ(f), b) = {q}
           v == IF f.inc[b][p] = <<"phi", b>> THEN Null ELSE f.inc[b][p]
       IN  ErasePhis(Replace(f, [i \in {<<"phi", b>>} |-> v]), {b})
  ELSE f

-----------------------------------------------------------------------------
(* eliminateUnreachableBlocks, of ControlFlowSimplification as well as of
   DeadInstructionElimination.                                              *)
Unreachable(f) == Live(f) \ Reachable(Succ(f))

NoTerm == [code |-> "ret", x |-> Null, t |-> Entry, f |-> Entry]

EraseBlocks(f, B) ==
  [f EXCEPT !.body = [b \in Blocks |-> IF b \in B THEN <<>> ELSE f.body[b]],
            !.term = [b \in Blocks |-> IF b \in B THEN NoTerm ELSE f.term[b]]]

RemoveUnreachable(f) ==
  LET gone == Unreachable(f)
      left == {e \in gone \X Blocks : e[2] \in Succ(f)[e[1]]}
      nulls == [i \in ({"phi"} \X gone) \cup ({"op"} \X Pieces(f, gone)) |-> Null]
  IN  EraseBlocks(ErasePhis(EraseOps(Replace(RemoveIncoming(f, left), nulls), Pieces(f, gone)),
                            gone), gone)

(* ControlFlowSimplification::mergeBlocks: canMergeBlocks, mergeBlocksImpl. *)
CanMerge(f, b) ==
  LET s == f.term[b].t
  IN  /\ b \in Live(f) /\ f.term[b].code = "jmp"
      /\ s # b /\ s # Entry /\ s \notin f.phis
      /\ Preds(Succ(f), s) = {b}

MergeBlocksOnly(f, b) ==              \* variant: uses of the block are not replaced
  LET s == f.term[b].t
  IN  EraseBlocks([f EXCEPT !.body[b] = f.body[b] \o f.body[s], !.term[b] = f.term[s]], {s})

MergeBlocks(f, b) ==
  LET s == f.term[b].t
      renamed == [x \in Blocks |->
                    [p \in Blocks |-> IF p = b /\ f.inc[x][s] # Absent THEN f.inc[x][s]
                                      ELSE IF p = s THEN Absent ELSE f.inc[x][p]]]
  IN  EraseBlocks([f EXCEPT !.body[b] = f.body[b] \o f.body[s], !.term[b] = f.term[s],
                            !.inc = renamed], {s})

-----------------------------------------------------------------------------
(* DeadInstructionElimination::markLiveInstructions, propagateLiveness: what
   calls and terminators need.                                              *)
Needed(f) ==
  LET Of(i) == IF i[1] = "phi" THEN PhiReads(f, i[2]) ELSE OpReads(f.op[i[2]])
      roots == UNION ({TermReads(f.term[b]) : b \in Live(f)} \cup
                      {OpReads(f.op[c]) : c \in {d \in Pieces(f, Blocks) : f.op[d].code = "call"}})
      needed[n \in 0 .. 2 * N] ==
        IF n = 0 THEN roots \cap Instrs
        ELSE (roots \cup UNION {Of(i) : i \in needed[n - 1]}) \cap Instrs
  IN  needed[2 * N]

EliminateDead(f) ==
  LET needed == Needed(f)
      idle == {c \in Blocks : f.op[c].code # "call" /\ <<"op", c>> \notin needed}
  IN  EraseOps(ErasePhis(f, {b \in f.phis : <<"phi", b>> \notin needed}), idle)

-----------------------------------------------------------------------------
(* The pass of phase from, which leaves the function g.                     *)
Pass(from, g, to) ==
  /\ phase = from /\ phase' = to
  /\ fn' = g
  /\ UNCHANGED <<before, round, analysis, numbering, machines>>

RunConstants == Pass("constants", ReplaceConstants(fn), "copies")
RunCopies    == Pass("copies", EliminateCopies(fn), "numbers")
RunBranches  == Pass("branches", FoldBranches(fn), "phis")
RunBlocks    == Pass("blocks", RemoveUnreachable(fn), "phis again")

(* GVN::run.  A block comes after its parent in the dominator tree; siblings
   do not see each other's tables and come in any order.                    *)
EnterBlock(b) ==
  /\ phase = "numbers" /\ cur = 0
  /\ b \in Live(fn) \ visited
  /\ b = Entry \/ Parents(fn, b) \cap visited # {}
  /\ cur' = b /\ next' = 1 /\ visited' = visited \cup {b}
  /\ UNCHANGED <<before, fn, phase, round, lat, edges, reached, blocks, instrs>>
  /\ UNCHANGED <<table, turns, changed, combined, machines>>

NumberNext ==
  /\ phase = "numbers" /\ cur # 0
  /\ LET c == fn.body[cur][next]
         same == Redundant(fn, table, cur, c)
     IN  IF same # {}
         THEN /\ fn' \in {ReplaceOne(fn, c, v) : v \in same}
              /\ changed' = TRUE /\ UNCHANGED table
         ELSE /\ table' = table \cup {t \in {<<c, fn.op[c]>>} : t[2].code = "pure"}
              /\ UNCHANGED <<fn, changed>>
  /\ IF next < Len(fn.body[cur]) THEN next' = next + 1 /\ UNCHANGED cur
     ELSE cur' = 0 /\ next' = 0
  /\ UNCHANGED <<before, phase, round, lat, edges, reached, blocks, instrs>>
  /\ UNCHANGED <<visited, turns, combined, machines>>

EndTurn ==
  /\ phase = "numbers" /\ cur = 0
  /\ \A b \in Live(fn) \ visited : b # Entry /\ Parents(fn, b) \cap visited = {}
  /\ table' = {} /\ visited' = {} /\ changed' = FALSE
  /\ IF changed /\ turns + 1 < MaxTurns THEN turns' = turns + 1 /\ UNCHANGED phase
     ELSE turns' = 0 /\ phase' = "branches"
  /\ UNCHANGED <<before, fn, round, analysis, combined, machines>>

(* simplifySingleIncomingPhis, a block at a time; cur is the last one done.  *)
RunPhis ==
  /\ phase \in {"phis", "phis again"} /\ cur < N
  /\ fn' = SimplifyPhi(fn, cur + 1) /\ cur' = cur + 1
  /\ UNCHANGED <<before, phase, round, lat, edges, reached, blocks, instrs, next, numbering, machines>>

EndPhis ==
  /\ phase \in {"phis", "phis again"} /\ cur = N
  /\ phase' = IF phase = "phis" THEN "blocks" ELSE "merge"
  /\ cur' = 0
  /\ UNCHANGED <<before, fn, round, lat, edges, reached, blocks, instrs, next, numbering, machines>>

(* The first block that can be merged with its successor, and again.        *)
RunMerge ==
  \E b \in Blocks :
    /\ CanMerge(fn, b) /\ \A c \in 1 .. b - 1 : ~CanMerge(fn, c)
    /\ Pass("merge", MergeBlocks(fn, b), "merge")

EndMerge == (\A b \in Blocks : ~CanMerge(fn, b)) /\ Pass("merge", fn, "dead blocks")

(* DeadInstructionElimination::performTransformation, until nothing changes;
   without a dead instruction the next iteration would change nothing.      *)
RunDeadBlocks == Pass("dead blocks", RemoveUnreachable(fn), "dead")

RunDead ==
  LET g == EliminateDead(fn)
  IN  Pass("dead", g, IF g # fn THEN "dead blocks"
                      ELSE IF (fn # before \/ combined) /\ round < Rounds THEN "combine"
                      ELSE "done")

(* optimization_changed: the round, with the InstCombinePass it began with, has
   changed the function, and another one begins with its InstCombinePass.  It
   visits the blocks in the order of their list; next counts the instructions
   of cur that it has visited.                                              *)
BlockLength == IF cur = 0 THEN 0 ELSE Len(fn.body[cur])

CombineBlock ==
  /\ phase = "combine" /\ next = BlockLength
  /\ combined' = IF cur = 0 THEN FALSE ELSE combined
  /\ next' = 0
  /\ IF cur < N THEN cur' = cur + 1 /\ UNCHANGED phase
     ELSE cur' = 0 /\ phase' = "combined"
  /\ UNCHANGED <<before, fn, round, lat, edges, reached, blocks, instrs>>
  /\ UNCHANGED <<table, visited, turns, changed, machines>>

CombineNext ==
  /\ phase = "combine" /\ next < BlockLength
  /\ fn' \in Combine(fn, fn.body[cur][next + 1])
  /\ combined' = (combined \/ fn' # fn)
  /\ next' = next + 1
  /\ UNCHANGED <<before, phase, round, lat, edges, reached, blocks, instrs, cur>>
  /\ UNCHANGED <<table, visited, turns, changed, machines>>

NextRound ==
  /\ phase = "combined"
  /\ phase' = "analyse" /\ round' = round + 1 /\ before' = fn
  /\ RestartAnalysis
  /\ UNCHANGED <<fn, numbering, machines>>

-----------------------------------------------------------------------------
(* The observers of a round.                                                *)
StartRun ==
  /\ phase \in {"done", "combined"} /\ phase' = "run"
  /\ \E d \in Data : here' = Boot(d) /\ there' = Boot(d)
  /\ UNCHANGED <<before, fn, round, analysis, numbering>>

InBlock(f, m) == m.at \in Blocks /\ m.k \in 1 .. Len(f.body[m.at])

Run ==
  /\ phase = "run"
  /\ InBlock(before, here) /\ InBlock(fn, there)
  /\ \E r \in Data : here' = Execute(before, here, r) /\ there' = Execute(fn, there, r)
  /\ UNCHANGED <<before, fn, phase, round, analysis, numbering>>

Passes ==
  \/ Analyse /\ UNCHANGED <<fn, round, numbering, machines>>
  \/ RunConstants \/ RunCopies \/ (\E b \in Blocks : EnterBlock(b)) \/ NumberNext \/ EndTurn
  \/ RunBranches \/ RunPhis \/ EndPhis \/ RunBlocks \/ RunMerge \/ EndMerge
  \/ RunDeadBlocks \/ RunDead \/ CombineBlock \/ CombineNext \/ NextRound

Next == Passes \/ StartRun \/ Run

Spec == Init /\ [][Next]_vars

(* A call of the pipeline runs to its end.                                  *)
FairSpec == Spec /\ WF_vars(Passes \/ StartRun)
-----------------------------------------------------------------------------
(* Whatever path is executed, no value differs from the constant that the
   analysis found for it, and no block is entered that it holds unreached.  *)
ConstantsHold ==
  phase = "run" =>
    /\ here.at \in reached \cup {0}
    /\ \A i \in Instrs : here.env[i] \in lat[i] \cup {Undef}

(* At each instruction of the execution of before, fn is at the same one and
   makes the same call; both return the same value.  Nothing is asked after
   before has trapped.                                                      *)
SameBehaviour ==
  phase = "run" =>
    /\ InBlock(before, here) =>
         /\ InBlock(fn, there)
         /\ LET c == before.body[here.at][here.k]
                Operand(f, m) == Eval(m.env, m.arg, f.op[c].x)
            IN  /\ c = fn.body[there.at][there.k]
                /\ before.op[c].code = "call" =>
                     /\ fn.op[c].code = "call"
                     /\ Operand(before, here) = Operand(fn, there)
    /\ (here.at = 0 /\ here.out # Undef) => there.at = 0 /\ there.out = here.out

(* After any pass the phis have one value for each predecessor.             *)
PhisMatchPreds ==
  phase \notin {"analyse", "run"} => \A b \in Live(fn) \cap fn.phis :
    {p \in Blocks : fn.inc[b][p] # Absent} = Preds(Succ(fn), b)

Exists(f, v) ==
  \/ v \in {Const(d) : d \in Data} \cup {Arg}
  \/ v \in {"phi"} \X (f.phis \cap Live(f))
  \/ v \in {"op"} \X {c \in Pieces(f, Blocks) : f.op[c].code # "none"}

(* After any pass no instruction that can be executed reads a null or a value
   that was erased.                                                         *)
OperandsExist ==
  phase \notin {"analyse", "run"} => \A b \in Reachable(Succ(fn)) :
    /\ \A v \in TermReads(fn.term[b]) : Exists(fn, v)
    /\ \A p \in Reachable(Succ(fn)) : fn.inc[b][p] # Absent => Exists(fn, fn.inc[b][p])
    /\ \A c \in Pieces(fn, {b}) : \A v \in OpReads(fn.op[c]) : Exists(fn, v)

(* The worklists run empty and the loops of the passes end.                 *)
PassesEnd == <>(phase = "run")
=============================================================================
