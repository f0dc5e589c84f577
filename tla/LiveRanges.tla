----------------------------- MODULE LiveRanges -----------------------------
(***************************************************************************)
(* transforms::LivenessAnalysis (src/src/codegen/regalloc), which register *)
(* allocation runs on the function that the passes leave: the live ranges, *)
(* of which LiveIntervalAnalysis makes the intervals of LinearScan, and    *)
(* the values alive after an instruction.  Both are compared with the      *)
(* paths of the graph.                                                     *)
(***************************************************************************)
EXTENDS ScalarPasses, FiniteSetsExt

(* Instruction k of block b: 0 is its phi, EndOf its terminator.            *)
EndOf(f, b) == Len(f.body[b]) + 1

At(f, b, k) ==
  IF k = 0 THEN <<"phi", b>>
  ELSE IF k = EndOf(f, b) THEN <<"term", b>>
  ELSE <<"op", f.body[b][k]>>

ReadBy(f, i) ==
  CASE i[1] = "phi" -> PhiReads(f, i[2])
    [] i[1] = "op" -> OpReads(f.op[i[2]])
    [] OTHER -> TermReads(f.term[i[2]])

(* The instructions that read v, and the instruction v, as <<block, k>>.    *)
Places(f) == {p \in Live(f) \X (0 .. N + 1) : p[2] <= EndOf(f, p[1])}

Readers(f, v) == {p \in Places(f) : v \in ReadBy(f, At(f, p[1], p[2]))}

PlaceOf(f, v) == CHOOSE p \in Places(f) : At(f, p[1], p[2]) = v

Home(f, v) == PlaceOf(f, v)[1]

(* Results that are used: those without a use have no range.                *)
Used(f) ==
  {v \in Instrs : /\ v \in {At(f, p[1], p[2]) : p \in Places(f)}
                  /\ Readers(f, v) # {}}

(* instrNumbering: the blocks are numbered in the order of their list.      *)
Number(p) == (N + 2) * p[1] + p[2]

LastNumber(f, b) == Number(<<b, EndOf(f, b)>>)

-----------------------------------------------------------------------------
(* LoopInvariantCodeMotion::findLoops: a loop for every edge to a block that
   dominates its source.                                                    *)
BackEdges(f) ==
  LET succ == Succ(f)
  IN  {e \in Live(f) \X Live(f) : e[2] \in succ[e[1]] /\ e[2] \in DomSetOf(succ, e[1])}

LoopBlocks(f, e) ==
  {e[2]} \cup ReachAvoiding([b \in Blocks |-> Preds(Succ(f), b)], {e[1]}, {e[2]})

(* max_latch_site.                                                          *)
LatchNumber(f, e) ==
  Max({LastNumber(f, b) : b \in {c \in LoopBlocks(f, e) : e[2] \in Succ(f)[c]}})

RangeEndOfUses(f, v) ==               \* variant: loops extend nothing
  Max({Number(PlaceOf(f, v))} \cup {Number(p) : p \in {q \in Readers(f, v) : q[2] # 0}}
      \cup {LastNumber(f, p) : p \in {q \in Live(f) : \E s \in f.phis : f.inc[s][q] = v}})

(* LivenessAnalysis::run: a range starts at its definition and ends at the
   last use, at a predecessor where a phi uses the value, or at the latch of a
   loop that uses it and does not define it below its header.               *)
RangeEnd(f, v) ==
  LET reads == {Number(p) : p \in {q \in Readers(f, v) : q[2] # 0}}
      sends == {LastNumber(f, p) : p \in {q \in Live(f) : \E s \in f.phis : f.inc[s][q] = v}}
      loops == {e \in BackEdges(f) :
                  /\ \E q \in Readers(f, v) : q[1] \in LoopBlocks(f, e)
                  /\ Home(f, v) \notin LoopBlocks(f, e) \ {e[2]}}
  IN  Max({Number(PlaceOf(f, v))} \cup reads \cup sends \cup {LatchNumber(f, e) : e \in loops})

-----------------------------------------------------------------------------
(* LivenessAnalysis::computePerInstructionCFGLiveness, block by block.      *)
Carried == Instrs \cup {Arg}

(* What is alive before b when out is alive after it, its phi put aside.    *)
AliveBefore(f, b, out) ==
  LET defs == {At(f, b, k) : k \in 0 .. Len(f.body[b])}
      Exposed(k) == ReadBy(f, At(f, b, k)) \ {At(f, b, j) : j \in 0 .. k - 1}
  IN  (out \ defs) \cup ((UNION {Exposed(k) : k \in 1 .. EndOf(f, b)}) \cap Carried)

AliveWithoutEdges(f, b, alive) ==     \* variant: phis use nothing on their edges
  UNION {alive[s] \ {<<"phi", s>>} : s \in Succ(f)[b]}

(* What arrives at the end of b from its successors; alive[s] is alive before
   s.                                                                       *)
AliveAtEnd(f, b, alive) ==
  UNION {(alive[s] \ {<<"phi", s>>}) \cup ({f.inc[s][b]} \cap Carried) : s \in Succ(f)[b]}

(* Every block once per iteration, from none alive, until nothing changes.  *)
LiveAfterMap(f) ==
  LET alive[n \in 0 .. N] == [b \in Blocks |->
        IF n = 0 \/ b \notin Live(f) THEN {}
        ELSE AliveBefore(f, b, AliveAtEnd(f, b, alive[n - 1]))]
  IN  [b \in Live(f) |-> AliveAtEnd(f, b, alive[N])]

-----------------------------------------------------------------------------
(* The reference: v is alive at the start of b when a path from there comes
   to a use of v before it comes to the definition.                         *)
UseBlocks(f, v) ==
  {p[1] : p \in {q \in Readers(f, v) : q[2] # 0}}
    \cup {p \in Live(f) : \E s \in f.phis : f.inc[s][p] = v}

ArrivesAlive(f, v, b) ==
  LET home == IF v = Arg THEN {} ELSE {Home(f, v)}
  IN  b \notin home /\ ReachAvoiding(Succ(f), {b}, home) \cap UseBlocks(f, v) # {}

LeavesAlive(f, v, b) ==
  \E s \in Succ(f)[b] : f.inc[s][b] = v \/ ArrivesAlive(f, v, s)

(* The positions at the bounds of blocks where v must keep its register.    *)
AlivePlaces(f, v) ==
  {<<b, 0>> : b \in {c \in Live(f) : ArrivesAlive(f, v, c)}}
    \cup {<<b, EndOf(f, b)>> : b \in {c \in Live(f) : LeavesAlive(f, v, c)}}

(* Layouts that the ranges are meant for: an edge back in the list goes to the
   header of a loop, whose blocks are those from the header to the latch; the
   phis behind a loop take nothing from it that it does not define.         *)
Structured(f) ==
  LET back == {e \in Live(f) \X Live(f) : e[2] <= e[1] /\ e[2] \in Succ(f)[e[1]]}
  IN  /\ Live(f) \subseteq Reachable(Succ(f))
      /\ back \subseteq BackEdges(f)
      /\ \A e \in back :
           /\ LoopBlocks(f, e) = {b \in Live(f) : e[2] <= b /\ b <= e[1]}
           /\ \A u \in LoopBlocks(f, e) : \A s \in f.phis \ LoopBlocks(f, e) :
                f.inc[s][u] \in Instrs => Home(f, f.inc[s][u]) \in LoopBlocks(f, e)

(* The functions that a round begins and ends with may go on to allocation. *)
Allocated == {before, fn}

(* In a structured function the range of a value, one interval of the linear
   order, has every place in it where the value is alive on some path: no other
   interval gets its register there.                                        *)
RangesCover ==
  phase \in {"done", "combined"} => \A f \in {g \in Allocated : Structured(g)} :
    \A v \in Used(f) : \A p \in AlivePlaces(f, v) :
      Number(PlaceOf(f, v)) <= Number(p) /\ Number(p) <= RangeEnd(f, v)

(* The values held alive at the end of a block, which the code generators ask
   for to reuse the register of a last use, are exactly those that some path
   from there needs.                                                        *)
LivenessExact ==
  phase \in {"done", "combined"} => \A f \in Allocated : Live(f) \subseteq Reachable(Succ(f)) =>
    LET after == LiveAfterMap(f)
    IN  \A b \in Live(f) : after[b] = {v \in Used(f) \cup {Arg} : LeavesAlive(f, v, b)}
=============================================================================
