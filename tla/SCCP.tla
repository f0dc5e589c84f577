-------------------------------- MODULE SCCP --------------------------------
(***************************************************************************)
(* Functions in SSA form as the scalar passes see them, their execution,   *)
(* and the analysis of transforms::SCCP (src/src/transforms/SCCP.cpp).     *)
(*                                                                         *)
(* Block b of the function that is parsed has one instruction, op[b], a    *)
(* phi if b \in phis, and a terminator.  Merging appends the instruction   *)
(* of one block to those of another: body[b] lists the instructions of b   *)
(* by the blocks they were parsed in, and is empty when b is erased.       *)
(* Instructions are "pure" (the outcome is Apply of their operands), a     *)
(* "copy", a "call" of a function with effects, or a "load": anything with *)
(* an outcome that SCCP does not know and no effect that                   *)
(* DeadInstructionElimination sees.                                        *)
(***************************************************************************)
EXTENDS CFG, Sequences

CONSTANTS
  Data, Zero,     \* the values of the program, and the one that is false
  Apply,          \* the pure operations: Apply[g][<<d, e>>], Undef if undefined
  Programs,       \* the functions that are optimised
  Undef, Absent   \* no outcome; no incoming value

Null == <<"null", 0>>
Arg  == <<"arg", 0>>
Const(d) == <<"const", d>>
Instrs == {"phi", "op"} \X Blocks
Values == {Const(d) : d \in Data} \cup Instrs \cup {Arg, Null}

Op == [code : {"none", "pure", "copy", "call", "load"}, fun : DOMAIN Apply,
       x : Values, y : Values]

Term == [code : {"ret", "jmp", "jnz"}, x : Values, t : Blocks, f : Blocks]

Function == [body : [Blocks -> Seq(Blocks)], phis : SUBSET Blocks,
             inc : [Blocks -> [Blocks -> Values \cup {Absent}]],
             op : [Blocks -> Op], term : [Blocks -> Term]]

Live(f) == {b \in Blocks : f.body[b] # <<>>}

Targets(t) == CASE t.code = "ret" -> {} [] t.code = "jmp" -> {t.t} [] OTHER -> {t.t, t.f}

(* CFGBuilder::run; every block has a terminator.                           *)
Succ(f) == [b \in Blocks |-> IF f.body[b] = <<>> THEN {} ELSE Targets(f.term[b])]

OpReads(o) ==
  CASE o.code = "none" -> {} [] o.code = "pure" -> {o.x, o.y} [] OTHER -> {o.x}

TermReads(t) == IF t.code = "jmp" THEN {} ELSE {t.x}

PhiReads(f, b) == {f.inc[b][p] : p \in Blocks} \ {Absent}

(* What parsing and SSA construction produce: phis have a value for each
   predecessor, a value is defined before it is used, the targets of a branch
   differ.                                                                  *)
WellFormed(f) ==
  LET succ == Succ(f)
      ReadableAtEnd(v, b) ==
        v \notin Instrs \/ (Dominates(succ, v[2], b) /\ v[2] \in
                             IF v[1] = "phi" THEN f.phis ELSE {c \in Blocks : f.op[c].code # "none"})
      Readable(v, b) == ReadableAtEnd(v, b) /\ v # <<"op", b>>
  IN  /\ f \in Function
      /\ \A b \in Blocks : f.body[b] = <<b>>
      /\ Entry \notin f.phis
      /\ \A b \in Blocks : f.term[b].code = "jnz" => f.term[b].t # f.term[b].f
      /\ \A b, p \in Blocks : (f.inc[b][p] # Absent) <=> (b \in f.phis /\ b \in succ[p])
      /\ \A b, p \in Blocks : f.inc[b][p] # Absent =>
           ReadableAtEnd(f.inc[b][p], p) /\ f.inc[b][p] # <<"phi", b>>
      /\ \A b \in Blocks : \A v \in OpReads(f.op[b]) : Readable(v, b)
      /\ \A b \in Blocks : \A v \in TermReads(f.term[b]) : ReadableAtEnd(v, b)

ASSUME SCCPAssumption ==
  /\ Zero \in Data /\ Undef \notin Data /\ Absent \notin Values
  /\ \A g \in DOMAIN Apply : Apply[g] \in [Data \X Data -> Data \cup {Undef}]
  /\ \A f \in Programs : WellFormed(f)

(* Bottom, which a call's result has, is never a constant: Data has more than
   one value.                                                               *)
ASSUME DataAssumption == \E d \in Data : d # Zero

VARIABLES
  before,   \* the function that was analysed
  phase,    \* "analyse", then the passes that follow
  lat,      \* the lattice: Top is {}, a constant {c}, Bottom Data
  edges,    \* executableEdges
  reached,  \* executableBlocks
  blocks,   \* blockWorklist
  instrs,   \* instructionWorklist
  cur, next \* the block that is visited and its next instruction, or 0

Lattice == {{}, Data} \cup {{d} : d \in Data}

analysis == <<lat, edges, reached, blocks, instrs, cur, next>>

(* An index of block b: 0 is its phi, the last one its terminator.          *)
Last(b) == Len(before.body[b]) + 1

InstrAt(b, k) ==
  IF k = 0 THEN <<"phi", b>>
  ELSE IF k = Last(b) THEN <<"term", b>>
  ELSE <<"op", before.body[b][k]>>

InstrsOf(b) == {InstrAt(b, k) : k \in 0 .. Last(b)}

Reads(i) ==
  CASE i[1] = "phi" -> PhiReads(before, i[2])
    [] i[1] = "op" -> OpReads(before.op[i[2]])
    [] OTHER -> TermReads(before.term[i[2]])

Users(v) == {i \in {"phi", "op", "term"} \X Blocks : v \in Reads(i)}

(* SCCP::performTransformation and initialize, before the first visit.      *)
StartAnalysis ==
  /\ lat = [i \in Instrs |-> {}]
  /\ edges = {} /\ reached = {} /\ instrs = {}
  /\ blocks = {Entry}
  /\ cur = 0 /\ next = 0

RestartAnalysis ==
  /\ lat' = [i \in Instrs |-> {}]
  /\ edges' = {} /\ reached' = {} /\ instrs' = {}
  /\ blocks' = {Entry}
  /\ cur' = 0 /\ next' = 0

(* SCCP::getLatticeValue.                                                   *)
Lat(v) ==
  IF v \in Instrs THEN lat[v]
  ELSE IF v[1] = "const" THEN {v[2]}
  ELSE Data

(* Two different constants make Bottom.                                     *)
Widen(S) == IF \E d, e \in S : d # e THEN Data ELSE S

(* foldScalarInstruction: Bottom when the operation is undefined.           *)
Fold(g, d, e) == IF Apply[g][<<d, e>>] = Undef THEN Data ELSE {Apply[g][<<d, e>>]}

FoldOp(o) ==
  CASE o.code = "none" -> {}
    [] o.code = "copy" -> Lat(o.x)
    [] o.code = "pure" ->
         IF Lat(o.x) = Data \/ Lat(o.y) = Data THEN Data
         ELSE UNION {Fold(o.fun, d, e) : d \in Lat(o.x), e \in Lat(o.y)}
    [] OTHER -> Data

(* A phi joins what arrives over executable edges; a null is skipped.       *)
Arriving(b) ==
  {before.inc[b][p] : p \in {q \in Blocks : <<q, b>> \in edges}} \ {Absent, Null}

FoldPhi(b) == UNION {Lat(v) : v \in Arriving(b)}

Folded(i) == IF i[1] = "phi" THEN FoldPhi(i[2]) ELSE FoldOp(before.op[i[2]])

RaiseQuietly(i, waiting) ==           \* variant: no user is visited again
  /\ lat' = [lat EXCEPT ![i] = Widen(lat[i] \cup Folded(i))]
  /\ instrs' = waiting

RaiseAlways(i, waiting) ==            \* variant: users are visited in any case
  /\ lat' = [lat EXCEPT ![i] = Widen(lat[i] \cup Folded(i))]
  /\ instrs' = waiting \cup Users(i)

(* SCCP::setLatticeValue: the users of a value that changed are visited.    *)
Raise(i, waiting) ==
  /\ lat' = [lat EXCEPT ![i] = Widen(lat[i] \cup Folded(i))]
  /\ instrs' = IF Widen(lat[i] \cup Folded(i)) = lat[i] THEN waiting
               ELSE waiting \cup Users(i)

(* The branches of a terminator that may be taken.                          *)
Taken(t) ==
  CASE t.code = "ret" -> {}
    [] t.code = "jmp" -> {t.t}
    [] OTHER -> {s \in {t.t, t.f} : \E d \in Lat(t.x) : s = IF d = Zero THEN t.f ELSE t.t}

Follow(b) ==
  /\ edges' = edges \cup {<<b, s>> : s \in Taken(before.term[b])}
  /\ blocks' = blocks \cup {s \in Taken(before.term[b]) : <<b, s>> \notin edges}

(* SCCP::visit.                                                             *)
Visit(i, waiting) ==
  IF i[1] = "term"
  THEN Follow(i[2]) /\ instrs' = waiting /\ UNCHANGED lat
  ELSE Raise(i, waiting) /\ UNCHANGED <<edges, blocks>>

(* The worklists are sets here, taken in any order: the code's stacks are one
   of the orders, and a block that is on its stack twice only has its phis
   visited once more.                                                       *)
PopBlock(b) ==
  /\ phase = "analyse" /\ cur = 0
  /\ b \in blocks \ reached
  /\ blocks' = blocks \ {b} /\ reached' = reached \cup {b}
  /\ cur' = b /\ next' = 0
  /\ UNCHANGED <<before, phase, lat, edges, instrs>>

PopAgain(b) ==
  /\ phase = "analyse" /\ cur = 0
  /\ b \in blocks \cap reached
  /\ blocks' = blocks \ {b}
  /\ Raise(<<"phi", b>>, instrs)
  /\ UNCHANGED <<before, phase, edges, reached, cur, next>>

VisitNext ==
  /\ phase = "analyse" /\ cur # 0
  /\ Visit(InstrAt(cur, next), instrs)
  /\ IF next = Last(cur) THEN cur' = 0 /\ next' = 0
     ELSE next' = next + 1 /\ UNCHANGED cur
  /\ UNCHANGED <<before, phase, reached>>

VisitUser(i) ==
  /\ phase = "analyse" /\ cur = 0 /\ blocks = {}
  /\ i \in instrs
  /\ IF \E b \in reached : i \in InstrsOf(b)
     THEN Visit(i, instrs \ {i})
     ELSE instrs' = instrs \ {i} /\ UNCHANGED <<lat, edges, blocks>>
  /\ UNCHANGED <<before, phase, reached, cur, next>>

EndAnalysis ==
  /\ phase = "analyse" /\ cur = 0 /\ blocks = {} /\ instrs = {}
  /\ phase' = "constants"
  /\ UNCHANGED <<before, analysis>>

Analyse ==
  \/ \E b \in Blocks : PopBlock(b) \/ PopAgain(b)
  \/ VisitNext
  \/ \E i \in instrs : VisitUser(i)
  \/ EndAnalysis

-----------------------------------------------------------------------------
(* Execution of a function.  A machine is in block at, before its k-th
   instruction, or has ended (at = 0) with an outcome, Undef after a trap.  *)
Machine == [at : Blocks \cup {0}, k : Nat,
            env : [Instrs -> Data \cup {Undef}], arg : Data,
            out : Data \cup {Undef}]

Eval(env, arg, v) ==
  IF v \in Instrs THEN env[v]
  ELSE IF v[1] = "const" THEN v[2]
  ELSE IF v = Arg THEN arg
  ELSE Undef

Boot(arg) == [at |-> Entry, k |-> 1, env |-> [i \in Instrs |-> Undef],
              arg |-> arg, out |-> Undef]

(* What instruction c of f yields, r being what a load or a call returns.   *)
Yield(f, m, c, r) ==
  LET o == f.op[c]
      x == Eval(m.env, m.arg, o.x)
      y == Eval(m.env, m.arg, o.y)
  IN  CASE o.code = "none" -> Undef
        [] o.code = "copy" -> x
        [] o.code = "pure" -> IF x = Undef \/ y = Undef THEN Undef ELSE Apply[o.fun][<<x, y>>]
        [] OTHER -> r

End(m, out) == [m EXCEPT !.at = 0, !.out = out]

Enter(f, m, s) ==
  LET v == f.inc[s][m.at]
  IN  [m EXCEPT !.at = s, !.k = 1,
                !.env[<<"phi", s>>] = IF v = Absent THEN Undef ELSE Eval(m.env, m.arg, v)]

Leave(f, m) ==
  LET t == f.term[m.at]
      x == Eval(m.env, m.arg, t.x)
  IN  CASE t.code = "ret" -> End(m, x)
        [] t.code = "jmp" -> Enter(f, m, t.t)
        [] OTHER -> IF x = Undef THEN End(m, Undef)
                    ELSE IF x = Zero THEN Enter(f, m, t.f) ELSE Enter(f, m, t.t)

(* One instruction, and the terminator after the last one of a block.       *)
Execute(f, m, r) ==
  LET c == f.body[m.at][m.k]
      n == [m EXCEPT !.env[<<"op", c>>] = Yield(f, m, c, r)]
  IN  IF f.op[c].code = "pure" /\ n.env[<<"op", c>>] = Undef THEN End(m, Undef)
      ELSE IF m.k < Len(f.body[m.at]) THEN [n EXCEPT !.k = @ + 1]
      ELSE Leave(f, n)
=============================================================================
