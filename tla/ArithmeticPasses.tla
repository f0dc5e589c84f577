--------------------------- MODULE ArithmeticPasses ---------------------------
(***************************************************************************)
(* The passes over the arithmetic of a block: the e-graph, unless it is    *)
(* turned off, and then the reduction of divisions by constants            *)
(* (src/src/fyra/CompilerPipeline.cpp, 264-265).                           *)
(*                                                                         *)
(* The instructions that take the place of a division are one instruction  *)
(* here, "Reduced", with what they compute from the numerator in `as`.     *)
(***************************************************************************)
EXTENDS EGraph, DivisionReduction

VARIABLES pass, visit

passVars == <<vars, pass, visit>>

(* Numbers have Word bits, and the divisions are those of the machine.       *)
ASSUME DataAssumption ==
  /\ Data = 0 .. 2 ^ Word - 1
  /\ \A a \in Data, b \in Data \ {0} :
       /\ Apply["Udiv"][<<a, b>>] = a \div b /\ Apply["Urem"][<<a, b>>] = a % b
       /\ Apply["Div"][<<a, b>>] = SignedDiv(a, b) /\ Apply["Rem"][<<a, b>>] = SignedRem(a, b)

(* A block ends in an instruction that is not arithmetic, its return.         *)
ASSUME BlockAssumption ==
  \A p \in Programs :
    LET ops  == {p.code[i].op : i \in 1 .. Len(p.code)}
        last == p.code[Len(p.code)]
    IN  /\ p.code \in Seq([op : ops, args : Seq(Operands(p))]) /\ p.code # <<>>
        /\ last.op \notin Arithmetic /\ last.args # <<>>
        /\ "Reduced" \notin ops \cup Arithmetic

PassesInit ==
  /\ visit = 1
  /\ \/ pass = "egraph" /\ Start("add")
     \/ pass = "divisions" /\ Start("done")

EGraphStep == pass = "egraph" /\ Next /\ UNCHANGED <<pass, visit>>

EndOfEGraph ==
  /\ pass = "egraph" /\ phase = "done"
  /\ pass' = "divisions"
  /\ UNCHANGED <<vars, visit>>

(* The numbers a constant with bits a may hold.  The e-graph takes the lowest
   number for a power of two, as it is only when written without a sign.     *)
Spellings(a) == IF graph # NoGraph /\ IsPower(a) THEN {a} ELSE {a, AsSigned(a)}

IsDivision(i) == code[i].op \in Divisions /\ IsConst(code[i].args[2])

Reduction(op, d) == [n \in Data |-> Reduced(op, d, n)]

Visit ==
  /\ pass = "divisions" /\ visit <= Len(code)
  /\ IF IsDivision(visit)
     THEN \E d \in Spellings(code[visit].args[2].of) :
            IF Reducible(code[visit].op, d)
            THEN code' = [code EXCEPT ![visit] =
                            [op |-> "Reduced", args |-> <<@.args[1]>>, as |-> Reduction(@.op, d)]]
            ELSE UNCHANGED code
     ELSE UNCHANGED code
  /\ visit' = visit + 1
  /\ UNCHANGED <<program, phase, graph, adds, cursor, rule, round, queue, rebuilds, extracts, pass>>

EndOfDivisions ==
  /\ pass = "divisions" /\ visit > Len(code)
  /\ pass' = "end"
  /\ UNCHANGED <<vars, visit>>

PassesNext == EGraphStep \/ EndOfEGraph \/ Visit \/ EndOfDivisions

PassesSpec == PassesInit /\ [][PassesNext]_passVars

(* The passes are one thread that nothing interrupts.                       *)
FairPassesSpec == PassesSpec /\ WF_passVars(PassesNext)

-----------------------------------------------------------------------------
(* What instruction i computes if the others amount to what `before` says.     *)
ResultOf(i, before) ==
  LET V(v) == IF v.kind = "inst" THEN before[v.of] ELSE ValueOf(program, v)
      x    == V(code[i].args[1])
  IN  CASE code[i].op \in Arithmetic -> Compute(code[i].op, x, V(code[i].args[2]))
        [] code[i].op = "Reduced"    -> [e \in Envs |-> code[i].as[x[e]]]
        [] OTHER                     -> x

Unset == [j \in 1 .. Len(code) |-> [e \in Envs |-> 0]]

(* What the instructions amount to after n steps, in each of which all of them
   are computed: their data flow, in whatever order they stand.                *)
Evaluated(n) ==
  LET value[m \in 0 .. n] ==
        IF m = 0 THEN Unset
        ELSE LET before == value[m - 1] IN [j \in 1 .. Len(code) |-> ResultOf(j, before)]
  IN  value[n]

(* What the first n leave behind when the block is executed from its start.    *)
Executed(n) ==
  LET regs[m \in 0 .. n] ==
        IF m = 0 THEN Unset
        ELSE LET before == regs[m - 1] IN [before EXCEPT ![m] = ResultOf(m, before)]
  IN  regs[n]

(* The instructions that are computed in at most n steps.                      *)
Computed(n) ==
  LET computed[m \in 0 .. n] ==
        IF m = 0 THEN {}
        ELSE LET before == computed[m - 1]
             IN  {j \in 1 .. Len(code) : \A k \in DOMAIN code[j].args :
                    code[j].args[k].kind = "inst" => code[j].args[k].of \in before}
  IN  computed[n]

(* No instruction is computed from itself.                                    *)
Acyclic == 1 .. Len(code) \subseteq Computed(Len(code))

(* Where the reduction is exact.  The magic numbers of an unsigned divisor
   that is no power of two are good for numerators whose product with it has
   Word bits; the lowest number, written without a sign, is divided by as if
   it were above zero.                                                       *)
ReducesExactly(p, e) ==
  \A i \in 1 .. Len(p.code) : p.code[i].op \in Arithmetic =>
    LET n == ValueOf(p, p.code[i].args[1])[e]
        d == ValueOf(p, p.code[i].args[2])[e]
    IN  /\ p.code[i].op \in {"Udiv", "Urem"} => IsPower(d) \/ n * d < 2 ^ Word
        /\ p.code[i].op = "Div" => d # 2 ^ (Word - 1)

(* The instructions that instruction j reads.                                 *)
ReadBy(j) == {code[j].args[k].of : k \in {l \in DOMAIN code[j].args : code[j].args[l].kind = "inst"}}

(* The first n read only what stands before them.                             *)
InPlace(n) == \A j \in 1 .. n : \A i \in ReadBy(j) : i < j

(* Whatever became of the instructions, each replaced by one that computes the
   same from operands that either pass may have replaced before it, the data
   flow of the block is that of the program: no instruction is computed from
   itself, and what the return is given amounts to what it was given.  A class
   that lost its constant may be computed from itself.
   That says nothing of the order in which the instructions stand, and what
   extractBest builds stands behind the return: it alone is read too early.
   Where the instructions up to the return read nothing of the kind, executing
   the block from its start returns what the program returns.                 *)
SameResult ==
  pass = "end" /\ (roots # <<>> => Exact(program) /\ ConstantsListed) =>
    LET last == Len(program.code)
        Returns(values) ==
          \A e \in Envs : ReducesExactly(program, e) =>
            values[last][e] = ValueOf(program, program.code[last].args[1])[e]
    IN  /\ Acyclic /\ Returns(Evaluated(Len(code)))
        /\ \A j \in 1 .. last : \A i \in ReadBy(j) : i < j \/ i > last
        /\ InPlace(last) => Returns(Executed(last))

(* EGraphPass.cpp:49-50 says that a replacement is inserted before the original
   instruction, to preserve the order of definitions and uses: as the program
   read only what stood before, so does the block after the pass.             *)
OrderPreserved == phase = "done" => InPlace(Len(program.code))

(* Then every loop of the passes and the recursion of extractBest end.        *)
PassesEnd ==
  pass = "divisions" \/ (Exact(program) /\ Progresses(program)) => <>(pass = "end")
=============================================================================
