------------------------ MODULE SameBehaviour_proofs ------------------------
(***************************************************************************)
(* The proof that a round of the scalar passes changes nothing that a      *)
(* caller can see, for every function, argument and result of loads and    *)
(* calls: what each pass leaves follows what it found, step by step.       *)
(***************************************************************************)
EXTENDS ScalarPasses_proofs

-----------------------------------------------------------------------------
(* One function follows another: machines that execute both, side by side, with
   the same argument and the same results of loads and calls, are always a
   pair of R, and g answers in each pair of R what f does. *)
Answers(f, g, m, n) ==
  /\ InBlock(f, m) =>
       /\ InBlock(g, n)
       /\ f.body[m.at][m.k] = g.body[n.at][n.k]
       /\ f.op[f.body[m.at][m.k]].code = "call" =>
            /\ g.op[f.body[m.at][m.k]].code = "call"
            /\ Eval(m.env, m.arg, f.op[f.body[m.at][m.k]].x)
                 = Eval(n.env, n.arg, g.op[f.body[m.at][m.k]].x)
  /\ (m.at = 0 /\ m.out # Undef) => n.at = 0 /\ n.out = m.out

Lockstep(f, g, R) ==
  /\ \A d \in Data : <<Boot(d), Boot(d)>> \in R
  /\ \A p \in R : Answers(f, g, p[1], p[2])
  /\ \A p \in R : \A r \in Data : InBlock(f, p[1]) /\ InBlock(g, p[2]) =>
       <<Execute(f, p[1], r), Execute(g, p[2], r)>> \in R

Follows(f, g) == \E R \in SUBSET (Machine \X Machine) : Lockstep(f, g, R)

LEMMA FollowsItself ==
  ASSUME NEW f \in Function
  PROVE  Follows(f, f)
<1> DEFINE R == {p \in Machine \X Machine : p[1] = p[2]}
<1>1. \A m \in Machine : <<m, m>> \in R
  OBVIOUS
<1>2. \A d \in Data : <<Boot(d), Boot(d)>> \in R
  BY <1>1, BootType
<1>3. \A p \in R : Answers(f, f, p[1], p[2])
  BY DEF Answers
<1>4. ASSUME NEW p \in R, NEW r \in Data, InBlock(f, p[1])
      PROVE  <<Execute(f, p[1], r), Execute(f, p[2], r)>> \in R
  <2>1. p[1] \in Machine /\ p[2] = p[1]
    OBVIOUS
  <2>2. Execute(f, p[1], r) \in Machine
    BY <1>4, <2>1, ExecuteType
  <2> QED BY <1>1, <2>1, <2>2
<1>5. R \in SUBSET (Machine \X Machine)
  OBVIOUS
<1> HIDE DEF R
<1> QED BY <1>2, <1>3, <1>4, <1>5 DEF Follows, Lockstep

LEMMA FollowsChain ==
  ASSUME NEW f \in Function, NEW g \in Function, NEW h \in Function, Follows(f, g), Follows(g, h)
  PROVE  Follows(f, h)
<1>1. PICK R \in SUBSET (Machine \X Machine) : Lockstep(f, g, R)
  BY DEF Follows
<1>2. PICK S \in SUBSET (Machine \X Machine) : Lockstep(g, h, S)
  BY DEF Follows
<1> DEFINE T == {p \in Machine \X Machine :
                   \E n \in Machine : <<p[1], n>> \in R /\ <<n, p[2]>> \in S}
<1>3. ASSUME NEW d \in Data PROVE <<Boot(d), Boot(d)>> \in T
  <2>1. Boot(d) \in Machine
    BY BootType
  <2>2. <<Boot(d), Boot(d)>> \in R /\ <<Boot(d), Boot(d)>> \in S
    BY <1>1, <1>2 DEF Lockstep
  <2> QED BY <2>1, <2>2
<1>4. ASSUME NEW p \in T
      PROVE  /\ Answers(f, h, p[1], p[2])
             /\ \A r \in Data : InBlock(f, p[1]) /\ InBlock(h, p[2]) =>
                  <<Execute(f, p[1], r), Execute(h, p[2], r)>> \in T
  <2>1. PICK m \in Machine, o \in Machine : p = <<m, o>>
    OBVIOUS
  <2>2. PICK n \in Machine : <<m, n>> \in R /\ <<n, o>> \in S
    BY <2>1
  <2>3. Answers(f, g, m, n) /\ Answers(g, h, n, o)
    BY <1>1, <1>2, <2>2 DEF Lockstep
  <2>4. Answers(f, h, m, o)
    BY <2>3 DEF Answers
  <2>5. ASSUME NEW r \in Data, InBlock(f, m), InBlock(h, o)
        PROVE  <<Execute(f, m, r), Execute(h, o, r)>> \in T
    <3>1. InBlock(g, n)
      BY <2>3, <2>5 DEF Answers
    <3>2. PICK x, y, z : x = Execute(f, m, r) /\ y = Execute(g, n, r) /\ z = Execute(h, o, r)
      OBVIOUS
    <3>3. x \in Machine /\ y \in Machine /\ z \in Machine
      BY <2>5, <3>1, <3>2, ExecuteType
    <3>4. <<x, y>> \in R
      <4>1. <<m, n>>[1] = m /\ <<m, n>>[2] = n
        OBVIOUS
      <4> QED BY <1>1, <2>2, <2>5, <3>1, <3>2, <4>1 DEF Lockstep
    <3>5. <<y, z>> \in S
      <4>1. <<n, o>>[1] = n /\ <<n, o>>[2] = o
        OBVIOUS
      <4> QED BY <1>2, <2>2, <2>5, <3>1, <3>2, <4>1 DEF Lockstep
    <3> QED BY <3>2, <3>3, <3>4, <3>5
  <2> HIDE DEF T
  <2>6. p[1] = m /\ p[2] = o
    BY <2>1
  <2> QED BY <2>4, <2>5, <2>6
<1>5. T \in SUBSET (Machine \X Machine)
  OBVIOUS
<1> HIDE DEF T
<1> QED BY <1>3, <1>4, <1>5 DEF Follows, Lockstep

-----------------------------------------------------------------------------
(* One step of an execution, in plain terms. *)
Outcome(o, x, y, r) ==
  CASE o.code = "none" -> Undef
    [] o.code = "copy" -> x
    [] o.code = "pure" -> IF x = Undef \/ y = Undef THEN Undef ELSE Apply[o.fun][<<x, y>>]
    [] OTHER -> r

Computes(f, c, env, arg, r) ==
  Outcome(f.op[c], Eval(env, arg, f.op[c].x), Eval(env, arg, f.op[c].y), r)

(* The block that is entered at the end of b, or 0, and what is returned. *)
Exit(f, b, env, arg) ==
  LET t == f.term[b]
      x == Eval(env, arg, t.x)
  IN  CASE t.code = "ret" -> 0 [] t.code = "jmp" -> t.t
        [] OTHER -> IF x = Undef THEN 0 ELSE IF x = Zero THEN t.f ELSE t.t

Returned(f, b, env, arg) ==
  IF f.term[b].code = "ret" THEN Eval(env, arg, f.term[b].x) ELSE Undef

With(env, i, x) == [env EXCEPT ![i] = x]

Brings(f, s, b, env, arg) ==
  IF f.inc[s][b] = Absent THEN Undef ELSE Eval(env, arg, f.inc[s][b])

Env == [Instrs -> Data \cup {Undef}]

LEMMA WithType ==
  ASSUME NEW env \in Env, NEW i \in Instrs, NEW x \in Data \cup {Undef}
  PROVE  /\ With(env, i, x) \in Env /\ With(env, i, x)[i] = x
         /\ \A j \in Instrs : j # i => With(env, i, x)[j] = env[j]
BY DEF With, Env

LEMMA BringsType ==
  ASSUME NEW f \in Function, NEW s \in Blocks, NEW b \in Blocks, NEW env \in Env, NEW arg \in Data
  PROVE  Brings(f, s, b, env, arg) \in Data \cup {Undef}
<1>1. f.inc[s][b] \in Values \cup {Absent}
  BY FunctionType
<1> QED BY <1>1, EvalType DEF Brings, Env

LEMMA Left ==
  ASSUME NEW f \in Function, NEW m \in Machine, NEW b \in Blocks, m.at = b
  PROVE  LET s == Exit(f, b, m.env, m.arg)
             n == Leave(f, m)
         IN  /\ s \in Blocks \cup {0}
             /\ s \in Blocks => s \in Targets(f.term[b])
             /\ s \in Blocks => /\ n.at = s /\ n.k = 1 /\ n.arg = m.arg
                                /\ n.env = With(m.env, <<"phi", s>>, Brings(f, s, b, m.env, m.arg))
             /\ s = 0 => n.at = 0 /\ n.out = Returned(f, b, m.env, m.arg)
<1> DEFINE t == f.term[b]
           x == Eval(m.env, m.arg, t.x)
           s == Exit(f, b, m.env, m.arg)
<1>1. t \in Term
  BY FunctionType
<1>2. t.code \in {"ret", "jmp", "jnz"} /\ t.t \in Blocks /\ t.f \in Blocks
  BY <1>1 DEF Term
<1>3. \A u \in Blocks : /\ Enter(f, m, u).at = u /\ Enter(f, m, u).k = 1 /\ Enter(f, m, u).arg = m.arg
                        /\ Enter(f, m, u).env = With(m.env, <<"phi", u>>, Brings(f, u, b, m.env, m.arg))
  <2> SUFFICES ASSUME NEW u \in Blocks
               PROVE  /\ Enter(f, m, u).at = u /\ Enter(f, m, u).k = 1 /\ Enter(f, m, u).arg = m.arg
                      /\ Enter(f, m, u).env = With(m.env, <<"phi", u>>, Brings(f, u, b, m.env, m.arg))
    OBVIOUS
  <2>1. PICK y : y = Brings(f, u, b, m.env, m.arg)
    OBVIOUS
  <2>2. PICK e : e = [m.env EXCEPT ![<<"phi", u>>] = y]
    OBVIOUS
  <2>3. Enter(f, m, u) = [m EXCEPT !.at = u, !.k = 1, !.env = e]
    BY <2>1, <2>2 DEF Enter, Brings
  <2> QED BY <2>1, <2>2, <2>3 DEF Machine, With
<1>4. \A out : End(m, out).at = 0 /\ End(m, out).out = out
  BY DEF End, Machine
<1>5. 0 \notin Blocks
  BY EntryFirst
<1> HIDE DEF x
<1>6. CASE t.code = "ret"
  <2>1. s = 0 /\ Leave(f, m) = End(m, x) /\ Returned(f, b, m.env, m.arg) = x
    BY <1>6 DEF Exit, Leave, Returned, x
  <2> HIDE DEF s
  <2> QED BY <1>4, <1>5, <2>1 DEF s
<1>7. CASE t.code = "jmp"
  <2>1. s = t.t /\ Leave(f, m) = Enter(f, m, t.t) /\ t.t \in Targets(t)
    BY <1>7 DEF Exit, Leave, Targets
  <2> HIDE DEF s
  <2> QED BY <1>2, <1>3, <1>5, <2>1 DEF s
<1>8. CASE t.code = "jnz"
  <2>1. s = IF x = Undef THEN 0 ELSE IF x = Zero THEN t.f ELSE t.t
    BY <1>8 DEF Exit, x
  <2>2. Leave(f, m) = IF x = Undef THEN End(m, Undef) ELSE IF x = Zero THEN Enter(f, m, t.f) ELSE Enter(f, m, t.t)
    BY <1>8 DEF Leave, x
  <2>3. Targets(t) = {t.t, t.f} /\ Returned(f, b, m.env, m.arg) = Undef
    BY <1>8 DEF Targets, Returned
  <2> HIDE DEF s, t
  <2>4. CASE x = Undef
    <3>1. s = 0 /\ Leave(f, m) = End(m, Undef)
      BY <2>1, <2>2, <2>4
    <3> QED BY <1>4, <1>5, <2>3, <3>1 DEF s
  <2>5. CASE x # Undef
    <3>1. PICK u \in {t.t, t.f} : s = u /\ Leave(f, m) = Enter(f, m, u)
      BY <2>1, <2>2, <2>5
    <3> QED BY <1>2, <1>3, <1>5, <2>3, <3>1 DEF s, t
  <2> QED BY <2>4, <2>5
<1> QED BY <1>2, <1>6, <1>7, <1>8

(* How a machine n follows a machine at place k of b, whose instruction c makes y. *)
Moves(f, c, b, k, arg, y, env, s, n) ==
  /\ n \in Machine /\ y \in Data \cup {Undef} /\ env \in Env /\ s \in Blocks \cup {0}
  /\ s \in Blocks => s \in Targets(f.term[b])
  /\ IF f.op[c].code = "pure" /\ y = Undef THEN n.at = 0 /\ n.out = Undef
     ELSE IF k < Len(f.body[b])
     THEN n.at = b /\ n.k = k + 1 /\ n.env = env /\ n.arg = arg
     ELSE IF s = 0 THEN n.at = 0 /\ n.out = Returned(f, b, env, arg)
     ELSE /\ n.at = s /\ n.k = 1 /\ n.arg = arg
          /\ n.env = With(env, <<"phi", s>>, Brings(f, s, b, env, arg))

LEMMA Executed ==
  ASSUME NEW f \in Function, NEW m \in Machine, InBlock(f, m), NEW r \in Data,
         NEW c \in Blocks, c = f.body[m.at][m.k],
         NEW y, y = Computes(f, c, m.env, m.arg, r),
         NEW env, env = With(m.env, <<"op", c>>, y),
         NEW s, s = Exit(f, m.at, env, m.arg),
         NEW n, n = Execute(f, m, r)
  PROVE  Moves(f, c, m.at, m.k, m.arg, y, env, s, n)
<1>1. m.at \in Blocks /\ n \in Machine /\ <<"op", c>> \in Instrs
  BY ExecuteType, OpInstr DEF InBlock
<1>2. Yield(f, m, c, r) = y
  BY DEF Yield, Computes, Outcome
<1>3. y \in Data \cup {Undef}
  BY <1>2, YieldType
<1>4. env \in Env /\ env[<<"op", c>>] = y
  <2>1. m.env \in Env
    BY MachineType DEF Env
  <2> QED BY <1>1, <1>3, <2>1, WithType
<1>5. PICK q : q = [m EXCEPT !.env = env]
  OBVIOUS
<1>6. q \in Machine /\ q.at = m.at /\ q.k = m.k /\ q.env = env /\ q.arg = m.arg
  BY <1>4, <1>5 DEF Machine, Env
<1>7. n = IF f.op[c].code = "pure" /\ y = Undef THEN End(m, Undef)
          ELSE IF m.k < Len(f.body[m.at]) THEN [q EXCEPT !.k = @ + 1] ELSE Leave(f, q)
  <2>1. [m EXCEPT !.env[<<"op", c>>] = y] = q
    BY <1>5 DEF With, Machine
  <2>2. q.env[<<"op", c>>] = y
    BY <1>4, <1>6
  <2> QED BY <1>2, <2>1, <2>2 DEF Execute
<1>8. End(m, Undef).at = 0 /\ End(m, Undef).out = Undef
  BY DEF End, Machine
<1>9. PICK p : p = [q EXCEPT !.k = @ + 1]
  OBVIOUS
<1>10. p.at = m.at /\ p.k = m.k + 1 /\ p.env = env /\ p.arg = m.arg
  BY <1>6, <1>9 DEF Machine
<1>11. /\ s \in Blocks \cup {0}
       /\ s \in Blocks => s \in Targets(f.term[m.at])
       /\ s \in Blocks => /\ Leave(f, q).at = s /\ Leave(f, q).k = 1 /\ Leave(f, q).arg = m.arg
                          /\ Leave(f, q).env = With(env, <<"phi", s>>, Brings(f, s, m.at, env, m.arg))
       /\ s = 0 => Leave(f, q).at = 0 /\ Leave(f, q).out = Returned(f, m.at, env, m.arg)
  BY <1>1, <1>6, Left
<1>12. CASE f.op[c].code = "pure" /\ y = Undef
  BY <1>1, <1>3, <1>4, <1>7, <1>8, <1>11, <1>12 DEF Moves
<1>13. CASE ~(f.op[c].code = "pure" /\ y = Undef) /\ m.k < Len(f.body[m.at])
  <2>1. n = p
    BY <1>7, <1>9, <1>13
  <2> QED BY <1>1, <1>3, <1>4, <1>10, <1>11, <1>13, <2>1 DEF Moves
<1>14. CASE ~(f.op[c].code = "pure" /\ y = Undef) /\ ~(m.k < Len(f.body[m.at]))
  <2>1. n = Leave(f, q)
    BY <1>7, <1>14
  <2> QED BY <1>1, <1>3, <1>4, <1>11, <1>14, <2>1 DEF Moves
<1> QED BY <1>12, <1>13, <1>14

-----------------------------------------------------------------------------
(* What SSA form is good for: wherever a result is available it is still what
   its instruction would compute there, and a phi with one predecessor what
   arrives from it. *)
Fits(f, i, env, arg) ==
  IF i[1] = "op"
  THEN LET o == f.op[i[2]]
       IN  /\ o.code = "copy" => env[i] = Eval(env, arg, o.x)
           /\ o.code = "pure" => env[i] = Apply[o.fun][<<Eval(env, arg, o.x), Eval(env, arg, o.y)>>]
  ELSE \A p \in Blocks : Preds(Succ(f), i[2]) = {p} => env[i] = Eval(env, arg, f.inc[i[2]][p])

Coherent(f, b, k, env, arg) ==
  \A i \in Instrs : Available(f, i, b, k) => env[i] \in Data /\ Fits(f, i, env, arg)

(* What the value of i was made of. *)
Basis(f, i) ==
  IF i[1] = "op" THEN OpReads(f.op[i[2]])
  ELSE {f.inc[i[2]][p] : p \in {q \in Blocks : Preds(Succ(f), i[2]) = {q}}}

LEMMA EvalFrame ==
  ASSUME NEW env, NEW env2, NEW arg, NEW v, v \in Instrs => env2[v] = env[v]
  PROVE  Eval(env2, arg, v) = Eval(env, arg, v)
BY DEF Eval

LEMMA FitsFrame ==
  ASSUME NEW f, NEW i, NEW env, NEW env2, NEW arg, Fits(f, i, env, arg), env2[i] = env[i],
         \A w \in Basis(f, i) : w \in Instrs => env2[w] = env[w]
  PROVE  Fits(f, i, env2, arg)
<1>1. \A w \in Basis(f, i) : Eval(env2, arg, w) = Eval(env, arg, w)
  BY EvalFrame
<1>2. CASE i[1] = "op"
  <2>1. PICK o : o = f.op[i[2]]
    OBVIOUS
  <2>2. \A w \in OpReads(o) : Eval(env2, arg, w) = Eval(env, arg, w)
    BY <1>1, <1>2, <2>1 DEF Basis
  <2>3. o.code = "copy" => Eval(env2, arg, o.x) = Eval(env, arg, o.x)
    BY <2>2 DEF OpReads
  <2>4. o.code = "pure" => Eval(env2, arg, o.x) = Eval(env, arg, o.x) /\ Eval(env2, arg, o.y) = Eval(env, arg, o.y)
    BY <2>2 DEF OpReads
  <2> QED BY <1>2, <2>1, <2>3, <2>4 DEF Fits
<1>3. CASE i[1] # "op"
  <2>1. \A p \in Blocks : Preds(Succ(f), i[2]) = {p} => f.inc[i[2]][p] \in Basis(f, i)
    BY <1>3 DEF Basis
  <2> QED BY <1>1, <1>3, <2>1 DEF Fits
<1> QED BY <1>2, <1>3

LEMMA InstrKinds == \A i \in Instrs : \E c \in Blocks : i = <<"op", c>> \/ i = <<"phi", c>>
BY DEF Instrs

(* The place of what is available. *)
LEMMA OpPlace ==
  ASSUME NEW f \in Function, NEW c, NEW b, NEW k, Available(f, <<"op", c>>, b, k)
  PROVE  \E t \in Blocks : \E j \in 1 .. Len(f.body[t]) :
           /\ f.body[t][j] = c /\ f.op[c].code # "none" /\ Dominates(Succ(f), t, b) /\ (t = b => j < k)
<1>1. <<"op", c>> \notin {Const(d) : d \in Data} \cup {Arg}
  BY DEF Const, Arg
<1>2. PICK t \in Blocks : \E j \in 1 .. Len(f.body[t]) :
       /\ <<"op", c>> = <<"op", f.body[t][j]>> /\ f.op[f.body[t][j]].code # "none"
       /\ Dominates(Succ(f), t, b) /\ (t = b => j < k)
  BY <1>1 DEF Available
<1> QED BY <1>2

(* What arrives at a block from its only predecessor. *)
LEMMA OnlyArrival ==
  ASSUME NEW f \in Function, Strict(f), Matching(f), NEW t \in Reachable(Succ(f)), t \in f.phis,
         NEW p \in Blocks, Preds(Succ(f), t) = {p}
  PROVE  /\ p \in Reachable(Succ(f)) /\ Dominates(Succ(f), p, t) /\ p # t
         /\ f.inc[t][p] # Absent /\ Available(f, f.inc[t][p], p, EndOf(f, p))
<1>1. t \in Blocks /\ t # Entry /\ t \in Live(f)
  BY SuccType DEF Strict
<1>2. p \in Reachable(Succ(f)) /\ Dominates(Succ(f), p, t) /\ p # t
  BY <1>1, SuccType, OnlyPred
<1>3. t \in Succ(f)[p]
  BY DEF Preds
<1>4. Arrives(f, t, p)
  BY <1>1, <1>3 DEF Matching
<1>5. Wanted(f, p, EndOf(f, p), f.inc[t][p])
  BY <1>4 DEF Wanted
<1>6. EndOf(f, p) \in 1 .. EndOf(f, p)
  BY BodyType
<1> QED BY <1>2, <1>4, <1>5, <1>6 DEF Strict, Arrives

LEMMA BasisAvailable ==
  ASSUME NEW f \in Function, Strict(f), Matching(f), NEW b \in Reachable(Succ(f)), NEW k \in Nat,
         NEW i \in Instrs, Available(f, i, b, k), NEW w \in Basis(f, i)
  PROVE  Available(f, w, b, k)
<1>1. PICK c \in Blocks : i = <<"op", c>> \/ i = <<"phi", c>>
  BY InstrKinds
<1>2. CASE i = <<"op", c>>
  <2>1. PICK t \in Blocks : \E j \in 1 .. Len(f.body[t]) :
           /\ f.body[t][j] = c /\ f.op[c].code # "none" /\ Dominates(Succ(f), t, b) /\ (t = b => j < k)
    BY <1>2, OpPlace
  <2>2. PICK j \in 1 .. Len(f.body[t]) :
           /\ f.body[t][j] = c /\ f.op[c].code # "none" /\ Dominates(Succ(f), t, b) /\ (t = b => j < k)
    BY <2>1
  <2>3. t \in Reachable(Succ(f))
    BY <2>2, SuccType, DominatorReached
  <2>4. Available(f, w, t, j)
    BY <1>2, <2>2, <2>3, ReadAvailable DEF Basis
  <2> QED BY <2>2, <2>4, AvailableLater
<1>3. CASE i = <<"phi", c>>
  <2>1. c \in f.phis /\ c \in Live(f) /\ Dominates(Succ(f), c, b)
    BY <1>3, PhiAvailable
  <2>2. c \in Reachable(Succ(f))
    BY <2>1, SuccType, DominatorReached
  <2>3. PICK p \in Blocks : Preds(Succ(f), c) = {p} /\ w = f.inc[c][p]
    BY <1>3 DEF Basis
  <2>4. /\ p \in Reachable(Succ(f)) /\ Dominates(Succ(f), p, c) /\ p # c
        /\ Available(f, w, p, EndOf(f, p))
    BY <2>1, <2>2, <2>3, OnlyArrival
  <2>5. Dominates(Succ(f), p, b)
    BY <2>1, <2>4, DominatesTransitive
  <2>6. p # b
    BY <2>1, <2>2, <2>4, DominatesBack
  <2>7. EndOf(f, p) \in Nat
    BY BodyType
  <2> QED BY <2>4, <2>5, <2>6, <2>7, AvailableLater
<1> QED BY <1>1, <1>2, <1>3

(* What is available where a block begins was not made of the block's phi. *)
LEMMA BasisEntering ==
  ASSUME NEW f \in Function, Strict(f), Matching(f), NEW s \in Reachable(Succ(f)),
         NEW i \in Instrs, Available(f, i, s, 1)
  PROVE  <<"phi", s>> \notin Basis(f, i)
<1> SUFFICES ASSUME <<"phi", s>> \in Basis(f, i) PROVE FALSE
  OBVIOUS
<1>1. PICK c \in Blocks : i = <<"op", c>> \/ i = <<"phi", c>>
  BY InstrKinds
<1>2. CASE i = <<"op", c>>
  <2>1. PICK t \in Blocks : \E j \in 1 .. Len(f.body[t]) :
           /\ f.body[t][j] = c /\ f.op[c].code # "none" /\ Dominates(Succ(f), t, s) /\ (t = s => j < 1)
    BY <1>2, OpPlace
  <2>2. PICK j \in 1 .. Len(f.body[t]) :
           /\ f.body[t][j] = c /\ f.op[c].code # "none" /\ Dominates(Succ(f), t, s) /\ (t = s => j < 1)
    BY <2>1
  <2>3. t \in Reachable(Succ(f)) /\ t # s
    BY <2>2, SuccType, DominatorReached
  <2>4. Available(f, <<"phi", s>>, t, j)
    BY <1>2, <2>2, <2>3, ReadAvailable DEF Basis
  <2>5. Dominates(Succ(f), s, t)
    BY <2>4, PhiAvailable
  <2> QED BY <2>2, <2>3, <2>5, DominatesBack
<1>3. CASE i = <<"phi", c>>
  <2>1. c \in f.phis /\ c \in Live(f) /\ Dominates(Succ(f), c, s)
    BY <1>3, PhiAvailable
  <2>2. c \in Reachable(Succ(f))
    BY <2>1, SuccType, DominatorReached
  <2>3. PICK p \in Blocks : Preds(Succ(f), c) = {p} /\ <<"phi", s>> = f.inc[c][p]
    BY <1>3 DEF Basis
  <2>4. /\ p \in Reachable(Succ(f)) /\ Dominates(Succ(f), p, c) /\ p # c
        /\ Available(f, <<"phi", s>>, p, EndOf(f, p))
    BY <2>1, <2>2, <2>3, OnlyArrival
  <2>5. Dominates(Succ(f), s, p)
    BY <2>4, PhiAvailable
  <2>6. Dominates(Succ(f), c, p)
    BY <2>1, <2>5, DominatesTransitive
  <2> QED BY <2>2, <2>4, <2>6, DominatesBack
<1> QED BY <1>1, <1>2, <1>3

(* What a step makes available. *)
LEMMA AvailableNext ==
  ASSUME NEW f \in Function, Laid(f), NEW b \in Blocks, NEW k \in 1 .. Len(f.body[b]),
         NEW c, c = f.body[b][k]
  PROVE  /\ ~Available(f, <<"op", c>>, b, k)
         /\ \A v : Available(f, v, b, k + 1) /\ v # <<"op", c>> => Available(f, v, b, k)
<1>1. k \in Nat /\ \A j \in Nat : j < k + 1 => j < k \/ j = k
  BY BodyType
<1>2. ~Available(f, <<"op", c>>, b, k)
  BY <1>1, OpAvailable
<1>3. ASSUME NEW v, Available(f, v, b, k + 1), v # <<"op", c>>
      PROVE  Available(f, v, b, k)
  <2>1. CASE \E t \in Blocks : \E j \in 1 .. Len(f.body[t]) :
               /\ v = <<"op", f.body[t][j]>> /\ f.op[f.body[t][j]].code # "none"
               /\ Dominates(Succ(f), t, b) /\ (t = b => j < k + 1)
    <3>1. PICK t \in Blocks : \E j \in 1 .. Len(f.body[t]) :
               /\ v = <<"op", f.body[t][j]>> /\ f.op[f.body[t][j]].code # "none"
               /\ Dominates(Succ(f), t, b) /\ (t = b => j < k + 1)
      BY <2>1
    <3>2. PICK j \in 1 .. Len(f.body[t]) :
               /\ v = <<"op", f.body[t][j]>> /\ f.op[f.body[t][j]].code # "none"
               /\ Dominates(Succ(f), t, b) /\ (t = b => j < k + 1)
      BY <3>1
    <3>3. j \in Nat
      BY BodyType
    <3>4. t = b => j # k
      BY <1>3, <3>2
    <3>5. t = b => j < k
      BY <1>1, <3>2, <3>3, <3>4
    <3> QED BY <3>2, <3>5 DEF Available
  <2>2. CASE ~ \E t \in Blocks : \E j \in 1 .. Len(f.body[t]) :
               /\ v = <<"op", f.body[t][j]>> /\ f.op[f.body[t][j]].code # "none"
               /\ Dominates(Succ(f), t, b) /\ (t = b => j < k + 1)
    BY <1>3, <2>2 DEF Available
  <2> QED BY <2>1, <2>2
<1> QED BY <1>2, <1>3

LEMMA DominatesPred ==
  ASSUME NEW f \in Function, NEW b \in Blocks, NEW s \in Succ(f)[b], NEW t, t # s, Dominates(Succ(f), t, s)
  PROVE  Dominates(Succ(f), t, b)
<1>1. {Entry} \in SUBSET Blocks
  BY EntryFirst
<1>2. \A x \in ReachAvoiding(Succ(f), {Entry}, {t}) : Succ(f)[x] \ {t} \subseteq ReachAvoiding(Succ(f), {Entry}, {t})
  BY <1>1, SuccType, ReachClosed
<1> QED BY <1>2 DEF Dominates

LEMMA AvailableEntering ==
  ASSUME NEW f \in Function, NEW b \in Blocks, NEW s \in Succ(f)[b],
         NEW v, Available(f, v, s, 1), v # <<"phi", s>>
  PROVE  Available(f, v, b, EndOf(f, b))
<1>1. CASE v \in {Const(d) : d \in Data} \cup {Arg}
  BY <1>1 DEF Available
<1>2. CASE \E t \in f.phis \cap Live(f) : v = <<"phi", t>> /\ Dominates(Succ(f), t, s)
  BY <1>2, DominatesPred DEF Available
<1>3. CASE \E t \in Blocks : \E j \in 1 .. Len(f.body[t]) :
             /\ v = <<"op", f.body[t][j]>> /\ f.op[f.body[t][j]].code # "none"
             /\ Dominates(Succ(f), t, s) /\ (t = s => j < 1)
  <2>1. PICK t \in Blocks : \E j \in 1 .. Len(f.body[t]) :
             /\ v = <<"op", f.body[t][j]>> /\ f.op[f.body[t][j]].code # "none"
             /\ Dominates(Succ(f), t, s) /\ (t = s => j < 1)
    BY <1>3
  <2>2. PICK j \in 1 .. Len(f.body[t]) :
             /\ v = <<"op", f.body[t][j]>> /\ f.op[f.body[t][j]].code # "none"
             /\ Dominates(Succ(f), t, s) /\ (t = s => j < 1)
    BY <2>1
  <2>3. t # s
    BY <2>2
  <2>4. Dominates(Succ(f), t, b)
    BY <2>2, <2>3, DominatesPred
  <2>5. t = b => j < EndOf(f, b)
    BY BodyType
  <2> QED BY <2>2, <2>4, <2>5 DEF Available
<1> QED BY <1>1, <1>2, <1>3 DEF Available

(* What is available has a value. *)
LEMMA EvalAvailable ==
  ASSUME NEW f \in Function, NEW b, NEW k, NEW env, NEW arg \in Data, Coherent(f, b, k, env, arg),
         NEW v, Available(f, v, b, k)
  PROVE  Eval(env, arg, v) \in Data
<1>1. CASE v \in Instrs
  BY <1>1 DEF Eval, Coherent
<1>2. CASE v \notin Instrs
  <2>1. v \in {Const(d) : d \in Data} \cup {Arg}
    <3>1. \A t \in f.phis \cap Live(f) : <<"phi", t>> \in Instrs
      BY OpInstr DEF Live
    <3>2. \A t \in Blocks : \A j \in 1 .. Len(f.body[t]) : <<"op", f.body[t][j]>> \in Instrs
      BY BodyType, OpInstr
    <3> QED BY <1>2, <3>1, <3>2 DEF Available
  <2> QED BY <1>2, <2>1 DEF Eval, Const, Arg
<1> QED BY <1>1, <1>2

LEMMA CoherentOp ==
  ASSUME NEW f \in Function, Strict(f), Matching(f), NEW b \in Reachable(Succ(f)),
         NEW k \in 1 .. Len(f.body[b]), NEW c \in Blocks, c = f.body[b][k],
         NEW env \in Env, NEW arg \in Data, Coherent(f, b, k, env, arg), NEW r \in Data,
         NEW y \in Data \cup {Undef}, y = Computes(f, c, env, arg, r),
         ~(f.op[c].code = "pure" /\ y = Undef)
  PROVE  Coherent(f, b, k + 1, With(env, <<"op", c>>, y), arg)
<1>1. PICK env2 \in Env : env2 = With(env, <<"op", c>>, y)
  BY OpInstr, WithType
<1>2. env2[<<"op", c>>] = y /\ \A j \in Instrs : j # <<"op", c>> => env2[j] = env[j]
  BY <1>1, OpInstr DEF With, Env
<1>3. b \in Blocks /\ k \in Nat /\ Laid(f)
  BY SuccType DEF Strict
<1>4. /\ ~Available(f, <<"op", c>>, b, k)
      /\ \A v : Available(f, v, b, k + 1) /\ v # <<"op", c>> => Available(f, v, b, k)
  BY <1>3, AvailableNext
<1>5. \A v : Available(f, v, b, k) => Eval(env2, arg, v) = Eval(env, arg, v)
  BY <1>2, <1>4, EvalFrame
<1>6. ASSUME NEW i \in Instrs, Available(f, i, b, k + 1)
      PROVE  env2[i] \in Data /\ Fits(f, i, env2, arg)
  <2>1. CASE i = <<"op", c>>
    <3>1. f.op[c].code # "none"
      BY <1>6, <2>1, OpPlace
    <3>2. PICK o \in Op : o = f.op[c]
      BY FunctionType
    <3>3. \A v \in OpReads(o) : Available(f, v, b, k)
      BY <3>2, ReadAvailable
    <3>4. \A v \in OpReads(o) : Eval(env, arg, v) \in Data /\ Eval(env2, arg, v) = Eval(env, arg, v)
      BY <1>5, <3>3, EvalAvailable
    <3>5. PICK p, q : p = Eval(env, arg, o.x) /\ q = Eval(env, arg, o.y)
      OBVIOUS
    <3>6. y = Outcome(o, p, q, r)
      BY <3>2, <3>5 DEF Computes
    <3>7. o.code = "copy" => y = p /\ y \in Data /\ Eval(env2, arg, o.x) = p
      BY <3>4, <3>5, <3>6 DEF Outcome, OpReads
    <3>8. o.code = "pure" => /\ y \in Data /\ p \in Data /\ q \in Data
                             /\ Eval(env2, arg, o.x) = p /\ Eval(env2, arg, o.y) = q
      BY <3>2, <3>4, <3>5 DEF OpReads
    <3>9. o.code = "pure" => y = Apply[o.fun][<<p, q>>]
      BY <3>6, <3>8, SCCPAssumption DEF Outcome
    <3>10. o.code \in {"call", "load"} => y = r
      BY <3>6 DEF Outcome
    <3>11. o.code \in {"copy", "pure", "call", "load"}
      BY <3>1, <3>2 DEF Op
    <3>12. env2[i] = y /\ i[1] = "op" /\ i[2] = c
      BY <1>2, <2>1
    <3>13. y \in Data
      BY <3>7, <3>8, <3>10, <3>11
    <3> HIDE <3>6
    <3> QED BY <3>2, <3>7, <3>8, <3>9, <3>12, <3>13 DEF Fits
  <2>2. CASE i # <<"op", c>>
    <3>1. Available(f, i, b, k)
      BY <1>4, <1>6, <2>2
    <3>2. env[i] \in Data /\ Fits(f, i, env, arg) /\ env2[i] = env[i]
      BY <1>2, <2>2, <3>1 DEF Coherent
    <3>3. \A w \in Basis(f, i) : w # <<"op", c>>
      BY <1>3, <1>4, <3>1, BasisAvailable
    <3>4. \A w \in Basis(f, i) : w \in Instrs => env2[w] = env[w]
      BY <1>2, <3>3
    <3> QED BY <3>2, <3>4, FitsFrame
  <2> QED BY <2>1, <2>2
<1> QED BY <1>1, <1>6 DEF Coherent

LEMMA CoherentEnter ==
  ASSUME NEW f \in Function, Strict(f), Matching(f), NEW b \in Reachable(Succ(f)),
         NEW s \in Succ(f)[b],
         NEW env \in Env, NEW arg \in Data, Coherent(f, b, EndOf(f, b), env, arg)
  PROVE  /\ s \in Reachable(Succ(f)) /\ s \in Blocks
         /\ Coherent(f, s, 1, With(env, <<"phi", s>>, Brings(f, s, b, env, arg)), arg)
<1>1. s \in Reachable(Succ(f))
  <2>1. {Entry} \in SUBSET Blocks
    BY EntryFirst
  <2>2. PICK A : A = ReachAvoiding(Succ(f), {Entry}, {})
    OBVIOUS
  <2>3. \A x \in A : Succ(f)[x] \ {} \subseteq A
    BY <2>1, <2>2, SuccType, ReachClosed
  <2> QED BY <2>2, <2>3 DEF Reachable
<1>2. b \in Blocks /\ s \in Blocks
  BY <1>1, SuccType
<1>3. PICK x \in Data \cup {Undef} : x = Brings(f, s, b, env, arg)
  BY <1>2, BringsType
<1>4. PICK env2 \in Env : env2 = With(env, <<"phi", s>>, x)
  BY <1>2, OpInstr, WithType
<1>5. env2[<<"phi", s>>] = x /\ \A j \in Instrs : j # <<"phi", s>> => env2[j] = env[j]
  BY <1>2, <1>4, OpInstr DEF With, Env
<1>6. ASSUME NEW i \in Instrs, Available(f, i, s, 1)
      PROVE  env2[i] \in Data /\ Fits(f, i, env2, arg)
  <2>1. <<"phi", s>> \notin Basis(f, i)
    BY <1>1, <1>6, BasisEntering
  <2>2. \A w \in Basis(f, i) : w \in Instrs => env2[w] = env[w]
    BY <1>5, <2>1
  <2>3. CASE i = <<"phi", s>>
    <3>1. s \in f.phis /\ s \in Live(f)
      BY <1>6, <2>3, PhiAvailable
    <3>2. Arrives(f, s, b)
      BY <1>2, <3>1 DEF Matching
    <3>3. PICK v : v = f.inc[s][b]
      OBVIOUS
    <3>4. Wanted(f, b, EndOf(f, b), v) /\ EndOf(f, b) \in 1 .. EndOf(f, b)
      BY <1>1, <1>2, <3>2, <3>3, BodyType DEF Wanted
    <3>5. Available(f, v, b, EndOf(f, b))
      BY <3>4 DEF Strict
    <3>6. x = Eval(env, arg, v) /\ x \in Data
      BY <1>3, <3>2, <3>3, <3>5, EvalAvailable DEF Brings, Arrives
    <3>7. ASSUME NEW p \in Blocks, Preds(Succ(f), s) = {p} PROVE x = Eval(env2, arg, f.inc[s][p])
      <4>1. p = b
        BY <1>2, <3>7 DEF Preds
      <4>2. v \in Basis(f, i)
        BY <2>3, <3>3, <3>7, <4>1 DEF Basis
      <4> QED BY <2>2, <3>3, <3>6, <4>1, <4>2, EvalFrame
    <3> QED BY <1>5, <2>3, <3>6, <3>7 DEF Fits
  <2>4. CASE i # <<"phi", s>>
    <3>1. Available(f, i, b, EndOf(f, b))
      BY <1>2, <1>6, <2>4, AvailableEntering
    <3>2. env[i] \in Data /\ Fits(f, i, env, arg) /\ env2[i] = env[i]
      BY <1>5, <2>4, <3>1 DEF Coherent
    <3> QED BY <2>2, <3>2, FitsFrame
  <2> QED BY <2>3, <2>4
<1> QED BY <1>1, <1>2, <1>3, <1>4, <1>6 DEF Coherent

-----------------------------------------------------------------------------
(* A place of f with the values of an execution that is there: P holds the ones
   of all executions. *)
Points == Blocks \X Nat \X Env \X Data

Runs(f, P) ==
  /\ P \subseteq Points
  /\ \A d \in Data : <<Entry, 1, Boot(d).env, d>> \in P
  /\ \A b, k, env, arg : <<b, k, env, arg>> \in P =>
       /\ b \in Reachable(Succ(f)) /\ k \in 1 .. EndOf(f, b) /\ Coherent(f, b, k, env, arg)
       /\ k \in 1 .. Len(f.body[b]) => \A r \in Data : \A y :
            /\ y = Computes(f, f.body[b][k], env, arg, r)
            /\ ~(f.op[f.body[b][k]].code = "pure" /\ y = Undef)
            => <<b, k + 1, With(env, <<"op", f.body[b][k]>>, y), arg>> \in P
       /\ k = EndOf(f, b) => \A s \in Blocks : s = Exit(f, b, env, arg) =>
            <<s, 1, With(env, <<"phi", s>>, Brings(f, s, b, env, arg)), arg>> \in P

LEMMA ExitType ==
  ASSUME NEW f \in Function, NEW b \in Blocks, NEW env, NEW arg
  PROVE  /\ Exit(f, b, env, arg) \in Blocks \cup {0}
         /\ Exit(f, b, env, arg) \in Blocks => Exit(f, b, env, arg) \in Targets(f.term[b])
<1>1. PICK t \in Term : t = f.term[b]
  BY FunctionType
<1>2. t.code \in {"ret", "jmp", "jnz"} /\ t.t \in Blocks /\ t.f \in Blocks
  BY DEF Term
<1>3. 0 \notin Blocks
  BY EntryFirst
<1>4. CASE t.code = "ret"
  BY <1>1, <1>3, <1>4 DEF Exit
<1>5. CASE t.code = "jmp"
  BY <1>1, <1>2, <1>5 DEF Exit, Targets
<1>6. CASE t.code = "jnz"
  <2>1. Exit(f, b, env, arg) \in {0, t.t, t.f}
    BY <1>1, <1>6 DEF Exit
  <2>2. Targets(t) = {t.t, t.f}
    BY <1>6 DEF Targets
  <2> QED BY <1>1, <1>2, <1>3, <2>1, <2>2
<1> QED BY <1>2, <1>4, <1>5, <1>6

LEMMA ComputesType ==
  ASSUME NEW f \in Function, NEW c \in Blocks, NEW env \in Env, NEW arg \in Data, NEW r \in Data
  PROVE  Computes(f, c, env, arg, r) \in Data \cup {Undef}
<1>1. PICK m : m = [Boot(arg) EXCEPT !.env = env]
  OBVIOUS
<1>2. m \in Machine /\ m.env = env /\ m.arg = arg
  BY <1>1, BootType DEF Machine, Boot, Env
<1>3. Yield(f, m, c, r) = Computes(f, c, env, arg, r)
  BY <1>2 DEF Yield, Computes, Outcome
<1> QED BY <1>2, <1>3, YieldType

CoherentPoints(f) ==
  {p \in Points : /\ p[1] \in Reachable(Succ(f)) /\ p[2] \in 1 .. EndOf(f, p[1])
                  /\ Coherent(f, p[1], p[2], p[3], p[4])}

(* Nothing is available where a function begins. *)
LEMMA NothingAtEntry ==
  ASSUME NEW f \in Function, Strict(f), NEW i \in Instrs
  PROVE  ~Available(f, i, Entry, 1)
<1> SUFFICES ASSUME Available(f, i, Entry, 1) PROVE FALSE
  OBVIOUS
<1>1. PICK c \in Blocks : i = <<"op", c>> \/ i = <<"phi", c>>
  BY InstrKinds
<1>2. {Entry} \in SUBSET Blocks
  BY EntryFirst
<1>3. \A t : Dominates(Succ(f), t, Entry) => t = Entry
  BY <1>2, SuccType, ReachClosed DEF Dominates
<1>4. CASE i = <<"op", c>>
  <2>1. PICK t \in Blocks : \E j \in 1 .. Len(f.body[t]) :
           Dominates(Succ(f), t, Entry) /\ (t = Entry => j < 1)
    BY <1>4, OpPlace
  <2> QED BY <1>3, <2>1
<1>5. CASE i = <<"phi", c>>
  BY <1>3, <1>5, PhiAvailable DEF Strict
<1> QED BY <1>1, <1>4, <1>5

LEMMA ReachedNext ==
  ASSUME NEW f \in Function, Reachable(Succ(f)) \subseteq Live(f), NEW b \in Reachable(Succ(f)),
         NEW s \in Blocks, s \in Targets(f.term[b])
  PROVE  s \in Succ(f)[b] /\ s \in Reachable(Succ(f))
<1>1. b \in Blocks /\ b \in Live(f)
  BY SuccType
<1>2. s \in Succ(f)[b]
  BY <1>1, SuccOf DEF Live
<1>3. {Entry} \in SUBSET Blocks
  BY EntryFirst
<1>4. PICK A : A = ReachAvoiding(Succ(f), {Entry}, {})
  OBVIOUS
<1>5. \A x \in A : Succ(f)[x] \ {} \subseteq A
  BY <1>3, <1>4, SuccType, ReachClosed
<1> QED BY <1>2, <1>4, <1>5 DEF Reachable

LEMMA CoherentRuns ==
  ASSUME NEW f \in Function, Strict(f), Matching(f)
  PROVE  Runs(f, CoherentPoints(f))
<1> DEFINE P == CoherentPoints(f)
<1>1. ASSUME NEW b, NEW k, NEW env, NEW arg
      PROVE  <<b, k, env, arg>> \in P <=>
               /\ b \in Blocks /\ k \in Nat /\ env \in Env /\ arg \in Data
               /\ b \in Reachable(Succ(f)) /\ k \in 1 .. EndOf(f, b) /\ Coherent(f, b, k, env, arg)
  BY DEF CoherentPoints, Points
<1>2. P \subseteq Points
  BY DEF CoherentPoints
<1> HIDE DEF P
<1>3. ASSUME NEW d \in Data PROVE <<Entry, 1, Boot(d).env, d>> \in P
  <2>1. Boot(d).env \in Env
    BY DEF Boot, Env
  <2>2. Entry \in Reachable(Succ(f)) /\ Entry \in Blocks
    <3>1. {Entry} \in SUBSET Blocks
      BY EntryFirst
    <3>2. {Entry} \ {} \subseteq ReachAvoiding(Succ(f), {Entry}, {})
      BY <3>1, SuccType, ReachClosed
    <3> QED BY <3>1, <3>2 DEF Reachable
  <2>3. 1 \in 1 .. EndOf(f, Entry)
    BY <2>2, BodyType
  <2>4. Coherent(f, Entry, 1, Boot(d).env, d)
    BY NothingAtEntry DEF Coherent
  <2> QED BY <1>1, <2>1, <2>2, <2>3, <2>4
<1>4. ASSUME NEW b, NEW k, NEW env, NEW arg, <<b, k, env, arg>> \in P
      PROVE  /\ b \in Reachable(Succ(f)) /\ k \in 1 .. EndOf(f, b) /\ Coherent(f, b, k, env, arg)
             /\ k \in 1 .. Len(f.body[b]) => \A r \in Data : \A y :
                  /\ y = Computes(f, f.body[b][k], env, arg, r)
                  /\ ~(f.op[f.body[b][k]].code = "pure" /\ y = Undef)
                  => <<b, k + 1, With(env, <<"op", f.body[b][k]>>, y), arg>> \in P
             /\ k = EndOf(f, b) => \A s \in Blocks : s = Exit(f, b, env, arg) =>
                  <<s, 1, With(env, <<"phi", s>>, Brings(f, s, b, env, arg)), arg>> \in P
  <2>1. /\ b \in Blocks /\ k \in Nat /\ env \in Env /\ arg \in Data
        /\ b \in Reachable(Succ(f)) /\ k \in 1 .. EndOf(f, b) /\ Coherent(f, b, k, env, arg)
    BY <1>1, <1>4
  <2>2. ASSUME k \in 1 .. Len(f.body[b]), NEW r \in Data, NEW y, y = Computes(f, f.body[b][k], env, arg, r),
               ~(f.op[f.body[b][k]].code = "pure" /\ y = Undef)
        PROVE  <<b, k + 1, With(env, <<"op", f.body[b][k]>>, y), arg>> \in P
    <3>1. PICK c \in Blocks : c = f.body[b][k]
      BY <2>1, <2>2, BodyType
    <3>2. y \in Data \cup {Undef}
      BY <2>1, <2>2, <3>1, ComputesType
    <3>3. With(env, <<"op", c>>, y) \in Env
      BY <2>1, <3>2, OpInstr, WithType
    <3>4. Coherent(f, b, k + 1, With(env, <<"op", c>>, y), arg)
      BY <2>1, <2>2, <3>1, <3>2, CoherentOp
    <3>5. k + 1 \in Nat /\ k + 1 \in 1 .. EndOf(f, b)
      BY <2>1, <2>2, BodyType
    <3> QED BY <1>1, <2>1, <3>1, <3>3, <3>4, <3>5
  <2>3. ASSUME k = EndOf(f, b), NEW s \in Blocks, s = Exit(f, b, env, arg)
        PROVE  <<s, 1, With(env, <<"phi", s>>, Brings(f, s, b, env, arg)), arg>> \in P
    <3>1. s \in Succ(f)[b]
      BY <2>1, <2>3, ExitType, ReachedNext DEF Strict
    <3>2. s \in Reachable(Succ(f)) /\ Coherent(f, s, 1, With(env, <<"phi", s>>, Brings(f, s, b, env, arg)), arg)
      BY <2>1, <2>3, <3>1, CoherentEnter
    <3>3. With(env, <<"phi", s>>, Brings(f, s, b, env, arg)) \in Env
      BY <2>1, BringsType, OpInstr, WithType
    <3>4. 1 \in Nat /\ 1 \in 1 .. EndOf(f, s)
      BY BodyType
    <3> QED BY <1>1, <2>1, <3>2, <3>3, <3>4
  <2> QED BY <2>1, <2>2, <2>3
<1>5. Runs(f, P)
  BY <1>2, <1>3, <1>4 DEF Runs
<1> QED BY <1>5 DEF P

-----------------------------------------------------------------------------
(* Two executions that agree on what is available in g. *)
Alike(g, b, k, env, env2) == \A i \in Instrs : Available(g, i, b, k) => env2[i] = env[i]

LEMMA AlikeEval ==
  ASSUME NEW g, NEW b, NEW k, NEW env, NEW env2, NEW arg, Alike(g, b, k, env, env2),
         NEW v, Available(g, v, b, k)
  PROVE  Eval(env2, arg, v) = Eval(env, arg, v)
BY EvalFrame DEF Alike

LEMMA AlikeOp ==
  ASSUME NEW g \in Function, Laid(g), NEW b \in Blocks, NEW k \in 1 .. Len(g.body[b]),
         NEW c \in Blocks, c = g.body[b][k], NEW env \in Env, NEW env2 \in Env,
         Alike(g, b, k, env, env2), NEW x \in Data \cup {Undef}, NEW x2 \in Data \cup {Undef},
         g.op[c].code # "none" => x2 = x
  PROVE  Alike(g, b, k + 1, With(env, <<"op", c>>, x), With(env2, <<"op", c>>, x2))
<1>1. PICK e, e2 : e = With(env, <<"op", c>>, x) /\ e2 = With(env2, <<"op", c>>, x2)
  OBVIOUS
<1>2. /\ e[<<"op", c>>] = x /\ e2[<<"op", c>>] = x2
      /\ \A i \in Instrs : i # <<"op", c>> => e[i] = env[i] /\ e2[i] = env2[i]
  BY <1>1, OpInstr DEF With, Env
<1>3. ASSUME NEW i \in Instrs, Available(g, i, b, k + 1) PROVE e2[i] = e[i]
  <2>1. CASE i = <<"op", c>>
    BY <1>2, <1>3, <2>1, OpPlace
  <2>2. CASE i # <<"op", c>>
    <3>1. Available(g, i, b, k)
      BY <1>3, <2>2, AvailableNext
    <3> QED BY <1>2, <2>2, <3>1 DEF Alike
  <2> QED BY <2>1, <2>2
<1> QED BY <1>1, <1>3 DEF Alike

LEMMA AlikeEnter ==
  ASSUME NEW g \in Function, NEW b \in Blocks, NEW s \in Succ(g)[b], s \in Blocks,
         NEW env \in Env, NEW env2 \in Env,
         Alike(g, b, EndOf(g, b), env, env2), NEW x \in Data \cup {Undef}, NEW x2 \in Data \cup {Undef},
         s \in g.phis => x2 = x
  PROVE  Alike(g, s, 1, With(env, <<"phi", s>>, x), With(env2, <<"phi", s>>, x2))
<1>1. PICK e, e2 : e = With(env, <<"phi", s>>, x) /\ e2 = With(env2, <<"phi", s>>, x2)
  OBVIOUS
<1>2. /\ e[<<"phi", s>>] = x /\ e2[<<"phi", s>>] = x2
      /\ \A i \in Instrs : i # <<"phi", s>> => e[i] = env[i] /\ e2[i] = env2[i]
  BY <1>1, OpInstr DEF With, Env
<1>3. ASSUME NEW i \in Instrs, Available(g, i, s, 1) PROVE e2[i] = e[i]
  <2>1. CASE i = <<"phi", s>>
    BY <1>2, <1>3, <2>1, PhiAvailable
  <2>2. CASE i # <<"phi", s>>
    <3>1. Available(g, i, b, EndOf(g, b))
      BY <1>3, <2>2, AvailableEntering
    <3> QED BY <1>2, <2>2, <3>1 DEF Alike
  <2> QED BY <2>1, <2>2
<1> QED BY <1>1, <1>3 DEF Alike

(* Functions that are strict read what is available: alike executions do the
   same. *)
LEMMA AlikeComputes ==
  ASSUME NEW g \in Function, Strict(g), NEW b \in Reachable(Succ(g)), NEW k \in 1 .. Len(g.body[b]),
         NEW c \in Blocks, c = g.body[b][k], NEW env \in Env, NEW env2 \in Env, NEW arg \in Data,
         Alike(g, b, k, env, env2)
  PROVE  /\ \A r \in Data : Computes(g, c, env2, arg, r) = Computes(g, c, env, arg, r)
         /\ g.op[c].code = "call" => Eval(env2, arg, g.op[c].x) = Eval(env, arg, g.op[c].x)
<1>1. PICK o : o = g.op[c]
  OBVIOUS
<1>2. \A v \in OpReads(o) : Eval(env2, arg, v) = Eval(env, arg, v)
  <2>1. \A v \in OpReads(o) : Available(g, v, b, k)
    BY <1>1, ReadAvailable
  <2> QED BY <2>1, AlikeEval
<1>3. o.code # "none" => Eval(env2, arg, o.x) = Eval(env, arg, o.x)
  BY <1>2 DEF OpReads
<1>4. o.code = "pure" => Eval(env2, arg, o.y) = Eval(env, arg, o.y)
  BY <1>2 DEF OpReads
<1> QED BY <1>1, <1>3, <1>4 DEF Computes, Outcome

LEMMA AlikeLeaves ==
  ASSUME NEW g \in Function, Strict(g), NEW b \in Reachable(Succ(g)),
         NEW env, NEW env2, NEW arg, Alike(g, b, EndOf(g, b), env, env2)
  PROVE  /\ Exit(g, b, env2, arg) = Exit(g, b, env, arg)
         /\ Returned(g, b, env2, arg) = Returned(g, b, env, arg)
         /\ \A s \in Reachable(Succ(g)) : Brings(g, s, b, env2, arg) = Brings(g, s, b, env, arg)
<1>1. b \in Blocks /\ EndOf(g, b) \in 1 .. EndOf(g, b)
  BY SuccType, BodyType
<1>2. \A v : Wanted(g, b, EndOf(g, b), v) => Eval(env2, arg, v) = Eval(env, arg, v)
  BY <1>1, AlikeEval DEF Strict
<1>3. g.term[b].code # "jmp" => Eval(env2, arg, g.term[b].x) = Eval(env, arg, g.term[b].x)
  BY <1>2 DEF Wanted, TermReads
<1>4. g.term[b].code \in {"ret", "jmp", "jnz"}
  BY <1>1, FunctionType DEF Term
<1>5. Exit(g, b, env2, arg) = Exit(g, b, env, arg)
  <2>1. CASE g.term[b].code = "jmp"
    BY <2>1 DEF Exit
  <2>2. CASE g.term[b].code # "jmp"
    BY <1>3, <2>2 DEF Exit
  <2> QED BY <2>1, <2>2
<1>6. Returned(g, b, env2, arg) = Returned(g, b, env, arg)
  BY <1>3 DEF Returned
<1>7. \A s \in Reachable(Succ(g)) : g.inc[s][b] # Absent => Wanted(g, b, EndOf(g, b), g.inc[s][b])
  BY DEF Wanted, Arrives
<1>8. \A s \in Reachable(Succ(g)) : Brings(g, s, b, env2, arg) = Brings(g, s, b, env, arg)
  BY <1>2, <1>7 DEF Brings
<1> QED BY <1>5, <1>6, <1>8

(* g does at c what f does there. *)
SameOp(f, g, c, env, arg) ==
  \/ g.op[c].code = "none" /\ f.op[c].code # "call"
  \/ /\ g.op[c].code = f.op[c].code
     /\ f.op[c].code = "call" => Eval(env, arg, g.op[c].x) = Eval(env, arg, f.op[c].x)
     /\ \A r \in Data : Computes(g, c, env, arg, r) = Computes(f, c, env, arg, r)

(* g goes from b where f goes, with the same values for phis. *)
SameExit(f, g, b, env, arg) ==
  /\ Exit(g, b, env, arg) = Exit(f, b, env, arg)
  /\ Returned(g, b, env, arg) = Returned(f, b, env, arg)
  /\ \A s \in Blocks : s = Exit(f, b, env, arg) /\ s \in g.phis =>
       Brings(g, s, b, env, arg) = Brings(f, s, b, env, arg)

Preserves(f, g, P) ==
  /\ \A b \in Reachable(Succ(g)) : g.body[b] = f.body[b]
  /\ \A b, k, env, arg : <<b, k, env, arg>> \in P /\ b \in Reachable(Succ(g)) =>
       /\ k \in 1 .. Len(f.body[b]) => SameOp(f, g, f.body[b][k], env, arg)
       /\ k = EndOf(f, b) => SameExit(f, g, b, env, arg)

(* Machines that execute f and g and are at the same place. *)
Beside(f, g, P, m, n) ==
  \/ m.at = 0 /\ (m.out = Undef \/ (n.at = 0 /\ n.out = m.out))
  \/ /\ m.at \in Reachable(Succ(g)) /\ n.at = m.at /\ n.k = m.k /\ n.arg = m.arg
     /\ m.k \in 1 .. Len(f.body[m.at]) /\ <<m.at, m.k, m.env, m.arg>> \in P
     /\ Alike(g, m.at, m.k, m.env, n.env)

LEMMA BesideAnswers ==
  ASSUME NEW f \in Function, NEW g \in Function, Strict(g), NEW P, Preserves(f, g, P),
         NEW m \in Machine, NEW n \in Machine, Beside(f, g, P, m, n)
  PROVE  Answers(f, g, m, n)
<1>1. 0 \notin Blocks /\ Reachable(Succ(g)) \subseteq Blocks
  BY EntryFirst, SuccType
<1>2. CASE m.at = 0
  BY <1>1, <1>2 DEF Answers, Beside, InBlock
<1>3. CASE m.at # 0
  <2>1. /\ m.at \in Reachable(Succ(g)) /\ n.at = m.at /\ n.k = m.k /\ n.arg = m.arg
        /\ m.k \in 1 .. Len(f.body[m.at]) /\ <<m.at, m.k, m.env, m.arg>> \in P
        /\ Alike(g, m.at, m.k, m.env, n.env)
    BY <1>3 DEF Beside
  <2>2. g.body[m.at] = f.body[m.at] /\ SameOp(f, g, f.body[m.at][m.k], m.env, m.arg)
    BY <2>1 DEF Preserves
  <2>3. PICK c : c = g.body[m.at][m.k]
    OBVIOUS
  <2>4. g.op[c].code = "call" => Eval(n.env, m.arg, g.op[c].x) = Eval(m.env, m.arg, g.op[c].x)
    <3>1. PICK b, k, env, env2, arg : b = m.at /\ k = m.k /\ env = m.env /\ env2 = n.env /\ arg = m.arg
      OBVIOUS
    <3>2. b \in Reachable(Succ(g)) /\ k \in 1 .. Len(g.body[b]) /\ c = g.body[b][k] /\ Alike(g, b, k, env, env2)
      BY <2>1, <2>2, <2>3, <3>1
    <3>3. env \in Env /\ env2 \in Env /\ arg \in Data
      BY <3>1, MachineType DEF Env
    <3>4. c \in Blocks
      BY <1>1, <3>2, BodyType
    <3>5. g.op[c].code = "call" => Eval(env2, arg, g.op[c].x) = Eval(env, arg, g.op[c].x)
      BY <3>2, <3>3, <3>4, AlikeComputes
    <3> QED BY <3>1, <3>5
  <2>5. f.op[c].code = "call" => g.op[c].code = "call" /\ Eval(m.env, m.arg, g.op[c].x) = Eval(m.env, m.arg, f.op[c].x)
    BY <2>2, <2>3 DEF SameOp
  <2>6. InBlock(g, n)
    BY <1>1, <2>1, <2>2 DEF InBlock
  <2> QED BY <1>3, <2>1, <2>2, <2>3, <2>4, <2>5, <2>6 DEF Answers
<1> QED BY <1>2, <1>3

LEMMA BesideStep ==
  ASSUME NEW f \in Function, NEW g \in Function, Strict(g), NEW P, Runs(f, P), Preserves(f, g, P),
         NEW m \in Machine, NEW n \in Machine, Beside(f, g, P, m, n), InBlock(f, m), InBlock(g, n),
         NEW r \in Data
  PROVE  Beside(f, g, P, Execute(f, m, r), Execute(g, n, r))
<1>1. 0 \notin Blocks /\ Reachable(Succ(g)) \subseteq Blocks
  BY EntryFirst, SuccType
<1>2. PICK b, k, arg : b = m.at /\ k = m.k /\ arg = m.arg
  OBVIOUS
<1>3. /\ b \in Reachable(Succ(g)) /\ n.at = b /\ n.k = k /\ n.arg = arg
      /\ k \in 1 .. Len(f.body[b]) /\ <<b, k, m.env, arg>> \in P
      /\ Alike(g, b, k, m.env, n.env)
  BY <1>1, <1>2 DEF Beside, InBlock
<1>4. g.body[b] = f.body[b] /\ SameOp(f, g, f.body[b][k], m.env, arg)
  BY <1>3 DEF Preserves
<1>5. b \in Blocks /\ arg \in Data /\ m.env \in Env /\ n.env \in Env
  BY <1>1, <1>2, <1>3, MachineType DEF Env
<1>6. PICK c \in Blocks : c = f.body[b][k]
  BY <1>3, <1>5, BodyType
<1>7. PICK y, y2 : y = Computes(f, c, m.env, arg, r) /\ y2 = Computes(g, c, n.env, arg, r)
  OBVIOUS
<1>8. PICK e, e2 : e = With(m.env, <<"op", c>>, y) /\ e2 = With(n.env, <<"op", c>>, y2)
  OBVIOUS
<1>9. PICK s, s2 : s = Exit(f, b, e, arg) /\ s2 = Exit(g, b, e2, arg)
  OBVIOUS
<1>10. PICK m2, n2 : m2 = Execute(f, m, r) /\ n2 = Execute(g, n, r)
  OBVIOUS
<1>11. /\ m2 \in Machine /\ y \in Data \cup {Undef} /\ e \in Env /\ s \in Blocks \cup {0}
       /\ s \in Blocks => s \in Targets(f.term[b])
       /\ IF f.op[c].code = "pure" /\ y = Undef THEN m2.at = 0 /\ m2.out = Undef
          ELSE IF k < Len(f.body[b])
          THEN m2.at = b /\ m2.k = k + 1 /\ m2.env = e /\ m2.arg = arg
          ELSE IF s = 0 THEN m2.at = 0 /\ m2.out = Returned(f, b, e, arg)
          ELSE /\ m2.at = s /\ m2.k = 1 /\ m2.arg = arg
               /\ m2.env = With(e, <<"phi", s>>, Brings(f, s, b, e, arg))
  <2>1. m.at = b /\ m.k = k /\ m.arg = arg /\ c = f.body[m.at][m.k]
    BY <1>2, <1>6
  <2>2. y = Computes(f, c, m.env, m.arg, r) /\ e = With(m.env, <<"op", c>>, y) /\ s = Exit(f, m.at, e, m.arg)
    BY <1>7, <1>8, <1>9, <2>1
  <2>3. Moves(f, c, m.at, m.k, m.arg, y, e, s, m2)
    BY <1>10, <2>1, <2>2, Executed
  <2> QED BY <2>1, <2>3 DEF Moves
<1>12. /\ n2 \in Machine /\ y2 \in Data \cup {Undef} /\ e2 \in Env /\ s2 \in Blocks \cup {0}
       /\ s2 \in Blocks => s2 \in Targets(g.term[b])
       /\ IF g.op[c].code = "pure" /\ y2 = Undef THEN n2.at = 0 /\ n2.out = Undef
          ELSE IF k < Len(g.body[b])
          THEN n2.at = b /\ n2.k = k + 1 /\ n2.env = e2 /\ n2.arg = arg
          ELSE IF s2 = 0 THEN n2.at = 0 /\ n2.out = Returned(g, b, e2, arg)
          ELSE /\ n2.at = s2 /\ n2.k = 1 /\ n2.arg = arg
               /\ n2.env = With(e2, <<"phi", s2>>, Brings(g, s2, b, e2, arg))
  <2>1. n.at = b /\ n.k = k /\ n.arg = arg /\ c = g.body[n.at][n.k]
    BY <1>3, <1>4, <1>6
  <2>2. y2 = Computes(g, c, n.env, n.arg, r) /\ e2 = With(n.env, <<"op", c>>, y2) /\ s2 = Exit(g, n.at, e2, n.arg)
    BY <1>7, <1>8, <1>9, <2>1
  <2> HIDE <1>11
  <2>3. Moves(g, c, n.at, n.k, n.arg, y2, e2, s2, n2)
    BY <1>10, <2>1, <2>2, Executed
  <2> QED BY <2>1, <2>3 DEF Moves
<1>13. CASE f.op[c].code = "pure" /\ y = Undef
  BY <1>10, <1>11, <1>13 DEF Beside
<1>14. CASE ~(f.op[c].code = "pure" /\ y = Undef)
  <2>1. \A q \in Data : Computes(g, c, n.env, arg, q) = Computes(g, c, m.env, arg, q)
    <3>1. k \in 1 .. Len(g.body[b]) /\ c = g.body[b][k]
      BY <1>3, <1>4, <1>6
    <3>2. PICK env, env2 : env = m.env /\ env2 = n.env
      OBVIOUS
    <3>3. Alike(g, b, k, env, env2)
      BY <1>3, <3>2
    <3>4. \A q \in Data : Computes(g, c, env2, arg, q) = Computes(g, c, env, arg, q)
      BY <1>3, <1>5, <1>6, <3>1, <3>2, <3>3, AlikeComputes
    <3> QED BY <3>2, <3>4
  <2>2. g.op[c].code # "none" => y2 = y /\ g.op[c].code = f.op[c].code
    BY <1>4, <1>6, <1>7, <2>1 DEF SameOp
  <2>3. ~(g.op[c].code = "pure" /\ y2 = Undef)
    BY <1>14, <2>2
  <2>4. <<b, k + 1, e, arg>> \in P
    BY <1>3, <1>6, <1>7, <1>8, <1>14 DEF Runs
  <2>5. Alike(g, b, k + 1, e, e2)
    BY <1>3, <1>4, <1>5, <1>6, <1>8, <1>11, <1>12, <2>2, AlikeOp DEF Strict
  <2>6. CASE k < Len(f.body[b])
    <3>1. /\ m2.at = b /\ m2.k = k + 1 /\ m2.env = e /\ m2.arg = arg
          /\ n2.at = b /\ n2.k = k + 1 /\ n2.env = e2 /\ n2.arg = arg
      BY <1>4, <1>11, <1>12, <1>14, <2>3, <2>6
    <3>2. k + 1 \in 1 .. Len(f.body[b])
      BY <1>3, <1>5, <2>6, BodyType
    <3> QED BY <1>3, <1>10, <2>4, <2>5, <3>1, <3>2 DEF Beside
  <2>7. CASE ~(k < Len(f.body[b]))
    <3>1. k + 1 = EndOf(f, b) /\ k + 1 = EndOf(g, b)
      <4>1. k = Len(f.body[b])
        BY <1>3, <1>5, <2>7, BodyType
      <4> QED BY <1>4, <4>1 DEF EndOf
    <3>2. SameExit(f, g, b, e, arg)
      BY <1>3, <2>4, <3>1 DEF Preserves
    <3>3. Alike(g, b, EndOf(g, b), e, e2)
      BY <2>5, <3>1
    <3>4. /\ s2 = s /\ Returned(g, b, e2, arg) = Returned(f, b, e, arg)
          /\ \A x \in Reachable(Succ(g)) : Brings(g, x, b, e2, arg) = Brings(g, x, b, e, arg)
      BY <1>3, <1>9, <3>2, <3>3, AlikeLeaves DEF SameExit
    <3>5. CASE s = 0
      <4>1. m2.at = 0 /\ n2.at = 0 /\ m2.out = n2.out
        BY <1>4, <1>11, <1>12, <1>14, <2>3, <2>7, <3>4, <3>5
      <4> QED BY <1>10, <4>1 DEF Beside
    <3>6. CASE s \in Blocks
      <4>1. s \in Succ(g)[b] /\ s \in Reachable(Succ(g)) /\ s \in Live(g)
        BY <1>3, <1>12, <3>4, <3>6, ReachedNext DEF Strict
      <4>2. PICK x, x2 : x = Brings(f, s, b, e, arg) /\ x2 = Brings(g, s, b, e2, arg)
        OBVIOUS
      <4>3. x \in Data \cup {Undef} /\ x2 \in Data \cup {Undef}
        BY <1>5, <1>11, <1>12, <3>6, <4>2, BringsType
      <4>4. s \in g.phis => x2 = x
        BY <1>9, <3>2, <3>4, <3>6, <4>1, <4>2 DEF SameExit
      <4>5. Alike(g, s, 1, With(e, <<"phi", s>>, x), With(e2, <<"phi", s>>, x2))
        BY <1>5, <1>11, <1>12, <3>3, <3>6, <4>1, <4>3, <4>4, AlikeEnter
      <4>6. <<s, 1, With(e, <<"phi", s>>, x), arg>> \in P
        BY <1>9, <2>4, <3>1, <3>6, <4>2 DEF Runs
      <4>7. 1 \in 1 .. Len(f.body[s])
        <5>1. f.body[s] # <<>> /\ f.body[s] \in Seq(Blocks)
          BY <3>6, <4>1, FunctionType DEF Preserves, Live
        <5>2. Len(f.body[s]) \in Nat /\ Len(f.body[s]) # 0
          BY <5>1
        <5> QED BY <5>2
      <4>8. s # 0
        BY <1>1, <3>6
      <4>9. m2.at = s /\ m2.k = 1 /\ m2.arg = arg /\ m2.env = With(e, <<"phi", s>>, x)
        BY <1>11, <1>14, <2>7, <4>2, <4>8
      <4>10. n2.at = s /\ n2.k = 1 /\ n2.arg = arg /\ n2.env = With(e2, <<"phi", s>>, x2)
        BY <1>4, <1>12, <2>3, <2>7, <3>4, <4>2, <4>8
      <4> QED BY <1>10, <4>1, <4>5, <4>6, <4>7, <4>9, <4>10 DEF Beside
    <3> QED BY <1>11, <3>5, <3>6
  <2> QED BY <2>6, <2>7
<1> QED BY <1>13, <1>14

LEMMA PreservedFollows ==
  ASSUME NEW f \in Function, NEW g \in Function, Strict(g), NEW P, Runs(f, P), Preserves(f, g, P)
  PROVE  Follows(f, g)
<1> DEFINE R == {p \in Machine \X Machine : Beside(f, g, P, p[1], p[2])}
<1>1. ASSUME NEW m \in Machine, NEW n \in Machine
      PROVE  <<m, n>> \in R <=> Beside(f, g, P, m, n)
  OBVIOUS
<1>2. ASSUME NEW d \in Data PROVE <<Boot(d), Boot(d)>> \in R
  <2>1. PICK m \in Machine : m = Boot(d)
    BY BootType
  <2>2. m.at = Entry /\ m.k = 1 /\ m.arg = d
    BY <2>1 DEF Boot
  <2>3. Entry \in Reachable(Succ(g)) /\ Entry \in Blocks
    <3>1. {Entry} \in SUBSET Blocks
      BY EntryFirst
    <3>2. {Entry} \ {} \subseteq ReachAvoiding(Succ(g), {Entry}, {})
      BY <3>1, SuccType, ReachClosed
    <3> QED BY <3>1, <3>2 DEF Reachable
  <2>4. 1 \in 1 .. Len(f.body[Entry])
    <3>1. f.body[Entry] # <<>> /\ f.body[Entry] \in Seq(Blocks)
      BY <2>3, FunctionType DEF Preserves, Strict, Live
    <3>2. Len(f.body[Entry]) \in Nat /\ Len(f.body[Entry]) # 0
      BY <3>1
    <3> QED BY <3>2
  <2>5. <<Entry, 1, m.env, d>> \in P
    BY <2>1 DEF Runs
  <2>6. Alike(g, Entry, 1, m.env, m.env)
    BY DEF Alike
  <2>7. Beside(f, g, P, m, m)
    BY <2>2, <2>3, <2>4, <2>5, <2>6 DEF Beside
  <2> QED BY <1>1, <2>1, <2>7
<1>3. ASSUME NEW p \in R
      PROVE  /\ Answers(f, g, p[1], p[2])
             /\ \A r \in Data : InBlock(f, p[1]) /\ InBlock(g, p[2]) =>
                  <<Execute(f, p[1], r), Execute(g, p[2], r)>> \in R
  <2>1. p[1] \in Machine /\ p[2] \in Machine /\ Beside(f, g, P, p[1], p[2])
    OBVIOUS
  <2>2. Answers(f, g, p[1], p[2])
    BY <2>1, BesideAnswers
  <2>3. ASSUME NEW r \in Data, InBlock(f, p[1]), InBlock(g, p[2])
        PROVE  <<Execute(f, p[1], r), Execute(g, p[2], r)>> \in R
    <3>1. Execute(f, p[1], r) \in Machine /\ Execute(g, p[2], r) \in Machine
      BY <2>1, <2>3, ExecuteType
    <3>2. Beside(f, g, P, Execute(f, p[1], r), Execute(g, p[2], r))
      BY <2>1, <2>3, BesideStep
    <3> HIDE DEF R
    <3> QED BY <1>1, <3>1, <3>2
  <2> HIDE DEF R
  <2> QED BY <2>2, <2>3
<1>4. R \in SUBSET (Machine \X Machine)
  OBVIOUS
<1> HIDE DEF R
<1> QED BY <1>2, <1>3, <1>4 DEF Follows, Lockstep

-----------------------------------------------------------------------------
(* Most passes replace results with values that are equal to them wherever they
   are available, and erase instructions other than calls. *)
Keeps(f, s, b, k, env, arg) ==
  \A v \in DOMAIN s : Available(f, v, b, k) => Eval(env, arg, s[v]) = env[v]

SubstitutedOp(f, g, s, c) ==
  \/ g.op[c].code = "none" /\ f.op[c].code # "call"
  \/ /\ g.op[c].code = f.op[c].code /\ g.op[c].fun = f.op[c].fun
     /\ g.op[c].x = Image(s, f.op[c].x) /\ g.op[c].y = Image(s, f.op[c].y)

Substituted(f, g, s) ==
  \A b \in Reachable(Succ(g)) :
    /\ g.body[b] = f.body[b]
    /\ \A k \in 1 .. Len(f.body[b]) : SubstitutedOp(f, g, s, f.body[b][k])
    /\ g.term[b].code = f.term[b].code /\ g.term[b].t = f.term[b].t /\ g.term[b].f = f.term[b].f
    /\ g.term[b].x = Image(s, f.term[b].x)
    /\ \A p \in g.phis \cap Reachable(Succ(g)) : g.inc[p][b] = Image(s, f.inc[p][b])

LEMMA ImageEval ==
  ASSUME NEW S \in SUBSET Instrs, NEW s \in [S -> Values], NEW f \in Function, NEW b, NEW k,
         NEW env \in Env, NEW arg \in Data, Keeps(f, s, b, k, env, arg), NEW v, Available(f, v, b, k)
  PROVE  Eval(env, arg, Image(s, v)) = Eval(env, arg, v)
<1>1. CASE v \in S
  <2>1. Image(s, v) = s[v] /\ Eval(env, arg, s[v]) = env[v]
    BY <1>1 DEF Image, Keeps
  <2>2. v \in Instrs
    BY <1>1
  <2> QED BY <2>1, <2>2 DEF Eval
<1>2. CASE v \notin S
  BY <1>2 DEF Image
<1> QED BY <1>1, <1>2

LEMMA SubstitutedSame ==
  ASSUME NEW f \in Function, Strict(f), NEW g, NEW b \in Reachable(Succ(f)), NEW k \in 1 .. Len(f.body[b]),
         NEW c \in Blocks, c = f.body[b][k], NEW env \in Env, NEW arg \in Data,
         NEW S \in SUBSET Instrs, NEW s \in [S -> Values], Keeps(f, s, b, k, env, arg),
         SubstitutedOp(f, g, s, c)
  PROVE  SameOp(f, g, c, env, arg)
<1>1. CASE g.op[c].code = "none" /\ f.op[c].code # "call"
  BY <1>1 DEF SameOp
<1>2. CASE /\ g.op[c].code = f.op[c].code /\ g.op[c].fun = f.op[c].fun
           /\ g.op[c].x = Image(s, f.op[c].x) /\ g.op[c].y = Image(s, f.op[c].y)
  <2>1. PICK o : o = f.op[c]
    OBVIOUS
  <2>2. PICK q : q = g.op[c]
    OBVIOUS
  <2>3. \A v \in OpReads(o) : Available(f, v, b, k)
    BY <2>1, ReadAvailable
  <2>4. \A v \in OpReads(o) : Eval(env, arg, Image(s, v)) = Eval(env, arg, v)
    <3>1. ASSUME NEW v, Available(f, v, b, k) PROVE Eval(env, arg, Image(s, v)) = Eval(env, arg, v)
      BY <3>1, ImageEval
    <3> QED BY <2>3, <3>1
  <2>5. o.code # "none" => Eval(env, arg, q.x) = Eval(env, arg, o.x)
    BY <1>2, <2>1, <2>2, <2>4 DEF OpReads
  <2>6. o.code = "pure" => Eval(env, arg, q.y) = Eval(env, arg, o.y)
    BY <1>2, <2>1, <2>2, <2>4 DEF OpReads
  <2>7. q.code = o.code /\ q.fun = o.fun
    BY <1>2, <2>1, <2>2
  <2>8. \A r \in Data : Outcome(q, Eval(env, arg, q.x), Eval(env, arg, q.y), r)
                          = Outcome(o, Eval(env, arg, o.x), Eval(env, arg, o.y), r)
    BY <2>5, <2>6, <2>7 DEF Outcome
  <2>9. \A r \in Data : Computes(g, c, env, arg, r) = Computes(f, c, env, arg, r)
    BY <2>1, <2>2, <2>8 DEF Computes
  <2> QED BY <2>1, <2>2, <2>5, <2>7, <2>9 DEF SameOp
<1> QED BY <1>1, <1>2 DEF SubstitutedOp

LEMMA SubstitutedPreserves ==
  ASSUME NEW f \in Function, Strict(f), NEW g \in Function, Strict(g), NEW P, Runs(f, P),
         NEW S \in SUBSET Instrs, NEW s \in [S -> Values], Substituted(f, g, s),
         \A b, k, env, arg : <<b, k, env, arg>> \in P => Keeps(f, s, b, k, env, arg)
  PROVE  Preserves(f, g, P)
<1>1. \A b \in Reachable(Succ(g)) : g.body[b] = f.body[b]
  BY DEF Substituted
<1>2. ASSUME NEW b, NEW k, NEW env, NEW arg, <<b, k, env, arg>> \in P, b \in Reachable(Succ(g))
      PROVE  /\ k \in 1 .. Len(f.body[b]) => SameOp(f, g, f.body[b][k], env, arg)
             /\ k = EndOf(f, b) => SameExit(f, g, b, env, arg)
  <2>1. b \in Reachable(Succ(f)) /\ k \in 1 .. EndOf(f, b) /\ Keeps(f, s, b, k, env, arg)
    BY <1>2 DEF Runs
  <2>2. b \in Blocks /\ env \in Env /\ arg \in Data
    BY <1>2 DEF Runs, Points
  <2>3. ASSUME k \in 1 .. Len(f.body[b]) PROVE SameOp(f, g, f.body[b][k], env, arg)
    <3>1. PICK c \in Blocks : c = f.body[b][k]
      BY <2>2, <2>3, BodyType
    <3>2. SubstitutedOp(f, g, s, c)
      BY <1>2, <2>3, <3>1 DEF Substituted
    <3>3. SameOp(f, g, c, env, arg)
      BY <2>1, <2>2, <2>3, <3>1, <3>2, SubstitutedSame
    <3> QED BY <3>1, <3>3
  <2>4. ASSUME k = EndOf(f, b) PROVE SameExit(f, g, b, env, arg)
    <3>1. PICK t, u : t = f.term[b] /\ u = g.term[b]
      OBVIOUS
    <3>2. u.code = t.code /\ u.t = t.t /\ u.f = t.f /\ u.x = Image(s, t.x)
      BY <1>2, <3>1 DEF Substituted
    <3>3. \A v : Wanted(f, b, k, v) => Eval(env, arg, Image(s, v)) = Eval(env, arg, v)
      <4>1. \A v : Wanted(f, b, k, v) => Available(f, v, b, k)
        BY <2>1 DEF Strict
      <4>2. ASSUME NEW v, Available(f, v, b, k) PROVE Eval(env, arg, Image(s, v)) = Eval(env, arg, v)
        BY <2>1, <2>2, <4>2, ImageEval
      <4> QED BY <4>1, <4>2
    <3>4. u.code # "jmp" => Eval(env, arg, u.x) = Eval(env, arg, t.x)
      BY <2>4, <3>1, <3>2, <3>3 DEF Wanted, TermReads
    <3>5. t.code \in {"ret", "jmp", "jnz"}
      BY <2>2, <3>1, FunctionType DEF Term
    <3>6. Exit(g, b, env, arg) = Exit(f, b, env, arg)
      <4>1. CASE t.code = "jmp"
        BY <3>1, <3>2, <4>1 DEF Exit
      <4>2. CASE t.code # "jmp"
        BY <3>1, <3>2, <3>4, <4>2 DEF Exit
      <4> QED BY <4>1, <4>2
    <3>7. Returned(g, b, env, arg) = Returned(f, b, env, arg)
      BY <3>1, <3>2, <3>4 DEF Returned
    <3>8. ASSUME NEW x \in Blocks, x = Exit(f, b, env, arg), x \in g.phis
          PROVE  Brings(g, x, b, env, arg) = Brings(f, x, b, env, arg)
      <4>1. x \in Targets(g.term[b]) /\ x \in Targets(f.term[b])
        BY <2>2, <3>6, <3>8, ExitType
      <4>2. x \in Reachable(Succ(g)) /\ x \in Reachable(Succ(f))
        BY <1>2, <2>1, <3>8, <4>1, ReachedNext DEF Strict
      <4>3. PICK v : v = f.inc[x][b]
        OBVIOUS
      <4>4. g.inc[x][b] = Image(s, v)
        BY <1>2, <3>8, <4>2, <4>3 DEF Substituted
      <4>5. CASE v = Absent
        <5>1. v \notin S
          BY <4>5, SCCPAssumption DEF Values
        <5> QED BY <4>3, <4>4, <4>5, <5>1 DEF Brings, Image
      <4>6. CASE v # Absent
        <5>1. Wanted(f, b, k, v)
          BY <2>4, <4>2, <4>3, <4>6 DEF Wanted, Arrives
        <5>2. Eval(env, arg, Image(s, v)) = Eval(env, arg, v)
          BY <3>3, <5>1
        <5>3. Image(s, v) # Absent
          <6>1. v \in Values
            BY <2>2, <3>8, <4>3, <4>6, FunctionType
          <6>2. Image(s, v) \in Values
            BY <6>1 DEF Image
          <6> QED BY <6>2, SCCPAssumption
        <5> QED BY <4>3, <4>4, <4>6, <5>2, <5>3 DEF Brings
      <4> QED BY <4>5, <4>6
    <3> QED BY <3>6, <3>7, <3>8 DEF SameExit
  <2> QED BY <2>3, <2>4
<1> QED BY <1>1, <1>2 DEF Preserves

(* The way most passes go. *)
LEMMA SubstitutedFollows ==
  ASSUME NEW f \in Function, Strict(f), Matching(f), NEW g \in Function, Strict(g),
         NEW S \in SUBSET Instrs, NEW s \in [S -> Values], Substituted(f, g, s),
         \A b \in Reachable(Succ(f)) : \A k \in 1 .. EndOf(f, b) : \A env \in Env, arg \in Data :
           Coherent(f, b, k, env, arg) => Keeps(f, s, b, k, env, arg)
  PROVE  Follows(f, g)
<1>1. PICK P : P = CoherentPoints(f)
  OBVIOUS
<1>2. Runs(f, P)
  BY <1>1, CoherentRuns
<1>3. \A b, k, env, arg : <<b, k, env, arg>> \in P => Keeps(f, s, b, k, env, arg)
  BY <1>1 DEF CoherentPoints, Points
<1>4. Preserves(f, g, P)
  BY <1>2, <1>3, SubstitutedPreserves
<1> QED BY <1>2, <1>4, PreservedFollows

(* Replacing and erasing. *)
LEMMA ReplaceParts ==
  ASSUME NEW f \in Function, NEW s, NEW g, g = Replace(f, s)
  PROVE  /\ g.body = f.body /\ g.phis = f.phis /\ Succ(g) = Succ(f)
         /\ \A c \in Blocks : /\ g.op[c].code = f.op[c].code /\ g.op[c].fun = f.op[c].fun
                              /\ g.op[c].x = Image(s, f.op[c].x) /\ g.op[c].y = Image(s, f.op[c].y)
         /\ \A b \in Blocks : /\ g.term[b].code = f.term[b].code
                              /\ g.term[b].t = f.term[b].t /\ g.term[b].f = f.term[b].f
                              /\ g.term[b].x = Image(s, f.term[b].x)
         /\ \A b, p \in Blocks : g.inc[b][p] = Image(s, f.inc[b][p])
<1>1. \A b \in Blocks : g.term[b] = [f.term[b] EXCEPT !.x = Image(s, @)]
  BY DEF Replace, Function
<1>2. \A b \in Blocks : g.op[b] = [f.op[b] EXCEPT !.x = Image(s, @), !.y = Image(s, @)]
  BY DEF Replace, Function
<1>3. ASSUME NEW b \in Blocks
      PROVE  /\ g.term[b].code = f.term[b].code /\ g.term[b].x = Image(s, f.term[b].x)
             /\ g.term[b].t = f.term[b].t /\ g.term[b].f = f.term[b].f
  <2>1. f.term[b] \in Term
    BY FunctionType
  <2> QED BY <1>1, <2>1 DEF Term
<1>4. ASSUME NEW b \in Blocks
      PROVE  /\ g.op[b].code = f.op[b].code /\ g.op[b].fun = f.op[b].fun
             /\ g.op[b].x = Image(s, f.op[b].x) /\ g.op[b].y = Image(s, f.op[b].y)
  <2>1. f.op[b] \in Op
    BY FunctionType
  <2> QED BY <1>2, <2>1 DEF Op
<1> QED BY <1>3, <1>4, ImageReads

LEMMA ErasedSubstitutes ==
  ASSUME NEW f \in Function, NEW S \in SUBSET Instrs, NEW s \in [S -> Values], NEW C,
         \A c \in Blocks \cap C : f.op[c].code # "call",
         NEW h, h = EraseOps(Replace(f, s), C)
  PROVE  /\ h \in Function /\ h.body = f.body /\ h.phis = f.phis /\ Succ(h) = Succ(f)
         /\ \A c \in Blocks : SubstitutedOp(f, h, s, c)
         /\ \A b \in Blocks : /\ h.term[b].code = f.term[b].code
                              /\ h.term[b].t = f.term[b].t /\ h.term[b].f = f.term[b].f
                              /\ h.term[b].x = Image(s, f.term[b].x)
         /\ \A b, p \in Blocks : h.inc[b][p] = Image(s, f.inc[b][p])
         /\ Substituted(f, h, s)
<1>1. PICK g \in Function : g = Replace(f, s)
  BY ReplaceType
<1>2. /\ g.body = f.body /\ g.phis = f.phis /\ Succ(g) = Succ(f)
      /\ \A c \in Blocks : /\ g.op[c].code = f.op[c].code /\ g.op[c].fun = f.op[c].fun
                           /\ g.op[c].x = Image(s, f.op[c].x) /\ g.op[c].y = Image(s, f.op[c].y)
      /\ \A b \in Blocks : /\ g.term[b].code = f.term[b].code
                           /\ g.term[b].t = f.term[b].t /\ g.term[b].f = f.term[b].f
                           /\ g.term[b].x = Image(s, f.term[b].x)
      /\ \A b, p \in Blocks : g.inc[b][p] = Image(s, f.inc[b][p])
  BY <1>1, ReplaceParts
<1>3. /\ h \in Function /\ h.body = g.body /\ h.phis = g.phis /\ h.inc = g.inc /\ h.term = g.term
      /\ Succ(h) = Succ(g)
      /\ \A c \in Blocks : c \notin C => h.op[c] = g.op[c]
      /\ \A c \in Blocks \cap C : h.op[c].code = "none"
  BY <1>1, EraseOpsWanted
<1>4. \A c \in Blocks : SubstitutedOp(f, h, s, c)
  BY <1>2, <1>3 DEF SubstitutedOp
<1>5. Reachable(Succ(h)) \subseteq Blocks
  BY <1>3, SuccType
<1>6. \A b \in Blocks : \A k \in 1 .. Len(f.body[b]) : f.body[b][k] \in Blocks
  BY BodyType
<1>7. h.body = f.body /\ h.phis = f.phis /\ Succ(h) = Succ(f)
  BY <1>2, <1>3
<1>8. \A b \in Blocks : /\ h.term[b].code = f.term[b].code
                        /\ h.term[b].t = f.term[b].t /\ h.term[b].f = f.term[b].f
                        /\ h.term[b].x = Image(s, f.term[b].x)
  BY <1>2, <1>3
<1>9. \A b, p \in Blocks : h.inc[b][p] = Image(s, f.inc[b][p])
  BY <1>2, <1>3
<1>10. Substituted(f, h, s)
  BY <1>4, <1>5, <1>6, <1>7, <1>8, <1>9 DEF Substituted
<1> QED BY <1>3, <1>4, <1>7, <1>8, <1>9, <1>10

LEMMA ReplaceOneFollows ==
  ASSUME NEW f \in Function, Strict(f), Matching(f), NEW c \in Blocks, NEW v \in Values,
         f.op[c].code # "call", Strict(ReplaceOne(f, c, v)),
         \A b \in Reachable(Succ(f)) : \A k \in 1 .. EndOf(f, b) : \A env \in Env, arg \in Data :
           Coherent(f, b, k, env, arg) /\ Available(f, <<"op", c>>, b, k) =>
             v # <<"op", c>> /\ Eval(env, arg, v) = env[<<"op", c>>]
  PROVE  Follows(f, ReplaceOne(f, c, v))
<1> DEFINE i == <<"op", c>>
           S == {i}
           s == [j \in S |-> IF v = j THEN Null ELSE v]
<1>1. S \in SUBSET Instrs
  BY OpInstr
<1>2. s \in [S -> Values]
  BY DEF Values
<1>3. PICK g \in Function : g = EraseOps(Replace(f, s), {c})
  BY <1>1, <1>2, ReplaceType, EraseOpsType
<1>4. g = ReplaceOne(f, c, v)
  BY <1>3 DEF ReplaceOne
<1>5. ASSUME NEW b \in Reachable(Succ(f)), NEW k \in 1 .. EndOf(f, b), NEW env \in Env, NEW arg \in Data,
             Coherent(f, b, k, env, arg)
      PROVE  Keeps(f, s, b, k, env, arg)
  <2> SUFFICES ASSUME Available(f, i, b, k) PROVE Eval(env, arg, s[i]) = env[i]
    BY DEF Keeps
  <2>1. v # i /\ Eval(env, arg, v) = env[i]
    BY <1>5
  <2> QED BY <2>1
<1> HIDE DEF S, s
<1>6. Substituted(f, g, s)
  BY <1>1, <1>2, <1>3, ErasedSubstitutes
<1>7. Follows(f, g)
  BY <1>1, <1>2, <1>4, <1>5, <1>6, SubstitutedFollows
<1> QED BY <1>4, <1>7

LEMMA SimplifyPhiFollows ==
  ASSUME NEW f \in Function, Strict(f), Matching(f), NEW b \in Blocks
  PROVE  Follows(f, SimplifyPhi(f, b))
<1>1. CASE ~(b \in f.phis /\ \E p \in Blocks : Preds(Succ(f), b) = {p} /\ f.inc[b][p] \notin {Absent, Null})
  <2>1. SimplifyPhi(f, b) = f
    BY <1>1 DEF SimplifyPhi
  <2> QED BY <2>1, FollowsItself
<1>2. CASE b \in f.phis /\ \E p \in Blocks : Preds(Succ(f), b) = {p} /\ f.inc[b][p] \notin {Absent, Null}
  <2>1. PICK p \in Blocks : p = CHOOSE q \in Blocks : Preds(Succ(f), b) = {q}
    BY <1>2
  <2>2. Preds(Succ(f), b) = {p} /\ f.inc[b][p] \notin {Absent, Null}
    BY <1>2, <2>1
  <2> DEFINE i == <<"phi", b>>
             S == {i}
             v == IF f.inc[b][p] = i THEN Null ELSE f.inc[b][p]
             s == [j \in S |-> v]
  <2>3. S \in SUBSET Instrs
    BY OpInstr
  <2>4. s \in [S -> Values]
    <3>1. f.inc[b][p] \in Values \cup {Absent}
      BY FunctionType
    <3> QED BY <2>2, <3>1 DEF Values
  <2>5. PICK h : h = Replace(f, s)
    OBVIOUS
  <2>6. PICK g : g = ErasePhis(h, {b})
    OBVIOUS
  <2>7. g = SimplifyPhi(f, b)
    BY <1>2, <2>1, <2>5, <2>6 DEF SimplifyPhi
  <2>8. h \in Function /\ g \in Function /\ Strict(g)
    <3>1. h \in Function
      BY <2>3, <2>4, <2>5, ReplaceType
    <3> QED BY <2>6, <2>7, <3>1, ErasePhisType, SimplifyPhiStrict
  <2>9. ASSUME NEW x \in Reachable(Succ(f)), NEW k \in 1 .. EndOf(f, x), NEW env \in Env, NEW arg \in Data,
               Coherent(f, x, k, env, arg)
        PROVE  Keeps(f, s, x, k, env, arg)
    <3> SUFFICES ASSUME Available(f, i, x, k) PROVE Eval(env, arg, s[i]) = env[i]
      BY DEF Keeps
    <3>1. Dominates(Succ(f), b, x)
      BY PhiAvailable
    <3>2. b \in Reachable(Succ(f))
      BY <3>1, SuccType, DominatorReached
    <3>3. Dominates(Succ(f), p, b) /\ p # b /\ Available(f, f.inc[b][p], p, EndOf(f, p)) /\ p \in Reachable(Succ(f))
      BY <1>2, <2>2, <3>2, OnlyArrival
    <3>4. f.inc[b][p] # i
      <4> SUFFICES ASSUME f.inc[b][p] = i PROVE FALSE
        OBVIOUS
      <4>1. Dominates(Succ(f), b, p)
        BY <3>3, PhiAvailable
      <4> QED BY <3>2, <3>3, <4>1, DominatesBack
    <3>5. env[i] = Eval(env, arg, f.inc[b][p])
      <4>1. Fits(f, i, env, arg)
        BY <2>3, <2>9 DEF Coherent
      <4>2. i[1] # "op" /\ i[2] = b
        OBVIOUS
      <4> QED BY <2>2, <4>1, <4>2 DEF Fits
    <3> QED BY <3>4, <3>5
  <2> HIDE DEF S, s
  <2>10. Substituted(f, g, s)
    <3>1. /\ h.body = f.body /\ h.phis = f.phis /\ Succ(h) = Succ(f)
          /\ \A c \in Blocks : /\ h.op[c].code = f.op[c].code /\ h.op[c].fun = f.op[c].fun
                               /\ h.op[c].x = Image(s, f.op[c].x) /\ h.op[c].y = Image(s, f.op[c].y)
          /\ \A x \in Blocks : /\ h.term[x].code = f.term[x].code
                               /\ h.term[x].t = f.term[x].t /\ h.term[x].f = f.term[x].f
                               /\ h.term[x].x = Image(s, f.term[x].x)
          /\ \A x, q \in Blocks : h.inc[x][q] = Image(s, f.inc[x][q])
      BY <2>5, ReplaceParts
    <3>2. /\ g.body = h.body /\ g.phis = h.phis \ {b} /\ g.op = h.op /\ g.term = h.term
          /\ \A x, q \in Blocks : x \notin {b} => g.inc[x][q] = h.inc[x][q]
      BY <2>6, <2>8, ErasePhisWanted
    <3>3. Reachable(Succ(g)) \subseteq Blocks
      BY <2>8, SuccType
    <3>4. \A c \in Blocks : SubstitutedOp(f, g, s, c)
      BY <3>1, <3>2 DEF SubstitutedOp
    <3>5. \A x \in Blocks : \A k \in 1 .. Len(f.body[x]) : f.body[x][k] \in Blocks
      BY BodyType
    <3> QED BY <3>1, <3>2, <3>3, <3>4, <3>5 DEF Substituted
  <2>11. Follows(f, g)
    BY <2>3, <2>4, <2>8, <2>9, <2>10, SubstitutedFollows
  <2> QED BY <2>7, <2>11
<1> QED BY <1>1, <1>2

LEMMA EliminateDeadFollows ==
  ASSUME NEW f \in Function, Strict(f), Matching(f)
  PROVE  Follows(f, EliminateDead(f))
<1> DEFINE S == {}
           s == [i \in S |-> Null]
<1>1. PICK g \in Function : g = EliminateDead(f)
  BY EliminateDeadType
<1>2. Strict(g)
  BY <1>1, EliminateDeadStrict
<1>3. PICK B, C : /\ g = EraseOps(ErasePhis(f, B), C) /\ \A c \in C : f.op[c].code # "call"
  <2> DEFINE B0 == {b \in f.phis : <<"phi", b>> \notin Needed(f)}
             C0 == {c \in Blocks : f.op[c].code # "call" /\ <<"op", c>> \notin Needed(f)}
  <2>1. g = EraseOps(ErasePhis(f, B0), C0)
    BY <1>1 DEF EliminateDead
  <2>2. \A c \in C0 : f.op[c].code # "call"
    OBVIOUS
  <2> QED BY <2>1, <2>2
<1>4. PICK h \in Function : h = ErasePhis(f, B)
  BY ErasePhisType
<1>5. S \in SUBSET Instrs /\ s \in [S -> Values]
  OBVIOUS
<1>6. \A v : Image(s, v) = v
  BY DEF Image
<1>7. Substituted(f, g, s)
  <2>1. /\ h.body = f.body /\ h.phis = f.phis \ B /\ h.op = f.op /\ h.term = f.term
        /\ \A x, q \in Blocks : x \notin B => h.inc[x][q] = f.inc[x][q]
    BY <1>4, ErasePhisWanted
  <2>2. /\ g.body = h.body /\ g.phis = h.phis /\ g.inc = h.inc /\ g.term = h.term
        /\ \A c \in Blocks : c \notin C => g.op[c] = h.op[c]
        /\ \A c \in Blocks \cap C : g.op[c].code = "none"
    BY <1>3, <1>4, EraseOpsWanted
  <2>3. Reachable(Succ(g)) \subseteq Blocks
    BY SuccType
  <2> HIDE DEF s
  <2>4. \A c \in Blocks : SubstitutedOp(f, g, s, c)
    BY <1>3, <1>6, <2>1, <2>2 DEF SubstitutedOp
  <2>5. \A x \in Blocks : \A k \in 1 .. Len(f.body[x]) : f.body[x][k] \in Blocks
    BY BodyType
  <2> QED BY <1>6, <2>1, <2>2, <2>3, <2>4, <2>5 DEF Substituted
<1>8. \A b, k, env, arg : Keeps(f, s, b, k, env, arg)
  BY DEF Keeps
<1> HIDE DEF S, s
<1>9. Follows(f, g)
  BY <1>2, <1>5, <1>7, <1>8, SubstitutedFollows
<1> QED BY <1>1, <1>9

LEMMA RemoveUnreachableFollows ==
  ASSUME NEW f \in Function, Strict(f), Matching(f)
  PROVE  Follows(f, RemoveUnreachable(f))
<1> DEFINE gone == Unreachable(f)
           left == {e \in gone \X Blocks : e[2] \in Succ(f)[e[1]]}
           S == ({"phi"} \X gone) \cup ({"op"} \X Pieces(f, gone))
           s == [i \in S |-> Null]
<1>1. gone \subseteq Blocks /\ gone \cap Reachable(Succ(f)) = {}
  BY DEF Unreachable, Live
<1>2. S \in SUBSET Instrs /\ s \in [S -> Values]
  BY <1>1 DEF Pieces, Instrs, Values
<1>3. PICK h1 \in Function : h1 = RemoveIncoming(f, left)
  BY RemoveIncomingType
<1>4. PICK h2 \in Function : h2 = Replace(h1, s)
  BY <1>2, ReplaceType
<1>5. PICK h3 \in Function : h3 = EraseOps(h2, Pieces(f, gone))
  BY EraseOpsType
<1>6. PICK h4 \in Function : h4 = ErasePhis(h3, gone)
  BY ErasePhisType
<1>7. PICK g \in Function : g = EraseBlocks(h4, gone)
  BY EraseBlocksType
<1>8. g = RemoveUnreachable(f) /\ Strict(g)
  <2>1. g = RemoveUnreachable(f)
    BY <1>3, <1>4, <1>5, <1>6, <1>7 DEF RemoveUnreachable
  <2> QED BY <2>1, RemoveUnreachableStrict
<1>9. ASSUME NEW b \in Reachable(Succ(f)), NEW k \in 1 .. EndOf(f, b), NEW v \in S PROVE ~Available(f, v, b, k)
  <2> SUFFICES ASSUME Available(f, v, b, k) PROVE FALSE
    OBVIOUS
  <2>1. CASE v \in {"phi"} \X gone
    <3>1. PICK t \in gone : v = <<"phi", t>>
      BY <2>1
    <3>2. Dominates(Succ(f), t, b)
      BY <3>1, PhiAvailable
    <3> QED BY <1>1, <3>2, SuccType, DominatorReached
  <2>2. CASE v \in {"op"} \X Pieces(f, gone)
    <3>1. PICK c \in Pieces(f, gone) : v = <<"op", c>>
      BY <2>2
    <3>2. PICK t \in gone : \E j \in 1 .. Len(f.body[t]) : c = f.body[t][j]
      BY <3>1 DEF Pieces
    <3>3. PICK j \in 1 .. Len(f.body[t]) : c = f.body[t][j]
      BY <3>2
    <3>4. t \in Blocks /\ Laid(f)
      BY <1>1 DEF Strict
    <3>5. Dominates(Succ(f), t, b)
      BY <3>1, <3>3, <3>4, OpAvailable
    <3> QED BY <1>1, <3>5, SuccType, DominatorReached
  <2> QED BY <2>1, <2>2
<1>10. Substituted(f, g, s)
  <2>1. /\ h1.body = f.body /\ h1.phis = f.phis /\ h1.op = f.op /\ h1.term = f.term
        /\ \A p, b \in Blocks : b \notin gone => h1.inc[p][b] = f.inc[p][b]
    <3>1. \A p, b \in Blocks : b \notin gone => h1.inc[p][b] = f.inc[p][b]
      BY <1>3 DEF RemoveIncoming, Function
    <3> HIDE DEF left, gone
    <3> QED BY <1>3, <3>1, RemoveIncomingWanted
  <2> HIDE DEF left, gone, S, s
  <2>2. /\ h2.body = h1.body /\ h2.phis = h1.phis
        /\ \A c \in Blocks : /\ h2.op[c].code = h1.op[c].code /\ h2.op[c].fun = h1.op[c].fun
                             /\ h2.op[c].x = Image(s, h1.op[c].x) /\ h2.op[c].y = Image(s, h1.op[c].y)
        /\ \A b \in Blocks : /\ h2.term[b].code = h1.term[b].code
                             /\ h2.term[b].t = h1.term[b].t /\ h2.term[b].f = h1.term[b].f
                             /\ h2.term[b].x = Image(s, h1.term[b].x)
        /\ \A b, p \in Blocks : h2.inc[b][p] = Image(s, h1.inc[b][p])
    BY <1>4, ReplaceParts
  <2>3. /\ h3.body = h2.body /\ h3.phis = h2.phis /\ h3.inc = h2.inc /\ h3.term = h2.term
        /\ \A c \in Blocks : c \notin Pieces(f, gone) => h3.op[c] = h2.op[c]
    BY <1>5, EraseOpsWanted
  <2>4. /\ h4.body = h3.body /\ h4.phis = h3.phis \ gone /\ h4.op = h3.op /\ h4.term = h3.term
        /\ \A b, p \in Blocks : b \notin gone => h4.inc[b][p] = h3.inc[b][p]
    BY <1>6, ErasePhisWanted
  <2>5. /\ g.phis = h4.phis /\ g.inc = h4.inc
        /\ \A b \in Blocks : b \notin gone => g.body[b] = h4.body[b] /\ g.term[b] = h4.term[b]
        /\ \A b \in Blocks : b \in gone => g.body[b] = <<>>
    BY <1>7, EraseBlocksParts
  <2>6. g.op = h4.op
    BY <1>7, EraseBlocksWanted
  <2>7. \A b \in Reachable(Succ(g)) : b \in Blocks /\ b \notin gone
    BY <1>8, <2>5, SuccType DEF Strict, Live
  <2>8. ASSUME NEW b \in Blocks, b \notin gone, NEW k \in 1 .. Len(f.body[b])
        PROVE  SubstitutedOp(f, g, s, f.body[b][k])
    <3>1. PICK c \in Blocks : c = f.body[b][k]
      BY BodyType
    <3>2. c \notin Pieces(f, gone)
      BY <1>1, <2>8, <3>1 DEF Pieces, Strict, Laid
    <3> QED BY <2>1, <2>2, <2>3, <2>4, <2>6, <3>1, <3>2 DEF SubstitutedOp
  <2>9. ASSUME NEW b \in Blocks, b \notin gone
        PROVE  /\ g.body[b] = f.body[b]
               /\ g.term[b].code = f.term[b].code /\ g.term[b].t = f.term[b].t /\ g.term[b].f = f.term[b].f
               /\ g.term[b].x = Image(s, f.term[b].x)
               /\ \A p \in g.phis \cap Reachable(Succ(g)) : g.inc[p][b] = Image(s, f.inc[p][b])
    BY <2>1, <2>2, <2>3, <2>4, <2>5, <2>7, <2>9
  <2> QED BY <2>7, <2>8, <2>9 DEF Substituted
<1>11. \A b \in Reachable(Succ(f)) : \A k \in 1 .. EndOf(f, b) : \A env, arg : Keeps(f, s, b, k, env, arg)
  BY <1>9 DEF Keeps
<1> HIDE DEF S, s
<1>12. Follows(f, g)
  BY <1>2, <1>8, <1>10, <1>11, SubstitutedFollows
<1> QED BY <1>8, <1>12

LEMMA SameOpItself == ASSUME NEW f, NEW g, NEW c, NEW env, NEW arg, g.op[c] = f.op[c] PROVE SameOp(f, g, c, env, arg)
BY DEF SameOp, Computes

(* A branch on a constant is never taken the other way. *)
LEMMA FoldBranchesFollows ==
  ASSUME NEW f \in Function, Strict(f), Matching(f)
  PROVE  Follows(f, FoldBranches(f))
<1> DEFINE left == {<<b, Other(f.term[b])>> : b \in Decided(f)}
<1>1. PICK h \in Function : h = Straighten(f)
  BY StraightenType
<1>2. PICK g \in Function : g = RemoveIncoming(h, left)
  BY RemoveIncomingType
<1>3. g = FoldBranches(f) /\ Strict(g)
  <2>1. g = FoldBranches(f)
    BY <1>1, <1>2 DEF FoldBranches
  <2> QED BY <2>1, FoldBranchesStrict
<1>4. /\ h.body = f.body /\ h.phis = f.phis /\ h.op = f.op /\ h.inc = f.inc
      /\ \A b \in Blocks : h.term[b] = IF b \in Decided(f) THEN Jump(Kept(f.term[b])) ELSE f.term[b]
  BY <1>1 DEF Straighten, Function
<1>5. /\ g.body = f.body /\ g.phis = f.phis /\ g.op = f.op
      /\ \A b \in Blocks : g.term[b] = IF b \in Decided(f) THEN Jump(Kept(f.term[b])) ELSE f.term[b]
      /\ \A b, x \in Blocks : <<b, x>> \notin left => g.inc[x][b] = f.inc[x][b]
  <2>1. g.body = h.body /\ g.phis = h.phis /\ g.op = h.op /\ g.term = h.term
    BY <1>2, RemoveIncomingWanted
  <2>2. \A b, x \in Blocks : <<b, x>> \notin left => g.inc[x][b] = h.inc[x][b]
    BY <1>2 DEF RemoveIncoming, Function
  <2> HIDE DEF left
  <2> QED BY <1>4, <2>1, <2>2
<1>6. \A b, x \in Blocks : <<b, x>> \in left => b \in Decided(f) /\ x = Other(f.term[b])
  OBVIOUS
<1> HIDE DEF left
<1>7. ASSUME NEW b \in Blocks, NEW env \in Env, NEW arg \in Data PROVE SameExit(f, g, b, env, arg)
  <2>1. CASE b \in Decided(f)
    <3>1. PICK t, u : t = f.term[b] /\ u = g.term[b]
      OBVIOUS
    <3>2. t \in Term /\ t.code = "jnz" /\ IsConst(t.x) /\ u = Jump(Kept(t))
      BY <1>5, <2>1, <3>1, FunctionType DEF Decided
    <3>3. t.x \in Values /\ t.t \in Blocks /\ t.f \in Blocks
      BY <3>2 DEF Term
    <3>4. PICK d \in Data : t.x = Const(d)
      <4>1. t.x[1] = "const"
        BY <3>2 DEF IsConst
      <4>2. t.x \notin Instrs /\ t.x # Arg /\ t.x # Null
        BY <4>1 DEF Instrs, Arg, Null
      <4> QED BY <3>3, <4>2, ValueCases
    <3>5. Eval(env, arg, t.x) = d
      BY <3>4 DEF Eval, Const, Instrs
    <3>6. d # Undef /\ (t.x = Const(Zero) <=> d = Zero)
      BY <3>4, SCCPAssumption DEF Const
    <3>7. Exit(f, b, env, arg) = Kept(t)
      BY <3>1, <3>2, <3>5, <3>6 DEF Exit, Kept
    <3>8. Exit(g, b, env, arg) = Kept(t)
      BY <3>1, <3>2 DEF Exit, Jump
    <3>9. Returned(g, b, env, arg) = Returned(f, b, env, arg)
      BY <3>1, <3>2 DEF Returned, Jump
    <3>10. t.t # t.f
      BY <3>1, <3>2 DEF Matching
    <3>11. Kept(t) # Other(t)
      BY <3>10 DEF Kept, Other
    <3>12. ASSUME NEW x \in Blocks, x = Exit(f, b, env, arg) PROVE Brings(g, x, b, env, arg) = Brings(f, x, b, env, arg)
      <4>1. g.inc[x][b] = f.inc[x][b]
        BY <1>5, <1>6, <3>1, <3>7, <3>11, <3>12
      <4> QED BY <4>1 DEF Brings
    <3> QED BY <3>7, <3>8, <3>9, <3>12 DEF SameExit
  <2>2. CASE b \notin Decided(f)
    <3>1. g.term[b] = f.term[b] /\ \A x \in Blocks : g.inc[x][b] = f.inc[x][b]
      BY <1>5, <1>6, <2>2
    <3> QED BY <3>1 DEF SameExit, Exit, Returned, Brings
  <2> QED BY <2>1, <2>2
<1>8. PICK P : P = CoherentPoints(f)
  OBVIOUS
<1>9. Runs(f, P)
  BY <1>8, CoherentRuns
<1>10. Preserves(f, g, P)
  <2>1. \A b, k, env, arg : <<b, k, env, arg>> \in P => b \in Blocks /\ env \in Env /\ arg \in Data
    BY <1>8 DEF CoherentPoints, Points
  <2> QED BY <1>5, <1>7, <2>1, SameOpItself DEF Preserves
<1>11. Follows(f, g)
  BY <1>3, <1>9, <1>10, PreservedFollows
<1> QED BY <1>3, <1>11

LEMMA LinkedAlways ==
  ASSUME NEW f \in Function, Strict(f), NEW r, Followed(f, r)
  PROVE  \A n \in 0 .. N : Linked(f, r, n)
<1> DEFINE I == {n \in Nat : n <= N => Linked(f, r, n)}
<1>1. 0 \in I
  BY LinkedStart
<1>2. ASSUME NEW n \in Nat, n \in I PROVE n + 1 \in I
  <2> SUFFICES ASSUME n + 1 <= N PROVE Linked(f, r, n + 1)
    OBVIOUS
  <2>1. n < N /\ Linked(f, r, n)
    BY <1>2, BlocksAssumption
  <2> QED BY <2>1, LinkedNext
<1> HIDE DEF I
<1>3. \A n \in Nat : n \in I
  BY <1>1, <1>2, Induction
<1> QED BY <1>3, BlocksAssumption DEF I

(* After N links the chain of a copy that can be executed has ended. *)
LEMMA CopiesResolve ==
  ASSUME NEW f \in Function, Strict(f), NEW r, Followed(f, r),
         NEW s \in Reachable(Succ(f)), NEW j \in 1 .. Len(f.body[s]), NEW c \in Copies(f), c = f.body[s][j]
  PROVE  r[N][c] \in Copied(f)
<1>1. Linked(f, r, N)
  BY LinkedAlways, BlocksAssumption
<1>2. PICK v : v = r[N][c]
  OBVIOUS
<1>3. /\ \E d \in Copies(f) : v = f.op[d].x
      /\ IsCopyOf(f, v) =>
           \E t \in Reachable(Succ(f)) : \E i \in 1 .. Len(f.body[t]) :
             Cardinality(Ready(f, t, i)) + N < Cardinality(Ready(f, s, j))
  BY <1>1, <1>2 DEF Linked
<1>4. \A t, i : ~(Cardinality(Ready(f, t, i)) + N < Cardinality(Ready(f, s, j)))
  <2> SUFFICES ASSUME NEW t, NEW i
               PROVE  ~(Cardinality(Ready(f, t, i)) + N < Cardinality(Ready(f, s, j)))
    OBVIOUS
  <2>1. Cardinality(Ready(f, t, i)) \in Nat /\ Cardinality(Ready(f, s, j)) \in Nat
    BY ReadySize
  <2>2. Cardinality(Ready(f, s, j)) <= N
    BY ReadySize
  <2> QED BY <2>1, <2>2, BlocksAssumption
<1>5. ~IsCopyOf(f, v)
  BY <1>3, <1>4
<1> QED BY <1>2, <1>3, <1>5 DEF Copied

(* A copy of a copy is what is copied first, wherever it is available. *)
LEMMA CopiesAgree ==
  ASSUME NEW f \in Function, Strict(f), NEW r, Followed(f, r),
         NEW b \in Reachable(Succ(f)), NEW k \in 1 .. EndOf(f, b), NEW env \in Env, NEW arg \in Data,
         Coherent(f, b, k, env, arg)
  PROVE  \A n \in 0 .. N : \A c \in Copies(f) :
           Available(f, <<"op", c>>, b, k) => env[<<"op", c>>] = Eval(env, arg, r[n][c])
<1> DEFINE W(n) == \A c \in Copies(f) : Available(f, <<"op", c>>, b, k) => env[<<"op", c>>] = Eval(env, arg, r[n][c])
           I == {n \in Nat : n <= N => W(n)}
<1>1. ASSUME NEW c \in Copies(f), Available(f, <<"op", c>>, b, k)
      PROVE  env[<<"op", c>>] = Eval(env, arg, f.op[c].x)
  <2>1. c \in Blocks /\ f.op[c].code = "copy" /\ <<"op", c>> \in Instrs
    BY OpInstr DEF Copies, Pieces
  <2>2. Fits(f, <<"op", c>>, env, arg)
    BY <1>1, <2>1 DEF Coherent
  <2> QED BY <2>1, <2>2 DEF Fits
<1>2. 0 \in I
  <2>1. \A c \in Copies(f) : r[0][c] = f.op[c].x
    BY DEF Followed, Copies, Pieces
  <2>2. W(0)
    BY <1>1, <2>1
  <2> QED BY <2>2
<1>3. ASSUME NEW n \in Nat, n \in I PROVE n + 1 \in I
  <2> SUFFICES ASSUME n + 1 <= N, NEW c \in Copies(f), Available(f, <<"op", c>>, b, k)
               PROVE  env[<<"op", c>>] = Eval(env, arg, r[n + 1][c])
    OBVIOUS
  <2>1. n < N /\ n \in 0 .. N /\ W(n)
    BY <1>3, BlocksAssumption
  <2>2. PICK v, w : v = r[n][c] /\ w = r[n + 1][c]
    OBVIOUS
  <2>3. w = IF IsCopyOf(f, v) THEN f.op[v[2]].x ELSE v
    <3>1. r[n + 1] = [e \in Blocks |-> IF IsCopyOf(f, r[n][e]) THEN f.op[r[n][e][2]].x ELSE r[n][e]]
      BY <2>1 DEF Followed
    <3>2. c \in Blocks
      BY DEF Copies, Pieces
    <3>3. r[n + 1][c] = IF IsCopyOf(f, r[n][c]) THEN f.op[r[n][c][2]].x ELSE r[n][c]
      BY <3>1, <3>2
    <3> QED BY <2>2, <3>3
  <2>4. env[<<"op", c>>] = Eval(env, arg, v)
    BY <2>1, <2>2
  <2>5. CASE ~IsCopyOf(f, v)
    BY <2>2, <2>3, <2>4, <2>5
  <2>6. CASE IsCopyOf(f, v)
    <3>1. PICK t \in Blocks : \E j \in 1 .. Len(f.body[t]) :
             /\ f.body[t][j] = c /\ Dominates(Succ(f), t, b) /\ (t = b => j < k)
      BY OpPlace
    <3>2. PICK j \in 1 .. Len(f.body[t]) : f.body[t][j] = c /\ Dominates(Succ(f), t, b) /\ (t = b => j < k)
      BY <3>1
    <3>3. t \in Reachable(Succ(f)) /\ j \in Nat /\ k \in Nat
      BY <3>2, SuccType, BodyType, DominatorReached
    <3>4. Available(f, v, t, j)
      <4>1. Linked(f, r, n)
        BY <2>1, LinkedAlways
      <4> QED BY <2>2, <3>2, <3>3, <4>1 DEF Linked
    <3>5. t = b => j <= k
      BY <3>2, <3>3
    <3>6. Available(f, v, b, k)
      BY <3>2, <3>3, <3>4, <3>5, AvailableLater
    <3>7. PICK d \in Copies(f) : v = <<"op", d>>
      <4>1. \E d \in Blocks : v = <<"op", d>>
        <5>1. v \notin {Const(d) : d \in Data} \cup {Arg} /\ \A x : v # <<"phi", x>>
          BY <2>6 DEF IsCopyOf, Const, Arg
        <5> QED BY <3>6, <5>1, BodyType DEF Available
      <4> QED BY <2>6, <4>1 DEF IsCopyOf
    <3>8. env[<<"op", d>>] = Eval(env, arg, f.op[d].x)
      BY <1>1, <3>6, <3>7
    <3>9. Eval(env, arg, v) = env[v]
      BY <3>7, OpInstr DEF Eval, Copies, Pieces
    <3> QED BY <2>2, <2>3, <2>4, <2>6, <3>7, <3>8, <3>9
  <2> QED BY <2>5, <2>6
<1> HIDE DEF I
<1>4. \A n \in Nat : n \in I
  BY <1>2, <1>3, Induction
<1> QED BY <1>4, BlocksAssumption DEF I

LEMMA EliminateCopiesFollows ==
  ASSUME NEW f \in Function, Strict(f), Matching(f)
  PROVE  Follows(f, EliminateCopies(f))
<1>1. PICK r \in [0 .. N -> [Blocks -> Values]] :
           /\ Followed(f, r)
           /\ EliminateCopies(f) =
                EraseOps(Replace(f, [i \in {"op"} \X Copies(f) |->
                  IF r[N][i[2]] \in Copied(f) THEN r[N][i[2]] ELSE Null]), Copies(f))
  BY CopiesFollowed
<1> DEFINE S == {"op"} \X Copies(f)
           q == [i \in S |-> IF r[N][i[2]] \in Copied(f) THEN r[N][i[2]] ELSE Null]
<1>2. S \in SUBSET Instrs
  BY DEF Copies, Pieces, Instrs
<1>3. q \in [S -> Values]
  <2>1. Copied(f) \subseteq Values
    BY FunctionType DEF Copied, Copies, Pieces, Op
  <2> QED BY <2>1 DEF Values
<1>4. ASSUME NEW b \in Reachable(Succ(f)), NEW k \in 1 .. EndOf(f, b), NEW env \in Env, NEW arg \in Data,
             Coherent(f, b, k, env, arg)
      PROVE  Keeps(f, q, b, k, env, arg)
  <2> SUFFICES ASSUME NEW c \in Copies(f), Available(f, <<"op", c>>, b, k)
               PROVE  Eval(env, arg, q[<<"op", c>>]) = env[<<"op", c>>]
    <3>1. DOMAIN q = S /\ \A v \in S : \E c \in Copies(f) : v = <<"op", c>>
      OBVIOUS
    <3> HIDE DEF S, q
    <3> QED BY <3>1 DEF Keeps
  <2>1. PICK t \in Blocks : \E j \in 1 .. Len(f.body[t]) : f.body[t][j] = c /\ Dominates(Succ(f), t, b)
    BY OpPlace
  <2>2. t \in Reachable(Succ(f))
    BY <2>1, SuccType, DominatorReached
  <2>3. r[N][c] \in Copied(f)
    BY <1>1, <2>1, <2>2, CopiesResolve
  <2>4. q[<<"op", c>>] = r[N][c]
    BY <2>3
  <2>5. env[<<"op", c>>] = Eval(env, arg, r[N][c])
    BY <1>1, <1>4, CopiesAgree, BlocksAssumption
  <2> QED BY <2>4, <2>5
<1>5. PICK g : g = EraseOps(Replace(f, q), Copies(f))
  OBVIOUS
<1>6. g = EliminateCopies(f) /\ g \in Function /\ Strict(g)
  BY <1>1, <1>5, EliminateCopiesType, EliminateCopiesStrict
<1>7. \A c \in Blocks \cap Copies(f) : f.op[c].code # "call"
  BY DEF Copies
<1> HIDE DEF S, q
<1>8. Substituted(f, g, q)
  BY <1>2, <1>3, <1>5, <1>7, ErasedSubstitutes
<1>9. Follows(f, g)
  BY <1>2, <1>3, <1>4, <1>6, <1>8, SubstitutedFollows
<1> QED BY <1>6, <1>9

(* What SCCP takes for constant is constant, whatever path is executed. *)
AllowedPoints == {p \in CoherentPoints(before) : p[1] \in reached /\ Allowed(p[3])}

LEMMA AllowedRuns ==
  ASSUME TypeOK, Fixpoint, phase # "analyse", Strict(before), Matching(before)
  PROVE  Runs(before, AllowedPoints)
<1> DEFINE P == CoherentPoints(before)
           Q == AllowedPoints
<1>1. before \in Function /\ Runs(before, P) /\ reached \subseteq Blocks
  BY CoherentRuns DEF TypeOK
<1>2. \A b, k, env, arg : <<b, k, env, arg>> \in Q <=>
        <<b, k, env, arg>> \in P /\ b \in reached /\ Allowed(env)
  BY DEF AllowedPoints
<1>3. \A b, k, env, arg : <<b, k, env, arg>> \in P => b \in Blocks /\ k \in Nat /\ env \in Env /\ arg \in Data
  BY DEF CoherentPoints, Points
<1>4. Q \subseteq Points
  BY DEF AllowedPoints, CoherentPoints
<1> HIDE DEF P, Q
<1>5. ASSUME NEW d \in Data PROVE <<Entry, 1, Boot(d).env, d>> \in Q
  <2>1. Allowed(Boot(d).env)
    BY DEF Allowed, Boot
  <2>2. Entry \in reached
    BY AllAgrees
  <2> QED BY <1>1, <1>2, <2>1, <2>2 DEF Runs
<1>6. ASSUME NEW b, NEW k, NEW env, NEW arg, <<b, k, env, arg>> \in Q
      PROVE  /\ b \in Reachable(Succ(before)) /\ k \in 1 .. EndOf(before, b) /\ Coherent(before, b, k, env, arg)
             /\ k \in 1 .. Len(before.body[b]) => \A r \in Data : \A y :
                  /\ y = Computes(before, before.body[b][k], env, arg, r)
                  /\ ~(before.op[before.body[b][k]].code = "pure" /\ y = Undef)
                  => <<b, k + 1, With(env, <<"op", before.body[b][k]>>, y), arg>> \in Q
             /\ k = EndOf(before, b) => \A s \in Blocks : s = Exit(before, b, env, arg) =>
                  <<s, 1, With(env, <<"phi", s>>, Brings(before, s, b, env, arg)), arg>> \in Q
  <2>1. <<b, k, env, arg>> \in P /\ b \in reached /\ Allowed(env) /\ b \in Blocks /\ env \in Env /\ arg \in Data
    BY <1>2, <1>3, <1>6
  <2>2. PICK m : m = [at |-> b, k |-> 1, env |-> env, arg |-> arg, out |-> Undef]
    OBVIOUS
  <2>3. m \in Machine /\ m.at = b /\ m.env = env /\ m.arg = arg
    BY <2>1, <2>2 DEF Machine, Env
  <2>4. ASSUME k \in 1 .. Len(before.body[b]), NEW r \in Data, NEW y,
               y = Computes(before, before.body[b][k], env, arg, r),
               ~(before.op[before.body[b][k]].code = "pure" /\ y = Undef)
        PROVE  <<b, k + 1, With(env, <<"op", before.body[b][k]>>, y), arg>> \in Q
    <3>1. PICK c \in Blocks : c = before.body[b][k]
      BY <1>1, <2>1, <2>4, BodyType
    <3>2. <<b, k + 1, With(env, <<"op", c>>, y), arg>> \in P
      BY <1>1, <2>1, <2>4, <3>1 DEF Runs
    <3>3. Agrees(<<"op", c>>)
      BY <2>1, <2>4, <3>1, AllAgrees
    <3>4. Yield(before, m, c, r) = y
      BY <2>3, <2>4, <3>1 DEF Yield, Computes, Outcome
    <3>5. y \in lat[<<"op", c>>] \cup {Undef}
      BY <2>1, <2>3, <3>3, <3>4, YieldAllowed
    <3>6. Allowed(With(env, <<"op", c>>, y))
      BY <2>1, <3>5, OpInstr DEF Allowed, With, Env
    <3> QED BY <1>2, <2>1, <3>1, <3>2, <3>6
  <2>5. ASSUME k = EndOf(before, b), NEW s \in Blocks, s = Exit(before, b, env, arg)
        PROVE  <<s, 1, With(env, <<"phi", s>>, Brings(before, s, b, env, arg)), arg>> \in Q
    <3>1. <<s, 1, With(env, <<"phi", s>>, Brings(before, s, b, env, arg)), arg>> \in P
      BY <1>1, <2>1, <2>5 DEF Runs
    <3>2. PICK n : n = Leave(before, m)
      OBVIOUS
    <3>3. n.at \in reached \cup {0} /\ Allowed(n.env)
      BY <2>1, <2>3, <3>2, LeaveAllowed
    <3>4. n.at = s /\ n.env = With(env, <<"phi", s>>, Brings(before, s, b, env, arg))
      <4>1. Exit(before, b, m.env, m.arg) = s
        BY <2>3, <2>5
      <4>2. n.at = s /\ n.env = With(m.env, <<"phi", s>>, Brings(before, s, b, m.env, m.arg))
        BY <1>1, <2>1, <2>3, <3>2, <4>1, Left
      <4> QED BY <2>3, <4>2
    <3>5. s # 0
      BY EntryFirst
    <3> QED BY <1>2, <3>1, <3>3, <3>4, <3>5
  <2> QED BY <1>1, <2>1, <2>4, <2>5 DEF Runs
<1>7. Runs(before, Q)
  BY <1>4, <1>5, <1>6 DEF Runs
<1> QED BY <1>7 DEF Q

LEMMA ReplaceConstantsFollows ==
  ASSUME TypeOK, Fixpoint, phase # "analyse", Strict(before), Matching(before)
  PROVE  Follows(before, ReplaceConstants(before))
<1> DEFINE f == before
           C == Known(f)
           S == {"op"} \X C
           s == [i \in S |-> Const(CHOOSE d \in Data : d \in lat[i])]
<1>1. f \in Function /\ C \subseteq Blocks /\ reached \subseteq Blocks
  BY DEF TypeOK, Known, Pieces
<1>2. S \in SUBSET Instrs
  BY <1>1 DEF Instrs
<1>3. ASSUME NEW c \in C
      PROVE  /\ f.op[c].code # "call"
             /\ \E d \in Data : lat[<<"op", c>>] = {d} /\ s[<<"op", c>>] = Const(d)
  <2>1. PICK d \in Data : lat[<<"op", c>>] = {d}
    BY DEF Known
  <2>2. s[<<"op", c>>] = Const(d)
    <3>1. (CHOOSE e \in Data : e \in lat[<<"op", c>>]) = d
      BY <2>1
    <3> QED BY <3>1
  <2>3. Agrees(<<"op", c>>)
    BY AllAgrees DEF Known, Pieces
  <2>4. FoldOp(f.op[c]) \subseteq {d}
    BY <2>1, <2>3 DEF Agrees, Folded
  <2>5. f.op[c].code # "call"
    <3> SUFFICES ASSUME f.op[c].code = "call" PROVE FALSE
      OBVIOUS
    <3>1. FoldOp(f.op[c]) = Data
      BY DEF FoldOp
    <3> QED BY <2>4, <3>1, DataAssumption, SCCPAssumption
  <2> QED BY <2>1, <2>2, <2>5
<1>4. s \in [S -> Values]
  <2>1. ASSUME NEW i \in S PROVE \E d \in Data : s[i] = Const(d)
    <3>1. PICK c \in C : i = <<"op", c>>
      OBVIOUS
    <3> HIDE DEF s
    <3> QED BY <1>3, <3>1
  <2>2. \A d \in Data : Const(d) \in Values
    BY DEF Values
  <2> QED BY <2>1, <2>2
<1>5. ASSUME NEW b, NEW k, NEW env, NEW arg, <<b, k, env, arg>> \in AllowedPoints
      PROVE  Keeps(f, s, b, k, env, arg)
  <2>1. Coherent(f, b, k, env, arg) /\ Allowed(env)
    BY <1>5 DEF AllowedPoints, CoherentPoints
  <2>2. ASSUME NEW v \in S, Available(f, v, b, k) PROVE Eval(env, arg, s[v]) = env[v]
    <3>1. PICK c \in C : v = <<"op", c>>
      OBVIOUS
    <3>2. PICK d \in Data : lat[v] = {d} /\ s[v] = Const(d)
      BY <1>3, <3>1
    <3>3. env[v] \in Data /\ env[v] \in lat[v] \cup {Undef}
      BY <1>2, <2>1, <2>2 DEF Coherent, Allowed
    <3>4. env[v] = d
      BY <3>2, <3>3, SCCPAssumption
    <3>5. Eval(env, arg, Const(d)) = d
      BY DEF Eval, Const, Instrs
    <3> QED BY <3>2, <3>4, <3>5
  <2> HIDE DEF S, s
  <2> QED BY <1>4, <2>2 DEF Keeps
<1>6. PICK g : g = EraseOps(Replace(f, s), C)
  OBVIOUS
<1>7. g = ReplaceConstants(f) /\ g \in Function /\ Strict(g)
  <2>1. g = ReplaceConstants(f)
    BY <1>6 DEF ReplaceConstants
  <2> QED BY <1>1, <2>1, ReplaceConstantsType, ReplaceConstantsStrict
<1>8. \A c \in Blocks \cap C : f.op[c].code # "call"
  BY <1>3
<1>9. Runs(f, AllowedPoints)
  BY AllowedRuns
<1> HIDE DEF S, s, C, f
<1>10. Substituted(f, g, s)
  BY <1>1, <1>2, <1>4, <1>6, <1>8, ErasedSubstitutes
<1>11. Strict(f)
  BY DEF f
<1>12. Preserves(f, g, AllowedPoints)
  BY <1>1, <1>2, <1>4, <1>5, <1>7, <1>9, <1>10, <1>11, SubstitutedPreserves
<1>13. Follows(f, g)
  BY <1>1, <1>7, <1>9, <1>11, <1>12, PreservedFollows
<1> QED BY <1>7, <1>13 DEF f

(* A block that is merged goes on where its successor did. *)
Joint(f, g, b, s, m, n) ==
  \/ m.at = 0 /\ (m.out = Undef \/ (n.at = 0 /\ n.out = m.out))
  \/ /\ m.at \in Reachable(Succ(f)) /\ m.k \in 1 .. Len(f.body[m.at])
     /\ n.at = Host(b, s, m.at) /\ n.k = Moved(s, Len(f.body[b]), m.at, m.k) /\ n.arg = m.arg
     /\ n.at \in Reachable(Succ(g)) /\ Alike(g, n.at, n.k, m.env, n.env)

LEMMA JoinedAt ==
  ASSUME NEW f \in Function, NEW b, NEW s, NEW g \in Function, Joined(f, b, s, g),
         NEW x \in Blocks, NEW k \in 1 .. Len(f.body[x]), Host(b, s, x) # s,
         NEW y, y = Host(b, s, x), NEW l, l = Moved(s, Len(f.body[b]), x, k)
  PROVE  /\ y \in Blocks /\ l \in 1 .. Len(g.body[y]) /\ g.body[y][l] = f.body[x][k]
         /\ k < Len(f.body[x]) => l < Len(g.body[y]) /\ l + 1 = Moved(s, Len(f.body[b]), x, k + 1)
         /\ x # b /\ ~(k < Len(f.body[x])) => l = Len(g.body[y]) /\ g.term[y] = f.term[x]
         /\ x = b /\ ~(k < Len(f.body[x])) /\ f.body[s] # <<>> =>
              l < Len(g.body[y]) /\ l + 1 = Moved(s, Len(f.body[b]), s, 1)
<1>1. PICK L, M : L = Len(f.body[b]) /\ M = Len(f.body[s])
  OBVIOUS
<1>2. /\ b \in Blocks /\ s \in Blocks /\ s # b /\ g.term[b] = f.term[s]
      /\ \A p \in Blocks \ {b, s} : g.body[p] = f.body[p] /\ g.term[p] = f.term[p]
  BY DEF Joined
<1>3. L \in Nat /\ M \in Nat /\ Len(g.body[b]) = L + M
  <2>1. /\ Len(f.body[b]) \in Nat /\ Len(f.body[s]) \in Nat
        /\ Len(g.body[b]) = Len(f.body[b]) + Len(f.body[s])
    BY JoinedLengths
  <2> QED BY <1>1, <2>1
<1>4. Len(f.body[x]) \in Nat
  BY BodyType
<1>5. CASE x = s
  <2>1. y = b /\ l = L + k
    BY <1>1, <1>5 DEF Host, Moved
  <2>2. g.body[b][L + k] = f.body[s][k]
    BY <1>1, <1>5, JoinedPlaces
  <2>3. L + (k + 1) = Moved(s, L, x, k + 1)
    BY <1>5 DEF Moved
  <2>4. k \in 1 .. M
    BY <1>1, <1>5
  <2>5. L + k \in 1 .. L + M /\ (k < M => L + k < L + M /\ L + k + 1 = L + (k + 1)) /\ (~(k < M) => L + k = L + M)
    BY <1>3, <2>4
  <2>6. g.body[y][l] = f.body[x][k]
    BY <1>5, <2>1, <2>2
  <2>7. Len(f.body[x]) = M /\ Len(g.body[y]) = L + M /\ g.term[y] = f.term[x]
    BY <1>1, <1>2, <1>3, <1>5, <2>1
  <2>8. l + 1 = L + k + 1
    BY <2>1
  <2> QED BY <1>1, <1>2, <1>5, <2>1, <2>3, <2>5, <2>6, <2>7, <2>8
<1>6. CASE x = b
  <2>1. y = b /\ l = k /\ k + 1 = Moved(s, L, x, k + 1) /\ L + 1 = Moved(s, L, s, 1)
    BY <1>1, <1>2, <1>6 DEF Host, Moved
  <2>2. g.body[b][k] = f.body[b][k]
    BY <1>1, <1>6, JoinedPlaces
  <2>3. f.body[s] # <<>> => M # 0
    <3>1. f.body[s] \in Seq(Blocks)
      BY <1>2, FunctionType
    <3> QED BY <1>1, <3>1
  <2>4. k \in 1 .. L
    BY <1>1, <1>6
  <2>5. k \in 1 .. L + M /\ (k < L => k < L + M) /\ (~(k < L) => k = L) /\ (M # 0 => L < L + M)
    BY <1>3, <2>4
  <2>6. g.body[y][l] = f.body[x][k]
    BY <1>6, <2>1, <2>2
  <2>7. Len(f.body[x]) = L /\ Len(g.body[y]) = L + M
    BY <1>1, <1>3, <1>6, <2>1
  <2> QED BY <1>1, <1>2, <1>6, <2>1, <2>3, <2>5, <2>6, <2>7
<1>7. CASE x # b /\ x # s
  <2>1. y = x /\ l = k /\ k + 1 = Moved(s, L, x, k + 1)
    BY <1>7 DEF Host, Moved
  <2> QED BY <1>1, <1>2, <1>4, <1>7, <2>1
<1> QED BY <1>5, <1>6, <1>7

LEMMA JointAnswers ==
  ASSUME NEW f \in Function, NEW b, NEW s, NEW g \in Function, Joined(f, b, s, g), Strict(g),
         NEW m \in Machine, NEW n \in Machine, Joint(f, g, b, s, m, n)
  PROVE  Answers(f, g, m, n)
<1>1. 0 \notin Blocks /\ Reachable(Succ(g)) \subseteq Blocks /\ Reachable(Succ(f)) \subseteq Blocks
  BY EntryFirst, SuccType
<1>2. CASE m.at = 0
  BY <1>1, <1>2 DEF Answers, Joint, InBlock
<1>3. CASE m.at # 0
  <2>1. PICK x, k, y, l : x = m.at /\ k = m.k /\ y = n.at /\ l = n.k
    OBVIOUS
  <2>2. PICK e, e2, arg : e = m.env /\ e2 = n.env /\ arg = m.arg
    OBVIOUS
  <2>3. /\ x \in Reachable(Succ(f)) /\ k \in 1 .. Len(f.body[x])
        /\ y = Host(b, s, x) /\ l = Moved(s, Len(f.body[b]), x, k) /\ n.arg = arg
        /\ y \in Reachable(Succ(g)) /\ Alike(g, y, l, e, e2)
    BY <1>3, <2>1, <2>2 DEF Joint
  <2>4. e \in Env /\ e2 \in Env /\ arg \in Data
    BY <2>2, MachineType DEF Env
  <2>5. y # s
    BY <2>3, JoinedReach
  <2>6. y \in Blocks /\ l \in 1 .. Len(g.body[y]) /\ g.body[y][l] = f.body[x][k]
    BY <1>1, <2>3, <2>5, JoinedAt
  <2>7. PICK c \in Blocks : c = g.body[y][l]
    BY <2>6, BodyType
  <2>8. g.op[c].code = "call" => Eval(e2, arg, g.op[c].x) = Eval(e, arg, g.op[c].x)
    BY <2>3, <2>4, <2>6, <2>7, AlikeComputes
  <2>9. g.op = f.op
    BY DEF Joined
  <2>10. InBlock(g, n)
    BY <2>1, <2>6 DEF InBlock
  <2> QED BY <1>3, <2>1, <2>2, <2>3, <2>6, <2>7, <2>8, <2>9, <2>10 DEF Answers
<1> QED BY <1>2, <1>3

(* A block is entered from where it was entered before. *)
LEMMA JoinedArrival ==
  ASSUME NEW f \in Function, Matching(f), NEW b, NEW s, NEW g \in Function, Matching(g), Joined(f, b, s, g),
         NEW x \in Blocks, x # b, NEW y, y = Host(b, s, x), NEW u \in Blocks, u \in Succ(g)[y],
         u \in g.phis, u \in Live(g), NEW env, NEW arg
  PROVE  Brings(g, u, y, env, arg) = Brings(f, u, x, env, arg)
<1>1. b \in Blocks /\ s \in Blocks /\ s # b
  BY DEF Joined
<1>2. CASE x = s
  <2>1. y = b
    BY <1>2 DEF Host
  <2>2. Arrives(g, u, b)
    BY <1>1, <2>1 DEF Matching
  <2>3. g.inc[u][b] = f.inc[u][s]
    BY <2>2 DEF Joined
  <2> QED BY <1>2, <2>1, <2>3 DEF Brings
<1>3. CASE x # s
  <2>1. y = x
    BY <1>3 DEF Host
  <2>2. g.inc[u][x] = f.inc[u][x]
    BY <1>3 DEF Joined
  <2> QED BY <2>1, <2>2 DEF Brings
<1> QED BY <1>2, <1>3

LEMMA JointStep ==
  ASSUME NEW f \in Function, Strict(f), Matching(f), NEW b, NEW s, NEW g \in Function, Strict(g), Matching(g),
         Joined(f, b, s, g), f.term[b].code = "jmp", f.term[b].t = s,
         NEW m \in Machine, NEW n \in Machine, Joint(f, g, b, s, m, n), InBlock(f, m), InBlock(g, n),
         NEW r \in Data
  PROVE  Joint(f, g, b, s, Execute(f, m, r), Execute(g, n, r))
<1>1. /\ 0 \notin Blocks /\ Reachable(Succ(g)) \subseteq Blocks /\ Reachable(Succ(f)) \subseteq Blocks
      /\ b \in Blocks /\ s \in Blocks /\ s # b /\ g.op = f.op /\ s \notin g.phis
  BY EntryFirst, SuccType DEF Joined
<1>2. PICK x, k, y, l : x = m.at /\ k = m.k /\ y = n.at /\ l = n.k
  OBVIOUS
<1>3. PICK d, d2, arg : d = m.env /\ d2 = n.env /\ arg = m.arg
  OBVIOUS
<1>4. /\ x \in Reachable(Succ(f)) /\ k \in 1 .. Len(f.body[x])
      /\ y = Host(b, s, x) /\ l = Moved(s, Len(f.body[b]), x, k) /\ n.arg = arg
      /\ y \in Reachable(Succ(g)) /\ Alike(g, y, l, d, d2)
  BY <1>1, <1>2, <1>3 DEF Joint, InBlock
<1>5. x \in Blocks /\ y \in Blocks /\ y # s /\ arg \in Data /\ d \in Env /\ d2 \in Env
  BY <1>1, <1>3, <1>4, JoinedReach, MachineType DEF Env
<1>6. /\ l \in 1 .. Len(g.body[y]) /\ g.body[y][l] = f.body[x][k]
      /\ k < Len(f.body[x]) => l < Len(g.body[y]) /\ l + 1 = Moved(s, Len(f.body[b]), x, k + 1)
      /\ x # b /\ ~(k < Len(f.body[x])) => l = Len(g.body[y]) /\ g.term[y] = f.term[x]
      /\ x = b /\ ~(k < Len(f.body[x])) /\ f.body[s] # <<>> =>
           l < Len(g.body[y]) /\ l + 1 = Moved(s, Len(f.body[b]), s, 1)
  BY <1>4, <1>5, JoinedAt
<1>7. PICK c \in Blocks : c = f.body[x][k]
  BY <1>4, <1>5, BodyType
<1>8. PICK v, v2 : v = Computes(f, c, d, arg, r) /\ v2 = Computes(g, c, d2, arg, r)
  OBVIOUS
<1>9. PICK e, e2 : e = With(d, <<"op", c>>, v) /\ e2 = With(d2, <<"op", c>>, v2)
  OBVIOUS
<1>10. PICK u, u2 : u = Exit(f, x, e, arg) /\ u2 = Exit(g, y, e2, arg)
  OBVIOUS
<1>11. PICK m2, n2 : m2 = Execute(f, m, r) /\ n2 = Execute(g, n, r)
  OBVIOUS
<1>12. /\ m2 \in Machine /\ v \in Data \cup {Undef} /\ e \in Env /\ u \in Blocks \cup {0}
       /\ u \in Blocks => u \in Targets(f.term[x])
       /\ IF f.op[c].code = "pure" /\ v = Undef THEN m2.at = 0 /\ m2.out = Undef
          ELSE IF k < Len(f.body[x])
          THEN m2.at = x /\ m2.k = k + 1 /\ m2.env = e /\ m2.arg = arg
          ELSE IF u = 0 THEN m2.at = 0 /\ m2.out = Returned(f, x, e, arg)
          ELSE /\ m2.at = u /\ m2.k = 1 /\ m2.arg = arg
               /\ m2.env = With(e, <<"phi", u>>, Brings(f, u, x, e, arg))
  <2>1. m.at = x /\ m.k = k /\ m.arg = arg /\ c = f.body[m.at][m.k]
    BY <1>2, <1>3, <1>7
  <2>2. v = Computes(f, c, m.env, m.arg, r) /\ e = With(m.env, <<"op", c>>, v) /\ u = Exit(f, m.at, e, m.arg)
    BY <1>3, <1>8, <1>9, <1>10, <2>1
  <2>3. Moves(f, c, m.at, m.k, m.arg, v, e, u, m2)
    BY <1>11, <2>1, <2>2, Executed
  <2> QED BY <2>1, <2>3 DEF Moves
<1>13. /\ n2 \in Machine /\ v2 \in Data \cup {Undef} /\ e2 \in Env /\ u2 \in Blocks \cup {0}
       /\ u2 \in Blocks => u2 \in Targets(g.term[y])
       /\ IF g.op[c].code = "pure" /\ v2 = Undef THEN n2.at = 0 /\ n2.out = Undef
          ELSE IF l < Len(g.body[y])
          THEN n2.at = y /\ n2.k = l + 1 /\ n2.env = e2 /\ n2.arg = arg
          ELSE IF u2 = 0 THEN n2.at = 0 /\ n2.out = Returned(g, y, e2, arg)
          ELSE /\ n2.at = u2 /\ n2.k = 1 /\ n2.arg = arg
               /\ n2.env = With(e2, <<"phi", u2>>, Brings(g, u2, y, e2, arg))
  <2>1. n.at = y /\ n.k = l /\ n.arg = arg /\ c = g.body[n.at][n.k]
    BY <1>2, <1>4, <1>6, <1>7
  <2>2. v2 = Computes(g, c, n.env, n.arg, r) /\ e2 = With(n.env, <<"op", c>>, v2) /\ u2 = Exit(g, n.at, e2, n.arg)
    BY <1>3, <1>8, <1>9, <1>10, <2>1
  <2> HIDE <1>12
  <2>3. Moves(g, c, n.at, n.k, n.arg, v2, e2, u2, n2)
    BY <1>11, <2>1, <2>2, Executed
  <2> QED BY <2>1, <2>3 DEF Moves
<1>14. v2 = v
  <2>1. c = g.body[y][l]
    BY <1>6, <1>7
  <2>2. \A q \in Data : Computes(g, c, d2, arg, q) = Computes(g, c, d, arg, q)
    BY <1>4, <1>5, <1>6, <2>1, AlikeComputes
  <2>3. Computes(g, c, d, arg, r) = Computes(f, c, d, arg, r)
    BY <1>1 DEF Computes
  <2> QED BY <1>8, <2>2, <2>3
<1>15. CASE f.op[c].code = "pure" /\ v = Undef
  BY <1>11, <1>12, <1>15 DEF Joint
<1>16. CASE ~(f.op[c].code = "pure" /\ v = Undef)
  <2>1. ~(g.op[c].code = "pure" /\ v2 = Undef)
    BY <1>1, <1>14, <1>16
  <2>2. Alike(g, y, l + 1, e, e2)
    <3>1. c = g.body[y][l]
      BY <1>6, <1>7
    <3> QED BY <1>4, <1>5, <1>6, <1>9, <1>12, <1>13, <1>14, <3>1, AlikeOp DEF Strict
  <2>3. CASE k < Len(f.body[x])
    <3>1. /\ m2.at = x /\ m2.k = k + 1 /\ m2.env = e /\ m2.arg = arg
          /\ n2.at = y /\ n2.k = l + 1 /\ n2.env = e2 /\ n2.arg = arg
      BY <1>6, <1>12, <1>13, <1>16, <2>1, <2>3
    <3>2. k + 1 \in 1 .. Len(f.body[x])
      BY <1>4, <1>5, <2>3, BodyType
    <3>3. l + 1 = Moved(s, Len(f.body[b]), x, k + 1)
      BY <1>6, <2>3
    <3> QED BY <1>4, <1>11, <2>2, <3>1, <3>2, <3>3 DEF Joint
  <2>4. CASE ~(k < Len(f.body[x])) /\ x = b
    <3>1. u = s
      BY <1>10, <2>4 DEF Exit
    <3>2. s \in Reachable(Succ(f)) /\ y = b
      BY <1>4, <2>4, JoinedReach DEF Host
    <3>3. f.body[s] # <<>> /\ f.body[s] \in Seq(Blocks)
      BY <1>1, <3>2, FunctionType DEF Strict, Live
    <3>4. 1 \in 1 .. Len(f.body[s])
      <4>1. Len(f.body[s]) \in Nat /\ Len(f.body[s]) # 0
        BY <3>3
      <4> QED BY <4>1
    <3>5. PICK w : w = Brings(f, s, b, e, arg)
      OBVIOUS
    <3>6. m2.at = s /\ m2.k = 1 /\ m2.arg = arg /\ m2.env = With(e, <<"phi", s>>, w)
      BY <1>1, <1>12, <1>16, <2>4, <3>1, <3>5
    <3>7. n2.at = y /\ n2.k = l + 1 /\ n2.env = e2 /\ n2.arg = arg
      BY <1>6, <1>13, <2>1, <2>4, <3>3
    <3>8. l + 1 = Moved(s, Len(f.body[b]), s, 1) /\ y = Host(b, s, s)
      BY <1>6, <2>4, <3>2, <3>3 DEF Host
    <3>9. ASSUME NEW i \in Instrs, Available(g, i, y, l + 1) PROVE e2[i] = With(e, <<"phi", s>>, w)[i]
      <4>1. i # <<"phi", s>>
        BY <1>1, <3>9, PhiAvailable
      <4>2. e2[i] = e[i]
        BY <2>2, <3>9 DEF Alike
      <4> QED BY <1>12, <4>1, <4>2 DEF With, Env
    <3>10. Alike(g, y, l + 1, With(e, <<"phi", s>>, w), e2)
      BY <3>9 DEF Alike
    <3> QED BY <1>4, <1>11, <3>2, <3>4, <3>6, <3>7, <3>8, <3>10 DEF Joint
  <2>5. CASE ~(k < Len(f.body[x])) /\ x # b
    <3>1. l = Len(g.body[y]) /\ g.term[y] = f.term[x] /\ l + 1 = EndOf(g, y)
      BY <1>6, <2>5 DEF EndOf
    <3>2. ~(l < Len(g.body[y]))
      BY <1>6, <3>1
    <3>3. Alike(g, y, EndOf(g, y), e, e2)
      BY <2>2, <3>1
    <3>4. /\ u2 = Exit(g, y, e, arg) /\ Returned(g, y, e2, arg) = Returned(g, y, e, arg)
          /\ \A z \in Reachable(Succ(g)) : Brings(g, z, y, e2, arg) = Brings(g, z, y, e, arg)
      BY <1>4, <1>10, <3>3, AlikeLeaves
    <3>5. u2 = u /\ Returned(g, y, e2, arg) = Returned(f, x, e, arg)
      BY <1>10, <3>1, <3>4 DEF Exit, Returned
    <3>6. CASE u = 0
      <4>1. m2.at = 0 /\ n2.at = 0 /\ m2.out = n2.out
        BY <1>12, <1>13, <1>16, <2>1, <2>5, <3>2, <3>5, <3>6
      <4> QED BY <1>11, <4>1 DEF Joint
    <3>7. CASE u \in Blocks
      <4>1. u \in Succ(g)[y] /\ u \in Reachable(Succ(g)) /\ u \in Live(g)
        BY <1>4, <1>13, <3>5, <3>7, ReachedNext DEF Strict
      <4>2. u # s /\ u \in Reachable(Succ(f)) /\ u \in Live(f)
        BY <4>1, JoinedReach DEF Strict
      <4>3. PICK w, w2 : w = Brings(f, u, x, e, arg) /\ w2 = Brings(g, u, y, e2, arg)
        OBVIOUS
      <4>4. w \in Data \cup {Undef} /\ w2 \in Data \cup {Undef}
        BY <1>5, <1>12, <1>13, <3>7, <4>3, BringsType
      <4>5. u \in g.phis => w2 = w
        <5>1. u \in g.phis => Brings(g, u, y, e, arg) = Brings(f, u, x, e, arg)
          BY <1>4, <1>5, <2>5, <3>7, <4>1, JoinedArrival
        <5> QED BY <3>4, <4>1, <4>3, <5>1
      <4>6. Alike(g, u, 1, With(e, <<"phi", u>>, w), With(e2, <<"phi", u>>, w2))
        BY <1>5, <1>12, <1>13, <3>3, <3>7, <4>1, <4>4, <4>5, AlikeEnter
      <4>7. 1 \in 1 .. Len(f.body[u])
        <5>1. f.body[u] # <<>> /\ f.body[u] \in Seq(Blocks)
          BY <3>7, <4>2, FunctionType DEF Live
        <5>2. Len(f.body[u]) \in Nat /\ Len(f.body[u]) # 0
          BY <5>1
        <5> QED BY <5>2
      <4>8. u # 0
        BY <1>1, <3>7
      <4>9. m2.at = u /\ m2.k = 1 /\ m2.arg = arg /\ m2.env = With(e, <<"phi", u>>, w)
        BY <1>12, <1>16, <2>5, <4>3, <4>8
      <4>10. n2.at = u /\ n2.k = 1 /\ n2.arg = arg /\ n2.env = With(e2, <<"phi", u>>, w2)
        BY <1>13, <2>1, <3>2, <3>5, <4>3, <4>8
      <4>11. u = Host(b, s, u) /\ 1 = Moved(s, Len(f.body[b]), u, 1)
        BY <4>2 DEF Host, Moved
      <4> QED BY <1>11, <4>1, <4>2, <4>6, <4>7, <4>9, <4>10, <4>11 DEF Joint
    <3> QED BY <1>12, <3>6, <3>7
  <2> QED BY <2>3, <2>4, <2>5
<1> QED BY <1>15, <1>16

LEMMA MergeBlocksFollows ==
  ASSUME NEW f \in Function, Strict(f), Matching(f), NEW b \in Blocks, CanMerge(f, b)
  PROVE  Follows(f, MergeBlocks(f, b))
<1>1. PICK s, g : s = f.term[b].t /\ g = MergeBlocks(f, b)
  OBVIOUS
<1>2. /\ Joined(f, b, s, g) /\ g \in Function /\ Strict(g) /\ Matching(g)
      /\ f.term[b].code = "jmp" /\ f.term[b].t = s
  BY <1>1, MergedParts, MergeBlocksType, MergeBlocksStrict, MergeBlocksMatching DEF CanMerge
<1> DEFINE R == {p \in Machine \X Machine : Joint(f, g, b, s, p[1], p[2])}
<1>3. ASSUME NEW m \in Machine, NEW n \in Machine
      PROVE  <<m, n>> \in R <=> Joint(f, g, b, s, m, n)
  OBVIOUS
<1>4. ASSUME NEW d \in Data PROVE <<Boot(d), Boot(d)>> \in R
  <2>1. PICK m \in Machine : m = Boot(d)
    BY BootType
  <2>2. m.at = Entry /\ m.k = 1 /\ m.arg = d
    BY <2>1 DEF Boot
  <2>3. Entry \in Reachable(Succ(g)) /\ Entry \in Reachable(Succ(f)) /\ Entry \in Blocks /\ Entry # s
    <3>1. {Entry} \in SUBSET Blocks
      BY EntryFirst
    <3>2. {Entry} \ {} \subseteq ReachAvoiding(Succ(g), {Entry}, {})
      BY <1>2, <3>1, SuccType, ReachClosed
    <3> QED BY <1>2, <3>1, <3>2, JoinedReach DEF Reachable
  <2>4. 1 \in 1 .. Len(f.body[Entry])
    <3>1. f.body[Entry] # <<>> /\ f.body[Entry] \in Seq(Blocks)
      BY <2>3, FunctionType DEF Strict, Live
    <3>2. Len(f.body[Entry]) \in Nat /\ Len(f.body[Entry]) # 0
      BY <3>1
    <3> QED BY <3>2
  <2>5. Alike(g, Entry, 1, m.env, m.env)
    BY DEF Alike
  <2>6. Entry = Host(b, s, Entry) /\ 1 = Moved(s, Len(f.body[b]), Entry, 1)
    BY <2>3 DEF Host, Moved
  <2>7. Joint(f, g, b, s, m, m)
    BY <2>2, <2>3, <2>4, <2>5, <2>6 DEF Joint
  <2> QED BY <1>3, <2>1, <2>7
<1>5. ASSUME NEW p \in R
      PROVE  /\ Answers(f, g, p[1], p[2])
             /\ \A r \in Data : InBlock(f, p[1]) /\ InBlock(g, p[2]) =>
                  <<Execute(f, p[1], r), Execute(g, p[2], r)>> \in R
  <2>1. p[1] \in Machine /\ p[2] \in Machine /\ Joint(f, g, b, s, p[1], p[2])
    OBVIOUS
  <2>2. Answers(f, g, p[1], p[2])
    BY <1>2, <2>1, JointAnswers
  <2>3. ASSUME NEW r \in Data, InBlock(f, p[1]), InBlock(g, p[2])
        PROVE  <<Execute(f, p[1], r), Execute(g, p[2], r)>> \in R
    <3>1. Execute(f, p[1], r) \in Machine /\ Execute(g, p[2], r) \in Machine
      BY <1>2, <2>1, <2>3, ExecuteType
    <3>2. Joint(f, g, b, s, Execute(f, p[1], r), Execute(g, p[2], r))
      BY <1>2, <2>1, <2>3, JointStep
    <3> HIDE DEF R
    <3> QED BY <1>3, <3>1, <3>2
  <2> HIDE DEF R
  <2> QED BY <2>2, <2>3
<1>6. R \in SUBSET (Machine \X Machine)
  OBVIOUS
<1> HIDE DEF R
<1>7. Follows(f, g)
  BY <1>4, <1>5, <1>6 DEF Follows, Lockstep
<1> QED BY <1>1, <1>7

(* The value of an operation, wherever it is available. *)
LEMMA PureValue ==
  ASSUME NEW f \in Function, Strict(f), Matching(f), NEW b \in Reachable(Succ(f)), NEW k \in Nat,
         NEW env \in Env, NEW arg \in Data, Coherent(f, b, k, env, arg),
         NEW c \in Blocks, Available(f, <<"op", c>>, b, k),
         NEW o \in Op, o = f.op[c], o.code = "pure"
  PROVE  /\ Available(f, o.x, b, k) /\ Eval(env, arg, o.x) \in Data
         /\ Available(f, o.y, b, k) /\ Eval(env, arg, o.y) \in Data
         /\ env[<<"op", c>>] = Apply[o.fun][<<Eval(env, arg, o.x), Eval(env, arg, o.y)>>]
<1>1. PICK i \in Instrs : i = <<"op", c>>
  BY OpInstr
<1>2. i[1] = "op" /\ i[2] = c
  BY <1>1
<1>3. Basis(f, i) = {o.x, o.y}
  BY <1>2 DEF Basis, OpReads
<1>4. ASSUME NEW v \in {o.x, o.y} PROVE Available(f, v, b, k) /\ Eval(env, arg, v) \in Data
  <2>1. Available(f, v, b, k)
    BY <1>1, <1>3, BasisAvailable
  <2> QED BY <2>1, EvalAvailable
<1>5. Fits(f, i, env, arg)
  BY <1>1 DEF Coherent
<1>6. env[i] = Apply[o.fun][<<Eval(env, arg, o.x), Eval(env, arg, o.y)>>]
  BY <1>2, <1>5 DEF Fits
<1> QED BY <1>1, <1>4, <1>6

LEMMA ConstEval ==
  ASSUME NEW env, NEW arg, NEW d \in Data
  PROVE  Eval(env, arg, Const(d)) = d
<1>1. PICK v : v = Const(d)
  OBVIOUS
<1>2. v[1] = "const" /\ v[2] = d /\ v \notin Instrs
  BY <1>1 DEF Const, Instrs
<1> QED BY <1>1, <1>2 DEF Eval

LEMMA CopyValue ==
  ASSUME NEW f \in Function, NEW b, NEW k,
         NEW env \in Env, NEW arg \in Data, Coherent(f, b, k, env, arg),
         NEW c \in Blocks, Available(f, <<"op", c>>, b, k), f.op[c].code = "copy"
  PROVE  Eval(env, arg, f.op[c].x) = env[<<"op", c>>]
<1>1. PICK i \in Instrs : i = <<"op", c>>
  BY OpInstr
<1>2. i[1] = "op" /\ i[2] = c
  BY <1>1
<1>3. Fits(f, i, env, arg)
  BY <1>1 DEF Coherent
<1> QED BY <1>1, <1>2, <1>3 DEF Fits

(* An identity gives the value of the operation. *)
LEMMA IdentityValue ==
  ASSUME NEW env \in Env, NEW arg \in Data, NEW o,
         Eval(env, arg, o.x) \in Data, Eval(env, arg, o.y) \in Data,
         NEW ids \in SUBSET (NumberingIdentities \cup CombineIdentities), NEW w \in ByIdentity(ids, o)
  PROVE  Eval(env, arg, w) = Apply[o.fun][<<Eval(env, arg, o.x), Eval(env, arg, o.y)>>]
<1>1. PICK i \in ids, v \in {o.x, o.y} :
        i.fun = o.fun /\ o.x = Instance(i.x, v) /\ o.y = Instance(i.y, v) /\ w = Instance(i.is, v)
  BY DEF ByIdentity
<1>2. PICK d \in Data : d = Eval(env, arg, v)
  OBVIOUS
<1>3. i \in Identity
  BY SimplificationAssumption
<1>4. i.x \in Pattern /\ i.y \in Pattern /\ i.is \in Pattern
  BY <1>3 DEF Identity
<1>5. ASSUME NEW p \in Pattern PROVE Eval(env, arg, Instance(p, v)) = Instance(p, Const(d))[2]
  <2>1. CASE p = Any
    BY <1>2, <2>1 DEF Instance, Const
  <2>2. CASE p # Any
    <3>1. PICK e \in Data : p = Const(e)
      BY <2>2 DEF Pattern
    <3>2. Instance(p, v) = Const(e) /\ Instance(p, Const(d)) = Const(e)
      BY <2>2, <3>1 DEF Instance
    <3>3. Const(e)[2] = e
      BY DEF Const
    <3> QED BY <3>2, <3>3, ConstEval
  <2> QED BY <2>1, <2>2
<1>6. Apply[i.fun][<<Instance(i.x, Const(d))[2], Instance(i.y, Const(d))[2]>>] = Instance(i.is, Const(d))[2]
  BY SimplificationAssumption
<1>7. /\ Eval(env, arg, o.x) = Instance(i.x, Const(d))[2]
      /\ Eval(env, arg, o.y) = Instance(i.y, Const(d))[2]
      /\ Eval(env, arg, w) = Instance(i.is, Const(d))[2]
  BY <1>1, <1>4, <1>5
<1> QED BY <1>1, <1>6, <1>7

(* Joining the constants does not change the value. *)
LEMMA ReassociatedValue ==
  ASSUME NEW f \in Function, Strict(f), Matching(f), NEW b \in Reachable(Succ(f)), NEW k \in Nat,
         NEW env \in Env, NEW arg \in Data, Coherent(f, b, k, env, arg),
         NEW o \in Op, \A v \in {o.x, o.y} : Available(f, v, b, k),
         NEW q \in Reassociated(f, o)
  PROVE  /\ q.code = "pure" /\ o.code = "pure" /\ q.fun = o.fun /\ q.fun \in Associating
         /\ Eval(env, arg, q.x) \in Data /\ Eval(env, arg, q.y) \in Data
         /\ Eval(env, arg, o.x) \in Data /\ Eval(env, arg, o.y) \in Data
         /\ Apply[q.fun][<<Eval(env, arg, q.x), Eval(env, arg, q.y)>>]
              = Apply[q.fun][<<Eval(env, arg, o.x), Eval(env, arg, o.y)>>]
<1>1. PICK u \in Blocks \X Data \X Data :
        /\ o.code = "pure" /\ o.fun \in Associating
        /\ o.x = <<"op", u[1]>> /\ o.y = Const(u[3])
        /\ f.op[u[1]].code = "pure" /\ f.op[u[1]].fun = o.fun /\ f.op[u[1]].y = Const(u[2])
        /\ q = [o EXCEPT !.x = f.op[u[1]].x, !.y = Const(Apply[o.fun][<<u[2], u[3]>>])]
  BY DEF Reassociated
<1>2. PICK t \in Blocks, d \in Data, e \in Data : u[1] = t /\ u[2] = d /\ u[3] = e
  OBVIOUS
<1>3. PICK fun \in Associating : fun = o.fun
  BY <1>1
<1>4. /\ q.code = "pure" /\ q.fun = fun /\ q.x = f.op[t].x /\ q.y = Const(Apply[fun][<<d, e>>])
      /\ o.x = <<"op", t>> /\ o.y = Const(e)
      /\ f.op[t].code = "pure" /\ f.op[t].fun = fun /\ f.op[t].y = Const(d)
  BY <1>1, <1>2, <1>3 DEF Op
<1>5. Available(f, <<"op", t>>, b, k)
  BY <1>4
<1>6. PICK X \in Data : X = Eval(env, arg, f.op[t].x) /\ env[<<"op", t>>] = Apply[fun][<<X, d>>]
  <2>0. PICK p \in Op : p = f.op[t]
    BY FunctionType
  <2>1. /\ Eval(env, arg, f.op[t].x) \in Data
        /\ env[<<"op", t>>] = Apply[fun][<<Eval(env, arg, f.op[t].x), Eval(env, arg, f.op[t].y)>>]
    BY <1>4, <1>5, <2>0, PureValue
  <2>2. Eval(env, arg, f.op[t].y) = d
    BY <1>4, ConstEval
  <2> QED BY <2>1, <2>2
<1>7. /\ Apply[fun][<<X, d>>] \in Data /\ Apply[fun][<<d, e>>] \in Data
      /\ Apply[fun][<<Apply[fun][<<X, d>>], e>>] = Apply[fun][<<X, Apply[fun][<<d, e>>]>>]
  <2>1. /\ Apply[fun][<<X, d>>] \in Data /\ Apply[fun][<<X, Zero>>] = X
        /\ \A i \in Data : Apply[fun][<<Apply[fun][<<X, d>>], i>>] = Apply[fun][<<X, Apply[fun][<<d, i>>]>>]
    BY SimplificationAssumption
  <2>2. Apply[fun][<<d, e>>] \in Data
    BY SimplificationAssumption
  <2> QED BY <2>1, <2>2
<1>8. Eval(env, arg, o.x) = Apply[fun][<<X, d>>]
  <2>1. <<"op", t>> \in Instrs
    BY OpInstr
  <2>2. Eval(env, arg, <<"op", t>>) = env[<<"op", t>>]
    BY <2>1 DEF Eval
  <2> QED BY <1>4, <1>6, <2>2
<1>9. Eval(env, arg, o.y) = e /\ Eval(env, arg, q.y) = Apply[fun][<<d, e>>] /\ Eval(env, arg, q.x) = X
  BY <1>4, <1>6, <1>7, ConstEval
<1> QED BY <1>1, <1>3, <1>4, <1>7, <1>8, <1>9

(* An instruction is replaced with a value that is available in its place and
   equal to it. *)
LEMMA ReplacedFollows ==
  ASSUME NEW f \in Function, Strict(f), Matching(f), NEW s \in Blocks, NEW j \in 1 .. Len(f.body[s]),
         NEW c \in Blocks, c = f.body[s][j], f.op[c].code # "call",
         NEW v \in Values, s \in Reachable(Succ(f)) => Available(f, v, s, j),
         \A b \in Reachable(Succ(f)) : \A k \in Nat : \A env \in Env, arg \in Data :
           Coherent(f, b, k, env, arg) /\ Available(f, <<"op", c>>, b, k) =>
             Eval(env, arg, v) = env[<<"op", c>>]
  PROVE  Follows(f, ReplaceOne(f, c, v))
<1>1. Strict(ReplaceOne(f, c, v))
  BY ReplaceAtPlace
<1>2. ASSUME NEW b \in Reachable(Succ(f)), NEW k \in 1 .. EndOf(f, b), NEW env \in Env, NEW arg \in Data,
             Coherent(f, b, k, env, arg), Available(f, <<"op", c>>, b, k)
      PROVE  v # <<"op", c>> /\ Eval(env, arg, v) = env[<<"op", c>>]
  <2>1. b \in Blocks /\ k \in Nat /\ j \in Nat /\ Laid(f)
    BY SuccType, BodyType DEF Strict
  <2>2. Dominates(Succ(f), s, b)
    BY <1>2, <2>1, OpAvailable
  <2>3. s \in Reachable(Succ(f))
    BY <2>2, SuccType, DominatorReached
  <2>4. ~Available(f, <<"op", c>>, s, j)
    BY <2>1, OpAvailable
  <2> QED BY <1>2, <2>1, <2>3, <2>4
<1> QED BY <1>1, <1>2, ReplaceOneFollows

LEMMA CombineFollows ==
  ASSUME NEW f \in Function, Strict(f), Matching(f), NEW s \in Blocks, NEW j \in 1 .. Len(f.body[s]),
         NEW g \in Combine(f, f.body[s][j])
  PROVE  Follows(f, g)
<1>1. PICK c \in Blocks : c = f.body[s][j]
  BY BodyType
<1>2. PICK o \in Op : o = f.op[c]
  BY FunctionType
<1>3. PICK same, joined : same = ByIdentity(CombineIdentities, o) /\ joined = Reassociated(f, o)
  OBVIOUS
<1>4. g \in IF same # {} THEN {ReplaceOne(f, c, v) : v \in same}
            ELSE IF joined = {} THEN {f}
            ELSE {IF q.y # Const(Zero) THEN [f EXCEPT !.op[c] = q]
                  ELSE IF q.x = Null THEN f ELSE ReplaceOne(f, c, q.x) : q \in joined}
  BY <1>1, <1>2, <1>3 DEF Combine
<1>5. CASE \E v \in same : g = ReplaceOne(f, c, v)
  <2>1. PICK v \in same : g = ReplaceOne(f, c, v)
    BY <1>5
  <2>2. CombineIdentities \in SUBSET Identity
    BY SimplificationAssumption
  <2>3. ASSUME s \in Reachable(Succ(f)) PROVE Available(f, v, s, j)
    <3>1. o.code = "pure" => \A w \in {o.x, o.y} : Available(f, w, s, j)
      BY <1>1, <1>2, <2>3, ReadAvailable DEF OpReads
    <3> QED BY <1>3, <2>2, <3>1, IdentityAvailable
  <2>4. v \in Values /\ o.code = "pure"
    BY <1>3 DEF ByIdentity
  <2>5. ASSUME NEW b \in Reachable(Succ(f)), NEW k \in Nat, NEW env \in Env, NEW arg \in Data,
               Coherent(f, b, k, env, arg), Available(f, <<"op", c>>, b, k)
        PROVE  Eval(env, arg, v) = env[<<"op", c>>]
    <3>1. /\ Eval(env, arg, o.x) \in Data /\ Eval(env, arg, o.y) \in Data
          /\ env[<<"op", c>>] = Apply[o.fun][<<Eval(env, arg, o.x), Eval(env, arg, o.y)>>]
      BY <1>2, <2>4, <2>5, PureValue
    <3>2. CombineIdentities \in SUBSET (NumberingIdentities \cup CombineIdentities)
      OBVIOUS
    <3>3. Eval(env, arg, v) = Apply[o.fun][<<Eval(env, arg, o.x), Eval(env, arg, o.y)>>]
      BY <1>3, <3>1, <3>2, IdentityValue
    <3> QED BY <3>1, <3>3
  <2> QED BY <1>1, <1>2, <2>1, <2>3, <2>4, <2>5, ReplacedFollows
<1>6. CASE g = f
  BY <1>6, FollowsItself
<1>7. CASE \E q \in joined : g = [f EXCEPT !.op[c] = q]
  <2>1. PICK q \in joined : g = [f EXCEPT !.op[c] = q]
    BY <1>7
  <2>2. q \in Op
    BY <1>1, <1>2, <1>3, ReassociatedAvailable
  <2>3. Strict(g)
    BY <1>1, CombineStrict
  <2>4. g \in Function
    <3>1. [f.op EXCEPT ![c] = q] \in [Blocks -> Op]
      BY <2>2, FunctionType
    <3>2. g = [f EXCEPT !.op = [f.op EXCEPT ![c] = q]]
      BY <2>1
    <3> QED BY <3>1, <3>2, WithOp
  <2>5. /\ g.body = f.body /\ g.phis = f.phis /\ g.inc = f.inc /\ g.term = f.term
        /\ g.op = [f.op EXCEPT ![c] = q]
    BY <2>1 DEF Function
  <2>6. g.op[c] = q /\ \A x \in Blocks : x # c => g.op[x] = f.op[x]
    BY <2>5, FunctionType
  <2>7. ASSUME NEW b, NEW k, NEW env, NEW arg, <<b, k, env, arg>> \in CoherentPoints(f), b \in Reachable(Succ(g))
        PROVE  /\ k \in 1 .. Len(f.body[b]) => SameOp(f, g, f.body[b][k], env, arg)
               /\ k = EndOf(f, b) => SameExit(f, g, b, env, arg)
    <3>1. /\ b \in Reachable(Succ(f)) /\ b \in Blocks /\ k \in Nat /\ env \in Env /\ arg \in Data
          /\ Coherent(f, b, k, env, arg)
      BY <2>7 DEF CoherentPoints, Points
    <3>2. SameExit(f, g, b, env, arg)
      BY <2>5 DEF SameExit, Exit, Returned, Brings
    <3>3. ASSUME k \in 1 .. Len(f.body[b]) PROVE SameOp(f, g, f.body[b][k], env, arg)
      <4>1. PICK x \in Blocks : x = f.body[b][k]
        BY <3>1, <3>3, BodyType
      <4>2. CASE x # c
        BY <2>6, <4>1, <4>2, SameOpItself
      <4>3. CASE x = c
        <5>0. o.code = "pure"
          BY <1>3 DEF Reassociated
        <5>1. \A v \in {o.x, o.y} : Available(f, v, b, k)
          BY <1>2, <3>1, <3>3, <4>1, <4>3, <5>0, ReadAvailable DEF OpReads
        <5>2. PICK X, Y, Z, V : X = Eval(env, arg, q.x) /\ Y = Eval(env, arg, q.y)
                              /\ Z = Eval(env, arg, o.x) /\ V = Eval(env, arg, o.y)
          OBVIOUS
        <5>3. /\ q.code = "pure" /\ q.fun = o.fun
              /\ X \in Data /\ Y \in Data /\ Z \in Data /\ V \in Data
              /\ Apply[q.fun][<<X, Y>>] = Apply[q.fun][<<Z, V>>]
          BY <1>3, <3>1, <5>1, <5>2, ReassociatedValue
        <5>4. X # Undef /\ Y # Undef /\ Z # Undef /\ V # Undef
          BY <5>3, SCCPAssumption
        <5>5. \A r : Outcome(q, X, Y, r) = Outcome(o, Z, V, r)
          BY <5>0, <5>3, <5>4 DEF Outcome
        <5>6. \A r \in Data : Computes(g, c, env, arg, r) = Computes(f, c, env, arg, r)
          BY <1>2, <2>6, <5>2, <5>5 DEF Computes
        <5>7. g.op[c].code = f.op[c].code /\ f.op[c].code # "call"
          BY <1>2, <2>6, <5>0, <5>3
        <5> QED BY <4>1, <4>3, <5>6, <5>7 DEF SameOp
      <4> QED BY <4>2, <4>3
    <3> QED BY <3>2, <3>3
  <2>8. \A b \in Reachable(Succ(g)) : g.body[b] = f.body[b]
    BY <2>5
  <2>9. Preserves(f, g, CoherentPoints(f))
    BY <2>7, <2>8 DEF Preserves
  <2> QED BY <2>3, <2>4, <2>9, CoherentRuns, PreservedFollows
<1>8. CASE \E q \in joined : q.y = Const(Zero) /\ g = ReplaceOne(f, c, q.x)
  <2>1. PICK q \in joined : q.y = Const(Zero) /\ g = ReplaceOne(f, c, q.x)
    BY <1>8
  <2>2. /\ q.code = "pure" /\ q.x \in Values
        /\ s \in Reachable(Succ(f)) => \A v \in OpReads(q) : Available(f, v, s, j)
    BY <1>1, <1>2, <1>3, ReassociatedAvailable
  <2>3. s \in Reachable(Succ(f)) => Available(f, q.x, s, j)
    BY <2>2 DEF OpReads
  <2>4. o.code = "pure"
    BY <1>3 DEF Reassociated
  <2>5. ASSUME NEW b \in Reachable(Succ(f)), NEW k \in Nat, NEW env \in Env, NEW arg \in Data,
               Coherent(f, b, k, env, arg), Available(f, <<"op", c>>, b, k)
        PROVE  Eval(env, arg, q.x) = env[<<"op", c>>]
    <3>1. /\ \A v \in {o.x, o.y} : Available(f, v, b, k)
          /\ env[<<"op", c>>] = Apply[o.fun][<<Eval(env, arg, o.x), Eval(env, arg, o.y)>>]
      BY <1>2, <2>4, <2>5, PureValue
    <3>2. PICK X, Y, Z, V : X = Eval(env, arg, q.x) /\ Y = Eval(env, arg, q.y)
                          /\ Z = Eval(env, arg, o.x) /\ V = Eval(env, arg, o.y)
      OBVIOUS
    <3>3. /\ q.fun = o.fun /\ q.fun \in Associating /\ X \in Data
          /\ Apply[q.fun][<<X, Y>>] = Apply[q.fun][<<Z, V>>]
      BY <1>3, <2>5, <3>1, <3>2, ReassociatedValue
    <3>4. Y = Zero /\ Zero \in Data
      BY <2>1, <3>2, ConstEval, SCCPAssumption
    <3>5. Apply[q.fun][<<X, Zero>>] = X
      BY <3>3, <3>4, SimplificationAssumption
    <3> QED BY <3>1, <3>2, <3>3, <3>4, <3>5
  <2> QED BY <1>1, <1>2, <2>1, <2>2, <2>3, <2>4, <2>5, ReplacedFollows
<1> QED BY <1>4, <1>5, <1>6, <1>7, <1>8

-----------------------------------------------------------------------------
(* GVN.  What a key was made of is still what its instruction reads, or has been
   erased since: then no instruction that can be executed reads it. *)
Outlives(f, v, w) == w = v \/ \E c \in Blocks : v = <<"op", c>> /\ f.op[c].code = "none"

KeyedIn(f, T) ==
  \A t \in T : /\ f.op[t[1]].code = "pure" /\ t[2].code = "pure" /\ f.op[t[1]].fun = t[2].fun
               /\ Outlives(f, t[2].x, f.op[t[1]].x) /\ Outlives(f, t[2].y, f.op[t[1]].y)

Keyed == KeyedIn(fn, table)

LEMMA AvailableOutlives ==
  ASSUME NEW f \in Function, NEW v, NEW w, Outlives(f, v, w), NEW b, NEW k, Available(f, v, b, k)
  PROVE  w = v
<1> SUFFICES ASSUME NEW c \in Blocks, v = <<"op", c>>, f.op[c].code = "none" PROVE FALSE
  BY DEF Outlives
<1> QED BY OpPlace

LEMMA CommutingOp ==
  ASSUME NEW g \in Commuting, NEW d \in Data, NEW e \in Data
  PROVE  Apply[g][<<d, e>>] = Apply[g][<<e, d>>]
BY SimplificationAssumption

LEMMA KeyedReplaceOne ==
  ASSUME NEW f \in Function, NEW c \in Blocks, NEW v \in Values, NEW T \in SUBSET (Blocks \X Op),
         \A t \in T : t[1] # c, KeyedIn(f, T), NEW g, g = ReplaceOne(f, c, v)
  PROVE  KeyedIn(g, T)
<1> DEFINE S == {<<"op", c>>}
           s == [i \in S |-> IF v = i THEN Null ELSE v]
<1>1. PICK h : h = Replace(f, s)
  OBVIOUS
<1>2. S \in SUBSET Instrs /\ s \in [S -> Values] /\ DOMAIN s = S
  BY OpInstr DEF Values
<1>3. g = EraseOps(h, {c})
  BY <1>1 DEF ReplaceOne
<1>4. \A w : w \notin S => Image(s, w) = w
  BY DEF Image
<1>5. \A w : w \in S => w = <<"op", c>>
  OBVIOUS
<1> HIDE DEF S, s
<1>6. h \in Function
  BY <1>1, <1>2, ReplaceType
<1>7. \A d \in Blocks : /\ h.op[d].code = f.op[d].code /\ h.op[d].fun = f.op[d].fun
                        /\ h.op[d].x = Image(s, f.op[d].x) /\ h.op[d].y = Image(s, f.op[d].y)
  BY <1>1, <1>2, ReplaceParts
<1>8. g.op[c].code = "none" /\ \A d \in Blocks : d # c => g.op[d] = h.op[d]
  BY <1>3, <1>6, EraseOpsWanted
<1>9. ASSUME NEW w, NEW u, Outlives(f, w, u) PROVE Outlives(g, w, Image(s, u))
  <2>1. CASE \E d \in Blocks : w = <<"op", d>> /\ f.op[d].code = "none"
    BY <1>7, <1>8, <2>1 DEF Outlives
  <2>2. CASE u = w /\ u \in S
    BY <1>5, <1>8, <2>2 DEF Outlives
  <2>3. CASE u = w /\ u \notin S
    BY <1>4, <2>3 DEF Outlives
  <2> QED BY <1>9, <2>1, <2>2, <2>3 DEF Outlives
<1>10. ASSUME NEW t \in T
       PROVE  /\ g.op[t[1]].code = "pure" /\ t[2].code = "pure" /\ g.op[t[1]].fun = t[2].fun
              /\ Outlives(g, t[2].x, g.op[t[1]].x) /\ Outlives(g, t[2].y, g.op[t[1]].y)
  <2>1. PICK d \in Blocks : d = t[1] /\ d # c
    OBVIOUS
  <2>2. /\ f.op[d].code = "pure" /\ t[2].code = "pure" /\ f.op[d].fun = t[2].fun
        /\ Outlives(f, t[2].x, f.op[d].x) /\ Outlives(f, t[2].y, f.op[d].y)
    BY <2>1 DEF KeyedIn
  <2>3. g.op[d].x = Image(s, f.op[d].x) /\ g.op[d].y = Image(s, f.op[d].y)
        /\ g.op[d].code = f.op[d].code /\ g.op[d].fun = f.op[d].fun
    BY <1>7, <1>8, <2>1
  <2> QED BY <1>9, <2>1, <2>2, <2>3
<1> QED BY <1>10 DEF KeyedIn

LEMMA KeyedStep ==
  ASSUME TypeOK, Standing, Tabled, Strict(fn), Keyed, [Next]_vars
  PROVE  Keyed'
<1>0. fn \in Function /\ table \in SUBSET (Blocks \X Op)
  BY DEF TypeOK
<1>1. CASE NumberNext
  <2>1. /\ cur \in Blocks /\ next \in 1 .. Len(fn.body[cur]) /\ next \in Nat
    BY <1>1 DEF NumberNext, TypeOK, Standing
  <2>2. PICK c \in Blocks : c = fn.body[cur][next]
    BY <1>0, <2>1, BodyType
  <2> DEFINE same == Redundant(fn, table, cur, c)
  <2>3. \/ fn' \in {ReplaceOne(fn, c, v) : v \in same} /\ table' = table
        \/ fn' = fn /\ table' = table \cup {t \in {<<c, fn.op[c]>>} : t[2].code = "pure"}
    BY <1>1, <2>2 DEF NumberNext
  <2>4. same \in SUBSET Values
    BY <1>0, <2>2, RedundantType
  <2>5. CASE \E v \in Values : fn' = ReplaceOne(fn, c, v) /\ table' = table
    <3>1. PICK v \in Values : fn' = ReplaceOne(fn, c, v) /\ table' = table
      BY <2>5
    <3>2. ASSUME NEW t \in table PROVE t[1] # c
      <4>1. PICK b \in visited : \E j \in 1 .. Len(fn.body[b]) : fn.body[b][j] = t[1] /\ (b = cur => j < next)
        BY DEF Tabled
      <4>2. PICK j \in 1 .. Len(fn.body[b]) : fn.body[b][j] = t[1] /\ (b = cur => j < next)
        BY <4>1
      <4>3. b \in Blocks /\ Laid(fn) /\ j \in Nat
        BY DEF Strict, TypeOK
      <4> QED BY <2>1, <2>2, <4>2, <4>3 DEF Laid
    <3>3. KeyedIn(fn', table)
      BY <1>0, <3>1, <3>2, KeyedReplaceOne DEF Keyed
    <3> QED BY <3>1, <3>3 DEF Keyed
  <2>6. CASE fn' = fn /\ table' = table \cup {t \in {<<c, fn.op[c]>>} : t[2].code = "pure"}
    <3>1. ASSUME NEW t \in table'
          PROVE  /\ fn.op[t[1]].code = "pure" /\ t[2].code = "pure" /\ fn.op[t[1]].fun = t[2].fun
                 /\ Outlives(fn, t[2].x, fn.op[t[1]].x) /\ Outlives(fn, t[2].y, fn.op[t[1]].y)
      <4>1. CASE t \in table
        BY <4>1 DEF Keyed, KeyedIn
      <4>2. CASE t = <<c, fn.op[c]>> /\ t[2].code = "pure"
        BY <4>2 DEF Outlives
      <4> QED BY <2>6, <3>1, <4>1, <4>2
    <3> QED BY <2>6, <3>1 DEF Keyed, KeyedIn
  <2> HIDE DEF same
  <2> QED BY <2>3, <2>4, <2>5, <2>6
<1>2. CASE \E b \in Blocks : EnterBlock(b)
  BY <1>2 DEF EnterBlock, Keyed
<1>3. CASE EndTurn
  BY <1>3 DEF EndTurn, Keyed, KeyedIn
<1>4. CASE UNCHANGED vars
  BY <1>4 DEF vars, Keyed, numbering
<1>5. ASSUME phase # "numbers", UNCHANGED table PROVE Keyed'
  BY <1>5 DEF Tabled, Keyed, KeyedIn
<1>6. CASE RunCopies \/ RunConstants \/ RunBranches \/ RunBlocks \/ EndMerge \/ RunDeadBlocks \/ RunDead \/ RunMerge
  BY <1>5, <1>6 DEF RunCopies, RunConstants, RunBranches, RunBlocks, EndMerge, RunDeadBlocks, RunDead,
                    RunMerge, Pass, numbering
<1>7. CASE RunPhis \/ EndPhis \/ CombineBlock \/ CombineNext \/ NextRound \/ StartRun \/ Run
  BY <1>5, <1>7 DEF RunPhis, EndPhis, CombineBlock, CombineNext, NextRound, StartRun, Run, numbering
<1>8. CASE Analyse /\ UNCHANGED <<fn, round, numbering, machines>>
  <2>1. phase = "analyse"
    BY <1>8 DEF Analyse, PopBlock, PopAgain, VisitNext, VisitUser, EndAnalysis
  <2> QED BY <1>5, <1>8, <2>1 DEF numbering
<1> QED BY <1>1, <1>2, <1>3, <1>4, <1>6, <1>7, <1>8 DEF Next, Passes

LEMMA RedundantValue ==
  ASSUME NEW f \in Function, Strict(f), Matching(f), NEW s \in Blocks, NEW j \in 1 .. Len(f.body[s]),
         NEW c \in Blocks, c = f.body[s][j],
         NEW T \in SUBSET (Blocks \X Op), KeyedIn(f, T),
         \A t \in T : /\ f.op[t[1]].code # "none"
                      /\ \E b \in Blocks : \E i \in 1 .. Len(f.body[b]) :
                           f.body[b][i] = t[1] /\ (b = s => i < j),
         NEW v \in Redundant(f, T, s, c),
         NEW b \in Reachable(Succ(f)), NEW k \in Nat, NEW env \in Env, NEW arg \in Data,
         Coherent(f, b, k, env, arg), Available(f, <<"op", c>>, b, k)
  PROVE  Eval(env, arg, v) = env[<<"op", c>>]
<1>1. PICK o \in Op : o = f.op[c]
  BY FunctionType
<1>2. v \in IF ByCopy(c, o) # {} THEN ByCopy(c, o)
            ELSE IF ByFolding(o) # {} THEN ByFolding(o)
            ELSE IF ByIdentity(NumberingIdentities, o) # {} THEN ByIdentity(NumberingIdentities, o)
            ELSE Originals(f, T, s, o)
  BY <1>1 DEF Redundant
<1>3. CASE v \in ByCopy(c, o)
  <2>1. o.code = "copy" /\ v = o.x
    BY <1>3 DEF ByCopy
  <2> QED BY <1>1, <2>1, CopyValue
<1>4. PICK X, Y : X = Eval(env, arg, o.x) /\ Y = Eval(env, arg, o.y)
  OBVIOUS
<1>5. o.code = "pure" => /\ X \in Data /\ Y \in Data /\ env[<<"op", c>>] = Apply[o.fun][<<X, Y>>]
                         /\ Available(f, o.x, b, k) /\ Available(f, o.y, b, k)
  <2> SUFFICES ASSUME o.code = "pure"
               PROVE  /\ X \in Data /\ Y \in Data /\ env[<<"op", c>>] = Apply[o.fun][<<X, Y>>]
                      /\ Available(f, o.x, b, k) /\ Available(f, o.y, b, k)
    OBVIOUS
  <2>1. /\ Available(f, o.x, b, k) /\ Eval(env, arg, o.x) \in Data
        /\ Available(f, o.y, b, k) /\ Eval(env, arg, o.y) \in Data
        /\ env[<<"op", c>>] = Apply[o.fun][<<Eval(env, arg, o.x), Eval(env, arg, o.y)>>]
    BY <1>1, PureValue, SMTT(60)
  <2> QED BY <1>4, <2>1
<1>6. CASE v \in ByFolding(o)
  <2>1. PICK d \in Data, e \in Data : /\ o.code = "pure" /\ o.x = Const(d) /\ o.y = Const(e)
                                      /\ Apply[o.fun][<<d, e>>] # Undef
                                      /\ v = Const(Apply[o.fun][<<d, e>>])
    BY <1>6 DEF ByFolding
  <2>2. o.fun \in DOMAIN Apply
    BY DEF Op
  <2>3. Apply[o.fun] \in [Data \X Data -> Data \cup {Undef}]
    BY <2>2, SCCPAssumption
  <2>4. Apply[o.fun][<<d, e>>] \in Data
    BY <2>1, <2>3
  <2>5. X = d /\ Y = e
    BY <1>4, <2>1, ConstEval
  <2>6. Eval(env, arg, v) = Apply[o.fun][<<d, e>>]
    BY <2>1, <2>4, ConstEval
  <2> QED BY <1>5, <2>1, <2>5, <2>6
<1>7. CASE v \in ByIdentity(NumberingIdentities, o)
  <2>1. NumberingIdentities \in SUBSET (NumberingIdentities \cup CombineIdentities)
    OBVIOUS
  <2>2. o.code = "pure"
    BY <1>7 DEF ByIdentity
  <2>3. Eval(env, arg, o.x) \in Data /\ Eval(env, arg, o.y) \in Data
    BY <1>4, <1>5, <2>2
  <2>4. Eval(env, arg, v) = Apply[o.fun][<<Eval(env, arg, o.x), Eval(env, arg, o.y)>>]
    BY <1>7, <2>1, <2>3, IdentityValue
  <2> QED BY <1>4, <1>5, <2>2, <2>4
<1>8. CASE v \in Originals(f, T, s, o) /\ v \in Redundant(f, T, s, c)
  <2>1. PICK t \in T : v = <<"op", t[1]>> /\ SameKey(t[2], o)
    BY <1>8 DEF Originals
  <2>2. PICK a \in Blocks, p \in Op : a = t[1] /\ p = t[2]
    OBVIOUS
  <2>3. PICK q \in Op : q = f.op[a]
    BY FunctionType
  <2>4. /\ q.code = "pure" /\ q.fun = p.fun
        /\ Outlives(f, p.x, q.x) /\ Outlives(f, p.y, q.y)
    BY <2>2, <2>3 DEF KeyedIn
  <2>5. /\ o.code = "pure" /\ p.fun = o.fun
        /\ (p.x = o.x /\ p.y = o.y) \/ (p.fun \in Commuting /\ p.x = o.y /\ p.y = o.x)
    BY <2>1, <2>2 DEF SameKey
  <2>6. Available(f, p.x, b, k) /\ Available(f, p.y, b, k)
    BY <1>5, <2>5
  <2>7. q.x = p.x /\ q.y = p.y
    BY <2>4, <2>6, AvailableOutlives
  <2>8. Available(f, v, b, k)
    <3>1. j \in Nat /\ Laid(f)
      BY BodyType DEF Strict
    <3>2. Dominates(Succ(f), s, b) /\ (s = b => j < k)
      BY <3>1, OpAvailable
    <3>3. s \in Reachable(Succ(f))
      BY <3>2, SuccType, DominatorReached
    <3>4. Available(f, v, s, j)
      BY <1>8, <3>3, RedundantAvailable
    <3>5. b \in Blocks
      BY SuccType
    <3> QED BY <3>1, <3>2, <3>4, <3>5, AvailableLater
  <2>9. v = <<"op", a>> /\ v \in Instrs
    BY <2>1, <2>2, OpInstr
  <2>10. PICK V, W : V = Eval(env, arg, q.x) /\ W = Eval(env, arg, q.y)
    OBVIOUS
  <2>11. V \in Data /\ W \in Data /\ env[v] = Apply[q.fun][<<V, W>>]
    BY <2>3, <2>4, <2>8, <2>9, <2>10, PureValue
  <2>12. Eval(env, arg, v) = env[v]
    BY <2>9 DEF Eval
  <2>13. CASE p.x = o.x /\ p.y = o.y
    <3>1. V = X /\ W = Y
      BY <1>4, <2>7, <2>10, <2>13
    <3> QED BY <1>5, <2>4, <2>5, <2>11, <2>12, <3>1
  <2>14. CASE p.fun \in Commuting /\ p.x = o.y /\ p.y = o.x
    <3>1. V = Y /\ W = X
      BY <1>4, <2>7, <2>10, <2>14
    <3>2. PICK g \in Commuting : g = o.fun /\ g = q.fun
      BY <2>4, <2>5, <2>14
    <3>3. Apply[g][<<X, Y>>] = Apply[g][<<Y, X>>]
      BY <1>5, <2>5, CommutingOp
    <3> QED BY <1>5, <2>5, <2>11, <2>12, <3>1, <3>2, <3>3
  <2> QED BY <2>5, <2>13, <2>14
<1> QED BY <1>2, <1>3, <1>6, <1>7, <1>8

LEMMA NumberNextFollows ==
  ASSUME TypeOK, Standing, Tabled, Keyed, Matching(fn), Strict(fn), NumberNext
  PROVE  Follows(fn, fn')
<1>0. fn \in Function /\ table \in SUBSET (Blocks \X Op) /\ visited \in SUBSET Blocks
  BY DEF TypeOK
<1>1. cur \in Blocks /\ next \in 1 .. Len(fn.body[cur])
  BY DEF NumberNext, TypeOK, Standing
<1>2. PICK c \in Blocks : c = fn.body[cur][next]
  BY <1>0, <1>1, BodyType
<1> DEFINE same == Redundant(fn, table, cur, c)
<1>3. (\E v \in same : fn' = ReplaceOne(fn, c, v)) \/ fn' = fn
  BY <1>2 DEF NumberNext
<1>4. \A t \in table : /\ fn.op[t[1]].code # "none"
                       /\ \E b \in Blocks : \E i \in 1 .. Len(fn.body[b]) :
                            fn.body[b][i] = t[1] /\ (b = cur => i < next)
  BY <1>0 DEF Tabled
<1>5. ASSUME NEW v \in same, fn' = ReplaceOne(fn, c, v)
      PROVE  Follows(fn, fn')
  <2>1. v \in Values
    BY <1>0, <1>2, RedundantType
  <2>2. cur \in Reachable(Succ(fn)) => Available(fn, v, cur, next)
    BY <1>0, <1>1, <1>2, <1>4, RedundantAvailable
  <2>3. fn.op[c].code # "call"
    <3>1. v \in ByCopy(c, fn.op[c]) \/ v \in ByFolding(fn.op[c])
            \/ v \in ByIdentity(NumberingIdentities, fn.op[c]) \/ v \in Originals(fn, table, cur, fn.op[c])
      BY DEF Redundant
    <3>2. v \in Originals(fn, table, cur, fn.op[c]) => fn.op[c].code = "pure"
      BY DEF Originals, SameKey
    <3> QED BY <3>1, <3>2 DEF ByCopy, ByFolding, ByIdentity
  <2>4. ASSUME NEW b \in Reachable(Succ(fn)), NEW k \in Nat, NEW env \in Env, NEW arg \in Data,
               Coherent(fn, b, k, env, arg), Available(fn, <<"op", c>>, b, k)
        PROVE  Eval(env, arg, v) = env[<<"op", c>>]
    BY <1>0, <1>1, <1>2, <1>4, <2>4, RedundantValue DEF Keyed
  <2> HIDE DEF same
  <2> QED BY <1>0, <1>1, <1>2, <1>5, <2>1, <2>2, <2>3, <2>4, ReplacedFollows
<1> QED BY <1>0, <1>3, <1>5, FollowsItself

-----------------------------------------------------------------------------
(* Whatever the passes of a round have made of the function follows what the
   round began with; executions of both in lockstep are in such a relation. *)
Following ==
  /\ phase \in {"analyse", "constants"} => fn = before
  /\ phase # "run" => Follows(before, fn)
  /\ phase = "run" => \E R \in SUBSET (Machine \X Machine) :
                        Lockstep(before, fn, R) /\ <<here, there>> \in R

Between == {"copies", "numbers", "branches", "phis", "blocks", "phis again", "merge",
            "dead blocks", "dead", "combine", "combined", "done"}

LEMMA PassStep ==
  ASSUME TypeOK, Standing, Tabled, Keyed, Matching(fn), Strict(fn),
         \/ RunCopies \/ (\E b \in Blocks : EnterBlock(b)) \/ NumberNext \/ EndTurn
         \/ RunBranches \/ RunPhis \/ EndPhis \/ RunBlocks \/ RunMerge \/ EndMerge
         \/ RunDeadBlocks \/ RunDead \/ CombineBlock \/ CombineNext
  PROVE  Follows(fn, fn') /\ before' = before /\ phase \in Between /\ phase' \in Between
<1>0. fn \in Function
  BY DEF TypeOK
<1>1. CASE RunCopies
  BY <1>0, <1>1, EliminateCopiesFollows DEF RunCopies, Pass, Between
<1>2. CASE \E b \in Blocks : EnterBlock(b)
  BY <1>0, <1>2, FollowsItself DEF EnterBlock, Between
<1>3. CASE NumberNext
  <2>1. Follows(fn, fn')
    BY <1>3, NumberNextFollows
  <2> QED BY <1>3, <2>1 DEF NumberNext, Between
<1>4. CASE EndTurn
  BY <1>0, <1>4, FollowsItself DEF EndTurn, Between
<1>5. CASE RunBranches
  BY <1>0, <1>5, FoldBranchesFollows DEF RunBranches, Pass, Between
<1>6. CASE RunPhis
  <2>1. cur < N /\ fn' = SimplifyPhi(fn, cur + 1)
    BY <1>6 DEF RunPhis
  <2>2. cur + 1 \in Blocks
    BY <2>1, BlocksAssumption DEF TypeOK, Blocks
  <2>3. Follows(fn, fn')
    BY <1>0, <2>1, <2>2, SimplifyPhiFollows
  <2> QED BY <1>6, <2>3 DEF RunPhis, Between
<1>7. CASE EndPhis
  BY <1>0, <1>7, FollowsItself DEF EndPhis, Between
<1>8. CASE RunBlocks \/ RunDeadBlocks
  BY <1>0, <1>8, RemoveUnreachableFollows DEF RunBlocks, RunDeadBlocks, Pass, Between
<1>9. CASE RunMerge
  BY <1>0, <1>9, MergeBlocksFollows DEF RunMerge, Pass, Between
<1>10. CASE EndMerge
  BY <1>0, <1>10, FollowsItself DEF EndMerge, Pass, Between
<1>11. CASE RunDead
  BY <1>0, <1>11, EliminateDeadFollows DEF RunDead, Pass, Between
<1>12. CASE CombineBlock
  BY <1>0, <1>12, FollowsItself DEF CombineBlock, Between
<1>13. CASE CombineNext
  <2>1. cur \in Blocks /\ next + 1 \in 1 .. Len(fn.body[cur]) /\ fn' \in Combine(fn, fn.body[cur][next + 1])
    <3>1. next < BlockLength /\ next \in Nat /\ cur \in Blocks \cup {0}
      BY <1>13 DEF CombineNext, TypeOK
    <3>2. cur # 0
      BY <3>1 DEF BlockLength
    <3>3. Len(fn.body[cur]) \in Nat /\ next < Len(fn.body[cur])
      BY <1>0, <3>1, <3>2, BodyType DEF BlockLength
    <3> QED BY <1>13, <3>1, <3>2, <3>3 DEF CombineNext
  <2>2. Follows(fn, fn')
    BY <1>0, <2>1, CombineFollows
  <2> QED BY <1>13, <2>2 DEF CombineNext, Between
<1> QED BY <1>1, <1>2, <1>3, <1>4, <1>5, <1>6, <1>7, <1>8, <1>9, <1>10, <1>11, <1>12, <1>13

LEMMA FollowingStep ==
  ASSUME TypeOK, TypeOK', Standing, Tabled, Keyed, Fixpoint, Matching(fn), Strict(fn),
         Matching(before), Strict(before), Following, [Next]_vars
  PROVE  Following'
<1>0. fn \in Function /\ before \in Function /\ fn' \in Function
  BY DEF TypeOK
<1>1. CASE \/ RunCopies \/ (\E b \in Blocks : EnterBlock(b)) \/ NumberNext \/ EndTurn
           \/ RunBranches \/ RunPhis \/ EndPhis \/ RunBlocks \/ RunMerge \/ EndMerge
           \/ RunDeadBlocks \/ RunDead \/ CombineBlock \/ CombineNext
  <2>1. Follows(fn, fn') /\ before' = before /\ phase \in Between /\ phase' \in Between
    BY <1>1, PassStep
  <2>2. Follows(before, fn)
    BY <2>1 DEF Following, Between
  <2>3. Follows(before, fn')
    BY <1>0, <2>1, <2>2, FollowsChain
  <2>4. phase' \notin {"analyse", "constants", "run"}
    BY <2>1 DEF Between
  <2> QED BY <2>1, <2>3, <2>4 DEF Following
<1>2. CASE RunConstants
  <2>1. /\ phase = "constants" /\ phase' = "copies" /\ before' = before /\ fn' = ReplaceConstants(fn)
    BY <1>2 DEF RunConstants, Pass
  <2>2. fn' = ReplaceConstants(before) /\ phase # "analyse"
    BY <2>1 DEF Following
  <2>3. Follows(before, fn')
    BY <2>2, ReplaceConstantsFollows
  <2> QED BY <2>1, <2>3 DEF Following
<1>3. CASE Analyse /\ UNCHANGED <<fn, round, numbering, machines>>
  <2>1. phase = "analyse" /\ phase' \in {"analyse", "constants"} /\ before' = before
    BY <1>3 DEF Analyse, PopBlock, PopAgain, VisitNext, VisitUser, EndAnalysis
  <2> QED BY <1>3, <2>1 DEF Following
<1>4. CASE NextRound
  <2>1. phase' = "analyse" /\ before' = fn /\ fn' = fn
    BY <1>4 DEF NextRound
  <2> QED BY <1>0, <2>1, FollowsItself DEF Following
<1>5. CASE StartRun
  <2>1. phase \in {"done", "combined"} /\ phase' = "run" /\ before' = before /\ fn' = fn
    BY <1>5 DEF StartRun
  <2>2. PICK d \in Data : here' = Boot(d) /\ there' = Boot(d)
    BY <1>5 DEF StartRun
  <2>3. PICK R \in SUBSET (Machine \X Machine) : Lockstep(before, fn, R)
    BY <2>1 DEF Following, Follows
  <2>4. <<here', there'>> \in R
    BY <2>2, <2>3 DEF Lockstep
  <2> QED BY <2>1, <2>3, <2>4 DEF Following
<1>6. CASE Run
  <2>1. phase = "run" /\ phase' = "run" /\ before' = before /\ fn' = fn
        /\ InBlock(before, here) /\ InBlock(fn, there)
    BY <1>6 DEF Run
  <2>2. PICK r \in Data : here' = Execute(before, here, r) /\ there' = Execute(fn, there, r)
    BY <1>6 DEF Run
  <2>3. PICK R \in SUBSET (Machine \X Machine) : Lockstep(before, fn, R) /\ <<here, there>> \in R
    BY <2>1 DEF Following
  <2>4. <<here, there>>[1] = here /\ <<here, there>>[2] = there
    OBVIOUS
  <2>5. <<here', there'>> \in R
    BY <2>1, <2>2, <2>3, <2>4 DEF Lockstep
  <2> QED BY <2>1, <2>3, <2>5 DEF Following
<1>7. CASE UNCHANGED vars
  BY <1>7 DEF vars, machines, Following
<1> QED BY <1>1, <1>2, <1>3, <1>4, <1>5, <1>6, <1>7 DEF Next, Passes

LEMMA FollowingBehaves == Following => SameBehaviour
<1> SUFFICES ASSUME Following, phase = "run" PROVE SameBehaviour
  BY DEF SameBehaviour
<1>1. PICK R \in SUBSET (Machine \X Machine) : Lockstep(before, fn, R) /\ <<here, there>> \in R
  BY DEF Following
<1>2. <<here, there>>[1] = here /\ <<here, there>>[2] = there
  OBVIOUS
<1>3. Answers(before, fn, here, there)
  BY <1>1, <1>2 DEF Lockstep
<1> QED BY <1>3 DEF Answers, SameBehaviour

(* However the passes of a round change a function: executed with the same
   argument and the same results of loads and calls, it makes the same calls in
   the same order and returns what it returned before. *)
THEOREM SameBehaviourAlways == Spec => []SameBehaviour
<1>1. Init => /\ TypeOK /\ Visiting /\ Standing /\ Matching(fn) /\ Strict(fn) /\ Tabled
              /\ Matching(before) /\ Strict(before)
  BY TypeInit, MatchingInit, StrictInit DEF Init, Tabled
<1>2. Init => Fixpoint /\ Keyed /\ Following
  <2> SUFFICES ASSUME Init PROVE Fixpoint /\ Keyed /\ Following
    OBVIOUS
  <2>1. before \in Function /\ fn = before /\ phase = "analyse" /\ table = {}
    BY <1>1 DEF Init, TypeOK
  <2>3. Fixpoint
    BY DEF Init, StartAnalysis, Fixpoint
  <2>2. Keyed /\ Following
    BY <2>1, FollowsItself DEF Keyed, KeyedIn, Following
  <2> QED BY <2>2, <2>3
<1>3. TypeOK /\ Visiting /\ Standing /\ Matching(fn) /\ Strict(fn) /\ Tabled /\ [Next]_vars
        => TypeOK' /\ Visiting' /\ Standing' /\ Matching(fn)' /\ Strict(fn)' /\ Tabled'
  BY TypeStep, StandingStep, MatchingStep, StrictStep, TabledStep
<1>4. Matching(fn) /\ Strict(fn) /\ Matching(before) /\ Strict(before) /\ [Next]_vars
        => Matching(before)' /\ Strict(before)'
  BY SettledStep
<1>5. TypeOK /\ Standing /\ Strict(fn) /\ Tabled /\ Keyed /\ [Next]_vars => Keyed'
  BY KeyedStep
<1>6. TypeOK /\ TypeOK' /\ Standing /\ Tabled /\ Keyed /\ Fixpoint /\ Matching(fn) /\ Strict(fn)
        /\ Matching(before) /\ Strict(before) /\ Following /\ [Next]_vars => Following'
  BY FollowingStep
<1>7. Following => SameBehaviour
  BY FollowingBehaves
<1>8. TypeOK /\ Visiting /\ Fixpoint /\ [Next]_vars => Fixpoint'
  BY FixpointStep
<1> QED BY <1>1, <1>2, <1>3, <1>4, <1>5, <1>6, <1>7, <1>8, PTL DEF Spec
=============================================================================
