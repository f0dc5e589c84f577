--------------------------- MODULE MCScalarPasses ---------------------------
(***************************************************************************)
(* A TLC instance of ScalarPasses: functions of four blocks over the bits. *)
(***************************************************************************)
EXTENDS LiveRanges

Bits == {0, 1}

(* Arithmetic on integers of one bit.                                       *)
Operations ==
  [g \in {"add", "sub", "div"} |-> [p \in Bits \X Bits |->
     IF g # "div" THEN (p[1] + p[2]) % 2 ELSE IF p[2] = 0 THEN Undef ELSE p[1]]]

Law(g, v, w, u) == [fun |-> g, x |-> v, y |-> w, is |-> u]

GVNLaws == {Law("add", Any, Const(0), Any), Law("add", Const(0), Any, Any),
            Law("sub", Any, Const(0), Any), Law("sub", Any, Any, Const(0))}

CombineLaws == GVNLaws \cup {Law("div", Any, Const(1), Any)}

P(b) == <<"phi", b>>
O(b) == <<"op", b>>

NoOp       == [code |-> "none", fun |-> "add", x |-> Null, y |-> Null]
Add(v, w)  == [NoOp EXCEPT !.code = "pure", !.x = v, !.y = w]
Div(v, w)  == [Add(v, w) EXCEPT !.fun = "div"]
Sub(v, w)  == [Add(v, w) EXCEPT !.fun = "sub"]
Unary(c, v) == [NoOp EXCEPT !.code = c, !.x = v]
Copy(v) == Unary("copy", v)
Load(v) == Unary("load", v)
Call(v) == Unary("call", v)

Ret(v) == [code |-> "ret", x |-> v, t |-> Entry, f |-> Entry]
Jmp(s) == Jump(s)
Jnz(v, s, u) == [code |-> "jnz", x |-> v, t |-> s, f |-> u]

Joined(term) ==
  {s \in Blocks : Cardinality({b \in Blocks : s \in Targets(term[b])}) > 1}

(* A function whose phis are in the joins; val[s][p] is what arrives there.  *)
Made(op, term, val) ==
  [body |-> [b \in Blocks |-> <<b>>], phis |-> Joined(term), op |-> op, term |-> term,
   inc |-> [s \in Blocks |-> [p \in Blocks |->
              IF s \in Joined(term) /\ s \in Targets(term[p]) THEN val[s][p] ELSE Absent]]]

Zeros == Const(0)
Ones  == Const(1)

(* A branch that joins again, in 4.                                         *)
Diamonds ==
  {Made(<<o1, o2, o3, o4>>, <<Jnz(c, 2, 3), Jmp(4), Jmp(4), Ret(O(4))>>,
        [s \in Blocks |-> <<Null, v2, v3, Null>>]) :
     o1 \in {Copy(Zeros), Add(Ones, Ones), Load(Arg)},
     o2 \in {Copy(O(1)), Call(O(1))},
     o3 \in {Add(O(1), Ones), Div(Arg, O(1))},
     o4 \in {Add(P(4), O(1)), Call(P(4))},
     c \in {O(1), Ones, Arg}, v2 \in {Zeros, O(1), O(2)}, v3 \in {Zeros, O(3)}}

(* A loop over 2 and 3 that ends in 4; in 3 it may end as well.             *)
Loops ==
  {Made(<<o1, o2, o3, Add(O(2), P(2))>>,
        <<Jmp(2), Jnz(c, 3, 4), IF both THEN Jnz(O(3), 2, 4) ELSE Jmp(2), Ret(r)>>,
        [s \in Blocks |-> IF s = 2 THEN <<v1, Null, v3, Null>> ELSE <<Null, O(2), v3, Null>>]) :
     o1 \in {Copy(Zeros), Load(Arg)},
     o2 \in {Add(P(2), O(1)), Copy(P(2)), Call(P(2))},
     o3 \in {Add(O(2), Ones), Copy(O(2)), Div(P(2), O(2))},
     c \in {O(2), P(2)}, both \in BOOLEAN, v1 \in {Ones, O(1)},
     v3 \in {O(3), P(2)}, r \in {O(4), O(1)}}

(* A loop with two entries, blocks that nothing jumps to, and a chain.      *)
Others ==
  {Made(<<o1, o2, o3, Call(P(3))>>, <<Jnz(O(1), 2, 3), Jmp(3), Jnz(c, 2, 4), Ret(P(3))>>,
        [s \in Blocks |-> IF s = 3 THEN <<v1, v2, Null, Null>> ELSE <<w1, Null, w3, Null>>]) :
     o1 \in {Copy(Ones), Load(Arg)}, o2 \in {Add(P(2), O(1)), Call(P(2))},
     o3 \in {Add(P(3), Ones), Copy(P(3))}, c \in {O(3), P(3)},
     v1 \in {Zeros, Ones}, v2 \in {P(2), O(2)}, w1 \in {Zeros, O(1)}, w3 \in {O(3), Ones}}
  \cup
  {Made(<<Load(Arg), o2, o3, Call(v)>>, <<Jmp(4), Jmp(3), Jnz(O(3), 2, 4), Ret(O(1))>>,
        [s \in Blocks |-> IF s = 2 THEN <<Null, Null, O(3), Null>> ELSE <<O(1), Null, O(3), Null>>]) :
     o2 \in {Copy(O(3)), Add(O(3), O(1))}, o3 \in {Copy(O(2)), Copy(O(1))}, v \in {P(4), O(1)}}
  \cup
  {Made(<<o1, o2, o3, o4>>, <<Jmp(2), Jmp(3), Jmp(4), Ret(O(4))>>, [s \in Blocks |-> <<>>]) :
     o1 \in {Copy(Arg), Load(Ones), Call(Arg)}, o2 \in {Copy(O(1)), Add(Zeros, Ones)},
     o3 \in {Copy(O(2)), Div(O(1), O(2))}, o4 \in {Copy(O(3)), Add(O(3), O(2))}}

(* What is computed twice, in a row, on the sides of a branch, and around a
   loop.                                                                    *)
Twice ==
  {Made(<<o1, o2, o3, o4>>, t, [s \in Blocks |-> IF s = 2 THEN <<O(1), Null, O(3), O(4)>> ELSE <<Null, O(2), O(3), Null>>]) :
     o1 \in {Add(Arg, Ones), Load(Arg)},
     o2 \in {Add(Ones, Arg), Add(O(1), Ones)},
     o3 \in {Add(Arg, Ones), Add(O(1), Ones), Sub(Arg, O(1))},
     o4 \in {Add(O(2), O(3)), Sub(O(1), O(2)), Add(Arg, Ones), Call(P(4))},
     t \in {<<Jmp(2), Jmp(3), Jmp(4), Ret(O(4))>>, <<Jnz(O(1), 2, 3), Jmp(4), Jmp(4), Ret(O(4))>>,
            <<Jmp(2), Jnz(O(2), 3, 4), Jmp(2), Ret(O(4))>>}}

Candidates == Twice \cup Diamonds \cup Loops \cup Others

WellFormedOnes == {f \in Candidates : WellFormed(f)}
=============================================================================
