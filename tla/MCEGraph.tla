------------------------------ MODULE MCEGraph ------------------------------
(***************************************************************************)
(* A TLC instance of ArithmeticPasses: blocks of up to five instructions   *)
(* over numbers of four bits.                                              *)
(***************************************************************************)
EXTENDS ArithmeticPasses

Numbers == 0 .. 2 ^ Word - 1

Bit(a, k) == (a \div 2 ^ k) % 2
FromBits(B(_)) == B(0) + 2 * B(1) + 4 * B(2) + 8 * B(3)
Shift(b)  == IF b < Word THEN 2 ^ b ELSE 2 ^ Word

Result(op, a, b) ==
  CASE op = "Add" -> Wrapped(a + b)
    [] op = "Sub" -> Wrapped(a - b)
    [] op = "Mul" -> Wrapped(a * b)
    [] op = "Udiv" -> IF b = 0 THEN 0 ELSE a \div b
    [] op = "Urem" -> IF b = 0 THEN 0 ELSE a % b
    [] op = "Div"  -> IF b = 0 THEN 0 ELSE SignedDiv(a, b)
    [] op = "Rem"  -> IF b = 0 THEN 0 ELSE SignedRem(a, b)
    [] op = "And"  -> LET B(k) == Bit(a, k) * Bit(b, k) IN FromBits(B)
    [] op = "Xor"  -> LET B(k) == (Bit(a, k) + Bit(b, k)) % 2 IN FromBits(B)
    [] op = "Shl"  -> Wrapped(a * Shift(b))
    [] op = "Shr"  -> a \div Shift(b)
    [] op = "Sar"  -> Wrapped(AsSigned(a) \div Shift(b))

Operations ==
  [op \in {"Add", "Sub", "Mul", "Div", "Udiv", "Rem", "Urem", "And", "Xor", "Shl", "Shr", "Sar"} |->
     [p \in Numbers \X Numbers |-> Result(op, p[1], p[2])]]

Names == {"x", "y"}
Samples == {[l \in Names |-> IF l = "x" THEN n ELSE (5 * n + 3) % 16] :
              n \in {0, 1, 3, 5, 6, 7, 8, 9, 13, 15}}

-----------------------------------------------------------------------------
X == Leaf("x")
Y == Leaf("y")
C(n) == Const(n)
I(i) == Inst(i)

Do(op, v, w) == [op |-> op, args |-> <<v, w>>]

(* A block with what its instructions amount to; it returns the last.        *)
Block(is) ==
  LET val[i \in 1 .. Len(is)] ==
        LET V(v) == CASE v.kind = "inst" -> val[v.of]
                      [] v.kind = "leaf" -> [e \in Samples |-> e[v.of]]
                      [] OTHER -> [e \in Samples |-> v.of]
            a == V(is[i].args[1])
            b == V(is[i].args[2])
        IN  [e \in Samples |-> Operations[is[i].op][<<a[e], b[e]>>]]
  IN  [code |-> Append(is, [op |-> "Ret", args |-> <<I(Len(is))>>]),
       value |-> [i \in 1 .. Len(is) + 1 |->
                    IF i <= Len(is) THEN val[i] ELSE [e \in Samples |-> 0]]]

(* Each reads the one before it.                                             *)
Chains ==
  {<<i1, i2, i3>> :
     i1 \in {Do("Mul", X, Y), Do("Mul", X, C(8)), Do("Udiv", X, C(8)), Do("Udiv", X, C(4)), Do("Shr", X, C(3))},
     i2 \in {Do(op, I(1), w) : op \in {"Add", "Sub", "Xor", "Udiv"}, w \in {C(0), C(8), I(1)}},
     i3 \in {Do(op, I(2), C(n)) : op \in {"Mul", "Urem", "Div"}, n \in {1, 8}} \cup {Do("Mul", X, I(2))}}

(* Deeper than addValue goes.                                                *)
DeepChains ==
  {<<Do("Mul", X, Y), Do("Add", I(1), v), Do("Sub", I(2), w), Do("Mul", I(3), I(2))>> :
     v \in {Y, C(0)}, w \in {X, I(1)}}

(* Two results of one kind, each multiplied.                                 *)
Pairs ==
  {<<i1, i2, Do("Mul", I(1), Y), Do(op, I(2), Y), Do("Mul", I(3), I(4))>> :
     i1 \in {Do(o, X, C(n)) : o \in {"Udiv", "Mul"}, n \in {8, 4}},
     i2 \in {Do(o, X, C(n)) : o \in {"Udiv", "Shr", "Shl"}, n \in {3, 8}},
     op \in {"Mul", "Urem"}}

(* Divisions by every constant, and of what a division leaves.               *)
Quotients ==
  {<<Do(op, X, C(n))>> : op \in Divisions, n \in Numbers \ {0}}
  \cup {<<Do(o1, X, C(n)), Do("Mul", I(1), C(n)), Do("Sub", X, I(2)), Do(o2, I(3), C(3))>> :
          o1 \in {"Div", "Udiv"}, o2 \in {"Rem", "Urem"}, n \in {3, 6, 7, 13}}

Blocks == {Block(c) : c \in Chains \cup DeepChains \cup Pairs \cup Quotients}

-----------------------------------------------------------------------------
=============================================================================
