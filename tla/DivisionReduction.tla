-------------------------- MODULE DivisionReduction --------------------------
(***************************************************************************)
(* Division by a constant without dividing                                 *)
(* (src/src/transforms/DivisionStrengthReduction.cpp), for types of Word   *)
(* bits where the code has 32, and twice as many where it has 64.          *)
(*                                                                         *)
(* A number stands for its bits, 0 .. 2^Word - 1; a divisor is the number  *)
(* that its constant holds, which is below zero for some.  What the loops  *)
(* double, q and r, is at each p the quotient and the remainder of 2^p.    *)
(***************************************************************************)
EXTENDS Integers

CONSTANT Word

ASSUME WordAssumption == Word \in Nat /\ Word > 1

(* What the proofs use of powers of two.                                    *)
ASSUME PowersAssumption ==
  /\ 2 ^ 0 = 1 /\ 2 ^ 1 = 2
  /\ \A j, k \in 0 .. Word : 2 ^ j \in Nat \ {0} /\ 2 ^ (j + k) = 2 ^ j * 2 ^ k

Wrapped(a) == a % 2 ^ Word
AsSigned(a) == IF a >= 2 ^ (Word - 1) THEN a - 2 ^ Word ELSE a
Abs(a) == IF a < 0 THEN -a ELSE a

(* Instructions on Word bits.                                               *)
Shr(a, s) == a \div 2 ^ s
Sar(a, s) == Wrapped(AsSigned(a) \div 2 ^ s)

(* The reference: division rounds towards zero, and the remainder has the sign
   of the numerator.                                                        *)
Sign(a) == IF a < 0 THEN -1 ELSE 1
TowardZero(a, b) == Sign(a) * Sign(b) * (Abs(a) \div Abs(b))
SignedDiv(n, d) == Wrapped(TowardZero(AsSigned(n), AsSigned(Wrapped(d))))
SignedRem(n, d) == Wrapped(Sign(AsSigned(n)) * (Abs(AsSigned(n)) % Abs(AsSigned(Wrapped(d)))))

IsPower(a) == \E k \in 0 .. Word : a = 2 ^ k
LogOf(a)   == CHOOSE k \in 0 .. Word : a = 2 ^ k

FirstOf(S) == {p \in S : \A o \in S : p <= o}

-----------------------------------------------------------------------------
(* computeUnsignedMagic32: the exponent, and what is made of it.             *)
Covers(d, p) ==
  LET nc == (2 ^ Word - 1) - ((2 ^ Word - 1) % d)
      delta == d - 1 - (2 ^ p % d)
  IN  p = 2 * Word \/ 2 ^ p > (delta * (2 ^ p \div nc + 1)) % 2 ^ (2 * Word)

UnsignedMagic(d) ==
  LET p == CHOOSE q \in FirstOf({o \in Word .. 2 * Word : Covers(d, o)}) : TRUE
  IN  [magic |-> 2 ^ p \div d + 1, shift |-> p - Word]

UnsignedQuotient(d, n) ==
  LET m == UnsignedMagic(d)
      high == Wrapped(((n * m.magic) % 2 ^ (2 * Word)) \div 2 ^ Word)
  IN  IF m.magic >= 2 ^ Word
      THEN Shr(Wrapped(high + Shr(Wrapped(n - high), 1)), m.shift - 1)
      ELSE Shr(high, m.shift)

-----------------------------------------------------------------------------
(* computeSignedMagic32: the exponents at which its loop may stop; at the
   last one it gives up.                                                     *)
Precise(d, p) ==
  LET t == 2 ^ (Word - 1) + (IF d < 0 THEN 1 ELSE 0)
      anc == t - 1 - (t % Abs(d))
      delta == Abs(d) - (2 ^ p % Abs(d))
  IN  ~(2 ^ p \div anc < delta \/ (2 ^ p \div anc = delta /\ (2 ^ p % anc) = 0))

Exponents(d) == FirstOf({p \in Word .. 2 * Word - 2 : Precise(d, p)})

SignedMagic(d) ==
  LET p == CHOOSE q \in Exponents(d) : TRUE
      m == 2 ^ p \div Abs(d) + 1
      magic == AsSigned(Wrapped(IF d < 0 THEN -m ELSE m))
  IN  [magic |-> magic, shift |-> p - Word,
       correction |-> IF d > 0 /\ magic < 0 THEN 1 ELSE IF d < 0 /\ magic > 0 THEN -1 ELSE 0]

HighHalfUncorrected(m, n) == Wrapped((AsSigned(n) * m.magic) \div 2 ^ Word)  \* variant: N is not added

HighHalf(m, n) ==
  Wrapped((AsSigned(n) * m.magic) \div 2 ^ Word + m.correction * n)

SignedQuotient(d, n) ==
  LET m == SignedMagic(d)
      q == Sar(HighHalf(m, n), m.shift)
  IN  Wrapped(q + Shr(q, Word - 1))

(* Division by a power of two that may be negative.                         *)
ShiftedQuotient(d, n) ==
  LET shift == LogOf(Abs(d))
      adjustment == Shr(Sar(n, Word - 1), Word - shift)
      q == Sar(Wrapped(n + adjustment), shift)
  IN  IF d < 0 THEN Wrapped(-q) ELSE q

-----------------------------------------------------------------------------
(* processInstruction                                                       *)
Divisions  == {"Div", "Udiv", "Rem", "Urem"}
IsSigned(op) == op \in {"Div", "Rem"}

HasMagic(d) == AsSigned(Wrapped(d)) \notin {0, 1, -1} /\ Exponents(AsSigned(Wrapped(d))) # {}

Reducible(op, d) ==
  d # 0 /\ (IsSigned(op) => d \in {1, -1} \/ IsPower(Abs(d)) \/ HasMagic(d))

Quotient(op, d, n) ==
  LET u == Wrapped(d)
  IN  IF ~IsSigned(op)
      THEN IF IsPower(u) THEN Shr(n, LogOf(u)) ELSE UnsignedQuotient(u, n)
      ELSE CASE d = 1 -> n
             [] d = -1 -> Wrapped(-n)
             [] d \notin {1, -1} /\ IsPower(Abs(d)) -> ShiftedQuotient(d, n)
             [] OTHER -> SignedQuotient(AsSigned(u), n)

(* What the instructions that replace the division compute from n.          *)
Reduced(op, d, n) ==
  IF op \in {"Rem", "Urem"} THEN Wrapped(n - Quotient(op, d, n) * d) ELSE Quotient(op, d, n)
=============================================================================
