----------------------------- MODULE CFG_proofs -----------------------------
(***************************************************************************)
(* What the paths of a control flow graph are, for every number of blocks. *)
(* ReachAvoiding is a recursive function; its layers are unfolded once     *)
(* (Unfold) and shown to end in the least set that holds the blocks it     *)
(* starts from and is closed under the edges (ReachClosed, ReachLeast).    *)
(* Everything about dominance follows from these two facts.  Induction is  *)
(* used in the form of a set of numbers that holds 0 and the successor of  *)
(* each of its elements.                                                   *)
(***************************************************************************)
EXTENDS CFG, FiniteSetTheorems, WellFoundedInduction, TLAPS

(* A set of natural numbers has a least element.                            *)
LEMMA LeastElement ==
  ASSUME NEW T \in SUBSET Nat, T # {}
  PROVE  \E m \in T : \A k \in T : m <= k
<1> DEFINE R == OpToRel(<, Nat)
<1>1. IsWellFoundedOn(R, Nat)
  BY NatLessThanWellFounded
<1>2. \A x, y \in Nat : <<x, y>> \in R <=> x < y
  BY DEF OpToRel
<1> HIDE DEF R
<1>3. PICK m \in T : \A k \in T : ~ (<<k, m>> \in R)
  BY <1>1, WFMin
<1>4. ASSUME NEW k \in T PROVE m <= k
  <2>1. m \in Nat /\ k \in Nat
    OBVIOUS
  <2>2. ~(k < m)
    BY <1>2, <1>3, <2>1
  <2> QED BY <2>1, <2>2
<1> QED BY <1>4

LEMMA Induction ==
  ASSUME NEW T, 0 \in T, \A n \in Nat : n \in T => n + 1 \in T
  PROVE  \A n \in Nat : n \in T
<1> DEFINE Rest == {n \in Nat : n \notin T}
<1> SUFFICES ASSUME Rest # {} PROVE FALSE
  OBVIOUS
<1>1. PICK n \in Rest : \A k \in Rest : n <= k
  BY LeastElement
<1>2. n \in Nat /\ n # 0
  OBVIOUS
<1>3. n - 1 \in Nat /\ (n - 1) + 1 = n /\ ~(n <= n - 1)
  BY <1>2
<1>4. n - 1 \in T
  BY <1>1, <1>3
<1>5. (n - 1) + 1 \in T
  BY <1>3, <1>4
<1> QED BY <1>3, <1>5

(* A set of naturals that is bounded has a largest.                           *)
LEMMA GreatestElement ==
  ASSUME NEW S \in SUBSET Nat, S # {}, NEW m \in Nat, \A x \in S : x <= m
  PROVE  \E n \in S : \A x \in S : x <= n
<1> DEFINE U == {n \in Nat : \A x \in S : x <= n}
<1>1. m \in U
  OBVIOUS
<1>2. PICK n \in U : \A k \in U : n <= k
  BY <1>1, LeastElement
<1>3. n \in S
  <2> SUFFICES ASSUME n \notin S PROVE FALSE
    OBVIOUS
  <2>1. \A x \in S : x < n /\ x \in Nat
    BY <1>2
  <2>2. n - 1 \in Nat
    <3>1. PICK x \in S : x < n /\ x \in Nat
      BY <2>1
    <3>2. n \in Nat
      BY <1>2
    <3> QED BY <3>1, <3>2
  <2>3. n - 1 \in U
    BY <2>1, <2>2
  <2> QED BY <1>2, <2>2, <2>3
<1> QED BY <1>2, <1>3

(* Multiples of w are at least w apart.                                      *)
LEMMA Multiples ==
  ASSUME NEW w \in Nat, NEW b \in Nat, NEW c \in Nat, b < c
  PROVE  w * b \in Nat /\ w * c \in Nat /\ w * b + w <= w * c
<1>1. PICK d \in Nat : c = b + 1 + d
  <2>1. c - b - 1 \in Nat /\ c = b + 1 + (c - b - 1)
    OBVIOUS
  <2> QED BY <2>1
<1>2. w * c = w * b + w + w * d
  BY <1>1
<1>3. w * d \in Nat /\ w * b \in Nat /\ w * c \in Nat
  OBVIOUS
<1> QED BY <1>2, <1>3

(* A function is applied m times.                                             *)
Iteration(D, F, a, m, g) ==
  /\ g \in [0 .. m -> D] /\ g[0] = a
  /\ \A n \in Nat : n < m => g[n + 1] = F[g[n]]

LEMMA Iterates ==
  ASSUME NEW D, NEW F, NEW a \in D, \A x \in D : F[x] \in D
  PROVE  \A m \in Nat : \E g : Iteration(D, F, a, m, g)
<1> DEFINE P(m, g) == g[0] = a /\ \A n \in Nat : n < m => g[n + 1] = F[g[n]]
           T == {m \in Nat : \E g \in [0 .. m -> D] : P(m, g)}
<1>1. 0 \in T
  <2>1. [n \in 0 .. 0 |-> a] \in [0 .. 0 -> D] /\ P(0, [n \in 0 .. 0 |-> a])
    OBVIOUS
  <2> QED BY <2>1
<1>2. ASSUME NEW m \in Nat, m \in T PROVE m + 1 \in T
  <2> SUFFICES ASSUME NEW g \in [0 .. m -> D], P(m, g)
               PROVE  \E h \in [0 .. m + 1 -> D] : P(m + 1, h)
    BY <1>2
  <2> DEFINE h == [k \in 0 .. m + 1 |-> IF k = m + 1 THEN F[g[m]] ELSE g[k]]
  <2>1. m \in 0 .. m /\ g[m] \in D
    OBVIOUS
  <2>2. h \in [0 .. m + 1 -> D]
    <3> SUFFICES ASSUME NEW k \in 0 .. m + 1 PROVE (IF k = m + 1 THEN F[g[m]] ELSE g[k]) \in D
      OBVIOUS
    <3>1. k # m + 1 => k \in 0 .. m
      OBVIOUS
    <3> QED BY <2>1, <3>1
  <2>3. \A k \in 0 .. m : h[k] = g[k]
    OBVIOUS
  <2>4. h[m + 1] = F[g[m]]
    OBVIOUS
  <2> HIDE DEF h
  <2>5. h[0] = a
    BY <2>3
  <2>6. ASSUME NEW n \in Nat, n < m + 1 PROVE h[n + 1] = F[h[n]]
    <3>1. CASE n = m
      BY <2>1, <2>3, <2>4, <3>1
    <3>2. CASE n < m
      <4>1. n \in 0 .. m /\ n + 1 \in 0 .. m
        BY <3>2
      <4> QED BY <2>3, <3>2, <4>1
    <3> QED BY <2>6, <3>1, <3>2
  <2> QED BY <2>2, <2>5, <2>6
<1> HIDE DEF T
<1>3. \A m \in Nat : m \in T
  BY <1>1, <1>2, Induction
<1> QED BY <1>3 DEF T, Iteration

-----------------------------------------------------------------------------
(* The layers of ReachAvoiding.                                             *)
Spread(succ, From, D, S) == (From \cup UNION {succ[b] : b \in S}) \ D

Layers(succ, From, D, m, g) ==
  g = [n \in 0 .. m |-> IF n = 0 THEN From \ D ELSE Spread(succ, From, D, g[n - 1])]

LEMMA LayersExist ==
  ASSUME NEW succ, NEW From, NEW D
  PROVE  \A m \in Nat : \E g : Layers(succ, From, D, m, g)
<1> DEFINE T == {m \in Nat : \E g : Layers(succ, From, D, m, g)}
<1>1. 0 \in T
  <2>1. Layers(succ, From, D, 0, [n \in 0 .. 0 |-> From \ D])
    BY DEF Layers
  <2> QED BY <2>1
<1>2. ASSUME NEW n \in Nat, n \in T PROVE n + 1 \in T
  <2> SUFFICES ASSUME NEW g, Layers(succ, From, D, n, g)
               PROVE  \E h : Layers(succ, From, D, n + 1, h)
    BY <1>2
  <2> DEFINE h == [k \in 0 .. n + 1 |-> IF k = n + 1 THEN Spread(succ, From, D, g[n]) ELSE g[k]]
  <2>1. \A k \in 0 .. n : g[k] = IF k = 0 THEN From \ D ELSE Spread(succ, From, D, g[k - 1])
    BY DEF Layers
  <2>2. \A k \in 0 .. n : h[k] = g[k]
    OBVIOUS
  <2>3. ASSUME NEW k \in 0 .. n + 1
        PROVE  h[k] = IF k = 0 THEN From \ D ELSE Spread(succ, From, D, h[k - 1])
    <3>1. CASE k = n + 1
      BY <2>2, <3>1
    <3>2. CASE k \in 0 .. n
      <4>1. k # 0 => k - 1 \in 0 .. n
        BY <3>2
      <4> QED BY <2>1, <2>2, <3>2, <4>1
    <3> QED BY <3>1, <3>2
  <2>4. Layers(succ, From, D, n + 1, h)
    BY <2>3 DEF Layers
  <2> QED BY <2>4
<1> HIDE DEF T
<1>3. \A m \in Nat : m \in T
  BY <1>1, <1>2, Induction
<1> QED BY <1>3 DEF T

LEMMA Unfold ==
  ASSUME NEW succ, NEW From, NEW D
  PROVE  \E g : Layers(succ, From, D, N, g) /\ ReachAvoiding(succ, From, D) = g[N]
<1> DEFINE g == CHOOSE h : Layers(succ, From, D, N, h)
<1>1. Layers(succ, From, D, N, g)
  BY LayersExist, BlocksAssumption
<1>2. ReachAvoiding(succ, From, D) = g[N]
  BY DEF ReachAvoiding, Layers, Spread
<1> QED BY <1>1, <1>2

LEMMA LayerSteps ==
  ASSUME NEW succ, NEW From, NEW D, NEW g, Layers(succ, From, D, N, g)
  PROVE  /\ g[0] = From \ D
         /\ \A n \in Nat : n < N => g[n + 1] = Spread(succ, From, D, g[n])
<1>1. g[0] = From \ D
  BY BlocksAssumption DEF Layers
<1>2. ASSUME NEW n \in Nat, n < N PROVE g[n + 1] = Spread(succ, From, D, g[n])
  <2>1. n + 1 \in 0 .. N /\ n + 1 # 0 /\ (n + 1) - 1 = n
    BY <1>2, BlocksAssumption
  <2> QED BY <2>1 DEF Layers
<1> QED BY <1>1, <1>2

(* Nothing is reached but what every closed set holds.                      *)
LEMMA ReachLeast ==
  ASSUME NEW succ, NEW From, NEW D, NEW T,
         From \ D \subseteq T, \A b \in T : succ[b] \ D \subseteq T
  PROVE  ReachAvoiding(succ, From, D) \subseteq T
<1>1. PICK g : Layers(succ, From, D, N, g) /\ ReachAvoiding(succ, From, D) = g[N]
  BY Unfold
<1>2. /\ g[0] = From \ D
      /\ \A n \in Nat : n < N => g[n + 1] = Spread(succ, From, D, g[n])
  BY <1>1, LayerSteps
<1> DEFINE I == {n \in Nat : n <= N => g[n] \subseteq T}
<1>3. 0 \in I
  BY <1>2
<1>4. ASSUME NEW n \in Nat, n \in I PROVE n + 1 \in I
  <2> SUFFICES ASSUME n + 1 <= N PROVE g[n + 1] \subseteq T
    OBVIOUS
  <2>1. n < N /\ n <= N
    BY BlocksAssumption
  <2>2. g[n + 1] = Spread(succ, From, D, g[n]) /\ g[n] \subseteq T
    BY <1>2, <1>4, <2>1
  <2> QED BY <2>2 DEF Spread
<1> HIDE DEF I
<1>5. N \in I
  BY <1>3, <1>4, Induction, BlocksAssumption
<1> QED BY <1>1, <1>5, BlocksAssumption DEF I

(* The layers grow, by a block at a time at least, until they are closed.    *)
LEMMA ReachClosed ==
  ASSUME NEW succ \in [Blocks -> SUBSET Blocks], NEW From \in SUBSET Blocks, NEW D
  PROVE  /\ ReachAvoiding(succ, From, D) \subseteq Blocks \ D
         /\ From \ D \subseteq ReachAvoiding(succ, From, D)
         /\ \A b \in ReachAvoiding(succ, From, D) :
              succ[b] \ D \subseteq ReachAvoiding(succ, From, D)
<1>1. PICK g : Layers(succ, From, D, N, g) /\ ReachAvoiding(succ, From, D) = g[N]
  BY Unfold
<1>2. /\ g[0] = From \ D
      /\ \A n \in Nat : n < N => g[n + 1] = Spread(succ, From, D, g[n])
  BY <1>1, LayerSteps
<1> DEFINE Sp(S) == Spread(succ, From, D, S)
<1>3. \A S \in SUBSET Blocks : Sp(S) \subseteq Blocks \ D
  BY DEF Spread
<1>4. \A S, T \in SUBSET Blocks : S \subseteq T => Sp(S) \subseteq Sp(T)
  BY DEF Spread
<1>5. IsFiniteSet(Blocks) /\ Cardinality(Blocks) = N
  BY FS_Interval, BlocksAssumption DEF Blocks
<1> DEFINE I == {n \in Nat : n <= N =>
                   /\ g[n] \subseteq Blocks \ D /\ From \ D \subseteq g[n]
                   /\ g[n] \subseteq Sp(g[n])
                   /\ g[n] = Sp(g[n]) \/ Cardinality(g[n]) >= n}
<1>6. 0 \in I
  <2>1. g[0] \subseteq Sp(g[0])
    BY <1>2 DEF Spread
  <2>2. IsFiniteSet(g[0])
    BY <1>2, <1>5, FS_Subset
  <2>3. Cardinality(g[0]) >= 0
    BY <2>2, FS_CardinalityType
  <2>4. g[0] \subseteq Blocks \ D /\ From \ D \subseteq g[0]
    BY <1>2
  <2> HIDE DEF Sp
  <2> QED BY <2>1, <2>3, <2>4
<1>7. ASSUME NEW n \in Nat, n \in I PROVE n + 1 \in I
  <2> SUFFICES ASSUME n + 1 <= N
               PROVE  /\ g[n + 1] \subseteq Blocks \ D /\ From \ D \subseteq g[n + 1]
                      /\ g[n + 1] \subseteq Sp(g[n + 1])
                      /\ g[n + 1] = Sp(g[n + 1]) \/ Cardinality(g[n + 1]) >= n + 1
    OBVIOUS
  <2>1. n < N /\ n <= N
    BY BlocksAssumption
  <2>2. g[n + 1] = Sp(g[n])
    BY <1>2, <2>1
  <2>3. /\ g[n] \subseteq Blocks \ D /\ From \ D \subseteq g[n] /\ g[n] \subseteq Sp(g[n])
        /\ g[n] = Sp(g[n]) \/ Cardinality(g[n]) >= n
    BY <1>7, <2>1
  <2> HIDE DEF Sp, I
  <2>4. g[n + 1] \subseteq Blocks \ D
    BY <1>3, <2>2, <2>3
  <2>5. From \ D \subseteq g[n + 1] /\ g[n] \subseteq g[n + 1]
    BY <2>2, <2>3
  <2>6. Sp(g[n]) \subseteq Sp(g[n + 1])
    BY <1>4, <2>3, <2>4, <2>5
  <2>7. ASSUME g[n + 1] # Sp(g[n + 1]) PROVE Cardinality(g[n + 1]) >= n + 1
    <3>1. g[n] # g[n + 1] /\ g[n] # Sp(g[n])
      BY <2>2, <2>7
    <3>2. IsFiniteSet(g[n + 1])
      BY <1>5, <2>4, FS_Subset
    <3>3. /\ IsFiniteSet(g[n]) /\ Cardinality(g[n]) < Cardinality(g[n + 1])
          /\ Cardinality(g[n]) \in Nat /\ Cardinality(g[n + 1]) \in Nat
      BY <2>5, <3>1, <3>2, FS_Subset, FS_CardinalityType
    <3>4. Cardinality(g[n]) >= n
      BY <2>3, <3>1
    <3> QED BY <3>3, <3>4
  <2> QED BY <2>2, <2>4, <2>5, <2>6, <2>7
<1> HIDE DEF I
<1>8. N \in I
  BY <1>6, <1>7, Induction, BlocksAssumption
<1>9. /\ g[N] \subseteq Blocks \ D /\ From \ D \subseteq g[N]
      /\ g[N] \subseteq Sp(g[N]) /\ (g[N] = Sp(g[N]) \/ Cardinality(g[N]) >= N)
  BY <1>8, BlocksAssumption DEF I
<1>10. g[N] = Sp(g[N])
  <2>1. CASE Cardinality(g[N]) >= N
    <3>1. g[N] \subseteq Blocks
      BY <1>9
    <3>2. Cardinality(g[N]) <= N /\ Cardinality(g[N]) \in Nat
      BY <1>5, <3>1, FS_Subset, FS_CardinalityType
    <3>3. Cardinality(g[N]) = Cardinality(Blocks)
      BY <1>5, <2>1, <3>2, BlocksAssumption
    <3>4. g[N] = Blocks
      BY <1>5, <3>1, <3>3, FS_Subset
    <3>5. Sp(g[N]) \subseteq Blocks
      BY <1>3, <3>1
    <3> QED BY <1>9, <3>4, <3>5
  <2> QED BY <1>9, <2>1
<1>11. \A b \in g[N] : succ[b] \ D \subseteq Sp(g[N])
  BY DEF Spread
<1> QED BY <1>1, <1>9, <1>10, <1>11

-----------------------------------------------------------------------------
(* Dominance from any set of blocks that execution may start in: Dominates   *)
(* starts at the entry, DomSetOf at the roots.                               *)
DomFrom(succ, From, d, b) == b \notin ReachAvoiding(succ, From, {d})

LEMMA DomReflexive ==
  ASSUME NEW succ \in [Blocks -> SUBSET Blocks], NEW From \in SUBSET Blocks, NEW b
  PROVE  DomFrom(succ, From, b, b)
BY ReachClosed DEF DomFrom

(* A dominator of a block dominates its predecessors.                        *)
LEMMA DomOfPred ==
  ASSUME NEW succ \in [Blocks -> SUBSET Blocks], NEW From \in SUBSET Blocks,
         NEW p \in Blocks, NEW b \in succ[p], NEW d, d # b, DomFrom(succ, From, d, b)
  PROVE  DomFrom(succ, From, d, p)
BY ReachClosed DEF DomFrom

LEMMA DomOfStart ==
  ASSUME NEW succ \in [Blocks -> SUBSET Blocks], NEW From \in SUBSET Blocks,
         NEW b \in From, NEW d, DomFrom(succ, From, d, b)
  PROVE  d = b
BY ReachClosed DEF DomFrom

(* What dominates every predecessor dominates the block.                     *)
LEMMA DomFromPreds ==
  ASSUME NEW succ \in [Blocks -> SUBSET Blocks], NEW From \in SUBSET Blocks,
         NEW b \in Blocks \ From, NEW d,
         \A p \in Preds(succ, b) : DomFrom(succ, From, d, p)
  PROVE  DomFrom(succ, From, d, b)
<1> DEFINE R == ReachAvoiding(succ, From, {d})
<1>1. /\ From \ {d} \subseteq R /\ R \subseteq Blocks
      /\ \A x \in R : succ[x] \ {d} \subseteq R
  BY ReachClosed
<1>2. \A x \in R : b \notin succ[x]
  BY <1>1 DEF DomFrom, Preds
<1> DEFINE T == R \ {b}
<1>3. From \ {d} \subseteq T /\ \A x \in T : succ[x] \ {d} \subseteq T
  BY <1>1, <1>2
<1> HIDE DEF R, T
<1>4. ReachAvoiding(succ, From, {d}) \subseteq T
  BY <1>3, ReachLeast
<1>5. b \notin T
  BY DEF T
<1> QED BY <1>4, <1>5 DEF DomFrom

LEMMA DomTransitive ==
  ASSUME NEW succ \in [Blocks -> SUBSET Blocks], NEW From \in SUBSET Blocks,
         NEW a, NEW b, NEW c, DomFrom(succ, From, a, b), DomFrom(succ, From, b, c)
  PROVE  DomFrom(succ, From, a, c)
<1> DEFINE Ra == ReachAvoiding(succ, From, {a})
           Rb == ReachAvoiding(succ, From, {b})
<1>1. /\ From \ {a} \subseteq Ra /\ \A x \in Ra : succ[x] \ {a} \subseteq Ra
      /\ From \ {b} \subseteq Rb /\ \A x \in Rb : succ[x] \ {b} \subseteq Rb
  BY ReachClosed
<1>2. b \notin Ra /\ c \notin Rb
  BY DEF DomFrom
<1>3. From \ {a} \subseteq Ra \cap Rb
  BY <1>1, <1>2
<1>4. \A x \in Ra \cap Rb : succ[x] \ {a} \subseteq Ra \cap Rb
  BY <1>1, <1>2
<1> HIDE DEF Ra, Rb
<1>5. ReachAvoiding(succ, From, {a}) \subseteq Ra \cap Rb
  BY <1>3, <1>4, ReachLeast
<1> QED BY <1>2, <1>5 DEF DomFrom

LEMMA DomAntisymmetric ==
  ASSUME NEW succ \in [Blocks -> SUBSET Blocks], NEW From \in SUBSET Blocks,
         NEW a, NEW b \in ReachAvoiding(succ, From, {}),
         DomFrom(succ, From, a, b), DomFrom(succ, From, b, a)
  PROVE  a = b
<1> DEFINE Ra == ReachAvoiding(succ, From, {a})
           Rb == ReachAvoiding(succ, From, {b})
<1> SUFFICES ASSUME a # b PROVE FALSE
  OBVIOUS
<1>1. /\ From \ {a} \subseteq Ra /\ \A x \in Ra : succ[x] \ {a} \subseteq Ra
      /\ From \ {b} \subseteq Rb /\ \A x \in Rb : succ[x] \ {b} \subseteq Rb
  BY ReachClosed
<1>2. b \notin Ra /\ a \notin Rb
  BY DEF DomFrom
<1>3. From \ {} \subseteq Ra \cap Rb
  BY <1>1, <1>2
<1>4. \A x \in Ra \cap Rb : succ[x] \ {} \subseteq Ra \cap Rb
  BY <1>1, <1>2
<1> HIDE DEF Ra, Rb
<1>5. ReachAvoiding(succ, From, {}) \subseteq Ra \cap Rb
  BY <1>3, <1>4, ReachLeast
<1> QED BY <1>2, <1>5

(* The dominators of a block form a chain.                                   *)
LEMMA DomChain ==
  ASSUME NEW succ \in [Blocks -> SUBSET Blocks], NEW From \in SUBSET Blocks,
         NEW a, NEW c, NEW b \in ReachAvoiding(succ, From, {}),
         DomFrom(succ, From, a, b), DomFrom(succ, From, c, b)
  PROVE  DomFrom(succ, From, a, c) \/ DomFrom(succ, From, c, a)
<1> DEFINE Ra == ReachAvoiding(succ, From, {a})
           Rc == ReachAvoiding(succ, From, {c})
<1> SUFFICES ASSUME c \in Ra, a \in Rc PROVE FALSE
  BY DEF DomFrom
<1>1. /\ From \ {a} \subseteq Ra /\ \A x \in Ra : succ[x] \ {a} \subseteq Ra
      /\ From \ {c} \subseteq Rc /\ \A x \in Rc : succ[x] \ {c} \subseteq Rc
  BY ReachClosed
<1>2. b \notin Ra /\ b \notin Rc
  BY DEF DomFrom
<1>3. From \ {} \subseteq Ra \cup Rc
  BY <1>1
<1>4. \A x \in Ra \cup Rc : succ[x] \ {} \subseteq Ra \cup Rc
  BY <1>1
<1> HIDE DEF Ra, Rc
<1>5. ReachAvoiding(succ, From, {}) \subseteq Ra \cup Rc
  BY <1>3, <1>4, ReachLeast
<1> QED BY <1>2, <1>5

(* ... so that one of the strict dominators is the closest: the one that has
   the fewest blocks that do not dominate it.                                *)
LEMMA ClosestExists ==
  ASSUME NEW succ \in [Blocks -> SUBSET Blocks], NEW From \in SUBSET Blocks,
         NEW b \in ReachAvoiding(succ, From, {}), NEW S \in SUBSET Blocks, S # {},
         \A d \in S : DomFrom(succ, From, d, b)
  PROVE  \E d \in S : \A e \in S : DomFrom(succ, From, e, d)
<1> DEFINE Not(d) == {x \in Blocks : ~DomFrom(succ, From, x, d)}
           T == {Cardinality(Not(d)) : d \in S}
<1>1. IsFiniteSet(Blocks)
  BY FS_Interval, BlocksAssumption DEF Blocks
<1>2. \A d : IsFiniteSet(Not(d)) /\ Cardinality(Not(d)) \in Nat
  <2> SUFFICES ASSUME NEW d PROVE IsFiniteSet(Not(d)) /\ Cardinality(Not(d)) \in Nat
    OBVIOUS
  <2>1. Not(d) \subseteq Blocks
    OBVIOUS
  <2> HIDE DEF Not
  <2> QED BY <1>1, <2>1, FS_Subset, FS_CardinalityType
<1>3. T \in SUBSET Nat /\ T # {}
  <2> HIDE DEF Not
  <2> QED BY <1>2
<1>4. PICK m \in T : \A k \in T : m <= k
  BY <1>3, LeastElement
<1>5. PICK d \in S : m = Cardinality(Not(d))
  BY <1>4
<1>6. ASSUME NEW e \in S, ~DomFrom(succ, From, e, d) PROVE FALSE
  <2>1. DomFrom(succ, From, d, e)
    BY <1>6, DomChain
  <2>2. Not(e) \subseteq Not(d)
    BY <2>1, DomTransitive
  <2>3. e \in Not(d) /\ e \notin Not(e)
    BY <1>6, DomReflexive
  <2> HIDE DEF Not
  <2>4. Cardinality(Not(e)) < Cardinality(Not(d))
    BY <1>2, <2>2, <2>3, FS_Subset
  <2>5. Cardinality(Not(d)) <= Cardinality(Not(e))
    BY <1>4, <1>5
  <2> QED BY <1>2, <2>4, <2>5
<1> QED BY <1>6

(* One of the blocks between is the farthest, that dominates the others: the
   one that the fewest blocks dominate.                                      *)
LEMMA FarthestExists ==
  ASSUME NEW succ \in [Blocks -> SUBSET Blocks], NEW From \in SUBSET Blocks,
         NEW b \in ReachAvoiding(succ, From, {}), NEW S \in SUBSET Blocks, S # {},
         \A d \in S : DomFrom(succ, From, d, b) /\ d \in ReachAvoiding(succ, From, {})
  PROVE  \E d \in S : \A e \in S : DomFrom(succ, From, d, e)
<1> DEFINE Of(d) == {x \in Blocks : DomFrom(succ, From, x, d)}
           T == {Cardinality(Of(d)) : d \in S}
<1>1. IsFiniteSet(Blocks)
  BY FS_Interval, BlocksAssumption DEF Blocks
<1>2. \A d : IsFiniteSet(Of(d)) /\ Cardinality(Of(d)) \in Nat
  <2> SUFFICES ASSUME NEW d PROVE IsFiniteSet(Of(d)) /\ Cardinality(Of(d)) \in Nat
    OBVIOUS
  <2>1. Of(d) \subseteq Blocks
    OBVIOUS
  <2> HIDE DEF Of
  <2> QED BY <1>1, <2>1, FS_Subset, FS_CardinalityType
<1>3. T \in SUBSET Nat /\ T # {}
  <2> HIDE DEF Of
  <2> QED BY <1>2
<1>4. PICK m \in T : \A k \in T : m <= k
  BY <1>3, LeastElement
<1>5. PICK d \in S : m = Cardinality(Of(d))
  BY <1>4
<1>6. ASSUME NEW e \in S, ~DomFrom(succ, From, d, e) PROVE FALSE
  <2>1. DomFrom(succ, From, e, d)
    BY <1>6, DomChain
  <2>2. Of(e) \subseteq Of(d)
    BY <2>1, DomTransitive
  <2>3. d \in Of(d) /\ d \notin Of(e)
    BY <1>6, DomReflexive
  <2> HIDE DEF Of
  <2>4. Cardinality(Of(e)) < Cardinality(Of(d))
    BY <1>2, <2>2, <2>3, FS_Subset
  <2>5. Cardinality(Of(d)) <= Cardinality(Of(e))
    BY <1>4, <1>5
  <2> QED BY <1>2, <2>4, <2>5
<1> QED BY <1>6

-----------------------------------------------------------------------------
(* The graphs that CFGBuilder builds.                                        *)
LEMMA EntryIsBlock == Entry \in Blocks
BY BlocksAssumption DEF Blocks, Entry

(* CFGBuilder only links blocks of the function.                            *)
LEMMA GraphType ==
  ASSUME NEW term \in [Blocks -> Terminators]
  PROVE  Graph(term) \in [Blocks -> SUBSET Blocks]
<1> SUFFICES ASSUME NEW b \in Blocks
             PROVE  Successors(term, b) \subseteq Blocks
  BY DEF Graph
<1>1. term[b] \in Terminators
  OBVIOUS
<1>2. CASE term[b].falls
  BY <1>2 DEF Successors
<1>3. CASE ~term[b].falls
  <2> DEFINE Falls == [falls |-> TRUE, targets |-> {}]
             Jumps == [falls : {FALSE}, targets : {T \in SUBSET Blocks : Cardinality(T) <= 2}]
  <2>1. term[b] = Falls \/ term[b] \in Jumps
    BY <1>1 DEF Terminators
  <2>2. term[b] # Falls
    BY <1>3
  <2>3. \A t \in Jumps : t.targets \subseteq Blocks
    OBVIOUS
  <2> HIDE DEF Falls, Jumps
  <2> QED
    BY <2>1, <2>2, <2>3, <1>3 DEF Successors
<1> QED
  BY <1>2, <1>3

(* When every block is reachable, the entry is the only root.                *)
LEMMA OneRoot ==
  ASSUME NEW graph \in [Blocks -> SUBSET Blocks], AllReachable(graph)
  PROVE  Roots(graph) = {Entry} /\ Rooted(graph)
<1>1. ASSUME NEW b \in Blocks, b # Entry, Preds(graph, b) = {} PROVE FALSE
  <2> DEFINE T == Blocks \ {b}
  <2>1. {Entry} \ {} \subseteq T
    BY <1>1, EntryIsBlock
  <2>2. \A x \in T : graph[x] \ {} \subseteq T
    BY <1>1 DEF Preds
  <2>3. b \notin T
    OBVIOUS
  <2> HIDE DEF T
  <2>4. ReachAvoiding(graph, {Entry}, {}) \subseteq T
    BY <2>1, <2>2, ReachLeast
  <2> QED BY <2>3, <2>4 DEF AllReachable, Reachable
<1>2. Roots(graph) = {Entry}
  BY <1>1 DEF Roots
<1> QED BY <1>2 DEF AllReachable, Reachable, Rooted

(* With every block reachable and the entry a target of nothing, a block is in
   the dominance frontier only if it is a join: a block with one predecessor
   is dominated by what dominates that one.                                  *)
LEMMA TwoPreds ==
  ASSUME NEW graph \in [Blocks -> SUBSET Blocks], NEW b \in Blocks \ Joins(graph),
         NEW p \in Preds(graph, b)
  PROVE  Preds(graph, b) = {p}
<1> DEFINE P == Preds(graph, b)
<1>1. IsFiniteSet(P)
  <2>1. IsFiniteSet(Blocks)
    BY FS_Interval, BlocksAssumption DEF Blocks
  <2> QED BY <2>1, FS_Subset DEF Preds
<1>2. Cardinality(P) < 2 /\ Cardinality(P) \in Nat
  BY <1>1, FS_CardinalityType DEF Joins
<1> SUFFICES ASSUME NEW q \in P, q # p PROVE FALSE
  OBVIOUS
<1> HIDE DEF P
<1>3. IsFiniteSet({p}) /\ Cardinality({p}) = 1
  BY FS_Singleton
<1>4. Cardinality({p} \cup {q}) = 2
  <2>1. q \notin {p}
    OBVIOUS
  <2>2. Cardinality({p} \cup {q}) = Cardinality({p}) + 1
    BY <1>3, <2>1, FS_AddElement
  <2> QED BY <1>3, <2>2
<1>5. {p} \cup {q} \subseteq P
  BY DEF P
<1> QED BY <1>1, <1>2, <1>4, <1>5, FS_Subset

LEMMA FrontiersAgree ==
  ASSUME NEW graph \in [Blocks -> SUBSET Blocks], AllReachable(graph), Preds(graph, Entry) = {},
         NEW x \in Blocks
  PROVE  JoinFrontierOf(graph, x) = FrontierOf(graph, x)
<1>1. Roots(graph) = {Entry} /\ {Entry} \in SUBSET Blocks
  BY OneRoot, EntryIsBlock
<1>2. \A b \in Blocks : x \in DomSetOf(graph, b) <=> Dominates(graph, x, b)
  BY <1>1 DEF DomSetOf, Dominates
<1>3. ASSUME NEW b \in JoinFrontierOf(graph, x) PROVE b \in FrontierOf(graph, x)
  <2>1. /\ b \in Blocks /\ \E p \in Preds(graph, b) : x \in DomSetOf(graph, p)
        /\ x \notin DomSetOf(graph, b) \ {b}
    BY DEF JoinFrontierOf, Joins
  <2>2. \A p \in Preds(graph, b) : p \in Blocks
    BY DEF Preds
  <2>3. ~StrictlyDominates(graph, x, b)
    BY <1>2, <2>1 DEF StrictlyDominates
  <2> QED BY <1>2, <2>1, <2>2, <2>3 DEF FrontierOf
<1>4. ASSUME NEW b \in FrontierOf(graph, x) PROVE b \in JoinFrontierOf(graph, x)
  <2>1. b \in Blocks /\ ~StrictlyDominates(graph, x, b)
    BY DEF FrontierOf
  <2>2. PICK p \in Preds(graph, b) : Dominates(graph, x, p)
    BY DEF FrontierOf
  <2>3. p \in Blocks /\ b # Entry /\ b \in graph[p]
    BY <2>2 DEF Preds
  <2>4. b \in Joins(graph)
    <3> SUFFICES ASSUME b \notin Joins(graph) PROVE FALSE
      OBVIOUS
    <3>1. Preds(graph, b) = {p}
      BY <2>1, <2>2, TwoPreds
    <3>2. \A d : DomFrom(graph, {Entry}, d, p) => DomFrom(graph, {Entry}, d, b)
      BY <1>1, <2>1, <2>3, <3>1, DomFromPreds
    <3>3. DomFrom(graph, {Entry}, x, p) /\ DomFrom(graph, {Entry}, p, p)
      BY <1>1, <2>2, DomReflexive DEF Dominates, DomFrom
    <3>4. x = b
      BY <2>1, <3>2, <3>3 DEF StrictlyDominates, Dominates, DomFrom
    <3>5. b = p
      <4>1. b \in ReachAvoiding(graph, {Entry}, {})
        BY <2>1 DEF AllReachable, Reachable
      <4> QED BY <1>1, <3>2, <3>3, <3>4, <4>1, DomAntisymmetric
    <3> DEFINE T == Blocks \ {b}
    <3>6. {Entry} \ {} \subseteq T /\ \A y \in T : graph[y] \ {} \subseteq T
      BY <1>1, <2>3, <3>1, <3>5 DEF Preds
    <3>7. b \notin T
      OBVIOUS
    <3> HIDE DEF T
    <3>8. ReachAvoiding(graph, {Entry}, {}) \subseteq T
      BY <3>6, ReachLeast
    <3> QED BY <2>1, <3>7, <3>8 DEF AllReachable, Reachable
  <2>5. x \in DomSetOf(graph, p)
    BY <1>2, <2>2, <2>3
  <2>6. x \notin DomSetOf(graph, b) \ {b}
    BY <1>2, <2>1 DEF StrictlyDominates
  <2> QED BY <2>2, <2>4, <2>5, <2>6 DEF JoinFrontierOf
<1>5. JoinFrontierOf(graph, x) \subseteq FrontierOf(graph, x) /\ FrontierOf(graph, x) \subseteq JoinFrontierOf(graph, x)
  BY <1>3, <1>4
<1> QED BY <1>5

-----------------------------------------------------------------------------
(* Paths and dominators in the list of blocks, the entry first.              *)
LEMMA EntryFirst == Entry \in Blocks /\ 0 \notin Blocks /\ Blocks \in SUBSET Nat
BY BlocksAssumption DEF Entry, Blocks

(* A dominator of a block that is reached is reached.                         *)
LEMMA DominatorReached ==
  ASSUME NEW succ \in [Blocks -> SUBSET Blocks], NEW b \in Reachable(succ),
         NEW s, Dominates(succ, s, b)
  PROVE  s \in Reachable(succ)
<1> DEFINE A == ReachAvoiding(succ, {Entry}, {s})
           R == Reachable(succ)
<1>1. {Entry} \in SUBSET Blocks
  BY EntryFirst
<1>2. {Entry} \ {s} \subseteq A /\ \A x \in A : succ[x] \ {s} \subseteq A
  BY <1>1, ReachClosed
<1>3. {Entry} \ {} \subseteq R /\ \A x \in R : succ[x] \ {} \subseteq R
  BY <1>1, ReachClosed DEF Reachable
<1>4. b \notin A
  BY DEF Dominates
<1> SUFFICES ASSUME s \notin R PROVE FALSE
  OBVIOUS
<1> DEFINE T == A \cap R
<1> HIDE DEF A, R
<1>5. {Entry} \ {} \subseteq T /\ \A x \in T : succ[x] \ {} \subseteq T
  BY <1>2, <1>3
<1> HIDE DEF T
<1>6. R \subseteq T
  BY <1>5, ReachLeast DEF Reachable, R
<1> QED BY <1>4, <1>6 DEF T, R

(* With fewer edges less is reached, and from further away.                   *)
LEMMA ThinnerReach ==
  ASSUME NEW succ \in [Blocks -> SUBSET Blocks], NEW less \in [Blocks -> SUBSET Blocks],
         \A b \in Blocks : less[b] \subseteq succ[b], NEW D
  PROVE  ReachAvoiding(less, {Entry}, D) \subseteq ReachAvoiding(succ, {Entry}, D)
<1> DEFINE T == ReachAvoiding(succ, {Entry}, D)
<1>1. {Entry} \in SUBSET Blocks
  BY EntryFirst
<1>2. T \subseteq Blocks \ D /\ {Entry} \ D \subseteq T /\ \A x \in T : succ[x] \ D \subseteq T
  BY <1>1, ReachClosed
<1>3. \A x \in T : less[x] \ D \subseteq T
  BY <1>2
<1> HIDE DEF T
<1>4. ReachAvoiding(less, {Entry}, D) \subseteq T
  BY <1>2, <1>3, ReachLeast
<1> QED BY <1>4 DEF T

(* A set of blocks that begins empty and is only added to has come
   to rest after N additions.                                                 *)
LEMMA GrowthEnds ==
  ASSUME NEW F \in [SUBSET Blocks -> SUBSET Blocks],
         \A S, T \in SUBSET Blocks : S \subseteq T => F[S] \subseteq F[T],
         NEW g, g[0] = {}, \A n \in Nat : n < N => g[n + 1] = F[g[n]]
  PROVE  g[N] = F[g[N]]
<1>1. IsFiniteSet(Blocks) /\ Cardinality(Blocks) = N
  BY FS_Interval, BlocksAssumption DEF Blocks
<1> DEFINE I == {n \in Nat : n <= N =>
                   /\ g[n] \subseteq Blocks /\ g[n] \subseteq F[g[n]]
                   /\ g[n] = F[g[n]] \/ Cardinality(g[n]) >= n}
<1>2. 0 \in I
  <2>1. Cardinality(g[0]) = 0
    BY FS_EmptySet
  <2>2. Cardinality(g[0]) >= 0
    BY <2>1
  <2>3. g[0] \subseteq Blocks /\ g[0] \subseteq F[g[0]]
    OBVIOUS
  <2> QED BY <2>2, <2>3
<1>3. ASSUME NEW n \in Nat, n \in I PROVE n + 1 \in I
  <2> SUFFICES ASSUME n + 1 <= N
               PROVE  /\ g[n + 1] \subseteq Blocks /\ g[n + 1] \subseteq F[g[n + 1]]
                      /\ g[n + 1] = F[g[n + 1]] \/ Cardinality(g[n + 1]) >= n + 1
    OBVIOUS
  <2>1. n < N /\ n <= N
    BY BlocksAssumption
  <2>2. g[n + 1] = F[g[n]]
    BY <2>1
  <2>3. /\ g[n] \in SUBSET Blocks /\ g[n] \subseteq F[g[n]]
        /\ g[n] = F[g[n]] \/ Cardinality(g[n]) >= n
    BY <1>3, <2>1
  <2> HIDE DEF I
  <2>4. g[n + 1] \in SUBSET Blocks /\ g[n] \subseteq g[n + 1]
    BY <2>2, <2>3
  <2>5. F[g[n]] \subseteq F[g[n + 1]]
    BY <2>3, <2>4
  <2>6. ASSUME g[n + 1] # F[g[n + 1]] PROVE Cardinality(g[n + 1]) >= n + 1
    <3>1. g[n] # g[n + 1] /\ g[n] # F[g[n]]
      BY <2>2, <2>6
    <3>2. IsFiniteSet(g[n + 1])
      BY <1>1, <2>4, FS_Subset
    <3>3. /\ IsFiniteSet(g[n]) /\ Cardinality(g[n]) < Cardinality(g[n + 1])
          /\ Cardinality(g[n]) \in Nat /\ Cardinality(g[n + 1]) \in Nat
      BY <2>4, <3>1, <3>2, FS_Subset, FS_CardinalityType
    <3>4. Cardinality(g[n]) >= n
      BY <2>3, <3>1
    <3> QED BY <3>3, <3>4
  <2> QED BY <2>2, <2>4, <2>5, <2>6
<1> HIDE DEF I
<1>4. N \in I
  BY <1>2, <1>3, Induction, BlocksAssumption
<1>5. /\ g[N] \in SUBSET Blocks /\ g[N] \subseteq F[g[N]]
      /\ g[N] = F[g[N]] \/ Cardinality(g[N]) >= N
  BY <1>4, BlocksAssumption DEF I
<1>6. CASE Cardinality(g[N]) >= N
  <2>1. Cardinality(g[N]) <= N /\ Cardinality(g[N]) \in Nat
    BY <1>1, <1>5, FS_Subset, FS_CardinalityType
  <2>2. Cardinality(g[N]) = Cardinality(Blocks)
    BY <1>1, <1>6, <2>1, BlocksAssumption
  <2>3. g[N] = Blocks
    BY <1>1, <1>5, <2>2, FS_Subset
  <2>4. F[g[N]] \subseteq Blocks
    BY <1>5
  <2> QED BY <1>5, <2>3, <2>4
<1> QED BY <1>5, <1>6

(* A set of blocks begins empty, and round by round those are added, clear of D,
   that are in U or lead to one that is in the set. *)
Backward(succ, L, D, U, F, g) ==
  /\ succ \in [Blocks -> SUBSET Blocks] /\ L \in SUBSET Blocks /\ U \in SUBSET L
  /\ \A c \in L : succ[c] \subseteq L
  /\ F \in [SUBSET Blocks -> SUBSET Blocks]
  /\ \A S \in SUBSET Blocks : F[S] = {c \in L : c \notin D /\ (c \in U \/ succ[c] \cap S # {})}
  /\ g[0] = {} /\ \A n \in Nat : n < N => g[n + 1] = F[g[n]]

(* After N rounds it has all blocks from which a path that keeps clear of D comes to U. *)
LEMMA BackwardEnds ==
  ASSUME NEW succ, NEW L, NEW D, NEW U, NEW F, NEW g, Backward(succ, L, D, U, F, g), NEW b \in L
  PROVE  b \in g[N] <=> b \notin D /\ ReachAvoiding(succ, {b}, D) \cap U # {}
<1> DEFINE Q(c) == ReachAvoiding(succ, {c}, D)
           T == {c \in L : c \notin D /\ Q(c) \cap U # {}}
<1>1. /\ succ \in [Blocks -> SUBSET Blocks] /\ L \in SUBSET Blocks /\ U \in SUBSET L
      /\ L \subseteq Blocks /\ b \in Blocks
      /\ \A c \in Blocks : succ[c] \in SUBSET Blocks
  BY DEF Backward
<1>2. g[0] = {} /\ \A n \in Nat : n < N => g[n + 1] = F[g[n]]
  BY DEF Backward
<1>3. (\A c \in L : succ[c] \subseteq L) /\ F \in [SUBSET Blocks -> SUBSET Blocks]
  BY DEF Backward
<1>5. \A S \in SUBSET Blocks : \A c : c \in F[S] <=> c \in L /\ c \notin D /\ (c \in U \/ succ[c] \cap S # {})
  BY DEF Backward
<1>7. ASSUME NEW c \in Blocks
      PROVE  Q(c) \subseteq Blocks \ D /\ {c} \ D \subseteq Q(c) /\ \A x \in Q(c) : succ[x] \ D \subseteq Q(c)
  <2>1. {c} \in SUBSET Blocks
    OBVIOUS
  <2> QED BY <1>1, <2>1, ReachClosed
<1>8. U \subseteq L /\ T \subseteq L
  BY <1>1
<1>9. \A c \in L : c \in T <=> c \notin D /\ Q(c) \cap U # {}
  OBVIOUS
<1> HIDE DEF T
<1>10. \A S, W \in SUBSET Blocks : S \subseteq W => F[S] \subseteq F[W]
  BY <1>5
<1>11. F[T] \subseteq T
  <2> SUFFICES ASSUME NEW c \in F[T] PROVE c \in T
    OBVIOUS
  <2>1. c \in L /\ c \in Blocks /\ c \notin D /\ (c \in U \/ succ[c] \cap T # {})
    BY <1>1, <1>5, <1>8
  <2>2. c \in Q(c)
    BY <1>7, <2>1
  <2>3. ASSUME NEW s \in succ[c] \cap T PROVE Q(s) \subseteq Q(c)
    <3>1. s \in Blocks /\ s \notin D
      BY <1>1, <1>8, <1>9, <2>3
    <3>2. s \in Q(c) /\ \A x \in Q(c) : succ[x] \ D \subseteq Q(c)
      BY <1>7, <2>1, <2>2, <3>1
    <3>3. {s} \ D \subseteq Q(c)
      BY <3>2
    <3>4. PICK K : K = Q(c)
      OBVIOUS
    <3>5. {s} \ D \subseteq K /\ \A x \in K : succ[x] \ D \subseteq K
      BY <3>2, <3>3, <3>4
    <3>6. ReachAvoiding(succ, {s}, D) \subseteq K
      BY <1>1, <3>5, ReachLeast
    <3> QED BY <3>4, <3>6
  <2>4. CASE c \in U
    BY <1>9, <2>1, <2>2, <2>4
  <2>5. ASSUME NEW s \in succ[c] \cap T PROVE Q(c) \cap U # {}
    <3>1. Q(s) \cap U # {}
      BY <1>8, <1>9, <2>5
    <3>2. Q(s) \subseteq Q(c)
      BY <2>3, <2>5
    <3> QED BY <3>1, <3>2
  <2> QED BY <1>9, <2>1, <2>4, <2>5
<1> DEFINE I == {n \in Nat : n <= N => g[n] \subseteq T /\ g[n] \subseteq Blocks}
<1>12. 0 \in I
  BY <1>2
<1>13. ASSUME NEW n \in Nat, n \in I PROVE n + 1 \in I
  <2> SUFFICES ASSUME n + 1 <= N PROVE g[n + 1] \subseteq T /\ g[n + 1] \subseteq Blocks
    OBVIOUS
  <2>1. n < N /\ g[n] \subseteq T /\ g[n] \subseteq Blocks
    BY <1>13, BlocksAssumption
  <2>2. g[n + 1] = F[g[n]]
    BY <1>2, <2>1
  <2>3. F[g[n]] \subseteq F[T] /\ T \subseteq Blocks
    BY <1>1, <1>8, <1>10, <2>1
  <2> QED BY <1>2, <1>11, <2>2, <2>3
<1> HIDE DEF I
<1>14. N \in I
  BY <1>12, <1>13, Induction, BlocksAssumption
<1>15. g[N] \subseteq T /\ g[N] \subseteq Blocks
  BY <1>14, BlocksAssumption DEF I
<1>16. g[N] = F[g[N]]
  BY <1>2, <1>3, <1>10, GrowthEnds
<1>17. ASSUME b \in T PROVE b \in g[N]
  <2> SUFFICES ASSUME b \notin g[N] PROVE FALSE
    OBVIOUS
  <2> DEFINE Z == (Blocks \ g[N]) \ D
  <2>1. b \in Blocks /\ b \notin D
    BY <1>1, <1>9, <1>17
  <2>2. {b} \ D \subseteq Z
    BY <2>1
  <2>3. ASSUME NEW x \in Z \cap L PROVE succ[x] \ D \subseteq Z \cap L
    <3>1. x \notin F[g[N]] /\ x \in L /\ x \notin D
      BY <1>16, <2>3
    <3>2. succ[x] \cap g[N] = {} /\ succ[x] \subseteq L
      BY <1>3, <1>5, <1>15, <3>1
    <3> QED BY <1>1, <3>2
  <2>4. {b} \ D \subseteq Z \cap L
    BY <2>2
  <2>5. Q(b) \subseteq Z \cap L
    <3>1. PICK K : K = Z \cap L
      OBVIOUS
    <3>2. {b} \ D \subseteq K /\ \A x \in K : succ[x] \ D \subseteq K
      BY <2>3, <2>4, <3>1
    <3>3. ReachAvoiding(succ, {b}, D) \subseteq K
      BY <1>1, <3>2, ReachLeast
    <3> QED BY <3>1, <3>3
  <2>6. PICK u \in U : u \in Q(b)
    BY <1>9, <1>17
  <2>7. u \in L /\ u \notin D /\ u \notin g[N]
    BY <2>5, <2>6
  <2> QED BY <1>5, <1>15, <1>16, <2>6, <2>7
<1> QED BY <1>9, <1>15, <1>17

(* The block that s is in afterwards. *)
Host(b, s, d) == IF d = s THEN b ELSE d

(* s has b for its only predecessor and is appended to it. *)
Appended(succ, less, b, s) ==
  /\ b \in Blocks /\ s \in Blocks \ {b, Entry}
  /\ succ[b] = {s} /\ less[b] = succ[s]
  /\ \A x \in Blocks : s \notin less[x]
  /\ \A x \in Blocks \ {b, s} : less[x] = succ[x]
  /\ \A x \in Blocks : x # b => s \notin succ[x]

LEMMA AppendedDominates ==
  ASSUME NEW succ \in [Blocks -> SUBSET Blocks], NEW less \in [Blocks -> SUBSET Blocks],
         NEW b, NEW s, Appended(succ, less, b, s),
         NEW d, NEW y, Dominates(succ, d, y)
  PROVE  Dominates(less, Host(b, s, d), Host(b, s, y))
<1>1. PICK hd, hy : hd = Host(b, s, d) /\ hy = Host(b, s, y)
  OBVIOUS
<1>0. {Entry} \in SUBSET Blocks
  BY EntryFirst
<1> DEFINE A == ReachAvoiding(succ, {Entry}, {d})
           T == A \ {s, hd}
<1>2. /\ b \in Blocks /\ s \in Blocks \ {b, Entry}
      /\ succ[b] = {s} /\ less[b] = succ[s]
  BY DEF Appended
<1>3. A \subseteq Blocks \ {d} /\ {Entry} \ {d} \subseteq A /\ \A x \in A : succ[x] \ {d} \subseteq A
  BY <1>0, ReachClosed
<1>4. y \notin A
  BY DEF Dominates
<1> HIDE DEF A
<1>5. {Entry} \ {hd} \subseteq T
  BY <1>1, <1>2, <1>3 DEF Host
<1>6. ASSUME NEW z \in T, NEW w \in less[z] \ {hd} PROVE w \in T
  <2>1. w # s /\ z # s /\ z \in Blocks
    BY <1>3 DEF Appended
  <2>2. CASE z # b
    <3>1. w \in succ[z]
      BY <2>1, <2>2 DEF Appended
    <3>2. w # d
      BY <1>1, <2>1 DEF Host
    <3> QED BY <1>3, <2>1, <3>1, <3>2
  <2>3. CASE z = b
    <3>1. d # b /\ d # s /\ hd = d
      BY <1>1, <2>3 DEF Host
    <3>2. s \in A
      BY <1>2, <1>3, <2>3, <3>1
    <3>3. w \in succ[s] /\ w # d
      BY <1>2, <2>3, <3>1
    <3> QED BY <1>3, <2>1, <3>2, <3>3
  <2> QED BY <2>2, <2>3
<1>7. hy \notin T
  <2>1. CASE y # s
    BY <1>1, <1>4, <2>1 DEF Host
  <2>2. CASE y = s
    <3> SUFFICES ASSUME b \in A, b # hd PROVE FALSE
      BY <1>1, <2>2 DEF Host
    <3>1. d # s
      BY <1>1 DEF Host
    <3> QED BY <1>2, <1>3, <1>4, <2>2, <3>1
  <2> QED BY <2>1, <2>2
<1> HIDE DEF T
<1>8. ReachAvoiding(less, {Entry}, {hd}) \subseteq T
  BY <1>5, <1>6, ReachLeast
<1>9. Dominates(less, hd, hy)
  BY <1>7, <1>8 DEF Dominates
<1> QED BY <1>1, <1>9

LEMMA AppendedReach ==
  ASSUME NEW succ \in [Blocks -> SUBSET Blocks], NEW less \in [Blocks -> SUBSET Blocks],
         NEW b, NEW s, Appended(succ, less, b, s)
  PROVE  /\ Reachable(less) \subseteq Reachable(succ) \ {s}
         /\ b \in Reachable(succ) => s \in Reachable(succ)
<1>0. {Entry} \in SUBSET Blocks
  BY EntryFirst
<1> DEFINE R == ReachAvoiding(succ, {Entry}, {})
           T == R \ {s}
<1>1. R = Reachable(succ)
  BY DEF Reachable
<1>2. R \subseteq Blocks /\ {Entry} \subseteq R /\ \A x \in R : succ[x] \subseteq R
  <2>1. R \subseteq Blocks \ {} /\ {Entry} \ {} \subseteq R /\ \A x \in R : succ[x] \ {} \subseteq R
    BY <1>0, ReachClosed
  <2> QED BY <2>1
<1> HIDE DEF R
<1>3. /\ b \in Blocks /\ s \in Blocks \ {b, Entry}
      /\ succ[b] = {s} /\ less[b] = succ[s]
  BY DEF Appended
<1>4. b \in R => s \in R
  BY <1>2, <1>3
<1>5. ASSUME NEW x \in T PROVE less[x] \subseteq T
  <2>1. s \notin less[x] /\ x \in Blocks /\ x # s
    BY <1>2 DEF Appended
  <2>2. CASE x = b
    BY <1>2, <1>3, <1>4, <2>1, <2>2
  <2>3. CASE x # b
    BY <1>2, <2>1, <2>3 DEF Appended
  <2> QED BY <2>2, <2>3
<1>6. {Entry} \ {} \subseteq T /\ \A x \in T : less[x] \ {} \subseteq T
  BY <1>2, <1>3, <1>5
<1> HIDE DEF T
<1>7. Reachable(less) \subseteq T
  BY <1>6, ReachLeast DEF Reachable
<1> QED BY <1>1, <1>4, <1>7 DEF T

(* Where every edge back in the list goes to a dominator, a dominator is not
   behind what it dominates.                                                  *)
LEMMA DominatorEarlier ==
  ASSUME NEW succ \in [Blocks -> SUBSET Blocks],
         \A p \in Reachable(succ) : \A s \in succ[p] : s <= p => Dominates(succ, s, p),
         NEW b \in Reachable(succ), NEW d \in Blocks, Dominates(succ, d, b)
  PROVE  d <= b
<1>1. {Entry} \in SUBSET Blocks /\ \A x \in Blocks : x \in Nat
  BY EntryFirst, BlocksAssumption DEF Blocks
<1>2. Reachable(succ) \subseteq Blocks
  BY <1>1, ReachClosed DEF Reachable
<1> DEFINE T == {c \in Reachable(succ) : \E e \in Blocks : Dominates(succ, e, c) /\ ~(e <= c)}
<1> SUFFICES ASSUME T # {} PROVE FALSE
  BY <1>2
<1>3. T \in SUBSET Nat
  BY <1>1, <1>2
<1>4. PICK c \in T : \A k \in T : c <= k
  BY <1>3, LeastElement
<1>5. PICK e \in Blocks : Dominates(succ, e, c) /\ ~(e <= c)
  BY <1>4
<1>6. c \in Blocks /\ c \in Reachable(succ) /\ e # c /\ c \in Nat /\ e \in Nat
  BY <1>1, <1>2, <1>4, <1>5
<1>7. DomFrom(succ, {Entry}, e, c)
  BY <1>5 DEF Dominates, DomFrom
<1>8. c # Entry
  <2>1. PICK From \in SUBSET Blocks : From = {Entry}
    BY <1>1
  <2>2. c \in From => e = c
    BY <1>7, <2>1, DomOfStart
  <2> QED BY <1>6, <2>1, <2>2
<1>9. \E p \in Reachable(succ) : c \in succ[p] /\ p < c
  <2> SUFFICES ASSUME \A p \in Reachable(succ) : c \in succ[p] => ~(p < c) PROVE FALSE
    OBVIOUS
  <2>1. \A p \in Reachable(succ) : c \in succ[p] => Dominates(succ, c, p)
    BY <1>1, <1>2, <1>6
  <2>2. PICK A : A = ReachAvoiding(succ, {Entry}, {c})
    OBVIOUS
  <2>3. A \subseteq Blocks \ {c} /\ {Entry} \ {c} \subseteq A /\ \A x \in A : succ[x] \ {c} \subseteq A
    BY <1>1, <2>2, ReachClosed
  <2>4. PICK R : R = Reachable(succ)
    OBVIOUS
  <2>5. {Entry} \ {} \subseteq R /\ \A x \in R : succ[x] \ {} \subseteq R
    BY <1>1, <2>4, ReachClosed DEF Reachable
  <2>6. \A p \in R : c \in succ[p] => p \notin A
    BY <2>1, <2>2, <2>4 DEF Dominates
  <2>7. PICK K : K = A \cap R
    OBVIOUS
  <2>8. {Entry} \ {} \subseteq K /\ \A x \in K : succ[x] \ {} \subseteq K
    BY <1>8, <2>3, <2>5, <2>6, <2>7
  <2>9. Reachable(succ) \subseteq K
    BY <2>8, ReachLeast DEF Reachable
  <2> QED BY <1>6, <2>3, <2>7, <2>9
<1>10. PICK p \in Reachable(succ) : c \in succ[p] /\ p < c
  BY <1>9
<1>11. p \in Blocks /\ p \in Nat
  BY <1>1, <1>2
<1>12. Dominates(succ, e, p)
  <2>1. PICK From \in SUBSET Blocks : From = {Entry}
    BY <1>1
  <2>2. DomFrom(succ, From, e, p)
    BY <1>6, <1>7, <1>10, <1>11, <2>1, DomOfPred
  <2> QED BY <2>1, <2>2 DEF Dominates, DomFrom
<1>13. p \in T
  BY <1>5, <1>6, <1>10, <1>11, <1>12
<1> QED BY <1>4, <1>6, <1>10, <1>11, <1>13

(* On a path from a to u, a path that keeps clear of home: the least block h, from
   which it goes on to u, and the edge by which it comes there.               *)
LEMMA LeastOnPath ==
  ASSUME NEW succ \in [Blocks -> SUBSET Blocks], NEW a \in Blocks, NEW home,
         NEW u \in ReachAvoiding(succ, {a}, {home})
  PROVE  \E h \in Blocks :
           /\ h # home /\ h <= u /\ u \in ReachAvoiding(succ, {h}, {home})
           /\ \/ a = h
              \/ \E y \in ReachAvoiding(succ, {a}, {home} \cup {x \in Blocks : x <= h}) : h \in succ[y]
<1>0. {a} \in SUBSET Blocks /\ Blocks \subseteq Nat
  BY BlocksAssumption DEF Blocks
<1> DEFINE Low(h) == {home} \cup {x \in Blocks : x < h}
           A(h) == ReachAvoiding(succ, {a}, Low(h))
           M == {h \in Nat : u \in A(h)}
<1>1. \A h : /\ A(h) \subseteq Blocks \ Low(h) /\ {a} \ Low(h) \subseteq A(h)
             /\ \A x \in A(h) : succ[x] \ Low(h) \subseteq A(h)
  <2> SUFFICES ASSUME NEW h
               PROVE  /\ A(h) \subseteq Blocks \ Low(h) /\ {a} \ Low(h) \subseteq A(h)
                      /\ \A x \in A(h) : succ[x] \ Low(h) \subseteq A(h)
    OBVIOUS
  <2>1. PICK D : D = Low(h)
    OBVIOUS
  <2>2. PICK R : R = ReachAvoiding(succ, {a}, D)
    OBVIOUS
  <2>3. R \subseteq Blocks \ D /\ {a} \ D \subseteq R /\ \A x \in R : succ[x] \ D \subseteq R
    BY <1>0, <2>2, ReachClosed
  <2>4. A(h) = R
    BY <2>1, <2>2
  <2> HIDE DEF A, Low
  <2> QED BY <2>1, <2>3, <2>4
<1>2. Low(0) = {home}
  <2>1. \A x \in Blocks : ~(x < 0)
    BY BlocksAssumption DEF Blocks
  <2> QED BY <2>1
<1>3. 0 \in M /\ u \in Blocks
  <2>1. u \in A(0)
    BY <1>2
  <2> HIDE DEF A, Low
  <2> QED BY <1>1, <2>1
<1>4. \A h \in M : h <= u
  <2> SUFFICES ASSUME NEW h \in M, ~(h <= u) PROVE FALSE
    OBVIOUS
  <2>1. u \in Low(h)
    BY <1>0, <1>3
  <2>2. u \in A(h)
    OBVIOUS
  <2> HIDE DEF A, Low, M
  <2> QED BY <1>1, <2>1, <2>2
<1> HIDE DEF M
<1>5. PICK h \in M : \A k \in M : k <= h
  <2>1. M \in SUBSET Nat /\ u \in Nat
    BY <1>0, <1>3 DEF M
  <2> QED BY <1>3, <1>4, <2>1, GreatestElement
<1>6. h \in Nat /\ h + 1 \in Nat /\ u \in A(h) /\ u \notin A(h + 1) /\ h <= u
  <2>1. h \in Nat /\ u \in A(h)
    BY <1>5 DEF M
  <2>2. h + 1 \notin M
    BY <1>5, <2>1
  <2> HIDE DEF A
  <2> QED BY <1>4, <1>5, <2>1, <2>2 DEF M
<1>7. PICK B : B = A(h + 1)
  OBVIOUS
<1>8. PICK L : L = Low(h)
  OBVIOUS
<1>9. \A s \in Blocks : s \notin Low(h + 1) <=> s \notin L /\ s # h
  BY <1>0, <1>6, <1>8
<1>10. Low(h + 1) = {home} \cup {x \in Blocks : x <= h}
  <2>1. \A x \in Blocks : x < h + 1 <=> x <= h
    BY <1>6, BlocksAssumption DEF Blocks
  <2> QED BY <2>1
<1>11. /\ B \subseteq Blocks /\ (a \notin L /\ a # h => a \in B)
       /\ \A x \in B : \A s \in succ[x] : s \notin L /\ s # h => s \in B
  <2> HIDE DEF A, Low
  <2>1. B \subseteq Blocks /\ {a} \ Low(h + 1) \subseteq B /\ \A x \in B : succ[x] \ Low(h + 1) \subseteq B
    BY <1>1, <1>7
  <2>2. \A x \in B : succ[x] \subseteq Blocks
    BY <2>1
  <2> QED BY <1>9, <2>1, <2>2
<1>12. \A K : {a} \ L \subseteq K /\ (\A x \in K : succ[x] \ L \subseteq K) => u \in K
  <2> SUFFICES ASSUME NEW K, {a} \ L \subseteq K, \A x \in K : succ[x] \ L \subseteq K PROVE u \in K
    OBVIOUS
  <2>1. ReachAvoiding(succ, {a}, L) \subseteq K
    BY ReachLeast
  <2> QED BY <1>6, <1>8, <2>1
<1>13. home \in L
  BY <1>8
<1> HIDE DEF A, Low
<1>14. a \notin L
  <2>1. a \in L => {a} \ L \subseteq {}
    OBVIOUS
  <2> QED BY <1>12, <2>1
<1>15. h \notin L /\ (a = h \/ \E y \in B : h \in succ[y])
  <2>1. CASE a = h
    BY <1>14, <2>1
  <2>2. CASE a # h
    <3>1. \E x \in B : \E s \in succ[x] : s \notin L /\ s \notin B
      <4>1. {a} \ L \subseteq B
        BY <1>11, <1>14, <2>2
      <4> QED BY <1>6, <1>7, <1>12, <4>1
    <3> QED BY <1>11, <3>1
  <2> QED BY <2>1, <2>2
<1>16. h # home /\ h \in Blocks
  <2>1. \A x \in B : succ[x] \subseteq Blocks
    BY <1>11
  <2> QED BY <1>13, <1>15, <2>1
<1>17. u \in ReachAvoiding(succ, {h}, {home})
  <2>1. PICK C : C = ReachAvoiding(succ, {h}, {home})
    OBVIOUS
  <2>2. {h} \in SUBSET Blocks
    BY <1>16
  <2>3. {h} \ {home} \subseteq C /\ \A x \in C : succ[x] \ {home} \subseteq C
    BY <2>1, <2>2, ReachClosed
  <2>4. PICK K : K = B \cup C
    OBVIOUS
  <2>5. h \in C
    BY <1>16, <2>3
  <2>6. {a} \ L \subseteq K
    BY <1>11, <1>14, <2>4, <2>5
  <2>7. \A x \in K : succ[x] \ L \subseteq K
    BY <1>11, <1>13, <2>3, <2>4, <2>5
  <2>8. u \in K
    BY <1>12, <2>6, <2>7
  <2> QED BY <1>6, <1>7, <2>1, <2>4, <2>8
<1>18. B = ReachAvoiding(succ, {a}, {home} \cup {x \in Blocks : x <= h})
  BY <1>7, <1>10 DEF A
<1> QED BY <1>6, <1>15, <1>16, <1>17, <1>18
=============================================================================
