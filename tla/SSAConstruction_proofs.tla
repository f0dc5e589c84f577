----------------------- MODULE SSAConstruction_proofs -----------------------
(***************************************************************************)
(* The conversion to SSA form, on every function.                          *)
(*                                                                         *)
(* The stack is the concatenation of what the blocks on the way from the   *)
(* entry define (Stacked); this needs nothing of the graph.  When every    *)
(* block is reachable, the activations are a path of the dominator tree,   *)
(* and the top of the stack is the definition that is nearest among the    *)
(* dominators (Nearest).  So every operand the renamer writes is the one   *)
(* that reaches the load, or the end of the predecessor (Operands), and    *)
(* every block is renamed once the walk over the tree is over (Progress).  *)
(* Execution keeps the nearest definition equal to the memory (Synced):    *)
(* where an edge leaves a definition that does not dominate its target,    *)
(* the target is in the frontier, and has a phi if frontiers need no       *)
(* iteration.                                                              *)
(***************************************************************************)
EXTENDS SSAConstruction, CFG_proofs, SequenceTheorems, TLAPS

(* What the activation of a block pushes.                                    *)
Defs(b) == (IF b \in phis THEN <<PhiOf(b)>> ELSE <<>>) \o StoresOf(b)

LastDef(b) == Top(Defs(b))

Defining == {b \in Blocks : b \in phis \/ b \in DefSites}

(* The k-th access is a store, and the last one up to the n-th.              *)
LastStore(ops, n, k) ==
  k \in 1 .. n /\ ops[k] \in DirectStores /\ \A j \in 1 .. n : j > k => ops[j] \notin DirectStores

Pushed(b, ops, m, g) ==
  g = [k \in 0 .. m |-> IF k = 0 THEN <<>>
                        ELSE IF ops[k] \in DirectStores THEN Append(g[k - 1], <<b, k>>) ELSE g[k - 1]]

LEMMA PushedExists ==
  ASSUME NEW b, NEW ops
  PROVE  \A m \in Nat : \E g : Pushed(b, ops, m, g)
<1> DEFINE T == {m \in Nat : \E g : Pushed(b, ops, m, g)}
           Push(k, s) == IF ops[k] \in DirectStores THEN Append(s, <<b, k>>) ELSE s
<1>1. 0 \in T
  <2>1. Pushed(b, ops, 0, [k \in 0 .. 0 |-> <<>>])
    BY DEF Pushed
  <2> QED BY <2>1
<1>2. ASSUME NEW n \in Nat, n \in T PROVE n + 1 \in T
  <2> SUFFICES ASSUME NEW g, Pushed(b, ops, n, g)
               PROVE  \E h : Pushed(b, ops, n + 1, h)
    BY <1>2
  <2>1. \A k \in 0 .. n : g[k] = IF k = 0 THEN <<>> ELSE Push(k, g[k - 1])
    BY DEF Pushed
  <2> DEFINE h == [k \in 0 .. n + 1 |-> IF k = n + 1 THEN Push(n + 1, g[n]) ELSE g[k]]
  <2> HIDE DEF Push
  <2>2. \A k \in 0 .. n : h[k] = g[k]
    OBVIOUS
  <2>3. ASSUME NEW k \in 0 .. n + 1
        PROVE  h[k] = IF k = 0 THEN <<>> ELSE Push(k, h[k - 1])
    <3>1. CASE k = n + 1
      BY <2>2, <3>1
    <3>2. CASE k \in 0 .. n
      <4>1. k # 0 => k - 1 \in 0 .. n
        BY <3>2
      <4> QED BY <2>1, <2>2, <3>2, <4>1
    <3> QED BY <3>1, <3>2
  <2>4. Pushed(b, ops, n + 1, h)
    BY <2>3 DEF Pushed, Push
  <2> QED BY <2>4
<1> HIDE DEF T
<1>3. \A m \in Nat : m \in T
  BY <1>1, <1>2, Induction
<1> QED BY <1>3 DEF T

(* The stores of a block end with its last one.                              *)
LEMMA StoresAre ==
  ASSUME NEW b \in Blocks, NEW ops \in Seq(Ops), Len(ops) <= MaxOps
  PROVE  /\ StoresIn(b, ops) \in Seq(Val)
         /\ \/ /\ StoresIn(b, ops) = <<>>
               /\ \A j \in 1 .. Len(ops) : ops[j] \notin DirectStores
            \/ /\ StoresIn(b, ops) # <<>>
               /\ \E k : LastStore(ops, Len(ops), k) /\ Top(StoresIn(b, ops)) = <<b, k>>
<1> DEFINE n == Len(ops)
           g == CHOOSE h : Pushed(b, ops, n, h)
<1>1. n \in Nat /\ n <= MaxOps
  OBVIOUS
<1>2. Pushed(b, ops, n, g)
  BY <1>1, PushedExists
<1>3. StoresIn(b, ops) = g[n]
  BY DEF StoresIn, Pushed
<1> HIDE DEF n, g
<1>4. g[0] = <<>>
  BY <1>1, <1>2 DEF Pushed
<1>5. ASSUME NEW i \in Nat, i < n
      PROVE  g[i + 1] = IF ops[i + 1] \in DirectStores THEN Append(g[i], <<b, i + 1>>) ELSE g[i]
  <2>1. i + 1 \in 0 .. n /\ i + 1 # 0 /\ (i + 1) - 1 = i
    BY <1>1, <1>5
  <2> QED BY <1>2, <2>1 DEF Pushed
<1> DEFINE Good(i) == /\ g[i] \in Seq(Val)
                      /\ \/ g[i] = <<>> /\ \A j \in 1 .. i : ops[j] \notin DirectStores
                         \/ g[i] # <<>> /\ \E k : LastStore(ops, i, k) /\ Top(g[i]) = <<b, k>>
           I == {i \in Nat : i <= n => Good(i)}
<1>6. 0 \in I
  <2>1. g[0] \in Seq(Val)
    BY <1>4, EmptySeq
  <2>2. \A j \in 1 .. 0 : FALSE
    OBVIOUS
  <2> QED BY <1>4, <2>1, <2>2
<1>7. ASSUME NEW i \in Nat, i \in I PROVE i + 1 \in I
  <2> SUFFICES ASSUME i + 1 <= n PROVE Good(i + 1)
    OBVIOUS
  <2>1. i < n /\ Good(i)
    BY <1>1, <1>7
  <2> HIDE DEF I
  <2>2. CASE ops[i + 1] \in DirectStores
    <3>1. <<b, i + 1>> \in Val
      BY <1>1, <2>1, BlocksAssumption, ProgramAssumption DEF Val, Blocks
    <3>2. g[i + 1] = Append(g[i], <<b, i + 1>>)
      BY <1>5, <2>1, <2>2
    <3>3. g[i] \in Seq(Val)
      BY <2>1
    <3>4. /\ g[i + 1] \in Seq(Val) /\ g[i + 1] # <<>>
          /\ Len(g[i + 1]) = Len(g[i]) + 1 /\ g[i + 1][Len(g[i]) + 1] = <<b, i + 1>>
      BY <3>1, <3>2, <3>3, AppendProperties
    <3>5. LastStore(ops, i + 1, i + 1)
      BY <2>2 DEF LastStore
    <3> QED BY <3>4, <3>5 DEF Top
  <2>3. CASE ops[i + 1] \notin DirectStores
    <3>1. g[i + 1] = g[i]
      BY <1>5, <2>1, <2>3
    <3>2. \A k : LastStore(ops, i, k) => LastStore(ops, i + 1, k)
      BY <2>3 DEF LastStore
    <3>3. (\A j \in 1 .. i : ops[j] \notin DirectStores) => \A j \in 1 .. i + 1 : ops[j] \notin DirectStores
      BY <2>3
    <3> QED BY <2>1, <3>1, <3>2, <3>3
  <2> QED BY <2>2, <2>3
<1> HIDE DEF I
<1>8. n \in I
  BY <1>1, <1>6, <1>7, Induction
<1>9. Good(n)
  BY <1>1, <1>8 DEF I
<1> QED BY <1>3, <1>9 DEF n

-----------------------------------------------------------------------------
Typed ==
  /\ TypeOK
  /\ \A b \in Blocks : code[b] \in Seq(Ops) /\ Len(code[b]) <= MaxOps

LEMMA HasStore ==
  ASSUME Typed, NEW b \in Blocks
  PROVE  /\ b \in DefSites <=> \E k \in 1 .. Len(code[b]) : code[b][k] \in DirectStores
         /\ \A k \in 1 .. MaxOps : HasOp(b, k, DirectStores) <=> k \in 1 .. Len(code[b]) /\ code[b][k] \in DirectStores
<1>1. Len(code[b]) \in Nat /\ Len(code[b]) <= MaxOps /\ MaxOps \in Nat
  BY ProgramAssumption DEF Typed
<1> QED BY <1>1 DEF DefSites, HasOp

LEMMA PlacesAreValues ==
  /\ Zero \in Val /\ \A b \in Blocks : PhiOf(b) \in Val
  /\ Sites \subseteq Val
BY BlocksAssumption, ProgramAssumption DEF Val, Zero, PhiOf, Sites, Blocks

(* A block that defines the variable pushes something, and what it pushes last
   is its last store, or its phi if it has no store.                         *)
LEMMA DefsAre ==
  ASSUME Typed, NEW b \in Blocks
  PROVE  /\ Defs(b) \in Seq(Val)
         /\ b \notin Defining => Defs(b) = <<>>
         /\ b \in Defining => Defs(b) # <<>> /\ LastDef(b) \in Val /\ LastDef(b)[1] = b
         /\ b \in DefSites => \E k : LastStore(code[b], Len(code[b]), k) /\ LastDef(b) = <<b, k>>
         /\ b \notin DefSites /\ b \in phis => LastDef(b) = PhiOf(b)
<1> DEFINE S == StoresOf(b)
           P == IF b \in phis THEN <<PhiOf(b)>> ELSE <<>>
<1>1. /\ S \in Seq(Val)
      /\ \/ S = <<>> /\ b \notin DefSites
         \/ /\ S # <<>> /\ b \in DefSites
            /\ \E k : LastStore(code[b], Len(code[b]), k) /\ Top(S) = <<b, k>>
  <2>1. code[b] \in Seq(Ops) /\ Len(code[b]) <= MaxOps
    BY DEF Typed
  <2>2. b \in DefSites <=> \E k \in 1 .. Len(code[b]) : code[b][k] \in DirectStores
    BY HasStore
  <2>3. \A k : LastStore(code[b], Len(code[b]), k) => k \in 1 .. Len(code[b]) /\ code[b][k] \in DirectStores
    BY DEF LastStore
  <2> QED BY <2>1, <2>2, <2>3, StoresAre DEF StoresOf
<1>2. P \in Seq(Val) /\ Len(P) = (IF b \in phis THEN 1 ELSE 0) /\ (b \in phis => P[1] = PhiOf(b))
  BY PlacesAreValues
<1>3. Defs(b) = P \o S
  BY DEF Defs
<1> HIDE DEF S, P
<1>4. /\ P \o S \in Seq(Val) /\ Len(P \o S) = Len(P) + Len(S)
      /\ \A i \in 1 .. Len(P) + Len(S) : (P \o S)[i] = IF i <= Len(P) THEN P[i] ELSE S[i - Len(P)]
  BY <1>1, <1>2, ConcatProperties
<1>5. Len(S) \in Nat /\ (S = <<>> <=> Len(S) = 0)
  BY <1>1, EmptySeq
<1>6. CASE b \in DefSites
  <2>1. Len(S) > 0 /\ Len(P) \in Nat /\ Len(P) + Len(S) - Len(P) = Len(S)
    BY <1>1, <1>2, <1>5, <1>6
  <2>2. (P \o S)[Len(P) + Len(S)] = S[Len(S)]
    BY <1>4, <2>1
  <2>3. LastDef(b) = Top(S)
    BY <1>3, <1>4, <2>2 DEF LastDef, Top
  <2>4. PICK k : LastStore(code[b], Len(code[b]), k) /\ Top(S) = <<b, k>>
    BY <1>1, <1>6
  <2>5. LastDef(b) \in Val
    BY <1>1, <2>1, <2>3, ElementOfSeq DEF Top
  <2>6. Len(P \o S) # 0 /\ b \in Defining
    BY <1>4, <1>6, <2>1 DEF Defining
  <2>7. Defs(b) # <<>>
    BY <1>3, <2>6, EmptySeq
  <2> QED BY <1>3, <1>4, <1>6, <2>3, <2>4, <2>5, <2>6, <2>7
<1>7. CASE b \notin DefSites
  <2>1. S = <<>>
    BY <1>1, <1>7
  <2>2. Defs(b) = P
    BY <1>2, <1>3, <2>1, ConcatEmptySeq
  <2>3. CASE b \in phis
    <3>1. LastDef(b) = PhiOf(b)
      BY <1>2, <2>2, <2>3 DEF LastDef, Top
    <3>2. b \in Defining
      BY <2>3 DEF Defining
    <3>4. Defs(b) # <<>>
      <4>1. Len(P) = 1
        BY <1>2, <2>3
      <4>2. Len(<<>>) = 0
        BY EmptySeq
      <4> QED BY <2>2, <4>1, <4>2
    <3>3. PhiOf(b)[1] = b
      BY DEF PhiOf
    <3> QED BY <1>2, <1>7, <2>2, <2>3, <3>1, <3>2, <3>3, <3>4, PlacesAreValues
  <2>4. CASE b \notin phis
    <3>1. b \notin Defining /\ Defs(b) = <<>>
      BY <1>7, <2>2, <2>4 DEF Defining, P
    <3> QED BY <1>2, <1>7, <2>2, <2>4, <3>1
  <2> QED BY <2>3, <2>4
<1> QED BY <1>6, <1>7

(* Pushing the definitions of a block on a stack that is not empty.          *)
LEMMA TopOfPush ==
  ASSUME Typed, NEW b \in Blocks, NEW s \in Seq(Val), s # <<>>
  PROVE  /\ s \o Defs(b) \in Seq(Val) /\ s \o Defs(b) # <<>>
         /\ Len(s \o Defs(b)) = Len(s) + Len(Defs(b))
         /\ Top(s \o Defs(b)) = IF b \in Defining THEN LastDef(b) ELSE Top(s)
<1> DEFINE d == Defs(b)
<1>1. d \in Seq(Val) /\ (b \in Defining <=> d # <<>>) /\ LastDef(b) = Top(d)
  BY DefsAre DEF LastDef
<1> HIDE DEF d
<1>2. /\ s \o d \in Seq(Val) /\ Len(s \o d) = Len(s) + Len(d)
      /\ \A i \in 1 .. Len(s) + Len(d) : (s \o d)[i] = IF i <= Len(s) THEN s[i] ELSE d[i - Len(s)]
  BY <1>1, ConcatProperties
<1>3. Len(s) \in Nat /\ Len(s) > 0 /\ Len(d) \in Nat /\ (d = <<>> <=> Len(d) = 0)
  BY <1>1, EmptySeq
<1>4. s \o d # <<>>
  BY <1>2, <1>3, EmptySeq
<1>5. CASE d = <<>>
  BY <1>1, <1>2, <1>3, <1>4, <1>5, ConcatEmptySeq DEF d
<1>6. CASE d # <<>>
  <2>1. Len(s) + Len(d) - Len(s) = Len(d) /\ Len(d) > 0
    BY <1>3, <1>6
  <2>2. (s \o d)[Len(s) + Len(d)] = d[Len(d)]
    BY <1>2, <1>3, <2>1
  <2> QED BY <1>1, <1>2, <1>4, <1>6, <2>2 DEF Top, d
<1> QED BY <1>5, <1>6

LEMMA PushIsConcat ==
  ASSUME Typed, NEW b \in Blocks
  PROVE  WithPhi(b) \o StoresOf(b) = stack \o Defs(b)
<1> DEFINE S == StoresOf(b)
           P == IF b \in phis THEN <<PhiOf(b)>> ELSE <<>>
<1>1. stack \in Seq(Val) /\ code[b] \in Seq(Ops) /\ Len(code[b]) <= MaxOps
  BY DEF Typed, TypeOK
<1>2. S \in Seq(Val)
  BY <1>1, StoresAre DEF StoresOf
<1>3. P \in Seq(Val) /\ PhiOf(b) \in Val
  BY PlacesAreValues
<1>4. WithPhi(b) = stack \o P
  <2>1. CASE b \in phis
    BY <1>1, <1>3, <2>1, AppendIsConcat DEF WithPhi
  <2>2. CASE b \notin phis
    BY <1>1, <2>2, ConcatEmptySeq DEF WithPhi
  <2> QED BY <2>1, <2>2
<1>5. Defs(b) = P \o S
  BY DEF Defs
<1> HIDE DEF P, S
<1>6. (stack \o P) \o S = stack \o (P \o S)
  BY <1>1, <1>2, <1>3, ConcatAssociative
<1> QED BY <1>4, <1>5, <1>6 DEF S

-----------------------------------------------------------------------------
(* The stack after each activation that is under way.                        *)
Along(f) ==
  /\ f \in [0 .. Len(calls) -> Seq(Val) \ {<<>>}]
  /\ f[0] = <<Zero>>
  /\ \A n \in 1 .. Len(calls) : f[n] = f[n - 1] \o Defs(calls[n].block)

(* The activations are a path of the tree from the entry, each has pushed the
   definitions of its block, and the stack holds nothing else.               *)
Stacked ==
  /\ phase # "rename" => calls = <<>>
  /\ calls # <<>> => calls[1].block = Entry
  /\ \A n \in 1 .. Len(calls) : /\ calls[n].pushed = Len(Defs(calls[n].block))
                                /\ calls[n].waiting \subseteq children[calls[n].block]
  /\ \A n \in 1 .. Len(calls) : n > 1 => calls[n].block \in children[calls[n - 1].block]
  /\ \E f : Along(f) /\ stack = f[Len(calls)]

LEMMA DefsFrame ==
  ASSUME code' = code, phis' = phis
  PROVE  \A b : Defs(b)' = Defs(b)
BY DEF Defs, StoresOf

LEMMA StackNotEmpty ==
  ASSUME Typed, Stacked
  PROVE  stack # <<>> /\ Len(calls) \in Nat
<1>1. Len(calls) \in Nat /\ Len(calls) \in 0 .. Len(calls)
  BY DEF Typed, TypeOK
<1> QED BY <1>1 DEF Stacked, Along

(* The part of an activation before the recursion, whichever block it is for. *)
LEMMA PushKeepsStacked ==
  ASSUME Typed, Stacked, NEW c \in Blocks, RenameBlock(c), phase' = "rename",
         UNCHANGED <<program, phis>>,
         NEW cs \in Seq(Activations), Len(cs) = Len(calls),
         \A n \in 1 .. Len(calls) : /\ cs[n].block = calls[n].block
                                    /\ cs[n].pushed = calls[n].pushed
                                    /\ cs[n].waiting \subseteq calls[n].waiting,
         calls' = Append(cs, Activation(c)),
         calls = <<>> => c = Entry,
         calls # <<>> => c \in children[Top(calls).block]
  PROVE  /\ Stacked'
         /\ stack' \in Seq(Val) /\ calls' \in Seq(Activations)
         /\ incoming' \in [Blocks -> [Blocks -> Val]]
         /\ repl' \in [Sites -> Val]
<1> DEFINE L == Len(calls)
<1>1. L \in Nat /\ stack \in Seq(Val) /\ calls \in Seq(Activations) /\ (L = 0 <=> calls = <<>>)
  BY EmptySeq DEF Typed, TypeOK
<1>2. /\ stack' = stack \o Defs(c) /\ stack' \in Seq(Val) /\ stack' # <<>>
      /\ Len(stack \o Defs(c)) = Len(stack) + Len(Defs(c))
      /\ Len(Defs(c)) \in Nat /\ Len(stack) \in Nat
  <2>1. stack # <<>> /\ Defs(c) \in Seq(Val)
    BY StackNotEmpty, DefsAre
  <2>2. stack' = stack \o Defs(c)
    BY PushIsConcat DEF RenameBlock
  <2> QED BY <1>1, <2>1, <2>2, TopOfPush
<1>3. /\ Activation(c).block = c /\ Activation(c).waiting = children[c]
      /\ Activation(c).pushed = Len(Defs(c)) /\ Activation(c) \in Activations
  <2>1. Len(WithPhi(c) \o StoresOf(c)) - Len(stack) = Len(Defs(c))
    BY <1>2, PushIsConcat
  <2>2. children[c] \in SUBSET Blocks
    BY DEF Typed, TypeOK
  <2> QED BY <1>2, <2>1, <2>2 DEF Activation, Activations
<1>4. /\ calls' \in Seq(Activations) /\ Len(calls') = L + 1
      /\ \A n \in 1 .. L : calls'[n] = cs[n]
      /\ calls'[L + 1] = Activation(c)
  <2> HIDE DEF L
  <2>1. Append(cs, Activation(c)) \in Seq(Activations)
    BY <1>3, AppendProperties
  <2>2. /\ Len(Append(cs, Activation(c))) = Len(cs) + 1
        /\ \A n \in 1 .. Len(cs) : Append(cs, Activation(c))[n] = cs[n]
        /\ Append(cs, Activation(c))[Len(cs) + 1] = Activation(c)
    BY <1>3, AppendProperties
  <2> QED BY <2>1, <2>2 DEF L
<1>5. \A b : Defs(b)' = Defs(b)
  BY DefsFrame DEF program
<1>6. PICK f : Along(f) /\ stack = f[L]
  BY DEF Stacked
<1> HIDE DEF L
<1>7. /\ f \in [0 .. L -> Seq(Val) \ {<<>>}] /\ f[0] = <<Zero>>
      /\ \A n \in 1 .. L : f[n] = f[n - 1] \o Defs(calls[n].block)
  BY <1>6 DEF Along, L
<1>19. PICK g : g = [n \in 0 .. L + 1 |-> IF n = L + 1 THEN stack' ELSE f[n]]
  OBVIOUS
<1>8. /\ g \in [0 .. L + 1 -> Seq(Val) \ {<<>>}] /\ g[0] = <<Zero>> /\ g[L + 1] = stack'
      /\ \A n \in 0 .. L : g[n] = f[n]
  BY <1>1, <1>2, <1>7, <1>19
<1>9. ASSUME NEW n \in 1 .. L + 1 PROVE g[n] = g[n - 1] \o Defs(calls'[n].block)
  <2>1. CASE n = L + 1
    <3>1. n - 1 = L /\ L \in 0 .. L
      BY <1>1, <2>1
    <3>2. g[n - 1] = stack
      BY <1>6, <1>8, <3>1
    <3>3. g[n] = stack \o Defs(c) /\ calls'[n].block = c
      BY <1>2, <1>3, <1>4, <1>8, <2>1
    <3> QED BY <3>2, <3>3
  <2>2. CASE n # L + 1
    <3>1. n \in 1 .. L /\ n \in 0 .. L /\ n - 1 \in 0 .. L
      BY <1>1, <2>2
    <3>2. calls'[n].block = calls[n].block
      BY <1>4, <3>1 DEF L
    <3> QED BY <1>7, <1>8, <3>1, <3>2
  <2> QED BY <2>1, <2>2
<1>10. Along(g)'
  <2>1. code' = code /\ phis' = phis
    BY DEF program
  <2> QED BY <1>4, <1>8, <1>9, <2>1 DEF Along, Defs, StoresOf
<1>11. calls'[1].block = Entry
  <2>1. CASE L = 0
    BY <1>1, <1>3, <1>4, <2>1
  <2>2. CASE L # 0
    <3>1. 1 \in 1 .. L /\ calls # <<>>
      BY <1>1, <2>2
    <3> QED BY <1>4, <3>1 DEF Stacked, L
  <2> QED BY <2>1, <2>2
<1>12. ASSUME NEW n \in 1 .. L + 1
       PROVE  calls'[n].pushed = Len(Defs(calls'[n].block)) /\ calls'[n].waiting \subseteq children[calls'[n].block]
  <2>1. CASE n = L + 1
    BY <1>3, <1>4, <2>1
  <2>2. CASE n # L + 1
    <3>1. n \in 1 .. L
      BY <1>1, <2>2
    <3>2. calls[n].pushed = Len(Defs(calls[n].block)) /\ calls[n].waiting \subseteq children[calls[n].block]
      BY <3>1 DEF Stacked, L
    <3> QED BY <1>4, <3>1, <3>2 DEF L
  <2> QED BY <2>1, <2>2
<1>13. ASSUME NEW n \in 1 .. L + 1, n > 1 PROVE calls'[n].block \in children[calls'[n - 1].block]
  <2>1. CASE n = L + 1
    <3>1. L \in 1 .. L /\ n - 1 = L /\ calls # <<>>
      BY <1>1, <1>13, <2>1
    <3>2. calls'[L].block = calls[L].block
      BY <1>4, <3>1 DEF L
    <3> QED BY <1>3, <1>4, <2>1, <3>1, <3>2 DEF Top, L
  <2>2. CASE n # L + 1
    <3>1. n \in 1 .. L /\ n - 1 \in 1 .. L
      BY <1>1, <1>13, <2>2
    <3>2. calls[n].block \in children[calls[n - 1].block]
      BY <1>13, <3>1 DEF Stacked, L
    <3> QED BY <1>4, <3>1, <3>2 DEF L
  <2> QED BY <2>1, <2>2
<1>14. Stacked'
  <2>1. stack' = g[Len(calls')] /\ children' = children /\ code' = code /\ phis' = phis
    BY <1>4, <1>8 DEF program
  <2>2. \E h : Along(h)' /\ stack' = h[Len(calls')]
    BY <1>10, <2>1
  <2>3. \A n \in 1 .. Len(calls') : calls'[n].pushed = Len(Defs(calls[n].block))'
    BY <1>4, <1>12, <2>1 DEF Defs, StoresOf
  <2>4. \A n \in 1 .. Len(calls') : calls'[n].waiting \subseteq children'[calls'[n].block]
    BY <1>4, <1>12, <2>1
  <2>5. \A n \in 1 .. Len(calls') : n > 1 => calls'[n].block \in children'[calls'[n - 1].block]
    BY <1>4, <1>13, <2>1
  <2> QED BY <1>11, <2>2, <2>3, <2>4, <2>5 DEF Stacked
<1>15. Top(WithPhi(c)) \in Val
  <2>1. CASE c \in phis
    <3>1. /\ Append(stack, PhiOf(c)) \in Seq(Val) /\ Len(Append(stack, PhiOf(c))) = Len(stack) + 1
      BY <1>1, PlacesAreValues, AppendProperties
    <3> QED BY <1>2, <2>1, <3>1, ElementOfSeq DEF Top, WithPhi
  <2>2. CASE c \notin phis
    <3>1. Len(stack) > 0
      BY <1>1, <1>2, StackNotEmpty, EmptySeq
    <3> QED BY <1>1, <1>2, <2>2, <3>1, ElementOfSeq DEF Top, WithPhi
  <2> QED BY <2>1, <2>2
<1>16. Top(stack') \in Val
  <2>1. Len(stack') > 0 /\ Len(stack') \in Nat
    BY <1>2, EmptySeq
  <2> QED BY <1>2, <2>1, ElementOfSeq DEF Top
<1>17. repl' \in [Sites -> Val]
  BY <1>15 DEF RenameBlock, Typed, TypeOK
<1>18. incoming' \in [Blocks -> [Blocks -> Val]]
  BY <1>16 DEF RenameBlock, Typed, TypeOK
<1> QED BY <1>2, <1>4, <1>14, <1>17, <1>18

(* The part after the recursion leaves the stack as the activation found it.  *)
LEMMA PopKeepsStacked ==
  ASSUME Typed, Stacked, LeaveBlock
  PROVE  Stacked' /\ stack' \in Seq(Val) /\ calls' \in Seq(Activations)
<1> DEFINE L == Len(calls)
<1>1. /\ L \in Nat /\ stack \in Seq(Val) /\ calls \in Seq(Activations)
      /\ calls # <<>> /\ L > 0
  BY EmptySeq DEF Typed, TypeOK, LeaveBlock
<1>2. /\ calls' = SubSeq(calls, 1, L - 1)
      /\ stack' = SubSeq(stack, 1, Len(stack) - calls[L].pushed)
      /\ UNCHANGED <<program, phis>> /\ phase' = (IF L = 1 THEN "promote" ELSE "rename")
  BY DEF LeaveBlock, PopDefs, Top
<1>3. PICK f : Along(f) /\ stack = f[L]
  BY DEF Stacked
<1>4. \A n \in 1 .. L : calls[n].block \in Blocks
  <2>1. \A n \in 1 .. L : calls[n] \in Activations
    BY <1>1
  <2> QED BY <2>1 DEF Activations
<1> HIDE DEF L
<1>5. /\ f \in [0 .. L -> Seq(Val) \ {<<>>}] /\ f[0] = <<Zero>>
      /\ \A n \in 1 .. L : f[n] = f[n - 1] \o Defs(calls[n].block)
  BY <1>3 DEF Along, L
<1>6. /\ Len(calls') = L - 1 /\ calls' \in Seq(Activations)
      /\ \A n \in 1 .. L - 1 : calls'[n] = calls[n]
  <2>1. \A n \in 1 .. L - 1 : calls[n] \in Activations
    BY <1>1, ElementOfSeq DEF L
  <2>2. L - 1 \in Int /\ 1 \in Int /\ (IF 1 <= L - 1 THEN (L - 1) - 1 + 1 ELSE 0) = L - 1
    BY <1>1
  <2>3. /\ SubSeq(calls, 1, L - 1) \in Seq(Activations)
        /\ Len(SubSeq(calls, 1, L - 1)) = IF 1 <= L - 1 THEN (L - 1) - 1 + 1 ELSE 0
        /\ \A n \in 1 .. (L - 1) - 1 + 1 : SubSeq(calls, 1, L - 1)[n] = calls[1 + n - 1]
    BY <2>1, <2>2, SubSeqProperties
  <2>4. (L - 1) - 1 + 1 = L - 1 /\ \A n \in 1 .. L - 1 : 1 + n - 1 = n
    BY <1>1
  <2> QED BY <1>2, <2>2, <2>3, <2>4
<1>7. stack' = f[L - 1] /\ L - 1 \in 0 .. L
  <2> DEFINE s == f[L - 1]
             d == Defs(calls[L].block)
  <2>1. L - 1 \in 0 .. L /\ L \in 1 .. L /\ calls[L].block \in Blocks
    BY <1>1, <1>4
  <2>2. s \in Seq(Val) /\ s # <<>> /\ d \in Seq(Val) /\ stack = s \o d
    BY <1>3, <1>5, <2>1, DefsAre
  <2>3. calls[L].pushed = Len(d)
    BY <2>1 DEF Stacked, L
  <2> HIDE DEF s, d
  <2>4. Len(s) \in Nat /\ Len(s) > 0 /\ Len(d) \in Nat /\ Len(s \o d) = Len(s) + Len(d)
    BY <2>2, EmptySeq, ConcatProperties
  <2>5. Len(stack) - calls[L].pushed = Len(s) /\ 1 \in 1 .. Len(s) /\ Len(s) \in 1 .. Len(s)
    BY <2>2, <2>3, <2>4
  <2>6. SubSeq(s \o d, 1, Len(s)) = SubSeq(s, 1, Len(s))
    BY <2>2, <2>5, SubSeqOfConcat1
  <2>7. SubSeq(s, 1, Len(s)) = s
    BY <2>2, SubSeqFull
  <2> QED BY <1>2, <2>1, <2>2, <2>5, <2>6, <2>7 DEF s
<1>8. PICK g : g = [n \in 0 .. L - 1 |-> f[n]]
  OBVIOUS
<1>9. /\ g \in [0 .. L - 1 -> Seq(Val) \ {<<>>}] /\ g[0] = <<Zero>> /\ g[L - 1] = stack'
      /\ \A n \in 1 .. L - 1 : g[n] = g[n - 1] \o Defs(calls'[n].block)
  <2>1. \A n \in 0 .. L - 1 : n \in 0 .. L /\ g[n] = f[n]
    BY <1>1, <1>8
  <2>2. \A n \in 1 .. L - 1 : n \in 1 .. L /\ n \in 0 .. L - 1 /\ n - 1 \in 0 .. L - 1
    BY <1>1
  <2>3. 0 \in 0 .. L - 1 /\ L - 1 \in 0 .. L - 1
    BY <1>1
  <2>4. g \in [0 .. L - 1 -> Seq(Val) \ {<<>>}]
    BY <1>5, <1>8, <2>1
  <2> QED BY <1>5, <1>6, <1>7, <2>1, <2>2, <2>3, <2>4
<1>10. children' = children /\ code' = code /\ phis' = phis
  BY <1>2 DEF program
<1>11. \A n \in 1 .. L - 1 : n \in 1 .. L /\ (n > 1 => n - 1 \in 1 .. L - 1)
  BY <1>1
<1>12. Along(g)'
  BY <1>6, <1>9, <1>10 DEF Along, Defs, StoresOf
<1>13. \E h : Along(h)' /\ stack' = h[Len(calls')]
  BY <1>6, <1>9, <1>12
<1>14. \A n \in 1 .. Len(calls') : calls'[n].pushed = Len(Defs(calls[n].block))'
  <2>1. \A n \in 1 .. L - 1 : calls'[n].pushed = Len(Defs(calls'[n].block))
    BY <1>6, <1>11 DEF Stacked, L
  <2> QED BY <1>6, <1>10, <2>1 DEF Defs, StoresOf
<1>15. \A n \in 1 .. Len(calls') : calls'[n].waiting \subseteq children'[calls'[n].block]
  BY <1>6, <1>10, <1>11 DEF Stacked, L
<1>16. \A n \in 1 .. Len(calls') : n > 1 => calls'[n].block \in children'[calls'[n - 1].block]
  BY <1>6, <1>10, <1>11 DEF Stacked, L
<1>17. calls' # <<>> => calls'[1].block = Entry
  <2> SUFFICES ASSUME calls' # <<>> PROVE calls'[1].block = Entry
    OBVIOUS
  <2>1. L - 1 # 0
    BY <1>6, EmptySeq
  <2>2. 1 \in 1 .. L - 1
    BY <1>1, <2>1
  <2> QED BY <1>1, <1>6, <2>2 DEF Stacked
<1>18. phase' # "rename" => calls' = <<>>
  BY <1>2, <1>6, EmptySeq
<1> QED BY <1>2, <1>6, <1>7, <1>5, <1>13, <1>14, <1>15, <1>16, <1>17, <1>18 DEF Stacked

-----------------------------------------------------------------------------
(* What the other passes and the execution leave alone keeps its shape.      *)
LEMMA StackedFrame ==
  ASSUME Stacked, UNCHANGED <<program, stack, calls>>, phis' = phis \/ calls = <<>>,
         phase' = phase \/ calls = <<>>
  PROVE  Stacked'
<1>1. calls = <<>> => \A n \in 1 .. Len(calls) : FALSE
  BY EmptySeq
<1>2. \A f : Along(f)' <=> Along(f)
  BY <1>1 DEF Along, Defs, StoresOf, program
<1>3. \E f : Along(f)' /\ stack' = f[Len(calls')]
  BY <1>2 DEF Stacked
<1>4. \A n \in 1 .. Len(calls') : calls'[n].pushed = Len(Defs(calls[n].block))'
  BY <1>1 DEF Stacked, Defs, StoresOf, program
<1>5. phase' # "rename" => calls' = <<>>
  BY DEF Stacked
<1> QED BY <1>3, <1>4, <1>5 DEF Stacked, program

(* Nothing is on the way before the first activation.                        *)
LEMMA EmptyStacked ==
  ASSUME calls = <<>>, stack = <<Zero>>
  PROVE  Stacked
<1>1. PICK f : f = [n \in 0 .. 0 |-> <<Zero>>]
  OBVIOUS
<1>2. Len(calls) = 0
  BY EmptySeq
<1>3. <<Zero>> \in Seq(Val) /\ <<Zero>> # <<>>
  <2>1. Zero \in Val
    BY PlacesAreValues
  <2>2. Len(<<Zero>>) = 1 /\ Len(<<>>) = 0
    BY EmptySeq
  <2> QED BY <2>1, <2>2
<1>4. f \in [0 .. 0 -> Seq(Val) \ {<<>>}] /\ f[0] = <<Zero>>
  BY <1>1, <1>3
<1>5. \A n \in 1 .. 0 : FALSE
  OBVIOUS
<1>6. Along(f) /\ stack = f[Len(calls)]
  BY <1>2, <1>4, <1>5 DEF Along
<1> QED BY <1>2, <1>5, <1>6 DEF Stacked

LEMMA InitTyped ==
  ASSUME Init
  PROVE  Typed /\ Stacked
<1>1. PICK prog \in Programs : succ = Graph(prog.term) /\ code = prog.code
  BY DEF Init
<1>2. /\ prog.term \in [Blocks -> Terminators]
      /\ \A b \in Blocks : code[b] \in Seq(Ops) /\ Len(code[b]) <= MaxOps
  BY <1>1, ProgramAssumption
<1>3. succ \in [Blocks -> SUBSET Blocks]
  BY <1>1, <1>2, GraphType
<1>4. children \in [Blocks -> SUBSET Blocks]
  BY DEF Init, TreeOf
<1>5. frontiers \in [Blocks -> SUBSET Blocks]
  <2>1. \A b \in Blocks : JoinFrontierOf(succ, b) \subseteq Blocks
    BY DEF JoinFrontierOf, Joins
  <2> QED BY <2>1 DEF Init
<1>6. Zero \in Val /\ Null \in Val
  BY BlocksAssumption, ProgramAssumption DEF Val, Zero, Null
<1>7. stack \in Seq(Val) /\ calls \in Seq(Activations)
  BY <1>6, EmptySeq DEF Init
<1>8. /\ incoming \in [Blocks -> [Blocks -> Val]] /\ repl \in [Sites -> Val]
      /\ env \in [Val -> Data \cup {Undef}] /\ mem \in Data /\ memSSA \in Data
  BY <1>6, ProgramAssumption DEF Init
<1>9. cur \in Blocks /\ pc \in 1 .. MaxOps + 1
  BY EntryIsBlock, ProgramAssumption DEF Init
<1>10. phase = "insert" /\ phis = {} /\ removed = {}
  BY DEF Init
<1>11. Stacked
  BY EmptyStacked DEF Init
<1> QED BY <1>2, <1>3, <1>4, <1>5, <1>7, <1>8, <1>9, <1>10, <1>11 DEF Typed, TypeOK

LEMMA RenameTyped ==
  ASSUME Typed, Stacked, RenameEntry \/ \E c \in Blocks : RenameChild(c)
  PROVE  Typed' /\ Stacked'
<1>1. CASE RenameEntry
  <2>1. /\ phase = "rename" /\ calls = <<>> /\ RenameBlock(Entry)
        /\ calls' = <<Activation(Entry)>>
        /\ UNCHANGED <<program, phase, phis, removed, machine>>
    BY <1>1 DEF RenameEntry
  <2>2. calls' = Append(calls, Activation(Entry)) /\ calls \in Seq(Activations)
    BY <2>1 DEF Typed, TypeOK
  <2>3. \A n \in 1 .. Len(calls) : calls[n].waiting \subseteq calls[n].waiting
    OBVIOUS
  <2>4. /\ Stacked' /\ stack' \in Seq(Val) /\ calls' \in Seq(Activations)
        /\ incoming' \in [Blocks -> [Blocks -> Val]] /\ repl' \in [Sites -> Val]
    BY <2>1, <2>2, <2>3, EntryIsBlock, PushKeepsStacked
  <2> QED BY <2>1, <2>4 DEF Typed, TypeOK, program, machine
<1>2. ASSUME NEW c \in Blocks, RenameChild(c) PROVE Typed' /\ Stacked'
  <2> DEFINE L == Len(calls)
             cs == [calls EXCEPT ![L].waiting = @ \ {c}]
  <2>1. /\ phase = "rename" /\ calls # <<>> /\ c \in calls[L].waiting /\ RenameBlock(c)
        /\ calls' = Append(cs, Activation(c))
        /\ UNCHANGED <<program, phase, phis, removed, machine>>
    BY <1>2 DEF RenameChild, Top
  <2>2. L \in 1 .. L /\ calls \in Seq(Activations)
    BY <2>1, EmptySeq DEF Typed, TypeOK
  <2>3. /\ calls[L] \in Activations
        /\ [calls[L] EXCEPT !.waiting = @ \ {c}] \in Activations
    <3>1. calls[L] \in Activations
      BY <2>2
    <3> QED BY <3>1 DEF Activations
  <2>4. cs = [calls EXCEPT ![L] = [calls[L] EXCEPT !.waiting = @ \ {c}]]
    OBVIOUS
  <2> HIDE DEF cs
  <2>5. /\ cs \in Seq(Activations) /\ Len(cs) = L
        /\ \A n \in 1 .. L : cs[n] = IF n = L THEN [calls[L] EXCEPT !.waiting = @ \ {c}] ELSE calls[n]
    BY <2>2, <2>3, <2>4, ExceptSeq
  <2>6. \A n \in 1 .. L : /\ cs[n].block = calls[n].block /\ cs[n].pushed = calls[n].pushed
                          /\ cs[n].waiting \subseteq calls[n].waiting
    BY <2>3, <2>5 DEF Activations
  <2>7. c \in children[Top(calls).block]
    BY <2>1, <2>2 DEF Stacked, Top
  <2>8. /\ Stacked' /\ stack' \in Seq(Val) /\ calls' \in Seq(Activations)
        /\ incoming' \in [Blocks -> [Blocks -> Val]] /\ repl' \in [Sites -> Val]
    BY <2>1, <2>5, <2>6, <2>7, PushKeepsStacked
  <2> QED BY <2>1, <2>8 DEF Typed, TypeOK, program, machine
<1> QED BY <1>1, <1>2

LEMMA ExecTyped ==
  ASSUME Typed, Stacked, NEW x \in Data, NEW s \in Blocks,
         ExecLoad \/ ExecStore(x) \/ ExecCall(x) \/ Jump(s)
  PROVE  Typed' /\ Stacked'
<1>1. phase = "run" /\ UNCHANGED <<program, phase, phis, renamer, removed>>
  BY DEF ExecLoad, ExecStore, ExecCall, Jump, AtOp
<1>2. Stacked'
  BY <1>1, StackedFrame DEF renamer
<1>3. Len(code[cur]) \in Nat /\ Len(code[cur]) <= MaxOps /\ MaxOps \in Nat
  BY ProgramAssumption DEF Typed, TypeOK
<1>4. CASE ExecLoad \/ ExecStore(x) \/ ExecCall(x)
  <2>1. pc <= Len(code[cur]) /\ pc' = pc + 1 /\ cur' = cur
    BY <1>4 DEF ExecLoad, ExecStore, ExecCall, AtOp, HasOp
  <2>2. pc' \in 1 .. MaxOps + 1
    BY <1>3, <2>1 DEF Typed, TypeOK
  <2>3. mem' \in Data /\ memSSA' \in Data
    <3>1. mem \in Data /\ memSSA \in Data
      BY DEF Typed, TypeOK
    <3>2. CASE ExecLoad \/ ExecCall(x)
      BY <3>1, <3>2 DEF ExecLoad, ExecCall
    <3>3. CASE ExecStore(x)
      <4>1. Kind \in Stores
        BY <3>3 DEF ExecStore, AtOp, HasOp, Kind
      <4>2. \A m \in Data : Writes[Kind][m][x] \in Data
        BY <4>1, ProgramAssumption
      <4>3. /\ mem' = Writes[Kind][mem][x]
            /\ memSSA' = memSSA \/ memSSA' = Writes[Kind][memSSA][x]
        BY <3>3 DEF ExecStore
      <4> QED BY <3>1, <4>2, <4>3
    <3> QED BY <1>4, <3>2, <3>3
  <2>4. env' \in [Val -> Data \cup {Undef}]
    <3>1. env' = env \/ env' = [env EXCEPT ![<<cur, pc>>] = x]
      BY <1>4 DEF ExecLoad, ExecStore, ExecCall
    <3>2. env \in [Val -> Data \cup {Undef}]
      BY DEF Typed, TypeOK
    <3> QED BY <3>1, <3>2
  <2> QED BY <1>1, <1>2, <2>1, <2>2, <2>3, <2>4 DEF Typed, TypeOK, program, renamer
<1>5. CASE Jump(s)
  <2>1. cur' = s /\ pc' = 1 /\ UNCHANGED <<mem, memSSA>>
    BY <1>5 DEF Jump
  <2>2. 1 \in 1 .. MaxOps + 1
    BY <1>3
  <2>3. incoming[s][cur] \in Val
    BY DEF Typed, TypeOK
  <2>4. env' \in [Val -> Data \cup {Undef}]
    BY <1>5, <2>3 DEF Jump, Typed, TypeOK
  <2> QED BY <1>1, <1>2, <2>1, <2>2, <2>4 DEF Typed, TypeOK, program, renamer
<1> QED BY <1>4, <1>5

LEMMA TypedStep ==
  ASSUME Typed, Stacked, [Next]_vars
  PROVE  Typed' /\ Stacked'
<1>1. CASE InsertPhis
  <2>1. /\ phase = "insert" /\ phase' = "rename" /\ phis' = PhiBlocks
        /\ UNCHANGED <<program, renamer, removed, machine>>
    BY <1>1 DEF InsertPhis
  <2>2. phis' \subseteq Blocks
    BY <2>1 DEF PhiBlocks, DefSites, Typed, TypeOK
  <2>3. calls = <<>>
    BY <2>1 DEF Stacked
  <2>4. Stacked'
    BY <2>1, <2>3, StackedFrame DEF renamer
  <2> QED BY <2>1, <2>2, <2>4 DEF Typed, TypeOK, program, renamer, machine
<1>2. CASE RenameEntry \/ \E c \in Blocks : RenameChild(c)
  BY <1>2, RenameTyped
<1>3. CASE LeaveBlock
  <2>1. Stacked' /\ stack' \in Seq(Val) /\ calls' \in Seq(Activations)
    BY <1>3, PopKeepsStacked
  <2>2. /\ phase' \in {"promote", "rename"} /\ removed' \subseteq Sites
        /\ UNCHANGED <<program, phis, incoming, repl, machine>>
    BY <1>3 DEF LeaveBlock, Typed, TypeOK
  <2> QED BY <2>1, <2>2 DEF Typed, TypeOK, program, machine
<1>4. CASE Promote
  <2>1. /\ phase = "promote" /\ phase' = "run" /\ removed' \subseteq Sites
        /\ UNCHANGED <<program, phis, renamer, machine>>
    BY <1>4 DEF Promote, Typed, TypeOK
  <2>2. calls = <<>>
    BY <2>1 DEF Stacked
  <2>3. Stacked'
    BY <2>1, <2>2, StackedFrame DEF renamer
  <2> QED BY <2>1, <2>3 DEF Typed, TypeOK, program, renamer, machine
<1>5. CASE ExecLoad \/ (\E x \in Stored : ExecStore(x) \/ ExecCall(x)) \/ \E s \in Blocks : Jump(s)
  <2>1. 0 \in Data /\ Entry \in Blocks
    BY EntryIsBlock, ProgramAssumption
  <2> QED BY <1>5, <2>1, ExecTyped, ProgramAssumption
<1>6. CASE UNCHANGED vars
  BY <1>6, StackedFrame DEF Typed, TypeOK, vars, program, renamer, machine
<1> QED BY <1>1, <1>2, <1>3, <1>4, <1>5, <1>6 DEF Next

(* Types, on every function: in particular the renamer never reads the top of
   an empty stack, for a value is on it when a block is renamed.             *)
THEOREM SSATypeCorrect == Spec => [](Typed /\ Stacked)
<1>1. Init => Typed /\ Stacked
  BY InitTyped
<1>2. Typed /\ Stacked /\ [Next]_vars => (Typed /\ Stacked)'
  BY TypedStep
<1> QED BY <1>1, <1>2, PTL DEF Spec

(* There is one way to add up the definitions along the activations.         *)
LEMMA StackIsAlong ==
  ASSUME Typed, Stacked
  PROVE  StackFollowsTree
<1> SUFFICES ASSUME phase = "rename" PROVE StackFollowsTree
  BY DEF StackFollowsTree
<1> DEFINE L == Len(calls)
           Sum(g) == g = [n \in 0 .. L |-> IF n = 0 THEN <<Zero>>
                                           ELSE g[n - 1] \o Defs(calls[n].block)]
           along == CHOOSE g : Sum(g)
<1>1. L \in Nat
  BY DEF Typed, TypeOK
<1>2. PICK f : Along(f) /\ stack = f[L]
  BY DEF Stacked
<1>3. StackFollowsTree <=> stack = along[L]
  BY DEF StackFollowsTree, Defs
<1> HIDE DEF L
<1>4. /\ f \in [0 .. L -> Seq(Val) \ {<<>>}] /\ f[0] = <<Zero>>
      /\ \A n \in 1 .. L : f[n] = f[n - 1] \o Defs(calls[n].block)
  BY <1>2 DEF Along, L
<1>5. \A n \in 0 .. L : f[n] = IF n = 0 THEN <<Zero>> ELSE f[n - 1] \o Defs(calls[n].block)
  <2>1. \A n \in 0 .. L : n # 0 => n \in 1 .. L
    BY <1>1
  <2> QED BY <1>4, <2>1
<1>6. Sum(f)
  BY <1>4, <1>5
<1>7. Sum(along)
  BY <1>6
<1> HIDE DEF along
<1>8. \A n \in 0 .. L : along[n] = IF n = 0 THEN <<Zero>> ELSE along[n - 1] \o Defs(calls[n].block)
  BY <1>7
<1> DEFINE I == {n \in Nat : n <= L => along[n] = f[n]}
<1>9. 0 \in I
  BY <1>1, <1>5, <1>8
<1>10. ASSUME NEW n \in Nat, n \in I PROVE n + 1 \in I
  <2> SUFFICES ASSUME n + 1 <= L PROVE along[n + 1] = f[n + 1]
    OBVIOUS
  <2>1. n <= L /\ n + 1 \in 0 .. L /\ n + 1 # 0 /\ (n + 1) - 1 = n
    BY <1>1
  <2>2. along[n] = f[n]
    BY <1>10, <2>1
  <2> QED BY <1>5, <1>8, <2>1, <2>2
<1> HIDE DEF I
<1>11. L \in I
  BY <1>1, <1>9, <1>10, Induction
<1>12. along[L] = f[L]
  BY <1>1, <1>11 DEF I
<1> QED BY <1>2, <1>3, <1>12

(* On every function, in whatever order the children are renamed, the stack
   holds the definitions of the blocks from the entry to the one being renamed
   and nothing that a sibling has left.                                      *)
THEOREM StackFollowsTreeAlways == Spec => []StackFollowsTree
<1>1. Typed /\ Stacked => StackFollowsTree
  BY StackIsAlong
<1> QED BY <1>1, SSATypeCorrect, PTL

-----------------------------------------------------------------------------
(* What the conversion reads of the analyses.                                *)
Analysed ==
  /\ children = TreeOf([b \in Blocks |-> DomSetOf(succ, b)])
  /\ frontiers = [b \in Blocks |-> JoinFrontierOf(succ, b)]
  /\ phase # "insert" => phis = PhiBlocks

Doms(b) == {d \in Blocks : Dominates(succ, d, b)}

(* v is the value of the variable where the blocks S, which form a chain, are
   the ones that are certain to have been executed: what the last of them that
   defines it leaves, or 0.                                                  *)
Nearest(S, v) ==
  \/ S \cap Defining = {} /\ v = Zero
  \/ \E d \in S \cap Defining :
       v = LastDef(d) /\ \A e \in S \cap Defining : Dominates(succ, e, d)

ReachIn(b, v) == IF b \in phis THEN v = PhiOf(b) ELSE Nearest(Doms(b) \ {b}, v)

ReachOut(b, v) == Nearest(Doms(b), v)

LEMMA DominanceFacts ==
  ASSUME Typed, AllReachable(succ)
  PROVE  /\ \A b \in Blocks : Dominates(succ, b, b)
         /\ \A a, b, c \in Blocks : Dominates(succ, a, b) /\ Dominates(succ, b, c) => Dominates(succ, a, c)
         /\ \A a, b \in Blocks : Dominates(succ, a, b) /\ Dominates(succ, b, a) => a = b
         /\ \A a, b, c \in Blocks : Dominates(succ, a, c) /\ Dominates(succ, b, c)
                                      => Dominates(succ, a, b) \/ Dominates(succ, b, a)
         /\ \A d, b, p \in Blocks : b \in succ[p] /\ d # b /\ Dominates(succ, d, b) => Dominates(succ, d, p)
         /\ Doms(Entry) = {Entry} /\ \A b \in Blocks : Dominates(succ, Entry, b)
<1>1. /\ succ \in [Blocks -> SUBSET Blocks] /\ {Entry} \in SUBSET Blocks
      /\ ReachAvoiding(succ, {Entry}, {}) = Blocks
  BY EntryIsBlock DEF Typed, TypeOK, AllReachable, Reachable
<1>2. \A d, b : Dominates(succ, d, b) <=> DomFrom(succ, {Entry}, d, b)
  BY DEF Dominates, DomFrom
<1>3. \A b \in Blocks : Dominates(succ, b, b)
  BY <1>1, <1>2, DomReflexive
<1>4. \A a, b, c \in Blocks : Dominates(succ, a, b) /\ Dominates(succ, b, c) => Dominates(succ, a, c)
  BY <1>1, <1>2, DomTransitive
<1>5. \A a, b \in Blocks : Dominates(succ, a, b) /\ Dominates(succ, b, a) => a = b
  BY <1>1, <1>2, DomAntisymmetric
<1>6. \A a, b, c \in Blocks : Dominates(succ, a, c) /\ Dominates(succ, b, c)
                                => Dominates(succ, a, b) \/ Dominates(succ, b, a)
  BY <1>1, <1>2, DomChain
<1>7. \A d, b, p \in Blocks : b \in succ[p] /\ d # b /\ Dominates(succ, d, b) => Dominates(succ, d, p)
  BY <1>1, <1>2, DomOfPred
<1>8. Doms(Entry) = {Entry}
  BY <1>1, <1>2, <1>3, EntryIsBlock, DomOfStart DEF Doms
<1>9. ReachAvoiding(succ, {Entry}, {Entry}) \subseteq {}
  <2>1. {Entry} \ {Entry} \subseteq {} /\ \A b \in {} : succ[b] \ {Entry} \subseteq {}
    OBVIOUS
  <2> QED BY <2>1, ReachLeast
<1>10. \A b \in Blocks : Dominates(succ, Entry, b)
  BY <1>9 DEF Dominates
<1> QED BY <1>3, <1>4, <1>5, <1>6, <1>7, <1>8, <1>10

(* The tree hangs a block below the closest of its strict dominators.        *)
LEMMA ChildrenAre ==
  ASSUME Typed, Analysed, AllReachable(succ), NEW b \in Blocks, NEW c \in Blocks
  PROVE  c \in children[b] <=>
           /\ c # Entry /\ b # c /\ Dominates(succ, b, c)
           /\ \A d \in Blocks : Dominates(succ, d, c) /\ d # c => Dominates(succ, d, b)
<1>1. Roots(succ) = {Entry}
  BY OneRoot DEF Typed, TypeOK
<1>2. \A x \in Blocks : DomSetOf(succ, x) = Doms(x)
  BY <1>1 DEF DomSetOf, Doms, Dominates
<1> DEFINE doms == [x \in Blocks |-> DomSetOf(succ, x)]
<1>3. children[b] = {x \in Blocks \ {Entry} : b \in IdomOf(doms, x)}
  BY DEF Analysed, TreeOf
<1>4. doms[c] = Doms(c) /\ \A d \in Blocks : doms[d] = Doms(d)
  BY <1>2
<1> HIDE DEF doms
<1>5. b \in IdomOf(doms, c) <=> b \in Doms(c) \ {c} /\ Doms(c) \ {c} \subseteq Doms(b)
  BY <1>4 DEF IdomOf
<1> QED BY <1>3, <1>5 DEF Doms

LEMMA ChildDoms ==
  ASSUME Typed, Analysed, AllReachable(succ), NEW b \in Blocks, NEW c \in children[b]
  PROVE  c \in Blocks /\ Doms(c) \ {c} = Doms(b) /\ Dominates(succ, b, c)
<1>1. c \in Blocks
  BY DEF Typed, TypeOK
<1> QED BY <1>1, ChildrenAre, DominanceFacts DEF Doms

(* A block is below one of the children of whatever strictly dominates it.   *)
LEMMA ChildToward ==
  ASSUME Typed, Analysed, AllReachable(succ), NEW b \in Blocks, NEW x \in Blocks,
         b # x, Dominates(succ, b, x)
  PROVE  \E c \in children[b] : Dominates(succ, c, x)
<1> DEFINE S == {d \in Blocks : d # b /\ Dominates(succ, b, d) /\ Dominates(succ, d, x)}
<1>1. S \in SUBSET Blocks /\ x \in S
  BY DominanceFacts
<1>2. /\ succ \in [Blocks -> SUBSET Blocks] /\ {Entry} \in SUBSET Blocks
      /\ ReachAvoiding(succ, {Entry}, {}) = Blocks
  BY EntryIsBlock DEF Typed, TypeOK, AllReachable, Reachable
<1>3. \A d, e : Dominates(succ, d, e) <=> DomFrom(succ, {Entry}, d, e)
  BY DEF Dominates, DomFrom
<1>4. \A d \in S : DomFrom(succ, {Entry}, d, x) /\ d \in ReachAvoiding(succ, {Entry}, {})
  BY <1>2, <1>3
<1> HIDE DEF S
<1>5. \E d \in S : \A e \in S : DomFrom(succ, {Entry}, d, e)
  BY <1>1, <1>2, <1>4, FarthestExists
<1>6. PICK c \in S : \A e \in S : Dominates(succ, c, e)
  BY <1>3, <1>5
<1>7. c \in Blocks /\ c # b /\ Dominates(succ, b, c) /\ Dominates(succ, c, x)
  BY DEF S
<1>8. c # Entry
  <2>1. c = Entry => b \in Doms(Entry)
    BY <1>7 DEF Doms
  <2> QED BY <1>7, <2>1, DominanceFacts
<1>9. ASSUME NEW d \in Blocks, Dominates(succ, d, c), d # c PROVE Dominates(succ, d, b)
  <2>1. Dominates(succ, d, b) \/ Dominates(succ, b, d)
    BY <1>7, <1>9, DominanceFacts
  <2>2. CASE Dominates(succ, b, d) /\ d # b
    <3>1. Dominates(succ, d, x)
      BY <1>7, <1>9, DominanceFacts
    <3>2. d \in S
      BY <2>2, <3>1 DEF S
    <3> QED BY <1>6, <1>7, <1>9, <3>2, DominanceFacts
  <2> QED BY <2>1, <2>2, DominanceFacts
<1>10. c \in children[b]
  BY <1>7, <1>8, <1>9, ChildrenAre
<1> QED BY <1>7, <1>10

(* The value at the end of a block, from the value at its start.             *)
LEMMA OutOfBlock ==
  ASSUME Typed, AllReachable(succ), NEW b \in Blocks, NEW s \in Seq(Val), s # <<>>,
         Nearest(Doms(b) \ {b}, Top(s))
  PROVE  ReachOut(b, Top(s \o Defs(b)))
<1>1. Top(s \o Defs(b)) = IF b \in Defining THEN LastDef(b) ELSE Top(s)
  BY TopOfPush
<1>2. CASE b \in Defining
  <2>1. b \in Doms(b) \cap Defining /\ \A e \in Doms(b) : Dominates(succ, e, b)
    BY <1>2, DominanceFacts DEF Doms
  <2> QED BY <1>1, <1>2, <2>1 DEF ReachOut, Nearest
<1>3. CASE b \notin Defining
  <2>1. Doms(b) \cap Defining = (Doms(b) \ {b}) \cap Defining
    BY <1>3
  <2> QED BY <1>1, <1>3, <2>1 DEF ReachOut, Nearest
<1> QED BY <1>2, <1>3

(* On top of the stack after each activation is the value at the end of its
   block.                                                                    *)
LEMMA TopIsNearest ==
  ASSUME Typed, Stacked, Analysed, AllReachable(succ), NEW f, Along(f)
  PROVE  \A n \in 1 .. Len(calls) : ReachOut(calls[n].block, Top(f[n]))
<1> DEFINE L == Len(calls)
           I == {n \in Nat : n > 0 /\ n <= L => ReachOut(calls[n].block, Top(f[n]))}
<1>1. L \in Nat /\ \A n \in 1 .. L : calls[n] \in Activations
  BY DEF Typed, TypeOK
<1>2. \A n \in 1 .. L : calls[n].block \in Blocks
  BY <1>1 DEF Activations
<1> HIDE DEF L
<1>3. /\ f \in [0 .. L -> Seq(Val) \ {<<>>}] /\ f[0] = <<Zero>>
      /\ \A n \in 1 .. L : f[n] = f[n - 1] \o Defs(calls[n].block)
  BY DEF Along, L
<1>4. 0 \in I
  OBVIOUS
<1>5. ASSUME NEW n \in Nat, n \in I PROVE n + 1 \in I
  <2> SUFFICES ASSUME n + 1 <= L PROVE ReachOut(calls[n + 1].block, Top(f[n + 1]))
    OBVIOUS
  <2>1. n <= L /\ n + 1 \in 1 .. L /\ (n + 1) - 1 = n /\ n \in 0 .. L
    BY <1>1
  <2> DEFINE b == calls[n + 1].block
  <2>2. b \in Blocks /\ f[n] \in Seq(Val) /\ f[n] # <<>> /\ f[n + 1] = f[n] \o Defs(b)
    BY <1>2, <1>3, <2>1
  <2>3. Nearest(Doms(b) \ {b}, Top(f[n]))
    <3>1. CASE n = 0
      <4>1. calls # <<>>
        BY <1>1, <2>1, EmptySeq DEF L
      <4>2. b = Entry
        BY <3>1, <4>1 DEF Stacked
      <4>3. Top(f[n]) = Zero
        <5>1. f[n] = <<Zero>>
          BY <1>3, <3>1
        <5> QED BY <5>1 DEF Top
      <4>4. (Doms(b) \ {b}) \cap Defining = {}
        BY <4>2, DominanceFacts
      <4> QED BY <4>3, <4>4 DEF Nearest
    <3>2. CASE n > 0
      <4>1. n \in 1 .. L /\ n + 1 > 1
        BY <2>1, <3>2
      <4>2. b \in children[calls[n].block] /\ calls[n].block \in Blocks
        BY <1>2, <2>1, <4>1 DEF Stacked, L
      <4>3. ReachOut(calls[n].block, Top(f[n]))
        BY <1>5, <2>1, <3>2
      <4>4. Doms(b) \ {b} = Doms(calls[n].block)
        BY <4>2, ChildDoms
      <4> QED BY <4>3, <4>4 DEF ReachOut
    <3> QED BY <3>1, <3>2
  <2> HIDE DEF b
  <2>4. ReachOut(b, Top(f[n] \o Defs(b)))
    BY <2>2, <2>3, OutOfBlock
  <2> QED BY <2>2, <2>4 DEF b
<1> HIDE DEF I
<1>6. \A n \in Nat : n \in I
  BY <1>4, <1>5, Induction
<1> QED BY <1>1, <1>6 DEF I, L

(* The values that renaming a block writes.                                  *)
LEMMA RenameValues ==
  ASSUME Typed, Stacked, Analysed, AllReachable(succ), NEW c \in Blocks, RenameBlock(c),
         calls = <<>> => c = Entry,
         calls # <<>> => c \in children[Top(calls).block]
  PROVE  ReachIn(c, Top(WithPhi(c))) /\ ReachOut(c, Top(stack'))
<1> DEFINE L == Len(calls)
<1>1. L \in Nat /\ stack \in Seq(Val) /\ stack # <<>> /\ (L = 0 <=> calls = <<>>)
      /\ \A n \in 1 .. L : calls[n].block \in Blocks
  <2>1. \A n \in 1 .. L : calls[n] \in Activations
    BY DEF Typed, TypeOK
  <2>2. \A n \in 1 .. L : calls[n].block \in Blocks
    BY <2>1 DEF Activations
  <2> QED BY <2>2, StackNotEmpty, EmptySeq DEF Typed, TypeOK
<1>2. PICK f : Along(f) /\ stack = f[L]
  BY DEF Stacked
<1>3. Nearest(Doms(c) \ {c}, Top(stack))
  <2>1. CASE L = 0
    <3>1. Top(stack) = Zero
      BY <1>2, <2>1 DEF Along, Top
    <3>2. (Doms(c) \ {c}) \cap Defining = {}
      BY <1>1, <2>1, DominanceFacts
    <3> QED BY <3>1, <3>2 DEF Nearest
  <2>2. CASE L # 0
    <3>1. L \in 1 .. L /\ calls # <<>> /\ c \in children[calls[L].block] /\ calls[L].block \in Blocks
      BY <1>1, <2>2 DEF Top
    <3>2. ReachOut(calls[L].block, Top(stack))
      BY <1>2, <3>1, TopIsNearest
    <3>3. Doms(c) \ {c} = Doms(calls[L].block)
      BY <3>1, ChildDoms
    <3> QED BY <3>2, <3>3 DEF ReachOut
  <2> QED BY <2>1, <2>2
<1>4. ReachIn(c, Top(WithPhi(c)))
  <2>1. CASE c \in phis
    <3>1. Append(stack, PhiOf(c))[Len(Append(stack, PhiOf(c)))] = PhiOf(c)
      BY <1>1, PlacesAreValues, AppendProperties
    <3> QED BY <2>1, <3>1 DEF ReachIn, WithPhi, Top
  <2>2. CASE c \notin phis
    BY <1>3, <2>2 DEF ReachIn, WithPhi
  <2> QED BY <2>1, <2>2
<1>5. stack' = stack \o Defs(c)
  BY PushIsConcat DEF RenameBlock
<1>6. ReachOut(c, Top(stack'))
  BY <1>1, <1>3, <1>5, OutOfBlock
<1> QED BY <1>4, <1>6

(* No value that arrives is the null operand.                                *)
LEMMA NeverNull ==
  ASSUME Typed, AllReachable(succ), NEW b \in Blocks, NEW v
  PROVE  ReachIn(b, v) \/ ReachOut(b, v) => v # Null
<1>1. Zero # Null /\ \A d \in Blocks : PhiOf(d) # Null
  BY DEF Zero, Null, PhiOf
<1>2. Null[1] \notin Blocks
  BY BlocksAssumption DEF Null, Blocks
<1>3. \A d \in Defining : d \in Blocks /\ LastDef(d)[1] = d
  BY DefsAre DEF Defining
<1>4. \A S : Nearest(S, v) => v # Null
  BY <1>1, <1>2, <1>3 DEF Nearest
<1> QED BY <1>1, <1>4 DEF ReachIn, ReachOut

-----------------------------------------------------------------------------
(* The operands that have been written are the values that arrive.           *)
Operands ==
  /\ \A s \in Sites, v \in Val : v = repl[s] =>
       v = Null \/ (HasOp(s[1], s[2], DirectLoads) /\ ReachIn(s[1], v))
  /\ \A b, p \in Blocks, v \in Val : v = incoming[b][p] =>
       v = Null \/ (b \in succ[p] /\ b \in phis /\ ReachOut(p, v))

Renamed(b) ==
  /\ \A k \in 1 .. MaxOps : HasOp(b, k, DirectLoads) => repl[<<b, k>>] # Null
  /\ \A s \in succ[b] \cap phis : incoming[s][b] # Null

(* A block is still to come if it is below a child that waits.               *)
Pending(b) == \E n \in 1 .. Len(calls) : \E c \in calls[n].waiting : Dominates(succ, c, b)

LoadsGone(b) == \A k \in 1 .. MaxOps : HasOp(b, k, DirectLoads) => <<b, k>> \in removed

Active(b) == \E n \in 1 .. Len(calls) : calls[n].block = b

Progress ==
  /\ phase = "rename" /\ calls # <<>> =>
       \A b \in Blocks : Pending(b) \/ (Renamed(b) /\ (LoadsGone(b) \/ Active(b)))
  /\ phase \in {"promote", "run"} => \A b \in Blocks : Renamed(b) /\ LoadsGone(b)
  /\ phase = "run" => \A b \in Blocks, k \in 1 .. MaxOps : HasOp(b, k, Plain) => <<b, k>> \in removed

Converting == /\ phase = "insert" => /\ \A s \in Sites : repl[s] = Null
                                     /\ \A b, p \in Blocks : incoming[b][p] = Null
              /\ AllReachable(succ) => Operands /\ Progress

LEMMA ReachFrame ==
  ASSUME UNCHANGED <<succ, code, phis>>
  PROVE  /\ \A b, v : ReachIn(b, v)' <=> ReachIn(b, v)
         /\ \A b, v : ReachOut(b, v)' <=> ReachOut(b, v)
         /\ \A b, k, op : HasOp(b, k, op)' <=> HasOp(b, k, op)
         /\ \A b, c : Dominates(succ, b, c)' <=> Dominates(succ, b, c)
<1>1. \A b : Defs(b)' = Defs(b)
  BY DefsFrame
<1>2. \A b : LastDef(b)' = LastDef(b)
  BY <1>1 DEF LastDef, Top
<1>3. \A b, k, op : HasOp(b, k, op)' <=> HasOp(b, k, op)
  BY DEF HasOp
<1>4. Defining' = Defining
  BY <1>3 DEF Defining, DefSites
<1>5. \A S, v : Nearest(S, v)' <=> Nearest(S, v)
  BY <1>2, <1>4 DEF Nearest
<1>6. \A b : Doms(b)' = Doms(b)
  BY DEF Doms
<1>7. \A b, v : Nearest(Doms(b) \ {b}, v)' <=> Nearest(Doms(b) \ {b}, v)
  BY <1>2, <1>4 DEF Nearest, Doms
<1>8. \A b, v : Nearest(Doms(b), v)' <=> Nearest(Doms(b), v)
  BY <1>2, <1>4 DEF Nearest, Doms
<1> QED BY <1>3, <1>7, <1>8 DEF ReachIn, ReachOut

LEMMA AnalysedStep ==
  ASSUME Analysed, [Next]_vars
  PROVE  Analysed'
<1>1. succ' = succ /\ code' = code /\ children' = children /\ frontiers' = frontiers
  BY DEF Next, InsertPhis, RenameEntry, RenameChild, LeaveBlock, Promote, ExecLoad, ExecStore,
         ExecCall, Jump, vars, program
<1>2. PhiBlocks' = PhiBlocks
  BY <1>1 DEF PhiBlocks, DefSites, HasOp
<1>3. phase' # "insert" => phis' = PhiBlocks
  BY DEF Analysed, Next, InsertPhis, RenameEntry, RenameChild, LeaveBlock, Promote, ExecLoad,
         ExecStore, ExecCall, Jump, AtOp, vars
<1> QED BY <1>1, <1>2, <1>3 DEF Analysed

(* An activation writes values that arrive, and leaves what it has not renamed
   below its children.                                                       *)
LEMMA RenameConverts ==
  ASSUME Typed, Stacked, Analysed, AllReachable(succ), Operands, NEW c \in Blocks, RenameBlock(c),
         UNCHANGED <<program, phis>>,
         calls = <<>> => c = Entry,
         calls # <<>> => c \in children[Top(calls).block]
  PROVE  /\ Operands'
         /\ Renamed(c)'
         /\ \A b \in Blocks : Renamed(b) => Renamed(b)'
<1> DEFINE in == Top(WithPhi(c))
           out == Top(stack')
<1>1. ReachIn(c, in) /\ ReachOut(c, out)
  BY RenameValues
<1>2. in # Null /\ out # Null
  BY <1>1, NeverNull
<1>3. /\ \A b, v : ReachIn(b, v)' <=> ReachIn(b, v)
      /\ \A b, v : ReachOut(b, v)' <=> ReachOut(b, v)
      /\ \A b, k, op : HasOp(b, k, op)' <=> HasOp(b, k, op)
  BY ReachFrame DEF program
<1>4. \A s \in Sites : repl'[s] = IF s[1] = c /\ HasOp(c, s[2], DirectLoads) THEN in ELSE repl[s]
  BY DEF RenameBlock
<1>5. \A b, p \in Blocks : incoming'[b][p] = IF p = c /\ b \in succ[c] \cap phis THEN out ELSE incoming[b][p]
  BY DEF RenameBlock, Typed, TypeOK
<1> HIDE DEF in, out
<1>6. ASSUME NEW s \in Sites, NEW v \in Val, v = repl'[s]
      PROVE  v = Null \/ (HasOp(s[1], s[2], DirectLoads) /\ ReachIn(s[1], v))
  BY <1>1, <1>4, <1>6 DEF Operands
<1>7. ASSUME NEW b \in Blocks, NEW p \in Blocks, NEW v \in Val, v = incoming'[b][p]
      PROVE  v = Null \/ (b \in succ[p] /\ b \in phis /\ ReachOut(p, v))
  BY <1>1, <1>5, <1>7 DEF Operands
<1>8. Operands'
  BY <1>3, <1>6, <1>7 DEF Operands, program
<1>9. \A b \in Blocks, k \in 1 .. MaxOps : <<b, k>> \in Sites
  BY DEF Sites
<1>10. \A b \in Blocks : succ[b] \subseteq Blocks
  BY DEF Typed, TypeOK
<1>11. Renamed(c)'
  BY <1>2, <1>3, <1>4, <1>5, <1>9, <1>10 DEF Renamed, program
<1>12. ASSUME NEW b \in Blocks, Renamed(b) PROVE Renamed(b)'
  BY <1>2, <1>3, <1>4, <1>5, <1>9, <1>10, <1>12 DEF Renamed, program
<1> QED BY <1>8, <1>11, <1>12

LEMMA EntryConverts ==
  ASSUME Typed, Stacked, Analysed, AllReachable(succ), Operands, Progress, RenameEntry
  PROVE  Operands' /\ Progress'
<1>1. /\ phase = "rename" /\ phase' = "rename" /\ calls = <<>> /\ RenameBlock(Entry)
      /\ calls' = <<Activation(Entry)>> /\ UNCHANGED <<program, phis, removed>>
  BY DEF RenameEntry
<1>2. Operands' /\ Renamed(Entry)'
  BY <1>1, EntryIsBlock, RenameConverts
<1>3. Len(calls') = 1 /\ calls'[1].block = Entry /\ calls'[1].waiting = children[Entry]
  BY <1>1 DEF Activation
<1>4. ASSUME NEW b \in Blocks, b # Entry PROVE Pending(b)'
  <2>1. \E c \in children[Entry] : Dominates(succ, c, b)
    BY <1>4, EntryIsBlock, DominanceFacts, ChildToward
  <2>2. 1 \in 1 .. Len(calls')
    BY <1>3
  <2>3. \A x, y : Dominates(succ, x, y)' <=> Dominates(succ, x, y)
    BY <1>1 DEF program
  <2> QED BY <1>3, <2>1, <2>2, <2>3 DEF Pending
<1>5. Active(Entry)'
  BY <1>3 DEF Active
<1> QED BY <1>1, <1>2, <1>4, <1>5 DEF Progress

LEMMA ChildConverts ==
  ASSUME Typed, Stacked, Analysed, AllReachable(succ), Operands, Progress,
         NEW c \in Blocks, RenameChild(c)
  PROVE  Operands' /\ Progress'
<1> DEFINE L == Len(calls)
           cs == [calls EXCEPT ![L].waiting = @ \ {c}]
<1>1. /\ phase = "rename" /\ phase' = "rename" /\ calls # <<>> /\ c \in calls[L].waiting
      /\ RenameBlock(c) /\ calls' = Append(cs, Activation(c)) /\ UNCHANGED <<program, phis, removed>>
  BY DEF RenameChild, Top
<1>2. L \in Nat /\ L \in 1 .. L /\ calls \in Seq(Activations)
  BY <1>1, EmptySeq DEF Typed, TypeOK
<1>3. /\ calls[L] \in Activations
      /\ [calls[L] EXCEPT !.waiting = @ \ {c}] \in Activations
  <2>1. calls[L] \in Activations
    BY <1>2
  <2> QED BY <2>1 DEF Activations
<1>4. cs = [calls EXCEPT ![L] = [calls[L] EXCEPT !.waiting = @ \ {c}]]
  OBVIOUS
<1> HIDE DEF cs
<1>5. /\ cs \in Seq(Activations) /\ Len(cs) = L
      /\ \A n \in 1 .. L : cs[n] = IF n = L THEN [calls[L] EXCEPT !.waiting = @ \ {c}] ELSE calls[n]
  BY <1>2, <1>3, <1>4, ExceptSeq
<1>6. c \in children[Top(calls).block]
  BY <1>1, <1>2 DEF Stacked, Top
<1>7. Operands' /\ Renamed(c)' /\ \A b \in Blocks : Renamed(b) => Renamed(b)'
  BY <1>1, <1>6, RenameConverts
<1>8. Activation(c) = [block |-> c, waiting |-> children[c], pushed |-> Activation(c).pushed]
  BY DEF Activation
<1>9. /\ Len(calls') = L + 1 /\ calls'[L + 1] = Activation(c)
      /\ \A n \in 1 .. L : calls'[n] = cs[n]
  <2> DEFINE a == Activation(c)
             T == Activations \cup {a}
  <2> HIDE DEF a
  <2>1. cs \in Seq(T) /\ a \in T
    BY <1>5, SeqMonotonic
  <2> HIDE DEF T
  <2>2. /\ Len(Append(cs, a)) = Len(cs) + 1 /\ Append(cs, a)[Len(cs) + 1] = a
        /\ \A n \in 1 .. Len(cs) : Append(cs, a)[n] = cs[n]
    BY <2>1, AppendProperties
  <2> QED BY <1>1, <1>5, <2>2 DEF a
<1> HIDE DEF L
<1>10. /\ \A n \in 1 .. L : n \in 1 .. L + 1
       /\ L + 1 \in 1 .. L + 1
  BY <1>2
<1>11. \A n \in 1 .. L : /\ calls'[n].block = calls[n].block
                         /\ calls[n].waiting \subseteq calls'[n].waiting \cup {c}
  BY <1>3, <1>5, <1>9 DEF Activations, L
<1>12. \A x, y : Dominates(succ, x, y)' <=> Dominates(succ, x, y)
  BY <1>1 DEF program
<1>13. ASSUME NEW b \in Blocks, Pending(b), b # c PROVE Pending(b)'
  <2>1. PICK n \in 1 .. L : \E d \in calls[n].waiting : Dominates(succ, d, b)
    BY <1>13 DEF Pending, L
  <2>2. PICK d \in calls[n].waiting : Dominates(succ, d, b)
    BY <2>1
  <2>3. CASE d # c
    <3>1. d \in calls'[n].waiting /\ n \in 1 .. Len(calls')
      BY <1>9, <1>10, <1>11, <2>3
    <3> QED BY <1>12, <2>2, <3>1 DEF Pending
  <2>4. CASE d = c
    <3>1. PICK e \in children[c] : Dominates(succ, e, b)
      BY <1>13, <2>2, <2>4, ChildToward
    <3>2. calls'[L + 1].waiting = children[c] /\ L + 1 \in 1 .. Len(calls')
      BY <1>8, <1>9, <1>10
    <3> QED BY <1>12, <3>1, <3>2 DEF Pending
  <2> QED BY <2>3, <2>4
<1>14. ASSUME NEW b \in Blocks, Active(b) PROVE Active(b)'
  BY <1>9, <1>10, <1>11, <1>14 DEF Active, L
<1>15. Active(c)'
  BY <1>8, <1>9, <1>10 DEF Active
<1>16. \A b \in Blocks : LoadsGone(b) => LoadsGone(b)'
  BY <1>1 DEF LoadsGone, HasOp, program
<1>17. \A b \in Blocks : Pending(b) \/ (Renamed(b) /\ (LoadsGone(b) \/ Active(b)))
  BY <1>1 DEF Progress
<1>18. ASSUME NEW b \in Blocks PROVE (Pending(b) \/ (Renamed(b) /\ (LoadsGone(b) \/ Active(b))))'
  BY <1>7, <1>13, <1>14, <1>15, <1>16, <1>17
<1> QED BY <1>1, <1>7, <1>18 DEF Progress

LEMMA LeaveConverts ==
  ASSUME Typed, Stacked, Analysed, AllReachable(succ), Operands, Progress, LeaveBlock
  PROVE  Operands' /\ Progress'
<1> DEFINE L == Len(calls)
           a == calls[L].block
<1>1. /\ phase = "rename" /\ calls # <<>> /\ calls[L].waiting = {}
      /\ removed' = removed \cup {s \in Sites : s[1] = a /\ HasOp(s[1], s[2], DirectLoads)}
      /\ calls' = SubSeq(calls, 1, L - 1) /\ phase' = (IF L = 1 THEN "promote" ELSE "rename")
      /\ UNCHANGED <<program, phis, incoming, repl>>
  BY DEF LeaveBlock, Top
<1>2. L \in Nat /\ L > 0 /\ L \in 1 .. L
  BY <1>1, EmptySeq DEF Typed, TypeOK
<1>3. Len(calls') = L - 1 /\ \A n \in 1 .. L - 1 : calls'[n] = calls[n]
  <2>1. \A n \in 1 .. L - 1 : calls[n] \in Activations
    BY DEF Typed, TypeOK
  <2> HIDE DEF L
  <2>2. L - 1 \in Int /\ 1 \in Int /\ (IF 1 <= L - 1 THEN (L - 1) - 1 + 1 ELSE 0) = L - 1
    BY <1>2
  <2>3. /\ Len(SubSeq(calls, 1, L - 1)) = IF 1 <= L - 1 THEN (L - 1) - 1 + 1 ELSE 0
        /\ \A n \in 1 .. (L - 1) - 1 + 1 : SubSeq(calls, 1, L - 1)[n] = calls[1 + n - 1]
    BY <2>1, <2>2, SubSeqProperties
  <2>4. (L - 1) - 1 + 1 = L - 1 /\ \A n \in 1 .. L - 1 : 1 + n - 1 = n
    BY <1>2
  <2> QED BY <1>1, <2>2, <2>3, <2>4
<1> HIDE DEF L, a
<1>4. /\ \A b, v : ReachIn(b, v)' <=> ReachIn(b, v)
      /\ \A b, v : ReachOut(b, v)' <=> ReachOut(b, v)
      /\ \A b, k, op : HasOp(b, k, op)' <=> HasOp(b, k, op)
      /\ \A b, c : Dominates(succ, b, c)' <=> Dominates(succ, b, c)
  BY <1>1, ReachFrame DEF program
<1>5. Operands'
  BY <1>1, <1>4 DEF Operands, program
<1>6. \A b \in Blocks : Renamed(b) => Renamed(b)'
  BY <1>1, <1>4 DEF Renamed, program
<1>7. \A b \in Blocks, k \in 1 .. MaxOps : <<b, k>> \in Sites
  BY DEF Sites
<1>8. \A b \in Blocks : b = a \/ LoadsGone(b) => LoadsGone(b)'
  BY <1>1, <1>4, <1>7 DEF LoadsGone
<1>9. \A n \in 1 .. L : n = L \/ n \in 1 .. L - 1
  BY <1>2
<1>10. \A b \in Blocks : Pending(b) => Pending(b)'
  BY <1>1, <1>3, <1>4, <1>9 DEF Pending, L
<1>11. \A b \in Blocks : Active(b) => b = a \/ Active(b)'
  BY <1>3, <1>9 DEF Active, L, a
<1>12. \A b \in Blocks : (Pending(b) \/ (Renamed(b) /\ (LoadsGone(b) \/ Active(b))))'
  BY <1>1, <1>6, <1>8, <1>10, <1>11 DEF Progress
<1>13. CASE L = 1
  <2>1. \A n \in 1 .. Len(calls') : FALSE
    BY <1>3, <1>13
  <2>2. \A b \in Blocks : Renamed(b)' /\ LoadsGone(b)'
    BY <1>12, <2>1 DEF Pending, Active
  <2> QED BY <1>1, <1>5, <1>13, <2>2 DEF Progress
<1>14. CASE L # 1
  BY <1>1, <1>5, <1>12, <1>14 DEF Progress
<1> QED BY <1>13, <1>14

LEMMA ConvertingStep ==
  ASSUME Typed, Stacked, Analysed, Converting, [Next]_vars
  PROVE  Converting'
<1>1. succ' = succ /\ code' = code
  BY DEF Next, InsertPhis, RenameEntry, RenameChild, LeaveBlock, Promote, ExecLoad, ExecStore,
         ExecCall, Jump, vars, program
<1>2. AllReachable(succ)' <=> AllReachable(succ)
  BY <1>1
<1>3. CASE InsertPhis
  <2>1. /\ phase = "insert" /\ phase' = "rename" /\ calls' = calls /\ calls = <<>>
        /\ UNCHANGED <<incoming, repl>>
    BY <1>3 DEF InsertPhis, renamer, Stacked
  <2>2. Operands'
    BY <2>1 DEF Converting, Operands
  <2> QED BY <2>1, <2>2 DEF Converting, Progress
<1>4. CASE RenameEntry \/ (\E c \in Blocks : RenameChild(c)) \/ LeaveBlock
  <2>1. phase = "rename" /\ phase' # "insert"
    BY <1>4 DEF RenameEntry, RenameChild, LeaveBlock
  <2>2. AllReachable(succ) => Operands' /\ Progress'
    BY <1>4, EntryConverts, ChildConverts, LeaveConverts DEF Converting
  <2> QED BY <1>2, <2>1, <2>2 DEF Converting
<1>5. CASE Promote
  <2>1. /\ phase = "promote" /\ phase' = "run" /\ UNCHANGED <<succ, code, phis, incoming, repl>>
        /\ removed' = removed \cup {s \in Sites : HasOp(s[1], s[2], Plain)}
    BY <1>5 DEF Promote, program, renamer
  <2>2. /\ \A b, v : ReachIn(b, v)' <=> ReachIn(b, v)
        /\ \A b, v : ReachOut(b, v)' <=> ReachOut(b, v)
        /\ \A b, k, op : HasOp(b, k, op)' <=> HasOp(b, k, op)
    BY <2>1, ReachFrame
  <2>3. Operands => Operands'
    BY <2>1, <2>2 DEF Operands
  <2>4. \A b \in Blocks, k \in 1 .. MaxOps : <<b, k>> \in Sites
    BY DEF Sites
  <2>5. Progress => Progress'
    BY <2>1, <2>2, <2>4 DEF Progress, Renamed, LoadsGone
  <2> QED BY <1>2, <2>1, <2>3, <2>5 DEF Converting
<1>6. CASE ExecLoad \/ (\E x \in Stored : ExecStore(x) \/ ExecCall(x)) \/ (\E s \in Blocks : Jump(s))
             \/ UNCHANGED vars
  <2>1. UNCHANGED <<succ, code, phis, phase, incoming, repl, removed, calls>>
    BY <1>6 DEF ExecLoad, ExecStore, ExecCall, Jump, vars, program, renamer
  <2>2. /\ \A b, v : ReachIn(b, v)' <=> ReachIn(b, v)
        /\ \A b, v : ReachOut(b, v)' <=> ReachOut(b, v)
        /\ \A b, k, op : HasOp(b, k, op)' <=> HasOp(b, k, op)
        /\ \A b, c : Dominates(succ, b, c)' <=> Dominates(succ, b, c)
    BY <2>1, ReachFrame
  <2>3. Operands => Operands'
    BY <2>1, <2>2 DEF Operands
  <2>4. Progress => Progress'
    BY <2>1, <2>2 DEF Progress, Renamed, LoadsGone, Pending, Active
  <2> QED BY <1>2, <2>1, <2>3, <2>4 DEF Converting
<1> QED BY <1>3, <1>4, <1>5, <1>6 DEF Next

ConversionInv == Typed /\ Stacked /\ Analysed /\ Converting

LEMMA ConversionInit ==
  ASSUME Init
  PROVE  ConversionInv
<1>1. Typed /\ Stacked
  BY InitTyped
<1>2. Analysed
  BY DEF Init, Analysed
<1>3. phase = "insert" /\ (\A s \in Sites : repl[s] = Null) /\ \A b, p \in Blocks : incoming[b][p] = Null
  BY DEF Init
<1>4. Operands /\ Progress
  BY <1>3 DEF Operands, Progress
<1> QED BY <1>1, <1>2, <1>3, <1>4 DEF ConversionInv, Converting

THEOREM Conversion == Spec => []ConversionInv
<1>1. Init => ConversionInv
  BY ConversionInit
<1>2. ConversionInv /\ [Next]_vars => ConversionInv'
  BY TypedStep, AnalysedStep, ConvertingStep DEF ConversionInv
<1> QED BY <1>1, <1>2, PTL DEF Spec

(* On every function whose blocks can all be reached, each load is replaced by
   a value that is computed before it on every path, and each operand of a phi
   by one that is computed before the end of its predecessor.                *)
THEOREM DefsDominateUsesAlways == Spec => []DefsDominateUses
<1>1. ASSUME ConversionInv PROVE DefsDominateUses
  <2> SUFFICES ASSUME phase = "promote", AllReachable(succ) PROVE DefsDominateUses
    BY DEF DefsDominateUses
  <2>1. Typed /\ Operands
    BY <1>1 DEF ConversionInv, Converting
  <2>2. \A d \in Defining : d \in Blocks /\ LastDef(d)[1] = d
    BY <2>1, DefsAre DEF Defining
  <2>3. Zero[1] = 0 /\ Null[1] = 0 /\ \A b : PhiOf(b)[1] = b /\ PhiOf(b)[2] = 0
    BY DEF Zero, Null, PhiOf
  <2>4. \A S, v : Nearest(S, v) /\ v[1] # 0 => v[1] \in S \cap Defining
    BY <2>2, <2>3 DEF Nearest
  <2>5. ASSUME NEW s \in removed, repl[s][1] # 0
        PROVE  Dominates(succ, repl[s][1], s[1]) /\ (repl[s][1] = s[1] => repl[s][2] < s[2])
    <3>1. s \in Sites /\ s[1] \in Blocks /\ s[2] \in 1 .. MaxOps /\ repl[s] \in Val
      BY <2>1 DEF Typed, TypeOK, Sites
    <3>2. ReachIn(s[1], repl[s])
      BY <2>1, <2>3, <2>5, <3>1 DEF Operands
    <3>3. CASE s[1] \in phis
      BY <2>1, <2>3, <3>1, <3>2, <3>3, DominanceFacts DEF ReachIn
    <3>4. CASE s[1] \notin phis
      BY <2>4, <2>5, <3>2, <3>4 DEF ReachIn, Doms
    <3> QED BY <3>3, <3>4
  <2>6. ASSUME NEW b \in Blocks, NEW p \in Blocks, incoming[b][p][1] # 0
        PROVE  Dominates(succ, incoming[b][p][1], p)
    <3>1. incoming[b][p] \in Val
      BY <2>1 DEF Typed, TypeOK
    <3>2. ReachOut(p, incoming[b][p])
      BY <2>1, <2>3, <2>6, <3>1 DEF Operands
    <3> QED BY <2>4, <2>6, <3>2 DEF ReachOut, Doms
  <2> QED BY <2>5, <2>6 DEF DefsDominateUses
<1> QED BY <1>1, Conversion, PTL

(* ... and each phi has an operand for every edge that enters its block, and
   no other: the walk over the tree has visited every block.                 *)
THEOREM PhisCompleteAlways == Spec => []PhisComplete
<1>1. ASSUME ConversionInv PROVE PhisComplete
  <2> SUFFICES ASSUME phase = "promote", AllReachable(succ), NEW b \in phis, NEW p \in Blocks
               PROVE  incoming[b][p] = Null <=> p \notin Preds(succ, b)
    BY DEF PhisComplete
  <2>1. Operands /\ Renamed(p) /\ b \in Blocks /\ incoming[b][p] \in Val
    BY <1>1 DEF ConversionInv, Converting, Progress, Typed, TypeOK
  <2>2. CASE b \in succ[p]
    BY <2>1, <2>2 DEF Renamed, Preds
  <2>3. CASE b \notin succ[p]
    BY <2>1, <2>3 DEF Operands, Preds
  <2> QED BY <2>2, <2>3
<1> QED BY <1>1, Conversion, PTL

-----------------------------------------------------------------------------
(* The execution.  Up to the first store of a block what arrives is what the
   memory holds; after a store it is what that store wrote.                  *)
Start == phase # "run" => cur = Entry /\ pc = 1 /\ env[Zero] = 0 /\ mem = 0

FromStart ==
  (\A k \in 1 .. MaxOps : k < pc => ~HasOp(cur, k, DirectStores))
    => \A v \in Val : ReachIn(cur, v) => env[v] = mem

FromStore ==
  \A k \in 1 .. MaxOps :
    /\ k < pc /\ HasOp(cur, k, DirectStores)
    /\ \A j \in 1 .. MaxOps : k < j /\ j < pc => ~HasOp(cur, j, DirectStores)
    => env[<<cur, k>>] = mem

Synced == Start /\ (Covered /\ phase = "run" => FromStart /\ FromStore)

LEMMA CoveredFrontiers ==
  ASSUME Typed, Analysed, Covered, NEW x \in Blocks
  PROVE  frontiers[x] = FrontierOf(succ, x)
<1>1. succ \in [Blocks -> SUBSET Blocks] /\ AllReachable(succ) /\ Preds(succ, Entry) = {}
  BY DEF Typed, TypeOK, Covered
<1>2. frontiers[x] = JoinFrontierOf(succ, x)
  BY DEF Analysed
<1> QED BY <1>1, <1>2, FrontiersAgree

(* An edge to a block without a phi carries one definition: it dominates the
   block, or the block would be in its frontier.                             *)
LEMMA ThroughEdge ==
  ASSUME Typed, Analysed, Covered, phase = "run", NEW p \in Blocks, NEW s \in succ[p],
         s \notin phis, NEW v, ReachIn(s, v)
  PROVE  ReachOut(p, v)
<1>1. AllReachable(succ) /\ s \in Blocks /\ phis = PhiBlocks
  BY DEF Covered, Typed, TypeOK, Analysed
<1>2. Nearest(Doms(s) \ {s}, v)
  BY DEF ReachIn
<1>3. \A d \in Doms(s) \ {s} : d \in Doms(p)
  BY <1>1, DominanceFacts DEF Doms
<1>4. ASSUME NEW e \in Doms(p) \cap Defining, e \notin Doms(s) \ {s} PROVE FALSE
  <2>1. e \in Blocks /\ Dominates(succ, e, p) /\ ~StrictlyDominates(succ, e, s)
    BY <1>1, <1>4 DEF Doms, StrictlyDominates
  <2>2. s \in FrontierOf(succ, e)
    BY <1>1, <2>1 DEF FrontierOf, Preds
  <2>3. s \in frontiers[e]
    BY <2>1, <2>2, CoveredFrontiers
  <2>4. CASE e \in DefSites
    BY <1>1, <2>3, <2>4 DEF PhiBlocks
  <2>5. CASE e \in phis
    BY <1>1, <2>3, <2>5 DEF Covered
  <2> QED BY <2>4, <2>5 DEF Defining
<1>5. (Doms(s) \ {s}) \cap Defining = Doms(p) \cap Defining
  BY <1>3, <1>4
<1> QED BY <1>2, <1>5 DEF Nearest, ReachOut

(* At the end of a block the memory holds the value at its end.              *)
LEMMA EndOfBlock ==
  ASSUME Typed, AllReachable(succ), FromStart, FromStore, pc > Len(code[cur]),
         NEW w \in Val, ReachOut(cur, w)
  PROVE  env[w] = mem
<1>1. /\ cur \in Blocks /\ pc \in Nat /\ Len(code[cur]) \in Nat /\ Len(code[cur]) <= MaxOps
      /\ MaxOps \in Nat
  BY ProgramAssumption DEF Typed, TypeOK
<1>2. cur \in Defining => w = LastDef(cur)
  <2> SUFFICES ASSUME cur \in Defining PROVE w = LastDef(cur)
    OBVIOUS
  <2>1. cur \in Doms(cur) \cap Defining
    BY <1>1, DominanceFacts DEF Doms
  <2>2. PICK d \in Doms(cur) \cap Defining : w = LastDef(d) /\ Dominates(succ, cur, d)
    BY <2>1 DEF ReachOut, Nearest
  <2>3. d = cur
    BY <1>1, <2>2, DominanceFacts DEF Doms
  <2> QED BY <2>2, <2>3
<1>3. CASE cur \in DefSites
  <2>1. cur \in Defining
    BY <1>1, <1>3 DEF Defining
  <2>2. PICK k : LastStore(code[cur], Len(code[cur]), k) /\ w = <<cur, k>>
    BY <1>1, <1>2, <1>3, <2>1, DefsAre
  <2>3. k \in 1 .. MaxOps /\ k < pc /\ k <= Len(code[cur]) /\ code[cur][k] \in DirectStores
    BY <1>1, <2>2 DEF LastStore
  <2>4. \A j \in 1 .. MaxOps : k < j => ~HasOp(cur, j, DirectStores)
    BY <1>1, <2>2, <2>3 DEF LastStore, HasOp
  <2>5. HasOp(cur, k, DirectStores)
    BY <2>3 DEF HasOp
  <2> QED BY <2>2, <2>3, <2>4, <2>5 DEF FromStore
<1>4. CASE cur \notin DefSites
  <2>1. \A k \in 1 .. MaxOps : ~HasOp(cur, k, DirectStores)
    BY <1>1, <1>4 DEF DefSites
  <2>2. ReachIn(cur, w)
    <3>1. CASE cur \in phis
      <4>1. cur \in Defining
        BY <1>1, <3>1 DEF Defining
      <4> QED BY <1>1, <1>2, <1>4, <3>1, <4>1, DefsAre DEF ReachIn
    <3>2. CASE cur \notin phis
      <4>1. cur \notin Defining
        BY <1>4, <3>2 DEF Defining
      <4>2. Doms(cur) \cap Defining = (Doms(cur) \ {cur}) \cap Defining
        BY <4>1
      <4> QED BY <3>2, <4>2 DEF ReachIn, ReachOut, Nearest
    <3> QED BY <3>1, <3>2
  <2> QED BY <2>1, <2>2 DEF FromStart
<1> QED BY <1>3, <1>4

LEMMA JumpSynced ==
  ASSUME ConversionInv, Synced, Covered, NEW s \in Blocks, Jump(s)
  PROVE  FromStart' /\ FromStore'
<1>1. /\ phase = "run" /\ pc > Len(code[cur]) /\ s \in succ[cur] /\ cur' = s /\ pc' = 1
      /\ env' = (IF s \in phis THEN [env EXCEPT ![PhiOf(s)] = env[incoming[s][cur]]] ELSE env)
      /\ mem' = mem /\ UNCHANGED <<succ, code, phis>>
  BY DEF Jump, program
<1>2. Typed /\ Analysed /\ Operands /\ Progress /\ AllReachable(succ) /\ cur \in Blocks
  BY DEF ConversionInv, Converting, Covered, Typed, TypeOK
<1>3. FromStart /\ FromStore
  BY <1>1 DEF Synced
<1>4. ASSUME NEW v \in Val, ReachIn(s, v) PROVE env'[v] = mem
  <2>1. CASE s \in phis
    <3>1. v = PhiOf(s) /\ v \in Val /\ env \in [Val -> Data \cup {Undef}] /\ incoming[s][cur] \in Val
      BY <1>2, <1>4, <2>1 DEF ReachIn, Typed, TypeOK
    <3>2. incoming[s][cur] # Null
      BY <1>1, <1>2, <2>1 DEF Progress, Renamed
    <3>3. ReachOut(cur, incoming[s][cur])
      BY <1>2, <3>1, <3>2 DEF Operands
    <3>4. env[incoming[s][cur]] = mem
      BY <1>1, <1>2, <1>3, <3>1, <3>3, EndOfBlock
    <3> QED BY <1>1, <2>1, <3>1, <3>4
  <2>2. CASE s \notin phis
    <3>1. ReachOut(cur, v)
      BY <1>1, <1>2, <1>4, <2>2, ThroughEdge
    <3> QED BY <1>1, <1>2, <1>3, <2>2, <3>1, EndOfBlock
  <2> QED BY <2>1, <2>2
<1>5. FromStart'
  <2>1. \A b, v : ReachIn(b, v)' <=> ReachIn(b, v)
    BY <1>1, ReachFrame
  <2>2. ASSUME NEW v \in Val, ReachIn(cur, v)' PROVE env'[v] = mem'
    <3>1. PICK b : b = cur'
      OBVIOUS
    <3>2. ReachIn(b, v)'
      BY <2>2, <3>1 DEF ReachIn, Doms
    <3> QED BY <1>1, <1>4, <2>1, <3>1, <3>2
  <2> QED BY <2>2 DEF FromStart
<1>6. FromStore'
  BY <1>1 DEF FromStore
<1> QED BY <1>5, <1>6

LEMMA AccessSynced ==
  ASSUME ConversionInv, Synced, Covered, NEW x \in Data, ExecLoad \/ ExecStore(x) \/ ExecCall(x)
  PROVE  FromStart' /\ FromStore'
<1>1. /\ phase = "run" /\ pc <= Len(code[cur]) /\ cur' = cur /\ pc' = pc + 1
      /\ UNCHANGED <<succ, code, phis>>
  BY DEF ExecLoad, ExecStore, ExecCall, AtOp, HasOp, program
<1>2. /\ cur \in Blocks /\ pc \in 1 .. MaxOps /\ MaxOps \in Nat /\ env \in [Val -> Data \cup {Undef}]
      /\ <<cur, pc>> \in Val
  <2>1. Typed /\ cur \in Blocks /\ Len(code[cur]) \in Nat /\ Len(code[cur]) <= MaxOps
    BY DEF ConversionInv, Typed, TypeOK
  <2>2. pc \in 1 .. MaxOps
    BY <1>1, <2>1, ProgramAssumption DEF Typed, TypeOK
  <2>3. <<cur, pc>> \in Sites
    BY <2>1, <2>2 DEF Sites
  <2> QED BY <2>1, <2>2, <2>3, PlacesAreValues, ProgramAssumption DEF Typed, TypeOK
<1>3. FromStart /\ FromStore
  BY <1>1 DEF Synced
<1>4. /\ \A k, op : HasOp(cur, k, op)' <=> HasOp(cur, k, op)
      /\ \A v : ReachIn(cur, v)' <=> ReachIn(cur, v)
  <2>1. PICK b : b = cur
    OBVIOUS
  <2>2. /\ \A k, op : HasOp(b, k, op)' <=> HasOp(b, k, op)
        /\ \A v : ReachIn(b, v)' <=> ReachIn(b, v)
    BY <1>1, ReachFrame
  <2> QED BY <1>1, <2>1, <2>2 DEF HasOp, ReachIn, Doms
<1>5. CASE ExecLoad
  <2>1. HasOp(cur, pc, Loads) /\ UNCHANGED <<env, mem>>
    BY <1>5 DEF ExecLoad, AtOp
  <2>2. ~HasOp(cur, pc, DirectStores)
    BY <2>1, ProgramAssumption DEF HasOp, DirectStores
  <2>3. \A k \in 1 .. MaxOps : k < pc' <=> k < pc \/ k = pc
    BY <1>1, <1>2
  <2>4. FromStart'
    BY <1>1, <1>3, <1>4, <2>1, <2>2, <2>3 DEF FromStart
  <2>5. FromStore'
    BY <1>1, <1>3, <1>4, <2>1, <2>2, <2>3 DEF FromStore
  <2> QED BY <2>4, <2>5
<1>6. CASE ExecStore(x)
  <2>1. HasOp(cur, pc, DirectStores) /\ env' = [env EXCEPT ![<<cur, pc>>] = x] /\ mem' = x
    <3>1. /\ HasOp(cur, pc, Stores) /\ env' = [env EXCEPT ![<<cur, pc>>] = x]
          /\ mem' = Writes[Kind][mem][x]
      BY <1>6 DEF ExecStore, AtOp
    <3>2. HasOp(cur, pc, Full)
      BY <1>2, <3>1 DEF Covered, HasOp, Ops
    <3>3. Kind \in Full /\ Kind \in Stores
      BY <3>1, <3>2 DEF HasOp, Kind
    <3>4. mem \in Data /\ x \in Data
      BY ProgramAssumption DEF ConversionInv, Typed, TypeOK
    <3>5. Kind \in DirectStores /\ Writes[Kind][mem][x] = x
      BY <3>3, <3>4, ProgramAssumption DEF Full, DirectLoads
    <3> QED BY <3>1, <3>5 DEF HasOp, Kind
  <2>2. \A k \in 1 .. MaxOps : k < pc' <=> k < pc \/ k = pc
    BY <1>1, <1>2
  <2>3. FromStart'
    BY <1>2, <1>4, <2>1, <2>2 DEF FromStart
  <2>4. env'[<<cur, pc>>] = mem'
    BY <1>2, <2>1
  <2>5. FromStore'
    BY <1>1, <1>2, <1>4, <2>1, <2>2, <2>4 DEF FromStore
  <2> QED BY <2>3, <2>5
<1>7. CASE ExecCall(x)
  <2>1. HasOp(cur, pc, {"call"})
    BY <1>7 DEF ExecCall, AtOp
  <2>2. HasOp(cur, pc, Full)
    BY <1>2, <2>1 DEF Covered, HasOp, Ops
  <2>3. "call" \in Full
    BY <2>1, <2>2 DEF HasOp
  <2> QED BY <2>3, ProgramAssumption DEF Full, DirectLoads, DirectStores
<1> QED BY <1>5, <1>6, <1>7

LEMMA SyncedStep ==
  ASSUME ConversionInv, ConversionInv', Synced, [Next]_vars
  PROVE  Synced'
<1>1. UNCHANGED <<succ, code, frontiers>>
  BY DEF Next, InsertPhis, RenameEntry, RenameChild, LeaveBlock, Promote, ExecLoad, ExecStore,
         ExecCall, Jump, vars, program
<1>2. Covered' <=> Covered
  BY <1>1 DEF Covered, PhiBlocks, DefSites, HasOp
<1>3. CASE InsertPhis \/ RenameEntry \/ (\E c \in Blocks : RenameChild(c)) \/ LeaveBlock
  BY <1>3 DEF InsertPhis, RenameEntry, RenameChild, LeaveBlock, machine, Synced, Start
<1>4. CASE Promote
  <2>1. phase = "promote" /\ phase' = "run" /\ UNCHANGED <<cur, pc, env, mem, phis>>
    BY <1>4 DEF Promote, machine
  <2>2. cur = Entry /\ pc = 1 /\ env[Zero] = 0 /\ mem = 0
    BY <2>1 DEF Synced, Start
  <2>3. FromStore'
    BY <2>1, <2>2 DEF FromStore
  <2>4. ASSUME Covered, NEW v \in Val, ReachIn(Entry, v) PROVE v = Zero
    <3>1. Typed /\ Analysed /\ AllReachable(succ) /\ Preds(succ, Entry) = {} /\ phis = PhiBlocks
      BY <2>1, <2>4 DEF ConversionInv, Covered, Analysed
    <3>2. \A d \in Blocks : Entry \notin frontiers[d]
      BY <3>1 DEF Analysed, JoinFrontierOf
    <3>3. Entry \notin phis
      BY <3>1, <3>2 DEF PhiBlocks, DefSites
    <3>4. Doms(Entry) \ {Entry} = {}
      BY <3>1, DominanceFacts
    <3> QED BY <2>4, <3>3, <3>4 DEF ReachIn, Nearest
  <2>5. Covered => FromStart'
    <3>1. \A b, v : ReachIn(b, v)' <=> ReachIn(b, v)
      BY <1>1, <2>1, ReachFrame
    <3>2. ASSUME Covered, NEW v \in Val, ReachIn(cur, v)' PROVE env'[v] = mem'
      <4>1. ReachIn(Entry, v)'
        BY <2>1, <2>2, <3>2 DEF ReachIn, Doms
      <4>2. v = Zero
        BY <2>4, <3>1, <3>2, <4>1
      <4> QED BY <2>1, <2>2, <4>2
    <3> QED BY <3>2 DEF FromStart
  <2> QED BY <1>2, <2>1, <2>3, <2>5 DEF Synced, Start
<1>5. CASE ExecLoad \/ (\E x \in Stored : ExecStore(x) \/ ExecCall(x)) \/ \E s \in Blocks : Jump(s)
  <2>1. phase = "run" /\ phase' = "run"
    BY <1>5 DEF ExecLoad, ExecStore, ExecCall, Jump, AtOp
  <2>2. 0 \in Data /\ Stored \subseteq Data
    BY ProgramAssumption
  <2>3. Covered => FromStart' /\ FromStore'
    BY <1>5, <2>2, JumpSynced, AccessSynced
  <2> QED BY <1>2, <2>1, <2>3 DEF Synced, Start
<1>6. CASE UNCHANGED vars
  <2>1. UNCHANGED <<succ, code, phis, phase, cur, pc, env, mem>>
    BY <1>6 DEF vars, program, machine
  <2>2. \A k, op : HasOp(cur, k, op)' <=> HasOp(cur, k, op)
    BY <2>1 DEF HasOp
  <2>3. \A v : ReachIn(cur, v)' <=> ReachIn(cur, v)
    <3>1. PICK b : b = cur
      OBVIOUS
    <3>2. \A v : ReachIn(b, v)' <=> ReachIn(b, v)
      BY <2>1, ReachFrame
    <3> QED BY <2>1, <3>1, <3>2 DEF ReachIn, Doms
  <2>4. (FromStart' <=> FromStart) /\ (FromStore' <=> FromStore)
    BY <2>1, <2>2, <2>3 DEF FromStart, FromStore
  <2> QED BY <1>2, <2>1, <2>4 DEF Synced, Start
<1> QED BY <1>3, <1>4, <1>5, <1>6 DEF Next

(* On every function the conversion can be right on, each load reads after it
   what it read before, whatever path is taken and whatever is stored.       *)
THEOREM CoveredLoadsAgreeAlways == Spec => []CoveredLoadsAgree
<1>1. Init => Synced
  <2> SUFFICES ASSUME Init PROVE Synced
    OBVIOUS
  <2>1. phase = "insert" /\ cur = Entry /\ pc = 1 /\ mem = 0 /\ env[Zero] = 0
    BY PlacesAreValues DEF Init
  <2> QED BY <2>1 DEF Synced, Start
<1>2. ConversionInv /\ ConversionInv' /\ Synced /\ [Next]_vars => Synced'
  BY SyncedStep
<1>3. ASSUME ConversionInv, Synced PROVE CoveredLoadsAgree
  <2> SUFFICES ASSUME Covered, AtOp(Loads) PROVE Loaded = Reads[Kind][mem]
    BY DEF CoveredLoadsAgree, LoadsAgree
  <2>1. phase = "run" /\ HasOp(cur, pc, Loads) /\ AllReachable(succ)
    BY DEF AtOp, Covered
  <2>2. /\ Typed /\ cur \in Blocks /\ Operands /\ Renamed(cur) /\ LoadsGone(cur) /\ FromStart
    BY <1>3, <2>1 DEF ConversionInv, Converting, Progress, Synced, Typed, TypeOK
  <2>3. pc \in 1 .. MaxOps
    <3>1. Len(code[cur]) \in Nat /\ Len(code[cur]) <= MaxOps /\ MaxOps \in Nat
      BY <2>2, ProgramAssumption DEF Typed
    <3> QED BY <2>1, <2>2, <3>1 DEF HasOp, Typed, TypeOK
  <2>8. HasOp(cur, pc, DirectLoads) /\ Reads[Kind][mem] = mem
    <3>1. HasOp(cur, pc, Full)
      BY <2>1, <2>2, <2>3 DEF Covered, HasOp, Ops
    <3>2. Kind \in Full /\ Kind \in Loads /\ mem \in Data
      BY <2>1, <2>2, <3>1 DEF HasOp, Kind, Typed, TypeOK
    <3>3. Kind \in DirectLoads /\ Reads[Kind][mem] = mem
      BY <3>2, ProgramAssumption DEF Full, DirectStores
    <3> QED BY <2>1, <3>3 DEF HasOp, Kind
  <2>4. <<cur, pc>> \in removed /\ repl[<<cur, pc>>] # Null
    BY <2>2, <2>3, <2>8 DEF Renamed, LoadsGone
  <2>5. repl[<<cur, pc>>] \in Val /\ <<cur, pc>> \in Sites
    BY <2>2, <2>3 DEF Typed, TypeOK, Sites
  <2>6. ReachIn(cur, repl[<<cur, pc>>])
    <3>1. PICK s \in Sites : s = <<cur, pc>>
      BY <2>5
    <3>2. s[1] = cur /\ repl[s] \in Val /\ repl[s] # Null
      BY <2>4, <2>5, <3>1
    <3>3. ReachIn(s[1], repl[s])
      BY <2>2, <3>2 DEF Operands
    <3> QED BY <3>1, <3>2, <3>3
  <2>7. \A k \in 1 .. MaxOps : k < pc => ~HasOp(cur, k, DirectStores)
    BY <2>1, <2>2, <2>3 DEF Covered, HasOp, DirectStores
  <2> QED BY <2>2, <2>4, <2>5, <2>6, <2>7, <2>8 DEF Loaded, FromStart
<1> QED BY <1>1, <1>2, <1>3, Conversion, PTL DEF Spec
=============================================================================
