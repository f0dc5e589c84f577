---------------------------- MODULE EGraph_proofs ----------------------------
(***************************************************************************)
(* The classes of the e-graph agree, for every arithmetic in which the     *)
(* identities of the rules hold; where the reduction of a division by a    *)
(* constant is right, for every width of words; and that a block can be    *)
(* computed, instruction by instruction, and returns what it did after     *)
(* both passes.                                                            *)
(***************************************************************************)
EXTENDS ArithmeticPasses, FiniteSetTheorems, SequenceTheorems, WellFoundedInduction, TLAPS

Ids(g)     == 1 .. Len(g.rep)
Results    == [Envs -> Data]
AtomSet(p) == Operands(p) \cup {Made(n) : n \in Data}
NodeSet(p) == [op : Arithmetic \cup {"Copy"}, children : Seq(Nat), atom : AtomSet(p) \cup {None}]

(* A node is made of what the program may hold, and no rule that would be
   wrong for it matches it.                                                  *)
GoodNode(p, g, n) ==
  \/ \E v \in AtomSet(p) : n = Atom(v)
  \/ \E op \in Arithmetic, x \in Ids(g), y \in Ids(g) :
       n = Node(op, x, y) /\ Allowed(op, g.val[y])

(* Node n computes what class c was made for.                                *)
Stands(p, g, n, c) == GoodNode(p, g, n) /\ c \in Ids(g) /\ Denotation(p, g, n) = g.val[c]

Listed(p, g, c, s) == s \in Seq(NodeSet(p)) /\ \A k \in 1 .. Len(s) : Stands(p, g, s[k], c)

GoodMemo(p, g, memo) == \A n \in DOMAIN memo : Stands(p, g, n, memo[n])

GoodClasses(g) ==
  /\ g.rep \in Seq(Nat) /\ g.val \in Seq(Results) /\ Len(g.val) = Len(g.rep)
  /\ \A c \in Ids(g) : g.rep[c] \in Ids(g) /\ g.val[g.rep[c]] = g.val[c]

GoodGraph(p, g) ==
  /\ g = [rep |-> g.rep, memo |-> g.memo, classes |-> g.classes, val |-> g.val]
  /\ GoodClasses(g) /\ GoodMemo(p, g, g.memo)
  /\ DOMAIN g.classes \subseteq Ids(g)
  /\ \A c \in DOMAIN g.classes : Listed(p, g, c, g.classes[c])

(* Graph h has the classes of g, and they were made for the same.            *)
Extends(g, h) == Ids(g) \subseteq Ids(h) /\ \A c \in Ids(g) : h.val[c] = g.val[c]

-----------------------------------------------------------------------------
(* What the code refers to has a value.                                      *)
LEMMA AtomValue ==
  ASSUME NEW p \in Programs, NEW v \in AtomSet(p)
  PROVE  ValueOf(p, v) \in Results /\ v # None
<1>1. CASE \E i \in 1 .. Len(p.code) : v = Inst(i)
  <2>1. PICK i \in 1 .. Len(p.code) : v = Inst(i)
    BY <1>1
  <2>2. p.value[i] \in Results
    BY ProgramAssumption DEF Results
  <2>3. v.kind = "inst" /\ v.of = i
    BY <2>1 DEF Inst
  <2> QED BY <2>2, <2>3 DEF ValueOf, None
<1>2. CASE \E l \in Leaves : v = Leaf(l)
  BY <1>2, ProgramAssumption DEF ValueOf, Results, Leaf, None
<1>3. CASE \E n \in Data : v = Const(n)
  BY <1>3 DEF ValueOf, Results, Const, None
<1>4. CASE \E n \in Data : v = Made(n)
  BY <1>4 DEF ValueOf, Results, Made, None
<1> QED BY <1>1, <1>2, <1>3, <1>4 DEF AtomSet, Operands

(* Operations on results are results.                                        *)
LEMMA ComputeType ==
  ASSUME NEW op \in Arithmetic, NEW x \in Results, NEW y \in Results
  PROVE  Compute(op, x, y) \in Results
<1>1. \A e \in Envs : x[e] \in Data /\ y[e] \in Data
  BY DEF Results
<1>2. \A a \in Data, b \in Data : Apply[op][<<a, b>>] \in Data
  BY ProgramAssumption
<1> QED BY <1>1, <1>2 DEF Compute, Results

(* The parts of a node of an operation.                                      *)
LEMMA NodeParts ==
  ASSUME NEW op, NEW x, NEW y
  PROVE  LET n == Node(op, x, y) IN ~IsAtom(n) /\ n.op = op /\ n.children = <<x, y>>
                                    /\ n.children[1] = x /\ n.children[2] = y
BY DEF Node, IsAtom

(* A good node computes a result.                                            *)
LEMMA NodeValue ==
  ASSUME NEW p \in Programs, NEW g, GoodClasses(g), NEW n, GoodNode(p, g, n)
  PROVE  Denotation(p, g, n) \in Results
<1>1. CASE \E v \in AtomSet(p) : n = Atom(v)
  BY <1>1, AtomValue DEF Denotation, IsAtom, Atom
<1>2. ASSUME NEW op \in Arithmetic, NEW x \in Ids(g), NEW y \in Ids(g), n = Node(op, x, y)
      PROVE  Denotation(p, g, n) \in Results
  <2>1. g.val[x] \in Results /\ g.val[y] \in Results
    BY DEF GoodClasses, Ids
  <2> QED BY <1>2, <2>1, NodeParts, ComputeType DEF Denotation
<1> QED BY <1>1, <1>2 DEF GoodNode

(* A node goes on computing the same when the graph grows.                   *)
LEMMA NodeStays ==
  ASSUME NEW p \in Programs, NEW g, NEW h, Extends(g, h), NEW n, GoodNode(p, g, n)
  PROVE  GoodNode(p, h, n) /\ Denotation(p, h, n) = Denotation(p, g, n)
<1>1. CASE \E v \in AtomSet(p) : n = Atom(v)
  BY <1>1, AtomValue DEF Denotation, IsAtom, Atom, GoodNode
<1>2. ASSUME NEW op \in Arithmetic, NEW x \in Ids(g), NEW y \in Ids(g),
             n = Node(op, x, y), Allowed(op, g.val[y])
      PROVE  GoodNode(p, h, n) /\ Denotation(p, h, n) = Denotation(p, g, n)
  <2>1. x \in Ids(h) /\ y \in Ids(h) /\ h.val[x] = g.val[x] /\ h.val[y] = g.val[y]
    BY DEF Extends
  <2>2. Denotation(p, h, n) = Denotation(p, g, n)
    BY <1>2, <2>1, NodeParts DEF Denotation
  <2> QED BY <1>2, <2>1, <2>2 DEF GoodNode
<1> QED BY <1>1, <1>2 DEF GoodNode

LEMMA StandsStays ==
  ASSUME NEW p \in Programs, NEW g, NEW h, Extends(g, h), NEW n, NEW c, Stands(p, g, n, c)
  PROVE  Stands(p, h, n, c)
BY NodeStays DEF Stands, Extends

LEMMA ListedStays ==
  ASSUME NEW p \in Programs, NEW g, NEW h, Extends(g, h), NEW c, NEW s, Listed(p, g, c, s)
  PROVE  Listed(p, h, c, s)
BY StandsStays DEF Listed

(* The children of a node may be replaced by what find returns for them.     *)
LEMMA CanonicalGood ==
  ASSUME NEW p \in Programs, NEW g, GoodClasses(g), NEW n, GoodNode(p, g, n)
  PROVE  /\ GoodNode(p, g, Canonical(g, n))
         /\ Denotation(p, g, Canonical(g, n)) = Denotation(p, g, n)
<1>1. ASSUME NEW v \in AtomSet(p), n = Atom(v) PROVE Canonical(g, n) = n
  BY <1>1 DEF Canonical, Atom
<1>2. ASSUME NEW op \in Arithmetic, NEW x \in Ids(g), NEW y \in Ids(g),
             n = Node(op, x, y), Allowed(op, g.val[y])
      PROVE  /\ GoodNode(p, g, Canonical(g, n))
             /\ Denotation(p, g, Canonical(g, n)) = Denotation(p, g, n)
  <2>1. Canonical(g, n) = Node(op, g.rep[x], g.rep[y])
    BY <1>2 DEF Canonical, Node
  <2>2. /\ g.rep[x] \in Ids(g) /\ g.val[g.rep[x]] = g.val[x]
        /\ g.rep[y] \in Ids(g) /\ g.val[g.rep[y]] = g.val[y]
    BY DEF GoodClasses
  <2>3. Denotation(p, g, Canonical(g, n)) = Denotation(p, g, n)
    BY <1>2, <2>1, <2>2, NodeParts DEF Denotation
  <2> QED BY <1>2, <2>1, <2>2, <2>3 DEF GoodNode
<1> QED BY <1>1, <1>2 DEF GoodNode

LEMMA NodeTyped ==
  ASSUME NEW p, NEW g, NEW n, GoodNode(p, g, n), g.rep \in Seq(Nat)
  PROVE  n \in NodeSet(p)
<1>1. ASSUME NEW v \in AtomSet(p), n = Atom(v) PROVE n \in NodeSet(p)
  BY <1>1 DEF Atom, NodeSet
<1>2. ASSUME NEW op \in Arithmetic, NEW x \in Ids(g), NEW y \in Ids(g), n = Node(op, x, y)
      PROVE  n \in NodeSet(p)
  <2>1. x \in Nat /\ y \in Nat
    BY DEF Ids
  <2>2. <<x, y>> \in Seq(Nat)
    BY <2>1
  <2> QED BY <1>2, <2>2 DEF Node, NodeSet
<1> QED BY <1>1, <1>2 DEF GoodNode

(* addNode: the graph grows by at most one class, and the class returned
   stands for the node.                                                      *)
LEMMA AddNodeGood ==
  ASSUME NEW p \in Programs, NEW g, GoodGraph(p, g), NEW n, GoodNode(p, g, n)
  PROVE  LET added == AddNode(p, g, n)
         IN  /\ GoodGraph(p, added.graph) /\ Extends(g, added.graph)
             /\ added.id \in Ids(added.graph)
             /\ added.graph.val[added.id] = Denotation(p, g, n)
<1> DEFINE m == Canonical(g, n)
           h == Added(p, g, m)
           id == Len(g.rep) + 1
           d == Denotation(p, g, m)
<1>1. GoodNode(p, g, m) /\ d = Denotation(p, g, n) /\ d \in Results
  BY CanonicalGood, NodeValue DEF GoodGraph
<1>2. GoodClasses(g) /\ GoodMemo(p, g, g.memo)
  BY DEF GoodGraph
<1> HIDE DEF m, d
<1>3. CASE m \in DOMAIN g.memo
  <2>1. Stands(p, g, m, g.memo[m])
    BY <1>2, <1>3 DEF GoodMemo
  <2>2. g.rep[g.memo[m]] \in Ids(g) /\ g.val[g.rep[g.memo[m]]] = d
    BY <2>1, <1>2 DEF Stands, GoodClasses, d
  <2>3. AddNode(p, g, n) = [graph |-> g, id |-> g.rep[g.memo[m]]]
    BY <1>3 DEF AddNode, m
  <2> QED BY <1>1, <2>2, <2>3 DEF Extends
<1>4. CASE m \notin DOMAIN g.memo
  <2>1. AddNode(p, g, n) = [graph |-> h, id |-> id]
    BY <1>4 DEF AddNode, m
  <2>2. /\ h.rep = Append(g.rep, id) /\ h.val = Append(g.val, d)
        /\ h.memo = [o \in DOMAIN g.memo \cup {m} |-> IF o = m THEN id ELSE g.memo[o]]
        /\ h.classes = [c \in DOMAIN g.classes \cup {id} |-> IF c = id THEN <<m>> ELSE g.classes[c]]
        /\ h = [rep |-> h.rep, memo |-> h.memo, classes |-> h.classes, val |-> h.val]
    BY DEF Added, d
  <2> HIDE DEF h
  <2>3. Len(g.rep) \in Nat /\ id \in Nat /\ Len(h.rep) = id /\ Ids(h) = Ids(g) \cup {id} /\ id \notin Ids(g)
    BY <1>2, <2>2 DEF GoodClasses, Ids
  <2>4. /\ \A c \in Ids(g) : h.rep[c] = g.rep[c] /\ h.val[c] = g.val[c]
        /\ h.rep[id] = id /\ h.val[id] = d
    BY <1>1, <1>2, <2>2, <2>3 DEF GoodClasses, Ids
  <2>5. Extends(g, h)
    BY <2>3, <2>4 DEF Extends
  <2>6. GoodClasses(h)
    <3>1. h.rep \in Seq(Nat) /\ h.val \in Seq(Results) /\ Len(h.val) = Len(h.rep)
      BY <1>1, <1>2, <2>2, <2>3 DEF GoodClasses
    <3>2. \A c \in Ids(g) : h.rep[c] \in Ids(g) /\ h.val[h.rep[c]] = h.val[c]
      BY <1>2, <2>4 DEF GoodClasses
    <3> QED BY <3>1, <3>2, <2>3, <2>4 DEF GoodClasses
  <2>7. Stands(p, h, m, id)
    BY <1>1, <2>3, <2>4, <2>5, NodeStays DEF Stands, d
  <2>8. GoodMemo(p, h, h.memo)
    BY <1>2, <2>2, <2>5, <2>7, StandsStays DEF GoodMemo
  <2>9. Listed(p, h, id, <<m>>)
    BY <2>7, <1>1, <1>2, NodeTyped DEF Listed, GoodClasses
  <2>10. \A c \in DOMAIN h.classes : c \in Ids(h) /\ Listed(p, h, c, h.classes[c])
    BY <2>2, <2>3, <2>5, <2>9, ListedStays DEF GoodGraph
  <2>11. GoodGraph(p, h)
    BY <2>2, <2>6, <2>8, <2>10 DEF GoodGraph
  <2> QED BY <1>1, <2>1, <2>3, <2>4, <2>5, <2>11
<1> QED BY <1>3, <1>4

(* Classes made for the same may be united.                                  *)
LEMMA UnionGood ==
  ASSUME NEW p \in Programs, NEW g, GoodGraph(p, g),
         NEW r1 \in Ids(g), NEW r2 \in Ids(g), g.val[r1] = g.val[r2]
  PROVE  GoodGraph(p, Union(g, r1, r2)) /\ Extends(g, Union(g, r1, r2))
<1> DEFINE h == Union(g, r1, r2)
<1>1. GoodClasses(g) /\ GoodMemo(p, g, g.memo)
  BY DEF GoodGraph
<1>2. /\ h.rep = [c \in DOMAIN g.rep |-> IF g.rep[c] = r2 THEN r1 ELSE g.rep[c]]
      /\ h.memo = g.memo /\ h.classes = g.classes /\ h.val = g.val
      /\ h = [rep |-> h.rep, memo |-> h.memo, classes |-> h.classes, val |-> h.val]
  BY DEF Union, GoodGraph
<1> HIDE DEF h
<1>3. DOMAIN g.rep = Ids(g) /\ Len(g.rep) \in Nat /\ r1 \in Nat
  BY <1>1 DEF GoodClasses, Ids
<1>4. h.rep \in Seq(Nat) /\ Len(h.rep) = Len(g.rep)
  BY <1>1, <1>2, <1>3 DEF GoodClasses, Ids
<1>5. Ids(h) = Ids(g)
  BY <1>4 DEF Ids
<1>6. \A c \in Ids(h) : h.rep[c] \in Ids(h) /\ h.val[h.rep[c]] = h.val[c]
  BY <1>1, <1>2, <1>3, <1>5 DEF GoodClasses
<1>7. Extends(g, h)
  BY <1>2, <1>5 DEF Extends
<1>8. GoodClasses(h)
  BY <1>1, <1>2, <1>4, <1>6 DEF GoodClasses
<1>9. GoodMemo(p, h, h.memo)
  BY <1>1, <1>2, <1>7, StandsStays DEF GoodMemo
<1>10. \A c \in DOMAIN h.classes : c \in Ids(h) /\ Listed(p, h, c, h.classes[c])
  BY <1>2, <1>5, <1>7, ListedStays DEF GoodGraph
<1>11. GoodGraph(p, h)
  BY <1>2, <1>8, <1>9, <1>10 DEF GoodGraph
<1> QED BY <1>7, <1>11 DEF h

(* A list of one class may go to another that was made for the same.         *)
LEMMA ListedElsewhere ==
  ASSUME NEW p, NEW g, NEW c, NEW d \in Ids(g), g.val[c] = g.val[d], NEW s, Listed(p, g, c, s)
  PROVE  Listed(p, g, d, s)
BY DEF Listed, Stands

LEMMA EntryListed ==
  ASSUME NEW p, NEW g, GoodGraph(p, g), NEW c \in Ids(g)
  PROVE  Listed(p, g, c, Entry(g, c))
<1>1. CASE c \in DOMAIN g.classes
  BY <1>1 DEF GoodGraph, Entry
<1>2. CASE c \notin DOMAIN g.classes
  BY <1>2 DEF Entry, Listed
<1> QED BY <1>1, <1>2

LEMMA ListedConcat ==
  ASSUME NEW p, NEW g, NEW c, NEW s, NEW t, Listed(p, g, c, s), Listed(p, g, c, t)
  PROVE  Listed(p, g, c, s \o t)
<1>1. /\ s \in Seq(NodeSet(p)) /\ t \in Seq(NodeSet(p)) /\ s \o t \in Seq(NodeSet(p))
      /\ Len(s \o t) = Len(s) + Len(t) /\ Len(s) \in Nat /\ Len(t) \in Nat
  BY DEF Listed
<1>2. ASSUME NEW k \in 1 .. Len(s \o t) PROVE Stands(p, g, (s \o t)[k], c)
  <2>1. CASE k <= Len(s)
    <3>1. k \in 1 .. Len(s) /\ (s \o t)[k] = s[k]
      BY <1>1, <2>1
    <3> QED BY <3>1 DEF Listed
  <2>2. CASE ~(k <= Len(s))
    <3>1. k - Len(s) \in 1 .. Len(t) /\ (s \o t)[k] = t[k - Len(s)]
      BY <1>1, <2>2
    <3> QED BY <3>1 DEF Listed
  <2> QED BY <2>1, <2>2
<1> QED BY <1>1, <1>2 DEF Listed

(* EGraph::merge                                                             *)
LEMMA MergedGood ==
  ASSUME NEW p \in Programs, NEW g, GoodGraph(p, g),
         NEW c1 \in Ids(g), NEW c2 \in Ids(g), g.val[c1] = g.val[c2]
  PROVE  GoodGraph(p, Merged(g, c1, c2)) /\ Extends(g, Merged(g, c1, c2))
<1> DEFINE r1 == g.rep[c1]
           r2 == g.rep[c2]
           u  == Union(g, r1, r2)
           h  == Merged(g, c1, c2)
<1>1. r1 \in Ids(g) /\ r2 \in Ids(g) /\ g.val[r1] = g.val[r2]
  BY DEF GoodGraph, GoodClasses
<1>2. CASE r1 = r2
  BY <1>2 DEF Merged, Extends
<1>3. CASE r1 # r2
  <2>1. GoodGraph(p, u) /\ Extends(g, u)
    BY <1>1, UnionGood
  <2>2. u.classes = g.classes /\ u.val = g.val /\ Ids(u) = Ids(g)
    <3>1. u.classes = g.classes /\ u.val = g.val
      BY DEF Union, GoodGraph
    <3>2. Len(u.rep) = Len(g.rep)
      BY <2>1, <3>1 DEF GoodGraph, GoodClasses
    <3> QED BY <3>1, <3>2 DEF Ids
  <2>3. /\ h.rep = u.rep /\ h.memo = u.memo /\ h.val = u.val
        /\ h.classes = [c \in (DOMAIN g.classes \cup {r1}) \ {r2} |->
                          IF c = r1 THEN Entry(g, r1) \o Entry(g, r2) ELSE g.classes[c]]
        /\ h = [rep |-> h.rep, memo |-> h.memo, classes |-> h.classes, val |-> h.val]
    <3>1. h = [u EXCEPT !.classes = [c \in (DOMAIN g.classes \cup {r1}) \ {r2} |->
                          IF c = r1 THEN Entry(g, r1) \o Entry(g, r2) ELSE g.classes[c]]]
      BY <1>3 DEF Merged
    <3>2. u = [rep |-> u.rep, memo |-> u.memo, classes |-> u.classes, val |-> u.val]
      BY <2>1 DEF GoodGraph
    <3> HIDE DEF u
    <3> QED BY <3>1, <3>2
  <2> HIDE DEF u, h
  <2>4. Ids(h) = Ids(g)
    BY <2>2, <2>3 DEF Ids
  <2>5. Extends(g, h) /\ Extends(u, h)
    BY <2>2, <2>3, <2>4 DEF Extends
  <2>6. GoodClasses(h)
    BY <2>1, <2>2, <2>3, <2>4 DEF GoodGraph, GoodClasses
  <2>7. GoodMemo(p, h, h.memo)
    BY <2>1, <2>3, <2>5, StandsStays DEF GoodGraph, GoodMemo
  <2>8. Listed(p, g, r1, Entry(g, r1) \o Entry(g, r2))
    BY <1>1, EntryListed, ListedElsewhere, ListedConcat
  <2>9. \A c \in DOMAIN h.classes : c \in Ids(h) /\ Listed(p, h, c, h.classes[c])
    BY <1>1, <2>3, <2>4, <2>5, <2>8, ListedStays DEF GoodGraph
  <2>10. GoodGraph(p, h)
    BY <2>3, <2>6, <2>7, <2>9 DEF GoodGraph
  <2> QED BY <2>5, <2>10 DEF h
<1> QED BY <1>2, <1>3

-----------------------------------------------------------------------------
(* The rules.                                                                *)
Constantly(n) == [e \in Envs |-> n]

LEMMA ResultsEqual ==
  ASSUME NEW x \in Results, NEW y \in Results, \A e \in Envs : x[e] = y[e]
  PROVE  x = y
BY DEF Results

(* A sum with zero, a product with one.                                      *)
LEMMA IdentityRight ==
  ASSUME NEW op \in Arithmetic, NEW x \in Results, NEW k \in Data, IsIdentity(op, k)
  PROVE  Compute(op, x, Constantly(k)) = x
<1>1. \A a \in Data : Apply[op][<<a, k>>] = a
  BY ArithmeticAssumption DEF IsIdentity
<1>2. \A e \in Envs : x[e] \in Data
  BY DEF Results
<1>3. Constantly(k) \in Results
  BY DEF Constantly, Results
<1>4. \A e \in Envs : Compute(op, x, Constantly(k))[e] = x[e]
  BY <1>1, <1>2 DEF Compute, Constantly
<1> QED BY <1>3, <1>4, ComputeType, ResultsEqual

LEMMA CancelRight ==
  ASSUME NEW op \in Arithmetic, op \in {"Sub", "Xor"}, NEW x \in Results
  PROVE  Compute(op, x, x) = Constantly(0)
<1>1. \A a \in Data : Apply[op][<<a, a>>] = 0
  BY ArithmeticAssumption
<1>2. \A e \in Envs : x[e] \in Data
  BY DEF Results
<1> QED BY <1>1, <1>2 DEF Compute, Constantly

(* A shift or a mask for an operation with a power of two.                   *)
LEMMA CheaperRight ==
  ASSUME NEW op \in Arithmetic, op \in HasCheaper, NEW x \in Results, NEW n \in Powers,
         Allowed(op, Constantly(n))
  PROVE  LET amount == Constantly(CheaperOperand(op, n))
         IN  /\ CheaperOp(op) \in Arithmetic /\ CheaperOperand(op, n) \in Data
             /\ Compute(CheaperOp(op), x, amount) = Compute(op, x, Constantly(n))
             /\ Allowed(CheaperOp(op), amount)
<1> DEFINE k == Log(n)
<1>1. k \in Shifts /\ n = 2 ^ k
  BY DEF Powers, Log
<1> HIDE DEF k
<1>2. op \in {"Udiv", "Mul", "Urem"} /\ (op = "Udiv" => k \notin Powers)
  BY <1>1 DEF Allowed, Constantly, HasCheaper
<1>3. \A e \in Envs : x[e] \in Data
  BY DEF Results
<1>4. k \in Data /\ n - 1 \in Data /\ {"Shr", "Shl", "And"} \subseteq Arithmetic
  <2>1. n - 1 \in {q - 1 : q \in Powers}
    OBVIOUS
  <2> QED BY <1>1, <2>1, ArithmeticAssumption, ProgramAssumption
<1>5. CASE op = "Udiv"
  <2>1. CheaperOp(op) = "Shr" /\ CheaperOperand(op, n) = k
    BY <1>5 DEF CheaperOp, CheaperOperand, k
  <2>2. \A a \in Data : Apply["Udiv"][<<a, n>>] = Apply["Shr"][<<a, k>>]
    BY <1>1, ArithmeticAssumption
  <2>3. Compute("Shr", x, Constantly(k)) = Compute("Udiv", x, Constantly(n))
    BY <1>3, <2>2 DEF Compute, Constantly
  <2>4. ASSUME NEW j \in Shifts, Constantly(k) = [e \in Envs |-> 2 ^ j] PROVE FALSE
    <3>1. PICK e \in Envs : TRUE
      BY ProgramAssumption
    <3>2. k = 2 ^ j
      BY <2>4, <3>1 DEF Constantly
    <3> QED BY <1>2, <1>5, <3>2 DEF Powers
  <2>5. Allowed("Shr", Constantly(k))
    BY <2>4 DEF Allowed
  <2> QED BY <1>4, <1>5, <2>1, <2>3, <2>5
<1>6. CASE op = "Mul"
  <2>1. CheaperOp(op) = "Shl" /\ CheaperOperand(op, n) = k
    BY <1>6 DEF CheaperOp, CheaperOperand, k
  <2>2. \A a \in Data : Apply["Mul"][<<a, n>>] = Apply["Shl"][<<a, k>>]
    BY <1>1, ArithmeticAssumption
  <2>3. Compute("Shl", x, Constantly(k)) = Compute("Mul", x, Constantly(n))
    BY <1>3, <2>2 DEF Compute, Constantly
  <2> QED BY <1>4, <1>6, <2>1, <2>3 DEF Allowed
<1>7. CASE op = "Urem"
  <2>1. CheaperOp(op) = "And" /\ CheaperOperand(op, n) = n - 1
    BY <1>7 DEF CheaperOp, CheaperOperand
  <2>2. \A a \in Data : Apply["Urem"][<<a, n>>] = Apply["And"][<<a, n - 1>>]
    BY <1>1, ArithmeticAssumption
  <2>3. Compute("And", x, Constantly(n - 1)) = Compute("Urem", x, Constantly(n))
    BY <1>3, <2>2 DEF Compute, Constantly
  <2> QED BY <1>4, <1>7, <2>1, <2>3 DEF Allowed
<1> QED BY <1>2, <1>5, <1>6, <1>7

(* A class with a constant among its nodes was made for that constant.       *)
LEMMA ConstantValue ==
  ASSUME NEW p \in Programs, NEW g, GoodGraph(p, g), NEW c \in Ids(g), NEW n \in ConstantOf(g, c)
  PROVE  n \in Data /\ g.val[c] = Constantly(n)
<1>1. PICK k \in Constants(g, c) : n = Entry(g, c)[k].atom.of
  BY DEF ConstantOf
<1> DEFINE m == Entry(g, c)[k]
<1>2. Stands(p, g, m, c)
  BY <1>1, EntryListed DEF Constants, Listed
<1>3. m.atom.kind \in {"const", "made"} /\ n = m.atom.of
  BY <1>1 DEF Constants, IsConst
<1> HIDE DEF m
<1>4. PICK v \in AtomSet(p) : m = Atom(v)
  <2>1. ASSUME NEW op, NEW x, NEW y, m = Node(op, x, y) PROVE FALSE
    BY <1>3, <2>1 DEF Node, None
  <2> QED BY <1>2, <2>1 DEF Stands, GoodNode
<1>5. m.atom = v /\ v.kind \in {"const", "made"} /\ v.of = n
  BY <1>3, <1>4 DEF Atom
<1>6. v \in {Const(d) : d \in Data} \cup {Made(d) : d \in Data}
  BY <1>5 DEF AtomSet, Operands, Inst, Leaf
<1>7. n \in Data
  BY <1>5, <1>6 DEF Const, Made
<1>8. Denotation(p, g, m) = Constantly(n)
  BY <1>5, AtomValue DEF Denotation, IsAtom, ValueOf, Constantly
<1> QED BY <1>2, <1>7, <1>8 DEF Stands

-----------------------------------------------------------------------------
(* What is in progress agrees with the graph.                                *)
Frames(p) == [of : Operands(p), ids : Seq(Nat)]

(* The operands added so far have the classes of their values.               *)
FrameOk(p, g, f) ==
  /\ f \in Frames(p)
  /\ \A j \in 1 .. Len(f.ids) :
       f.ids[j] \in Ids(g) /\ g.val[f.ids[j]] = ValueOf(p, p.code[f.of.of].args[j])

(* Call f waits for that of its operand v.                                   *)
Waits(p, f, v) ==
  /\ f.of.kind = "inst" /\ p.code[f.of.of].op \in Arithmetic /\ Len(f.ids) < 2
  /\ v = p.code[f.of.of].args[Len(f.ids) + 1]

AddOk(p, g, s) ==
  /\ s \in Seq(Frames(p))
  /\ s # <<>> => s[1].of.kind = "inst"
  /\ \A k \in 1 .. Len(s) : FrameOk(p, g, s[k])
  /\ \A k \in 1 .. Len(s) - 1 : Waits(p, s[k], s[k + 1].of)

RootsOk(p, g, s) ==
  /\ s \in Seq([of : Nat, id : Nat])
  /\ \A k \in 1 .. Len(s) :
       s[k].of \in 1 .. Len(p.code) /\ s[k].id \in Ids(g) /\ g.val[s[k].id] = p.value[s[k].of]

QueueOk(g, q) ==
  /\ q \in Seq(Nat \X Nat)
  /\ \A k \in 1 .. Len(q) : q[k][1] \in Ids(g) /\ q[k][2] \in Ids(g) /\ g.val[q[k][1]] = g.val[q[k][2]]

InProgress(p, g, s, r, q) == AddOk(p, g, s) /\ RootsOk(p, g, r) /\ QueueOk(g, q)

LEMMA ProgressStays ==
  ASSUME NEW p, NEW g, NEW h, Extends(g, h), NEW s, NEW r, NEW q, InProgress(p, g, s, r, q)
  PROVE  InProgress(p, h, s, r, q)
<1>1. \A k \in 1 .. Len(s) : FrameOk(p, h, s[k])
  BY DEF InProgress, AddOk, FrameOk, Extends
<1>2. RootsOk(p, h, r)
  BY DEF InProgress, RootsOk, Extends
<1>3. QueueOk(h, q)
  BY DEF InProgress, QueueOk, Extends
<1> QED BY <1>1, <1>2, <1>3 DEF InProgress, AddOk

LEMMA OperandOf ==
  ASSUME NEW p, NEW v \in Operands(p), v.kind = "inst"
  PROVE  v.of \in 1 .. Len(p.code) /\ v = Inst(v.of)
BY DEF Operands, Inst, Leaf, Const

(* What a call adds has the value of the operand it was called for.          *)
LEMMA FrameNode ==
  ASSUME NEW p \in Programs, Exact(p), NEW g, NEW f, FrameOk(p, g, f)
  PROVE  /\ GoodNode(p, g, Atom(f.of)) /\ Denotation(p, g, Atom(f.of)) = ValueOf(p, f.of)
         /\ f.of.kind = "inst" /\ p.code[f.of.of].op \in Arithmetic /\ Len(f.ids) = 2 =>
              LET n == Node(p.code[f.of.of].op, f.ids[1], f.ids[2])
              IN  GoodNode(p, g, n) /\ Denotation(p, g, n) = ValueOf(p, f.of)
<1>1. f.of \in Operands(p) /\ f.of \in AtomSet(p)
  BY DEF FrameOk, Frames, AtomSet
<1>2. GoodNode(p, g, Atom(f.of)) /\ Denotation(p, g, Atom(f.of)) = ValueOf(p, f.of)
  BY <1>1, AtomValue DEF GoodNode, Denotation, IsAtom, Atom
<1>3. ASSUME f.of.kind = "inst", p.code[f.of.of].op \in Arithmetic, Len(f.ids) = 2
      PROVE  LET n == Node(p.code[f.of.of].op, f.ids[1], f.ids[2])
             IN  GoodNode(p, g, n) /\ Denotation(p, g, n) = ValueOf(p, f.of)
  <2> DEFINE i == f.of.of
             op == p.code[i].op
             x == f.ids[1]
             y == f.ids[2]
  <2>1. i \in 1 .. Len(p.code) /\ f.of = Inst(i) /\ op \in Arithmetic
    BY <1>1, <1>3, OperandOf
  <2>2. /\ x \in Ids(g) /\ g.val[x] = ValueOf(p, p.code[i].args[1])
        /\ y \in Ids(g) /\ g.val[y] = ValueOf(p, p.code[i].args[2])
    BY <1>3 DEF FrameOk
  <2> HIDE DEF x, y
  <2>3. Allowed(op, g.val[y])
    BY <2>1, <2>2 DEF Exact
  <2>4. p.value[i] = Compute(op, g.val[x], g.val[y])
    BY <2>1, <2>2, ProgramAssumption
  <2>5. ValueOf(p, f.of) = p.value[i]
    BY <2>1 DEF ValueOf, Inst
  <2>6. op \in Arithmetic
    BY <2>1
  <2> HIDE DEF op
  <2>7. Denotation(p, g, Node(op, x, y)) = Compute(op, g.val[x], g.val[y])
    BY NodeParts DEF Denotation
  <2>8. GoodNode(p, g, Node(op, x, y))
    BY <2>2, <2>3, <2>6 DEF GoodNode
  <2> QED BY <2>4, <2>5, <2>7, <2>8 DEF op, x, y
<1> QED BY <1>2, <1>3

(* The call for an operand begins.                                           *)
LEMMA PushGood ==
  ASSUME NEW p \in Programs, NEW g, NEW s, AddOk(p, g, s), s # <<>>,
         Top(s).of.kind = "inst", p.code[Top(s).of.of].op \in Arithmetic, Len(Top(s).ids) < 2
  PROVE  AddOk(p, g, Append(s, [of |-> p.code[Top(s).of.of].args[Len(Top(s).ids) + 1], ids |-> <<>>]))
<1> DEFINE f == s[Len(s)]
           v == p.code[f.of.of].args[Len(f.ids) + 1]
           new == [of |-> v, ids |-> <<>>]
           t == Append(s, new)
<1>1. s \in Seq(Frames(p)) /\ Len(s) \in Nat \ {0} /\ f \in Frames(p)
  BY DEF AddOk
<1>2. f.of \in Operands(p) /\ f.ids \in Seq(Nat) /\ Len(f.ids) \in Nat /\ Len(f.ids) < 2
  <2>1. f.of \in Operands(p) /\ f.ids \in Seq(Nat)
    BY <1>1 DEF Frames
  <2>2. Len(f.ids) < 2
    BY DEF Top
  <2>3. Len(f.ids) \in Nat
    BY <2>1
  <2> QED BY <2>1, <2>2, <2>3
<1>3. f.of.of \in 1 .. Len(p.code)
  BY <1>2, OperandOf DEF Top
<1>4. v \in Operands(p)
  <2>1. p.code[f.of.of].args \in Seq(Operands(p)) /\ Len(p.code[f.of.of].args) = 2
    BY <1>3, ProgramAssumption DEF Top
  <2> DEFINE k == Len(f.ids) + 1
             as == p.code[f.of.of].args
  <2>2. k \in 1 .. Len(as)
    BY <1>2, <2>1
  <2>3. as \in Seq(Operands(p)) /\ Len(as) = 2 /\ v = as[k]
    BY <2>1
  <2> HIDE DEF k, as, v
  <2>4. as[k] \in Operands(p)
    BY <2>2, <2>3, ElementOfSeq, Zenon
  <2> QED BY <2>3, <2>4
<1>5. FrameOk(p, g, new)
  <2>1. new.of = v /\ new.ids = <<>> /\ new \in Frames(p)
    BY <1>4 DEF Frames
  <2> HIDE DEF new
  <2>2. 1 .. Len(new.ids) = {}
    BY <2>1
  <2> QED BY <2>1, <2>2, Zenon DEF FrameOk
<1>6. Waits(p, f, new.of)
  BY DEF Waits, Top
<1>7. new \in Frames(p)
  BY <1>5, Zenon DEF FrameOk
<1> HIDE DEF f, v, new
<1>8. /\ t \in Seq(Frames(p)) /\ Len(t) = Len(s) + 1 /\ t[Len(s) + 1] = new
      /\ \A k \in 1 .. Len(s) : t[k] = s[k]
  BY <1>1, <1>7
<1> HIDE DEF t
<1>9. t[1].of.kind = "inst"
  BY <1>1, <1>8 DEF AddOk
<1>10. \A k \in 1 .. Len(t) : FrameOk(p, g, t[k])
  BY <1>1, <1>5, <1>8 DEF AddOk
<1>11. ASSUME NEW k \in 1 .. Len(t) - 1 PROVE Waits(p, t[k], t[k + 1].of)
  <2>1. CASE k = Len(s)
    BY <2>1, <1>1, <1>6, <1>8 DEF f
  <2>2. CASE k # Len(s)
    BY <2>2, <1>1, <1>8 DEF AddOk
  <2> QED BY <2>1, <2>2
<1>12. AddOk(p, g, t)
  BY <1>8, <1>9, <1>10, <1>11 DEF AddOk
<1> QED BY <1>12, Zenon DEF t, new, v, f, Top

LEMMA PopLength ==
  ASSUME NEW S, NEW s \in Seq(S), s # <<>> PROVE Len(Pop(s)) = Len(s) - 1
<1>1. Len(s) \in Nat \ {0}
  OBVIOUS
<1> DEFINE n == Len(s) - 1
<1>2. n \in Nat /\ \A i \in 1 .. n : s[i] \in S
  BY <1>1
<1>3. Len(SubSeq(s, 1, n)) = IF 1 <= n THEN n - 1 + 1 ELSE 0
  BY <1>2, SubSeqProperties
<1> DEFINE l == Len(Pop(s))
<1>4. l = IF 1 <= n THEN n - 1 + 1 ELSE 0
  BY <1>3 DEF Pop
<1> HIDE DEF l, n
<1>5. l = n
  BY <1>2, <1>4
<1> QED BY <1>5 DEF l, n

(* The call for an operand returns.                                          *)
LEMMA PopGood ==
  ASSUME NEW p \in Programs, NEW g, NEW s, AddOk(p, g, s), s # <<>>, Pop(s) # <<>>,
         NEW id \in Ids(g), g.val[id] = ValueOf(p, Top(s).of)
  PROVE  AddOk(p, g, [Pop(s) EXCEPT ![Len(Pop(s))].ids = Append(@, id)])
<1> DEFINE n == Len(s) - 1
           f == s[n]
           u == [f EXCEPT !.ids = Append(@, id)]
           t == [Pop(s) EXCEPT ![Len(Pop(s))].ids = Append(@, id)]
<1>1. s \in Seq(Frames(p)) /\ Len(s) \in Nat \ {0}
  BY DEF AddOk
<1>2. /\ Pop(s) \in Seq(Frames(p)) /\ Len(Pop(s)) = n
      /\ \A k \in 1 .. n : Pop(s)[k] = s[k]
  BY <1>1 DEF Pop
<1>3. n \in Nat \ {0} /\ n \in 1 .. Len(s) - 1
  BY <1>1, <1>2
<1>4. f \in Frames(p) /\ FrameOk(p, g, f) /\ Waits(p, f, s[n + 1].of)
  BY <1>1, <1>3 DEF AddOk
<1>5. /\ u.of = f.of /\ u.ids = Append(f.ids, id) /\ u \in Frames(p)
  <2>1. id \in Nat /\ f.ids \in Seq(Nat) /\ f.of \in Operands(p)
    BY <1>4 DEF Ids, Frames
  <2>2. f = [of |-> f.of, ids |-> f.ids]
    BY <1>4 DEF Frames
  <2> HIDE DEF f
  <2>3. u = [of |-> f.of, ids |-> Append(f.ids, id)]
    BY <2>2
  <2>4. Append(f.ids, id) \in Seq(Nat)
    BY <2>1
  <2> QED BY <2>1, <2>3, <2>4 DEF Frames
<1>6. Top(s).of = p.code[f.of.of].args[Len(f.ids) + 1]
  BY <1>1, <1>4 DEF Waits, Top
<1>7. FrameOk(p, g, u)
  <2>1. f.ids \in Seq(Nat) /\ Len(f.ids) \in Nat
    BY <1>4 DEF Frames
  <2>2. ASSUME NEW j \in 1 .. Len(u.ids)
        PROVE  u.ids[j] \in Ids(g) /\ g.val[u.ids[j]] = ValueOf(p, p.code[u.of.of].args[j])
    <3>1. CASE j = Len(f.ids) + 1
      BY <1>5, <1>6, <2>1, <3>1
    <3>2. CASE j # Len(f.ids) + 1
      <4>1. j \in 1 .. Len(f.ids) /\ u.ids[j] = f.ids[j]
        BY <1>5, <2>1, <3>2
      <4> QED BY <1>4, <1>5, <4>1 DEF FrameOk
    <3> QED BY <3>1, <3>2
  <2> QED BY <1>5, <2>2 DEF FrameOk
<1> HIDE DEF u
<1>8. t = [k \in 1 .. n |-> IF k = n THEN u ELSE s[k]]
  <2>1. t = [Pop(s) EXCEPT ![n] = u]
    BY <1>2, <1>3 DEF u
  <2>2. DOMAIN Pop(s) = 1 .. n
    BY <1>2, <1>3
  <2> QED BY <1>2, <1>3, <2>1, <2>2
<1>9. /\ t \in Seq(Frames(p)) /\ Len(t) = n /\ t[n] = u
      /\ \A k \in 1 .. n : k # n => t[k] = s[k]
  <2>1. \A k \in 1 .. n : (IF k = n THEN u ELSE s[k]) \in Frames(p)
    BY <1>1, <1>3, <1>5
  <2>2. t \in [1 .. n -> Frames(p)]
    BY <1>8, <2>1
  <2> HIDE DEF t
  <2>3. t \in Seq(Frames(p)) /\ Len(t) = n
    BY <1>3, <2>2
  <2> QED BY <1>3, <1>8, <2>3, Zenon
<1> HIDE DEF t
<1>10. t[1].of.kind = "inst"
  BY <1>1, <1>3, <1>5, <1>9 DEF AddOk
<1>11. \A k \in 1 .. Len(t) : FrameOk(p, g, t[k])
  BY <1>1, <1>3, <1>7, <1>9 DEF AddOk
<1>12. ASSUME NEW k \in 1 .. Len(t) - 1 PROVE Waits(p, t[k], t[k + 1].of)
  <2>1. Waits(p, s[k], s[k + 1].of) /\ t[k] = s[k]
    BY <1>1, <1>3, <1>9 DEF AddOk
  <2>2. t[k + 1].of = s[k + 1].of
    BY <1>3, <1>5, <1>9
  <2> QED BY <2>1, <2>2
<1> QED BY <1>9, <1>10, <1>11, <1>12 DEF AddOk, t

(* A call for a candidate returns: it has a root.                            *)
LEMMA RootGood ==
  ASSUME NEW p \in Programs, NEW g, NEW s, AddOk(p, g, s), s # <<>>, Len(s) = 1, NEW r, RootsOk(p, g, r),
         NEW id \in Ids(g), g.val[id] = ValueOf(p, Top(s).of)
  PROVE  RootsOk(p, g, Append(r, [of |-> Top(s).of.of, id |-> id]))
<1> DEFINE v == s[1].of
           new == [of |-> v.of, id |-> id]
<1>1. s \in Seq(Frames(p)) /\ s # <<>> /\ Top(s) = s[1] /\ s[1] \in Frames(p)
  <2>1. s \in Seq(Frames(p)) /\ 1 \in 1 .. Len(s)
    BY DEF AddOk
  <2>2. s[1] \in Frames(p)
    BY <2>1, ElementOfSeq
  <2>3. Top(s) = s[1]
    BY DEF Top
  <2> QED BY <2>1, <2>2, <2>3
<1>2. v \in Operands(p) /\ v.kind = "inst"
  BY <1>1 DEF AddOk, Frames
<1>3. v.of \in 1 .. Len(p.code) /\ v = Inst(v.of)
  BY <1>2, OperandOf
<1>4. v.of \in Nat /\ id \in Nat /\ ValueOf(p, v) = p.value[v.of]
  BY <1>2, <1>3 DEF Ids, ValueOf
<1>5. r \in Seq([of : Nat, id : Nat]) /\ Len(r) \in Nat
  BY DEF RootsOk
<1>6. new \in [of : Nat, id : Nat] /\ new.of = v.of /\ new.id = id
  BY <1>4
<1>7. g.val[id] = p.value[v.of]
  BY <1>1, <1>4
<1> HIDE DEF new, v
<1> DEFINE t == Append(r, new)
<1>8. /\ t \in Seq([of : Nat, id : Nat]) /\ Len(t) = Len(r) + 1 /\ t[Len(r) + 1] = new
      /\ \A k \in 1 .. Len(r) : t[k] = r[k]
  BY <1>5, <1>6
<1> HIDE DEF t
<1>9. ASSUME NEW k \in 1 .. Len(t)
      PROVE  t[k].of \in 1 .. Len(p.code) /\ t[k].id \in Ids(g) /\ g.val[t[k].id] = p.value[t[k].of]
  <2>1. CASE k = Len(r) + 1
    BY <2>1, <1>3, <1>6, <1>7, <1>8
  <2>2. CASE k # Len(r) + 1
    <3>1. k \in 1 .. Len(r) /\ t[k] = r[k]
      BY <1>5, <1>8, <2>2
    <3> QED BY <3>1 DEF RootsOk
  <2> QED BY <2>1, <2>2
<1>10. RootsOk(p, g, t)
  BY <1>8, <1>9 DEF RootsOk
<1> QED BY <1>1, <1>10 DEF t, new, v

(* Two classes made for the same may be queued.                              *)
LEMMA QueueGood ==
  ASSUME NEW g, NEW q, QueueOk(g, q), NEW c \in Ids(g), NEW d \in Ids(g), g.val[c] = g.val[d]
  PROVE  QueueOk(g, Append(q, <<c, d>>))
<1> DEFINE new == <<c, d>>
           t == Append(q, new)
<1>1. q \in Seq(Nat \X Nat) /\ Len(q) \in Nat /\ new \in Nat \X Nat /\ new[1] = c /\ new[2] = d
  BY DEF QueueOk, Ids
<1> HIDE DEF new
<1>2. /\ t \in Seq(Nat \X Nat) /\ Len(t) = Len(q) + 1 /\ t[Len(q) + 1] = new
      /\ \A k \in 1 .. Len(q) : t[k] = q[k]
  BY <1>1
<1> HIDE DEF t
<1>3. ASSUME NEW k \in 1 .. Len(t)
      PROVE  t[k][1] \in Ids(g) /\ t[k][2] \in Ids(g) /\ g.val[t[k][1]] = g.val[t[k][2]]
  <2>1. CASE k = Len(q) + 1
    BY <2>1, <1>1, <1>2
  <2>2. CASE k # Len(q) + 1
    <3>1. k \in 1 .. Len(q)
      BY <1>1, <1>2, <2>2
    <3>2. t[k] = q[k]
      BY <1>2, <3>1
    <3> QED BY <3>1, <3>2 DEF QueueOk
  <2> QED BY <2>1, <2>2
<1>4. QueueOk(g, t)
  BY <1>2, <1>3 DEF QueueOk
<1> QED BY <1>4 DEF t, new

LEMMA QueueTail ==
  ASSUME NEW g, NEW q, QueueOk(g, q), q # <<>>
  PROVE  /\ QueueOk(g, Tail(q))
         /\ Head(q)[1] \in Ids(g) /\ Head(q)[2] \in Ids(g) /\ g.val[Head(q)[1]] = g.val[Head(q)[2]]
<1> DEFINE t == Tail(q)
<1>1. q \in Seq(Nat \X Nat) /\ Len(q) \in Nat \ {0} /\ Head(q) = q[1]
  BY DEF QueueOk
<1>2. /\ t \in Seq(Nat \X Nat) /\ Len(t) = Len(q) - 1
      /\ \A k \in 1 .. Len(t) : t[k] = q[k + 1] /\ k + 1 \in 1 .. Len(q)
  BY <1>1
<1> HIDE DEF t
<1>3. QueueOk(g, t)
  BY <1>2 DEF QueueOk
<1>4. 1 \in 1 .. Len(q)
  BY <1>1
<1> QED BY <1>1, <1>3, <1>4 DEF QueueOk, t

-----------------------------------------------------------------------------
(* The inductive invariant: beyond the classes, what is being added, the
   roots, the merges to come, and the table and the list of a rebuild agree
   with the graph.                                                           *)
Agreeing ==
  /\ program \in Programs /\ pos \in Nat \ {0}
  /\ Exact(program) =>
       /\ GoodGraph(program, graph)
       /\ InProgress(program, graph, adding, roots, queue)
       /\ phase = "add" => code = program.code
       /\ phase \in {"rules", "rebuild"} => at \in Classes
       /\ phase = "rebuild" => GoodMemo(program, graph, newMemo) /\ Listed(program, graph, at, kept)

LEMMA StartAgreeing == ASSUME NEW p \in {"add", "done"}, Start(p) PROVE Agreeing
<1>1. GoodClasses(NoGraph)
  BY DEF GoodClasses, NoGraph, Ids
<1>2. GoodGraph(program, graph)
  BY <1>1 DEF Start, NoGraph, GoodGraph, GoodMemo
<1>3. InProgress(program, graph, adding, roots, queue)
  BY DEF Start, InProgress, AddOk, RootsOk, QueueOk
<1> QED BY <1>2, <1>3 DEF Start, Agreeing

LEMMA FirstFromIn == ASSUME NEW S, NEW k, NEW m \in FirstFrom(S, k) PROVE m \in S
BY DEF FirstFrom

(* A class found by addNode is listed.                                       *)
LEMMA AddNodeKeeps ==
  ASSUME NEW p, NEW g, NEW n PROVE DOMAIN g.classes \subseteq DOMAIN AddNode(p, g, n).graph.classes
BY DEF AddNode, Added

LEMMA StepBeginCandidate == ASSUME Agreeing, BeginCandidate PROVE Agreeing'
<1> SUFFICES ASSUME Exact(program) PROVE AddOk(program, graph, adding')
  BY DEF Agreeing, BeginCandidate, InProgress, rebuilds, Classes
<1>1. PICK i \in 1 .. Len(code) : IsCandidate(i) /\ adding' = <<[of |-> Inst(i), ids |-> <<>>]>>
  BY FirstFromIn DEF BeginCandidate
<1> DEFINE f == [of |-> Inst(i), ids |-> <<>>]
<1>2. i \in 1 .. Len(program.code) /\ program.code[i].op \in Arithmetic
  BY <1>1, ProgramAssumption DEF Agreeing, BeginCandidate, IsCandidate
<1>3. f.of = Inst(i) /\ f.of.kind = "inst" /\ f.ids = <<>> /\ f \in Frames(program)
  BY <1>2 DEF Frames, Operands, Inst
<1> HIDE DEF f
<1>4. 1 .. Len(f.ids) = {}
  BY <1>3
<1>5. FrameOk(program, graph, f)
  BY <1>3, <1>4 DEF FrameOk
<1>6. <<f>> \in Seq(Frames(program)) /\ Len(<<f>>) = 1 /\ <<f>>[1] = f
  BY <1>3
<1>7. AddOk(program, graph, <<f>>)
  BY <1>3, <1>5, <1>6 DEF AddOk
<1> QED BY <1>1, <1>7 DEF f

LEMMA StepAddOperand == ASSUME Agreeing, AddOperand PROVE Agreeing'
<1> SUFFICES ASSUME Exact(program) PROVE AddOk(program, graph, adding')
  BY DEF Agreeing, AddOperand, InProgress, cursor, rebuilds, Classes
<1>1. program \in Programs /\ AddOk(program, graph, adding) /\ code = program.code /\ adding # <<>>
  BY DEF Agreeing, AddOperand, InProgress
<1>2. /\ Top(adding).of.kind = "inst" /\ code[Top(adding).of.of].op \in Arithmetic
      /\ Len(Top(adding).ids) < 2
      /\ adding' = Append(adding, [of |-> code[Top(adding).of.of].args[Len(Top(adding).ids) + 1],
                                   ids |-> <<>>])
  BY DEF AddOperand, Expands
<1> QED BY <1>1, <1>2, PushGood

LEMMA StepAddTop == ASSUME Agreeing, AddTop PROVE Agreeing'
<1> DEFINE f == Top(adding)
           node == IF Expands(f.of, Len(adding) - 1)
                   THEN Node(code[f.of.of].op, f.ids[1], f.ids[2]) ELSE Atom(f.of)
           added == AddNode(program, graph, node)
<1> SUFFICES ASSUME Exact(program)
             PROVE  GoodGraph(program, graph') /\ InProgress(program, graph', adding', roots', queue)
  BY DEF Agreeing, AddTop, cursor, rebuilds
<1>1. /\ program \in Programs /\ code = program.code /\ adding # <<>>
      /\ GoodGraph(program, graph) /\ InProgress(program, graph, adding, roots, queue)
  BY DEF Agreeing, AddTop
<1>2. adding \in Seq(Frames(program)) /\ Len(adding) \in Nat \ {0} /\ FrameOk(program, graph, f)
  BY <1>1 DEF InProgress, AddOk, Top
<1>3. Expands(f.of, Len(adding) - 1) => Len(f.ids) = 2
  BY DEF AddTop
<1>4. GoodNode(program, graph, node) /\ Denotation(program, graph, node) = ValueOf(program, f.of)
  BY <1>1, <1>2, <1>3, FrameNode DEF Expands
<1> HIDE DEF node
<1>5. /\ GoodGraph(program, added.graph) /\ Extends(graph, added.graph) /\ added.id \in Ids(added.graph)
      /\ added.graph.val[added.id] = ValueOf(program, f.of)
  BY <1>1, <1>4, AddNodeGood
<1>6. graph' = added.graph
  BY DEF AddTop, node
<1>7. InProgress(program, graph', adding, roots, queue)
  BY <1>1, <1>5, <1>6, ProgressStays
<1>8. CASE Pop(adding) = <<>>
  <2>1. adding' = <<>> /\ roots' = Append(roots, [of |-> f.of.of, id |-> added.id])
    BY <1>8 DEF AddTop, node
  <2>2. Len(adding) = 1
    <3>1. Len(Pop(adding)) = Len(adding) - 1
      BY <1>1, <1>2, PopLength
    <3> QED BY <1>2, <1>8, <3>1
  <2>3. RootsOk(program, graph', roots')
    BY <1>1, <1>5, <1>6, <1>7, <2>1, <2>2, RootGood DEF InProgress
  <2>4. AddOk(program, graph', <<>>)
    BY DEF AddOk
  <2> QED BY <1>5, <1>6, <1>7, <2>1, <2>3, <2>4 DEF InProgress
<1>9. CASE Pop(adding) # <<>>
  <2>1. /\ adding' = [Pop(adding) EXCEPT ![Len(Pop(adding))].ids = Append(@, added.id)]
        /\ roots' = roots
    BY <1>9 DEF AddTop, node
  <2>2. AddOk(program, graph', adding')
    BY <1>1, <1>5, <1>6, <1>7, <1>9, <2>1, PopGood DEF InProgress
  <2> QED BY <1>5, <1>6, <1>7, <2>1, <2>2 DEF InProgress
<1> QED BY <1>8, <1>9

LEMMA StepEndOfCandidates == ASSUME Agreeing, EndOfCandidates PROVE Agreeing'
<1>1. CASE roots = <<>>
  BY <1>1 DEF Agreeing, EndOfCandidates, adds, rebuilds, Classes
<1>2. CASE roots # <<>>
  <2>1. phase' = "rules" /\ at' \in Classes /\ pos' = 1
    BY <1>2, FirstFromIn DEF EndOfCandidates, StartLoop
  <2> QED BY <2>1 DEF Agreeing, EndOfCandidates, adds, rebuilds, Classes
<1> QED BY <1>1, <1>2

(* What matches a rule.                                                      *)
LEMMA VisitedNode ==
  ASSUME Agreeing, Exact(program), phase = "rules", pos <= Len(Nodes(at)), NEW r \in Matching(Visited)
  PROVE  \E op \in Arithmetic, x \in Ids(graph), y \in Ids(graph) :
           /\ Visited = Node(op, x, y) /\ Allowed(op, graph.val[y])
           /\ graph.val[at] = Compute(op, graph.val[x], graph.val[y])
<1>1. GoodGraph(program, graph) /\ at \in DOMAIN graph.classes /\ pos \in Nat \ {0}
  BY DEF Agreeing, Classes
<1>2. Listed(program, graph, at, graph.classes[at])
  BY <1>1 DEF GoodGraph
<1>3. Len(Nodes(at)) \in Nat
  BY <1>2 DEF Listed, Nodes
<1>4. Stands(program, graph, Visited, at)
  BY <1>1, <1>2, <1>3 DEF Listed, Nodes, Visited
<1>5. ~IsAtom(Visited)
  BY DEF Matching
<1>6. ASSUME NEW v \in AtomSet(program), Visited = Atom(v) PROVE FALSE
  <2>1. program \in Programs
    BY DEF Agreeing
  <2> QED BY <1>5, <1>6, <2>1, AtomValue DEF IsAtom, Atom
<1>7. PICK op \in Arithmetic, x \in Ids(graph), y \in Ids(graph) :
        Visited = Node(op, x, y) /\ Allowed(op, graph.val[y])
  BY <1>4, <1>6 DEF Stands, GoodNode
<1>8. graph.val[at] = Compute(op, graph.val[x], graph.val[y])
  BY <1>4, <1>7, NodeParts DEF Stands, Denotation
<1> QED BY <1>7, <1>8

(* What find returns was made for the same.                                  *)
LEMMA Find ==
  ASSUME NEW p, NEW g, GoodGraph(p, g), NEW c \in Ids(g)
  PROVE  g.rep[c] \in Ids(g) /\ g.val[g.rep[c]] = g.val[c] /\ g.val[c] \in Results
BY DEF GoodGraph, GoodClasses, Ids

(* A rule may equate the class visited with one made for the same.           *)
LEMMA EquateGood ==
  ASSUME Agreeing, Exact(program), phase = "rules", NEW r, Matches(r), NEW h, NEW c,
         GoodGraph(program, h), Extends(graph, h), DOMAIN graph.classes \subseteq DOMAIN h.classes,
         c \in Ids(h), h.val[c] = graph.val[at], Equate(h, c)
  PROVE  Agreeing'
<1>1. GoodGraph(program, graph) /\ at \in DOMAIN graph.classes
  BY DEF Agreeing, Classes
<1>2. at \in Ids(graph)
  BY <1>1 DEF GoodGraph
<1>3. graph.rep[at] \in Ids(h) /\ h.val[graph.rep[at]] = h.val[c]
  BY <1>1, <1>2, Find DEF Extends
<1>4. InProgress(program, h, adding, roots, queue)
  BY ProgressStays DEF Agreeing
<1>5. graph' = h /\ queue' = Append(queue, <<graph.rep[at], c>>)
  BY DEF Equate
<1>6. InProgress(program, graph', adding, roots, queue')
  BY <1>3, <1>4, <1>5, QueueGood DEF InProgress
<1>7. at \in DOMAIN graph'.classes
  BY <1>1, <1>5
<1> QED BY <1>5, <1>6, <1>7 DEF Agreeing, Matches, adds, cursor, rebuilds, Classes

LEMMA StepIdentity == ASSUME Agreeing, Identity PROVE Agreeing'
<1>1. CASE ~Exact(program)
  BY <1>1 DEF Agreeing, Identity, Matches, cursor
<1>2. CASE Exact(program)
  <2>1. phase = "rules" /\ Matches(1) /\ 1 \in Matching(Visited) /\ pos <= Len(Nodes(at))
    BY FirstFromIn DEF Identity, Matches
  <2>2. PICK op \in Arithmetic, x \in Ids(graph), y \in Ids(graph) :
           /\ Visited = Node(op, x, y) /\ Allowed(op, graph.val[y])
           /\ graph.val[at] = Compute(op, graph.val[x], graph.val[y])
    BY <1>2, <2>1, VisitedNode
  <2>3. Visited.op = op /\ Visited.children[1] = x /\ Visited.children[2] = y
    BY <2>2, NodeParts
  <2>4. program \in Programs /\ GoodGraph(program, graph)
    BY <1>2 DEF Agreeing
  <2>5. PICK k \in ConstantOf(graph, graph.rep[y]) : IsIdentity(op, k)
    BY <2>1, <2>3 DEF Matching
  <2>6. k \in Data /\ graph.val[y] = Constantly(k)
    BY <2>4, <2>5, Find, ConstantValue
  <2>7. graph.val[at] = graph.val[x]
    BY <2>2, <2>4, <2>5, <2>6, Find, IdentityRight
  <2>8. /\ Equate(graph, graph.rep[x]) /\ graph.rep[x] \in Ids(graph)
        /\ graph.val[graph.rep[x]] = graph.val[at]
    BY <2>3, <2>4, <2>7, Find DEF Identity
  <2> QED BY <1>2, <2>1, <2>4, <2>8, EquateGood DEF Extends
<1> QED BY <1>1, <1>2

LEMMA StepCancel == ASSUME Agreeing, Cancel PROVE Agreeing'
<1>1. CASE ~Exact(program)
  BY <1>1 DEF Agreeing, Cancel, Matches, cursor
<1>2. CASE Exact(program)
  <2>1. phase = "rules" /\ Matches(2) /\ 2 \in Matching(Visited) /\ pos <= Len(Nodes(at))
    BY FirstFromIn DEF Cancel, Matches
  <2>2. PICK op \in Arithmetic, x \in Ids(graph), y \in Ids(graph) :
           /\ Visited = Node(op, x, y) /\ Allowed(op, graph.val[y])
           /\ graph.val[at] = Compute(op, graph.val[x], graph.val[y])
    BY <1>2, <2>1, VisitedNode
  <2>3. Visited.op = op /\ Visited.children[1] = x /\ Visited.children[2] = y
    BY <2>2, NodeParts
  <2>4. program \in Programs /\ GoodGraph(program, graph)
    BY <1>2 DEF Agreeing
  <2>5. op \in {"Sub", "Xor"} /\ graph.rep[x] = graph.rep[y]
    BY <2>1, <2>3 DEF Matching
  <2>6. graph.val[at] = Constantly(0)
    BY <2>2, <2>4, <2>5, Find, CancelRight
  <2> DEFINE zero == Atom(Made(0))
             added == AddNode(program, graph, zero)
  <2>7. GoodNode(program, graph, zero) /\ Denotation(program, graph, zero) = Constantly(0)
    <3>1. 0 \in Data
      BY ArithmeticAssumption
    <3>2. Made(0) \in AtomSet(program)
      BY <3>1 DEF AtomSet
    <3> QED BY <3>2, <2>4, AtomValue DEF GoodNode, Denotation, IsAtom, Atom, ValueOf, Made, Constantly
  <2> HIDE DEF zero
  <2>8. /\ GoodGraph(program, added.graph) /\ Extends(graph, added.graph)
        /\ added.id \in Ids(added.graph) /\ added.graph.val[added.id] = Constantly(0)
        /\ DOMAIN graph.classes \subseteq DOMAIN added.graph.classes
    BY <2>4, <2>7, AddNodeGood, AddNodeKeeps
  <2>9. Equate(added.graph, added.id)
    BY DEF Cancel, zero
  <2> HIDE DEF added
  <2> QED BY <1>2, <2>1, <2>6, <2>8, <2>9, EquateGood
<1> QED BY <1>1, <1>2

LEMMA StepCheapen == ASSUME Agreeing, Cheapen PROVE Agreeing'
<1>1. CASE ~Exact(program)
  BY <1>1 DEF Agreeing, Cheapen, Matches, cursor
<1>2. CASE Exact(program)
  <2>1. phase = "rules" /\ Matches(3) /\ 3 \in Matching(Visited) /\ pos <= Len(Nodes(at))
    BY FirstFromIn DEF Cheapen, Matches
  <2>2. PICK op \in Arithmetic, x \in Ids(graph), y \in Ids(graph) :
           /\ Visited = Node(op, x, y) /\ Allowed(op, graph.val[y])
           /\ graph.val[at] = Compute(op, graph.val[x], graph.val[y])
    BY <1>2, <2>1, VisitedNode
  <2>3. Visited.op = op /\ Visited.children[1] = x /\ Visited.children[2] = y
    BY <2>2, NodeParts
  <2>4. program \in Programs /\ GoodGraph(program, graph)
    BY <1>2 DEF Agreeing
  <2> DEFINE a(n) == AddNode(program, graph, Atom(Made(CheaperOperand(op, n))))
             b(n) == AddNode(program, a(n).graph, Node(CheaperOp(op), graph.rep[x], a(n).id))
  <2>5. PICK n \in ConstantOf(graph, graph.rep[y]) : Equate(b(n).graph, b(n).id)
    BY <2>3 DEF Cheapen
  <2>6. n \in Data /\ graph.val[y] = Constantly(n)
    BY <2>4, <2>5, Find, ConstantValue
  <2>7. op \in HasCheaper /\ n \in Powers
    <3>1. PICK m \in ConstantOf(graph, graph.rep[y]) : m \in Powers
      BY <2>1, <2>3 DEF Matching
    <3>2. Constantly(m) = Constantly(n)
      BY <2>4, <2>6, <3>1, Find, ConstantValue
    <3>3. m = n
      BY <3>2, ProgramAssumption DEF Constantly
    <3> QED BY <2>1, <2>3, <3>1, <3>3 DEF Matching
  <2> DEFINE to == CheaperOp(op)
             amount == CheaperOperand(op, n)
             atom == Atom(Made(amount))
             first == AddNode(program, graph, atom)
             node == Node(to, graph.rep[x], first.id)
             second == AddNode(program, first.graph, node)
  <2>8. /\ to \in Arithmetic /\ amount \in Data /\ Allowed(to, Constantly(amount))
        /\ Compute(to, graph.val[x], Constantly(amount)) = graph.val[at]
    BY <2>2, <2>4, <2>6, <2>7, Find, CheaperRight
  <2> HIDE DEF to, amount
  <2>9. GoodNode(program, graph, atom) /\ Denotation(program, graph, atom) = Constantly(amount)
    <3>1. Made(amount) \in AtomSet(program)
      BY <2>8 DEF AtomSet
    <3> QED BY <3>1, <2>4, AtomValue DEF GoodNode, Denotation, IsAtom, Atom, ValueOf, Made, Constantly
  <2>10. Equate(second.graph, second.id)
    BY <2>5 DEF to, amount
  <2> HIDE DEF atom
  <2>11. /\ GoodGraph(program, first.graph) /\ Extends(graph, first.graph)
         /\ first.id \in Ids(first.graph) /\ first.graph.val[first.id] = Constantly(amount)
         /\ DOMAIN graph.classes \subseteq DOMAIN first.graph.classes
    BY <2>4, <2>9, AddNodeGood, AddNodeKeeps
  <2>12. /\ graph.rep[x] \in Ids(first.graph) /\ first.graph.val[graph.rep[x]] = graph.val[x]
    BY <2>4, <2>11, Find DEF Extends
  <2> HIDE DEF first
  <2>13. GoodNode(program, first.graph, node)
    BY <2>8, <2>11, <2>12 DEF GoodNode
  <2>14. Denotation(program, first.graph, node) = graph.val[at]
    BY <2>8, <2>11, <2>12, NodeParts DEF Denotation
  <2> HIDE DEF node
  <2>15. /\ GoodGraph(program, second.graph) /\ Extends(first.graph, second.graph)
         /\ second.id \in Ids(second.graph) /\ second.graph.val[second.id] = graph.val[at]
         /\ DOMAIN first.graph.classes \subseteq DOMAIN second.graph.classes
    BY <2>4, <2>11, <2>13, <2>14, AddNodeGood, AddNodeKeeps
  <2> HIDE DEF second
  <2>16. Extends(graph, second.graph) /\ DOMAIN graph.classes \subseteq DOMAIN second.graph.classes
    BY <2>11, <2>15 DEF Extends
  <2> QED BY <1>2, <2>1, <2>10, <2>15, <2>16, EquateGood
<1> QED BY <1>1, <1>2

LEMMA StepWalk == ASSUME Agreeing, NextNode \/ EndOfClass \/ EndOfRules PROVE Agreeing'
<1>1. CASE NextNode
  BY <1>1 DEF Agreeing, NextNode, adds, rebuilds, Classes
<1>2. CASE EndOfClass
  <2>1. at' \in Classes /\ pos' = 1
    BY <1>2, FirstFromIn DEF EndOfClass, NextClass
  <2> QED BY <1>2, <2>1 DEF Agreeing, EndOfClass, adds, rebuilds, Classes
<1>3. CASE EndOfRules
  <2>1. phase' \in {"merge", "done", "extract"} /\ pos' = 1
    BY <1>3 DEF EndOfRules
  <2> QED BY <1>3, <2>1 DEF Agreeing, EndOfRules, adds, rebuilds, Classes
<1> QED BY <1>1, <1>2, <1>3

LEMMA StepMerge == ASSUME Agreeing, MergeNext \/ EndOfMerges PROVE Agreeing'
<1>1. CASE MergeNext
  <2> SUFFICES ASSUME Exact(program)
               PROVE  GoodGraph(program, graph') /\ InProgress(program, graph', adding, roots, queue')
    BY <1>1 DEF Agreeing, MergeNext, adds, cursor, rebuilds, Classes
  <2>1. /\ program \in Programs /\ GoodGraph(program, graph)
        /\ InProgress(program, graph, adding, roots, queue)
    BY DEF Agreeing
  <2>2. /\ QueueOk(graph, Tail(queue)) /\ Head(queue)[1] \in Ids(graph)
        /\ Head(queue)[2] \in Ids(graph)
        /\ graph.val[Head(queue)[1]] = graph.val[Head(queue)[2]]
    BY <1>1, <2>1, QueueTail DEF InProgress, MergeNext
  <2>3. GoodGraph(program, graph') /\ Extends(graph, graph')
    BY <1>1, <2>1, <2>2, MergedGood DEF MergeNext
  <2>4. InProgress(program, graph, adding, roots, queue')
    BY <1>1, <2>1, <2>2 DEF InProgress, MergeNext
  <2> QED BY <2>3, <2>4, ProgressStays
<1>2. CASE EndOfMerges
  <2>1. phase' = "rebuild" /\ at' \in Classes /\ pos' = 1
    BY <1>2, FirstFromIn DEF EndOfMerges, StartLoop
  <2>2. newMemo' = [n \in {} |-> 0] /\ kept' = <<>> /\ graph' = graph
    BY <1>2 DEF EndOfMerges
  <2>3. GoodMemo(program, graph, newMemo') /\ Listed(program, graph, at', kept')
    BY <2>2 DEF GoodMemo, Listed
  <2> QED BY <1>2, <2>1, <2>2, <2>3 DEF Agreeing, EndOfMerges, adds, Classes
<1> QED BY <1>1, <1>2

LEMMA StepRebuildNode == ASSUME Agreeing, RebuildNode PROVE Agreeing'
<1> SUFFICES ASSUME Exact(program)
             PROVE  /\ GoodGraph(program, graph') /\ Extends(graph, graph')
                    /\ DOMAIN graph'.classes = DOMAIN graph.classes
                    /\ GoodMemo(program, graph', newMemo') /\ Listed(program, graph', at, kept')
  <2>1. phase = "rebuild" /\ pos' \in Nat \ {0}
    BY DEF Agreeing, RebuildNode
  <2> QED BY <2>1, ProgressStays DEF Agreeing, RebuildNode, adds, Classes
<1>1. /\ program \in Programs /\ GoodGraph(program, graph) /\ at \in DOMAIN graph.classes
      /\ GoodMemo(program, graph, newMemo) /\ Listed(program, graph, at, kept)
  BY DEF Agreeing, RebuildNode, Classes
<1> DEFINE n == Canonical(graph, graph.classes[at][pos])
<1>2. Stands(program, graph, n, at)
  <2>1. Listed(program, graph, at, graph.classes[at])
    BY <1>1 DEF GoodGraph
  <2>2. pos \in 1 .. Len(graph.classes[at])
    BY <2>1 DEF Agreeing, RebuildNode, Listed
  <2>3. Stands(program, graph, graph.classes[at][pos], at)
    BY <2>1, <2>2 DEF Listed
  <2> QED BY <1>1, <2>3, CanonicalGood DEF Stands, GoodGraph
<1>3. n \in NodeSet(program)
  BY <1>1, <1>2, NodeTyped DEF Stands, GoodGraph, GoodClasses
<1>4. CASE n \in DOMAIN newMemo
  <2> DEFINE r1 == graph.rep[at]
             r2 == graph.rep[newMemo[n]]
  <2>1. graph' = Union(graph, r1, r2) /\ newMemo' = newMemo /\ kept' = kept
    BY <1>4 DEF RebuildNode
  <2>2. r1 \in Ids(graph) /\ r2 \in Ids(graph) /\ graph.val[r1] = graph.val[r2]
    BY <1>1, <1>2, <1>4, Find DEF GoodMemo, Stands
  <2>3. GoodGraph(program, graph') /\ Extends(graph, graph')
    BY <1>1, <2>1, <2>2, UnionGood
  <2>4. graph'.classes = graph.classes
    BY <1>1, <2>1 DEF Union, GoodGraph
  <2>5. GoodMemo(program, graph', newMemo') /\ Listed(program, graph', at, kept')
    <3>1. GoodMemo(program, graph', newMemo)
      BY <1>1, <2>3, StandsStays DEF GoodMemo
    <3>2. Listed(program, graph', at, kept)
      BY <1>1, <2>3, ListedStays
    <3> QED BY <2>1, <3>1, <3>2
  <2> QED BY <2>3, <2>4, <2>5
<1>5. CASE n \notin DOMAIN newMemo
  <2>1. /\ graph' = graph /\ kept' = Append(kept, n)
        /\ newMemo' = [m \in DOMAIN newMemo \cup {n} |-> IF m = n THEN at ELSE newMemo[m]]
    BY <1>5 DEF RebuildNode
  <2> HIDE DEF n
  <2>2. GoodMemo(program, graph, newMemo')
    BY <1>1, <1>2, <2>1 DEF GoodMemo
  <2>3. Listed(program, graph, at, <<n>>)
    BY <1>2, <1>3 DEF Listed
  <2>4. kept' = kept \o <<n>>
    BY <1>1, <1>3, <2>1, AppendIsConcat DEF Listed
  <2>5. Listed(program, graph, at, kept')
    BY <1>1, <2>3, <2>4, ListedConcat
  <2> QED BY <1>1, <2>1, <2>2, <2>5 DEF Extends
<1> QED BY <1>4, <1>5

(* A list of the right nodes may take the place of another.                  *)
LEMMA ReplacedGood ==
  ASSUME NEW p \in Programs, NEW g, GoodGraph(p, g), NEW c \in DOMAIN g.classes,
         NEW s, Listed(p, g, c, s)
  PROVE  LET h == [g EXCEPT !.classes[c] = s]
         IN  GoodGraph(p, h) /\ Extends(g, h) /\ DOMAIN h.classes = DOMAIN g.classes
<1> DEFINE h == [g EXCEPT !.classes[c] = s]
<1>1. /\ h.rep = g.rep /\ h.memo = g.memo /\ h.val = g.val
      /\ h.classes = [g.classes EXCEPT ![c] = s]
      /\ h = [rep |-> h.rep, memo |-> h.memo, classes |-> h.classes, val |-> h.val]
  BY DEF GoodGraph
<1> HIDE DEF h
<1>2. Ids(h) = Ids(g) /\ Extends(g, h)
  BY <1>1 DEF Ids, Extends
<1>3. GoodClasses(h)
  BY <1>1, <1>2 DEF GoodGraph, GoodClasses
<1>4. GoodMemo(p, h, h.memo)
  BY <1>1, <1>2, StandsStays DEF GoodGraph, GoodMemo
<1>5. DOMAIN h.classes = DOMAIN g.classes
  BY <1>1
<1>6. \A d \in DOMAIN h.classes : d \in Ids(h) /\ Listed(p, h, d, h.classes[d])
  BY <1>1, <1>2, ListedStays DEF GoodGraph
<1>7. GoodGraph(p, h)
  BY <1>1, <1>3, <1>4, <1>5, <1>6 DEF GoodGraph
<1> QED BY <1>2, <1>5, <1>7 DEF h

LEMMA StepRebuildEndOfClass == ASSUME Agreeing, RebuildEndOfClass PROVE Agreeing'
<1>1. pos' = 1 /\ program' = program /\ phase = "rebuild" /\ phase' \in {"rebuild", "rules", "extract"}
  BY DEF RebuildEndOfClass, NextClass, StartLoop
<1> SUFFICES ASSUME Exact(program)
             PROVE  /\ GoodGraph(program, graph') /\ Extends(graph, graph')
                    /\ phase' \in {"rules", "rebuild"} => at' \in DOMAIN graph'.classes
                    /\ GoodMemo(program, graph', newMemo') /\ Listed(program, graph', at', kept')
  BY <1>1, ProgressStays DEF Agreeing, RebuildEndOfClass, adds, Classes
<1>2. /\ program \in Programs /\ GoodGraph(program, graph) /\ at \in DOMAIN graph.classes
      /\ GoodMemo(program, graph, newMemo) /\ Listed(program, graph, at, kept)
  BY <1>1 DEF Agreeing, Classes
<1>3. graph' = [graph EXCEPT !.classes[at] = kept] /\ newMemo' = newMemo /\ kept' = <<>>
  BY DEF RebuildEndOfClass
<1>4. /\ GoodGraph(program, graph') /\ Extends(graph, graph')
      /\ DOMAIN graph'.classes = DOMAIN graph.classes
  BY <1>2, <1>3, ReplacedGood
<1>5. phase' \in {"rules", "rebuild"} => at' \in DOMAIN graph.classes
  <2>1. CASE ~IsLastClass
    BY <2>1, FirstFromIn DEF RebuildEndOfClass, NextClass, Classes
  <2>2. CASE IsLastClass
    BY <2>2, FirstFromIn DEF RebuildEndOfClass, StartLoop, Classes
  <2> QED BY <2>1, <2>2
<1>6. GoodMemo(program, graph', newMemo')
  BY <1>2, <1>3, <1>4, StandsStays DEF GoodMemo
<1>7. Listed(program, graph', at', <<>>)
  BY DEF Listed
<1> QED BY <1>3, <1>4, <1>5, <1>6, <1>7

(* Extraction leaves the graph alone.                                        *)
LEMMA StepExtract ==
  ASSUME Agreeing, BeginExtraction \/ ExtractBest \/ Replace \/ EndOfExtraction
  PROVE  Agreeing'
<1>1. phase' \in {"extract", "overflow", "done"}
  BY DEF BeginExtraction, ExtractBest, GiveUp, TakeAtom, ExtractChild, Build, Replace, EndOfExtraction
<1>2. UNCHANGED <<program, pos, graph, adding, roots, queue>>
  BY DEF BeginExtraction, ExtractBest, Replace, EndOfExtraction, adds, cursor
<1> QED BY <1>1, <1>2 DEF Agreeing

LEMMA Inductive == Agreeing /\ [Next]_vars => Agreeing'
<1> SUFFICES ASSUME Agreeing, [Next]_vars PROVE Agreeing'
  OBVIOUS
<1>1. CASE BeginCandidate \/ AddOperand \/ AddTop \/ EndOfCandidates
  BY <1>1, StepBeginCandidate, StepAddOperand, StepAddTop, StepEndOfCandidates
<1>2. CASE Identity \/ Cancel \/ Cheapen
  BY <1>2, StepIdentity, StepCancel, StepCheapen
<1>3. CASE NextNode \/ EndOfClass \/ EndOfRules
  BY <1>3, StepWalk
<1>4. CASE MergeNext \/ EndOfMerges
  BY <1>4, StepMerge
<1>5. CASE RebuildNode \/ RebuildEndOfClass
  BY <1>5, StepRebuildNode, StepRebuildEndOfClass
<1>6. CASE BeginExtraction \/ ExtractBest \/ Replace \/ EndOfExtraction
  BY <1>6, StepExtract
<1>7. CASE UNCHANGED vars
  BY <1>7 DEF Agreeing, vars, adds, cursor, rebuilds, Classes
<1> QED BY <1>1, <1>2, <1>3, <1>4, <1>5, <1>6, <1>7 DEF Next

LEMMA AgreeingEnough == Agreeing => ClassesAgree
<1> SUFFICES ASSUME Agreeing, Exact(program) PROVE ClassesAgree
  BY DEF ClassesAgree
<1>1. GoodGraph(program, graph) /\ RootsOk(program, graph, roots)
  BY DEF Agreeing, InProgress
<1>2. ASSUME NEW c \in Classes, NEW k \in DOMAIN graph.classes[c]
      PROVE  Denotation(program, graph, graph.classes[c][k]) = graph.val[c]
  <2>1. Listed(program, graph, c, graph.classes[c])
    BY <1>1 DEF GoodGraph, Classes
  <2>2. k \in 1 .. Len(graph.classes[c])
    BY <2>1 DEF Listed
  <2> QED BY <2>1, <2>2 DEF Listed, Stands
<1>3. \A c \in DOMAIN graph.rep : graph.val[graph.rep[c]] = graph.val[c]
  BY <1>1 DEF GoodGraph, GoodClasses, Ids
<1>4. \A k \in DOMAIN roots : graph.val[roots[k].id] = program.value[roots[k].of]
  BY <1>1 DEF RootsOk
<1> QED BY <1>2, <1>3, <1>4 DEF ClassesAgree

(* Whatever addNode, the rules, the merges and the rebuilds do, the nodes of
   a class compute the same, and so do the classes find leads to.            *)
THEOREM ClassesAgreeAlways == Spec => []ClassesAgree
<1>1. Init => Agreeing
  BY StartAgreeing DEF Init
<1> QED BY <1>1, Inductive, AgreeingEnough, PTL DEF Spec

-----------------------------------------------------------------------------
(* Division by constants: whole numbers, and powers of two.                 *)
LEMMA DivBounds ==
  ASSUME NEW a \in Int, NEW b \in Nat \ {0}, NEW q \in Int, b * q <= a, a < b * (q + 1)
  PROVE  a \div b = q
BY SMT

LEMMA DivMod ==
  ASSUME NEW a \in Nat, NEW b \in Nat \ {0}
  PROVE  /\ a \div b \in Nat /\ a % b \in Nat /\ a % b < b
         /\ a = b * (a \div b) + (a % b)
BY SMT

LEMMA MulStrict == ASSUME NEW a \in Nat, NEW b \in Nat, NEW c \in Nat \ {0}, c * a < c * b PROVE a < b
BY SMT

LEMMA MulMono == ASSUME NEW a \in Nat, NEW b \in Nat, NEW c \in Nat, a <= b PROVE c * a <= c * b
BY SMT

(* A set of natural numbers has a least element.                            *)
LEMMA LeastElement ==
  ASSUME NEW T \in SUBSET Nat, T # {}
  PROVE  \E m \in T : \A k \in T : m <= k
<1> DEFINE R == OpToRel(<, Nat)
<1>1. IsWellFoundedOn(R, Nat)
  BY NatLessThanWellFounded
<1>2. \A x, y \in Nat : <<x, y>> \in R <=> x < y
  BY DEF OpToRel
<1> HIDE DEF R
<1>3. PICK m \in T : \A k \in T : ~ (<<k, m>> \in R)
  BY <1>1, WFMin
<1>4. ASSUME NEW k \in T PROVE m <= k
  <2>1. m \in Nat /\ k \in Nat
    OBVIOUS
  <2>2. ~(k < m)
    BY <1>2, <1>3, <2>1
  <2> QED BY <2>1, <2>2
<1> QED BY <1>4

(* A set that holds 0 and the successor of each of its numbers holds all.     *)
LEMMA Induction ==
  ASSUME NEW T, 0 \in T, \A n \in Nat : n \in T => n + 1 \in T
  PROVE  \A n \in Nat : n \in T
<1> DEFINE Left == {n \in Nat : n \notin T}
<1> SUFFICES ASSUME Left # {} PROVE FALSE
  OBVIOUS
<1>1. PICK n \in Left : \A k \in Left : n <= k
  BY LeastElement
<1>2. n \in Nat /\ n # 0
  OBVIOUS
<1>3. n - 1 \in Nat /\ (n - 1) + 1 = n /\ ~(n <= n - 1)
  BY <1>2
<1>4. n - 1 \in T
  BY <1>1, <1>3
<1>5. (n - 1) + 1 \in T
  BY <1>3, <1>4
<1> QED BY <1>3, <1>5

(* What the assumption on powers of two gives.                              *)
LEMMA PowerFacts ==
  /\ 2 ^ (Word - 1) \in Nat /\ 2 ^ (Word - 1) > 1 /\ 2 ^ 0 = 1
  /\ 2 ^ Word = 2 * 2 ^ (Word - 1) /\ 2 ^ (2 * Word) = 2 ^ Word * 2 ^ Word
  /\ \E h \in Nat \ {0} : 2 ^ (Word - 1) = 2 * h
<1>1. /\ Word - 2 \in 0 .. Word /\ Word - 1 \in 0 .. Word /\ Word \in 0 .. Word /\ 1 \in 0 .. Word
      /\ 1 + (Word - 1) = Word /\ 1 + (Word - 2) = Word - 1 /\ Word + Word = 2 * Word
  BY WordAssumption
<1>2. 2 ^ (Word - 2) \in Nat \ {0} /\ 2 ^ (Word - 1) = 2 * 2 ^ (Word - 2)
  BY <1>1, PowersAssumption
<1>3. 2 ^ Word = 2 * 2 ^ (Word - 1) /\ 2 ^ (2 * Word) = 2 ^ Word * 2 ^ Word
  BY <1>1, PowersAssumption
<1>4. 2 ^ (Word - 1) \in Nat /\ 2 ^ (Word - 1) > 1
  BY <1>2
<1> QED BY <1>2, <1>3, <1>4, PowersAssumption

-----------------------------------------------------------------------------
(* The magic numbers of unsigned divisors.                                   *)
(* n (P \div d + 1) / P stays below the next quotient where n d < P.          *)
LEMMA MagicExact ==
  ASSUME NEW d \in Nat \ {0}, NEW n \in Nat, NEW P \in Nat \ {0}, n * d < P
  PROVE  (n * (P \div d + 1)) \div P = n \div d
<1> DEFINE q == n \div d
           r == n % d
           Q == P \div d
           R == P % d
           a == n * (Q + 1)
<1>1. q \in Nat /\ r \in Nat /\ r < d /\ n = d * q + r
  BY DivMod
<1>2. Q \in Nat /\ R \in Nat /\ R < d /\ P = d * Q + R
  BY DivMod
<1> HIDE DEF q, r, Q, R
<1>3. a \in Nat
  BY <1>2
<1>4. d * a = n * P + n * (d - R)
  <2>1. d * a = n * (d * Q) + n * d
    BY <1>2
  <2>2. n * P = n * (d * Q) + n * R
    BY <1>2
  <2> QED BY <2>1, <2>2, <1>2
<1>5. n * (d - R) < P /\ n * (d - R) \in Nat
  <2>1. d - R \in Nat /\ d - R <= d
    BY <1>2
  <2>2. n * (d - R) <= n * d
    BY <2>1, MulMono
  <2> QED BY <2>1, <2>2
<1>6. n * P = d * (q * P) + r * P
  BY <1>1
<1>7. P * q <= a
  <2>1. d * (P * q) <= d * a
    <3>1. r * P \in Nat /\ q * P \in Nat
      BY <1>1
    <3>2. d * (P * q) = d * (q * P)
      BY <1>1
    <3>3. d * (q * P) \in Nat
      BY <3>1
    <3>4. n * P <= d * a
      <4>1. n * P \in Nat
        OBVIOUS
      <4> HIDE DEF a
      <4> QED BY <4>1, <1>4, <1>5
    <3>5. n * P \in Nat /\ d * a \in Nat
      BY <1>3
    <3>6. d * (q * P) <= n * P
      BY <1>6, <3>1, <3>3
    <3> HIDE DEF a
    <3> QED BY <3>2, <3>3, <3>4, <3>5, <3>6
  <2>2. P * q \in Nat
    BY <1>1
  <2> QED BY <2>1, <2>2, <1>3
<1>8. a < P * (q + 1)
  <2>1. r * P <= (d - 1) * P
    BY <1>1
  <2>2. d * a < d * (q * P) + (d - 1) * P + P
    BY <2>1, <1>4, <1>5, <1>6, <1>1
  <2>3. d * (P * (q + 1)) = d * (q * P) + (d - 1) * P + P
    BY <1>1
  <2>4. P * (q + 1) \in Nat
    BY <1>1
  <2> QED BY <2>2, <2>3, <2>4, <1>3, MulStrict
<1> HIDE DEF a
<1> QED BY <1>1, <1>3, <1>7, <1>8, DivBounds DEF q, a, Q

(* With a divisor below half of the numbers the loop ends at once.           *)
LEMMA CoversAtOnce ==
  ASSUME NEW d \in Nat \ {0}, d < 2 ^ (Word - 1)
  PROVE  Covers(d, Word)
<1> DEFINE H == 2 ^ (Word - 1)
           P == 2 ^ Word
           nc == (P - 1) - ((P - 1) % d)
           rest == P % d
           delta == d - 1 - rest
<1>1. H \in Nat /\ H > 1 /\ P = 2 * H /\ 2 ^ (2 * Word) = P * P /\ d < H
  BY PowerFacts
<1> HIDE DEF H, P
<1>2. P \in Nat \ {0} /\ P - 1 \in Nat
  BY <1>1
<1>3. (P - 1) % d \in Nat /\ (P - 1) % d < d
  BY <1>2, DivMod
<1>4. nc \in Nat \ {0} /\ P < nc * 2 /\ nc * 1 <= P
  BY <1>1, <1>2, <1>3
<1>5. P \div nc = 1
  <2>1. P < nc * (1 + 1)
    BY <1>4
  <2> HIDE DEF nc
  <2> QED BY <1>2, <1>4, <2>1, DivBounds
<1>6. rest \in Nat /\ rest < d
  BY <1>2, DivMod
<1> HIDE DEF rest
<1>7. delta \in Nat /\ delta * 2 < P
  BY <1>1, <1>6
<1>8. (delta * (1 + 1)) % (P * P) < P
  <2>1. P <= P * P
    BY <1>2, MulMono
  <2>2. delta * (1 + 1) \in Nat /\ delta * (1 + 1) < P * P /\ P * P \in Nat \ {0}
    BY <1>7, <2>1, <1>2
  <2>3. (delta * (1 + 1)) % (P * P) = delta * (1 + 1)
    BY <2>2
  <2> QED BY <2>3, <1>7
<1> QED BY <1>1, <1>5, <1>8 DEF Covers, P, rest

LEMMA MagicAtOnce ==
  ASSUME NEW d \in Nat \ {0}, d < 2 ^ (Word - 1)
  PROVE  UnsignedMagic(d) = [magic |-> 2 ^ Word \div d + 1, shift |-> 0]
<1>1. Word \in Word .. 2 * Word /\ Covers(d, Word)
  BY CoversAtOnce, WordAssumption
<1>2. FirstOf({o \in Word .. 2 * Word : Covers(d, o)}) = {Word}
  BY <1>1, WordAssumption DEF FirstOf
<1>3. (CHOOSE q \in {Word} : TRUE) = Word
  OBVIOUS
<1>4. Word - Word = 0
  BY WordAssumption
<1> QED BY <1>2, <1>3, <1>4 DEF UnsignedMagic

LEMMA MagicQuotient ==
  ASSUME NEW d \in Nat, d > 1, d < 2 ^ (Word - 1),
         NEW n \in 0 .. 2 ^ Word - 1, n * d < 2 ^ Word
  PROVE  UnsignedQuotient(d, n) = n \div d
<1> DEFINE H == 2 ^ (Word - 1)
           P == 2 ^ Word
           magic == P \div d + 1
           q == n \div d
<1>1. H \in Nat /\ H > 1 /\ P = 2 * H /\ 2 ^ (2 * Word) = P * P /\ 2 ^ 0 = 1 /\ n \in 0 .. P - 1 /\ n * d < P
  BY PowerFacts
<1>2. UnsignedMagic(d) = [magic |-> magic, shift |-> 0]
  BY MagicAtOnce
<1> HIDE DEF H, P
<1>3. P \in Nat \ {0} /\ n \in Nat /\ d \in Nat \ {0}
  BY <1>1
<1>4. magic \in Nat /\ magic < P
  <2>1. P \div d \in Nat /\ P = d * (P \div d) + (P % d) /\ P % d \in Nat
    BY <1>3, DivMod
  <2>2. (P \div d) * 2 <= (P \div d) * d
    <3> DEFINE Q == P \div d
    <3>1. Q \in Nat /\ 2 \in Nat /\ d \in Nat /\ 2 <= d
      BY <2>1
    <3> HIDE DEF Q
    <3>2. Q * 2 <= Q * d
      BY <3>1, MulMono
    <3> QED BY <3>2 DEF Q
  <2>3. d * (P \div d) \in Nat
    BY <2>1
  <2> HIDE DEF magic
  <2>4. 2 * (P \div d) <= P
    BY <2>1, <2>2, <2>3, <1>3
  <2> QED BY <2>1, <2>4, <1>1 DEF magic
<1>5. (n * magic) \div P = q
  BY <1>1, <1>3, MagicExact
<1>6. q \in Nat /\ q < P
  <2>1. q \in Nat /\ n = d * q + (n % d) /\ n % d \in Nat
    BY <1>3, DivMod
  <2>2. q <= d * q /\ d * q \in Nat
    BY <2>1
  <2> HIDE DEF q
  <2> QED BY <2>1, <2>2, <1>1
<1> HIDE DEF magic, q
<1>7. (n * magic) % (P * P) = n * magic
  <2>1. n * magic \in Nat /\ n * magic < P * P
    <3>1. n * magic <= n * P
      BY <1>3, <1>4, MulMono
    <3>2. n * P < P * P
      BY <1>1, <1>3
    <3> QED BY <1>3, <1>4, <3>1, <3>2
  <2>2. P * P \in Nat \ {0}
    BY <1>3
  <2> HIDE DEF P
  <2> QED BY <2>1, <2>2
<1>8. q % P = q
  BY <1>6, <1>3
<1>9. q \div 1 = q
  BY <1>6
<1>10. ~(magic >= P)
  BY <1>3, <1>4
<1>11. UnsignedQuotient(d, n) = ((((n * magic) % (P * P)) \div P) % P) \div 2 ^ 0
  <2>1. UnsignedMagic(d).magic = magic /\ UnsignedMagic(d).shift = 0
    BY <1>2
  <2>2. UnsignedQuotient(d, n) = Shr(Wrapped(((n * magic) % 2 ^ (2 * Word)) \div 2 ^ Word), 0)
    BY <2>1, <1>10 DEF UnsignedQuotient, P
  <2>3. 2 ^ (2 * Word) = P * P /\ 2 ^ Word = P
    BY <1>1 DEF P
  <2> QED BY <2>2, <2>3 DEF Wrapped, Shr
<1> QED BY <1>1, <1>5, <1>7, <1>8, <1>9, <1>11 DEF q

(* The exponent is one of those the loop goes through.                       *)
LEMMA UnsignedExponent ==
  ASSUME NEW d
  PROVE  \E s \in 0 .. Word : UnsignedMagic(d) = [magic |-> 2 ^ (Word + s) \div d + 1, shift |-> s]
<1> DEFINE S == {o \in Word .. 2 * Word : Covers(d, o)}
           p == CHOOSE q \in FirstOf(S) : TRUE
<1>1. S \in SUBSET Nat /\ 2 * Word \in S
  BY WordAssumption DEF Covers
<1>2. PICK m \in S : \A k \in S : m <= k
  BY <1>1, LeastElement
<1>3. m \in FirstOf(S)
  BY <1>2 DEF FirstOf
<1>4. p \in S
  BY <1>3 DEF FirstOf
<1>5. p - Word \in 0 .. Word /\ Word + (p - Word) = p
  <2> HIDE DEF p
  <2>1. p \in Word .. 2 * Word
    BY <1>4
  <2> QED BY <2>1, WordAssumption
<1>6. UnsignedMagic(d) = [magic |-> 2 ^ p \div d + 1, shift |-> p - Word]
  BY DEF UnsignedMagic
<1> HIDE DEF p
<1> QED BY <1>5, <1>6

(* What is left of a number below 2^(2 * Word) when it is shifted out.       *)
LEMMA HighOf ==
  ASSUME NEW x \in Nat, NEW q \in Nat, NEW P \in Nat, P > 1, 2 ^ Word = P, 2 ^ (2 * Word) = P * P,
         P * q <= x, x < P * (q + 1), q < P
  PROVE  Wrapped((x % 2 ^ (2 * Word)) \div 2 ^ Word) = q
<1> DEFINE PP == P * P
<1>1. PP \in Nat \ {0} /\ x < PP
  <2>1. PP \in Nat \ {0}
    OBVIOUS
  <2>2. P * (q + 1) <= P * P
    <3>1. q + 1 \in Nat /\ q + 1 <= P
      OBVIOUS
    <3> QED BY <3>1, MulMono
  <2>3. P * (q + 1) \in Nat
    OBVIOUS
  <2> QED BY <2>1, <2>2, <2>3
<1> HIDE DEF PP
<1>2. x % PP = x
  BY <1>1
<1>3. x \div P = q
  BY DivBounds
<1>4. q % P = q
  OBVIOUS
<1> QED BY <1>2, <1>3, <1>4 DEF Wrapped, PP

(* A divisor above half of the numbers goes into none of the numerators whose
   product with it has Word bits but itself: 0 and 1.                        *)
LEMMA LargeQuotient ==
  ASSUME NEW d \in Nat, 2 ^ (Word - 1) < d, d < 2 ^ Word,
         NEW n \in 0 .. 2 ^ Word - 1, n * d < 2 ^ Word
  PROVE  UnsignedQuotient(d, n) = n \div d
<1> DEFINE H == 2 ^ (Word - 1)
           P == 2 ^ Word
<1>1. /\ H \in Nat /\ H > 1 /\ P = 2 * H /\ 2 ^ (2 * Word) = P * P /\ 2 ^ 0 = 1
      /\ n \in 0 .. P - 1 /\ n * d < P /\ H < d /\ d < P
  BY PowerFacts
<1>2. PICK s \in 0 .. Word : UnsignedMagic(d) = [magic |-> 2 ^ (Word + s) \div d + 1, shift |-> s]
  BY UnsignedExponent
<1> DEFINE B == 2 ^ s
           m == (P * B) \div d + 1
<1>3. B \in Nat \ {0} /\ 2 ^ (Word + s) = P * B
  BY PowersAssumption, WordAssumption
<1>4. UnsignedMagic(d).magic = m /\ UnsignedMagic(d).shift = s
  BY <1>2, <1>3
<1>5. n \in {0, 1} /\ n \div d = 0
  <2> HIDE DEF H, P
  <2>1. n \in Nat /\ d > 1
    BY <1>1
  <2>2. CASE n >= 2
    <3>1. d * 2 <= d * n
      BY <2>1, <2>2, MulMono
    <3> QED BY <3>1, <1>1, <2>1
  <2>3. n \in {0, 1}
    BY <2>1, <2>2
  <2>4. 0 \div d = 0 /\ 1 \div d = 0
    BY <2>1
  <2> QED BY <2>3, <2>4
<1>6. m \in Nat \ {0}
  <2> HIDE DEF P, B, H
  <2>1. P * B \in Nat /\ d \in Nat \ {0}
    BY <1>1, <1>3
  <2> DEFINE x == P * B
  <2> HIDE DEF x
  <2>2. x \div d \in Nat
    BY <2>1, DivMod DEF x
  <2> QED BY <2>2 DEF x
<1>7. CASE m < P
  <2>1. n * m \in Nat /\ P * 0 <= n * m /\ n * m < P * (0 + 1) /\ 0 < P
    <3> HIDE DEF m, P, H
    <3> QED BY <1>1, <1>5, <1>6, <1>7
  <2>2. Wrapped(((n * m) % 2 ^ (2 * Word)) \div 2 ^ Word) = 0
    <3> DEFINE x == n * m
    <3>1. x \in Nat /\ P * 0 <= x /\ x < P * (0 + 1) /\ 0 < P /\ 0 \in Nat
      BY <2>1
    <3>2. P \in Nat /\ P > 1 /\ 2 ^ Word = P /\ 2 ^ (2 * Word) = P * P
      BY <1>1
    <3> HIDE DEF x, P, m
    <3>3. Wrapped((x % 2 ^ (2 * Word)) \div 2 ^ Word) = 0
      BY <3>1, <3>2, HighOf
    <3> QED BY <3>3 DEF x
  <2>3. Shr(0, s) = 0
    BY <1>3 DEF Shr
  <2>4. ~(m >= P)
    <3> HIDE DEF m, P, H
    <3> QED BY <1>1, <1>6, <1>7
  <2> HIDE DEF m
  <2>5. UnsignedQuotient(d, n) = Shr(Wrapped(((n * m) % 2 ^ (2 * Word)) \div 2 ^ Word), s)
    BY <1>4, <2>4 DEF UnsignedQuotient
  <2> QED BY <2>2, <2>3, <2>5, <1>5
<1>8. CASE ~(m < P)
  <2> DEFINE R == (P * B) \div d
  <2>1. R \in Nat /\ d * R <= P * B /\ P * B < d * (R + 1) /\ m = R + 1 /\ P * B \in Nat
    <3> HIDE DEF P, B, H
    <3> DEFINE x == P * B
    <3>1. x \in Nat /\ d \in Nat \ {0}
      BY <1>1, <1>3
    <3> HIDE DEF x
    <3>2. x \div d \in Nat /\ x % d \in Nat /\ x % d < d /\ x = d * (x \div d) + (x % d)
      BY <3>1, DivMod
    <3> DEFINE r == x \div d
    <3>3. r \in Nat /\ d * r <= x /\ x < d * (r + 1)
      BY <3>1, <3>2
    <3> QED BY <3>3, <3>1 DEF x
  <2> HIDE DEF m, R
  <2>2. s = Word
    <3> SUFFICES ASSUME s # Word PROVE FALSE
      OBVIOUS
    <3>1. s \in 0 .. Word /\ (Word - 1) - s \in 0 .. Word /\ s + ((Word - 1) - s) = Word - 1
      BY WordAssumption
    <3>2. 2 ^ ((Word - 1) - s) \in Nat \ {0} /\ H = B * 2 ^ ((Word - 1) - s)
      BY <3>1, PowersAssumption
    <3> HIDE DEF P, H, B
    <3>3. B * 1 <= H
      <4> DEFINE c == 2 ^ ((Word - 1) - s)
      <4>1. c \in Nat /\ 1 <= c /\ H = B * c /\ 1 \in Nat /\ B \in Nat
        BY <3>2, <1>3
      <4> HIDE DEF c
      <4>2. B * 1 <= B * c
        BY <4>1, MulMono
      <4> QED BY <4>1, <4>2
    <3>4. P * B <= P * H
      BY <3>3, <1>1, <1>3, MulMono
    <3>5. P - 1 <= R
      BY <1>8, <2>1, <1>1
    <3>6. d * (P - 1) <= d * R
      <4>1. d \in Nat /\ P - 1 \in Nat
        BY <1>1
      <4> QED BY <4>1, <3>5, <2>1, MulMono
    <3>7. (P - 1) * (H + 1) <= (P - 1) * d
      <4>1. P - 1 \in Nat /\ H + 1 \in Nat /\ H + 1 <= d
        BY <1>1
      <4> QED BY <4>1, MulMono
    <3>8. (P - 1) * (H + 1) = P * H + P - H - 1
      BY <1>1
    <3>9. (P - 1) * d = d * (P - 1) /\ d * (P - 1) \in Nat /\ d * R \in Nat /\ P * H \in Nat
      BY <1>1, <2>1
    <3> QED BY <1>1, <2>1, <3>4, <3>6, <3>7, <3>8, <3>9
  <2>3. B = P
    BY <2>2
  <2>4. P <= m /\ m < P * 2
    <3> HIDE DEF P, H, B
    <3>1. P <= m
      BY <1>1, <1>6, <1>8
    <3>2. R < P * 2 - 1
      <4> SUFFICES ASSUME P * 2 - 1 <= R PROVE FALSE
        BY <1>1, <2>1
      <4>1. d * (P * 2 - 1) <= d * R
        <5>1. d \in Nat /\ P * 2 - 1 \in Nat
          BY <1>1
        <5> QED BY <5>1, <2>1, MulMono
      <4>2. (P * 2 - 1) * (H + 1) <= (P * 2 - 1) * d
        <5>1. P * 2 - 1 \in Nat /\ H + 1 \in Nat /\ H + 1 <= d
          BY <1>1
        <5> QED BY <5>1, MulMono
      <4>3. (P * 2 - 1) * (H + 1) = P * P + P * 2 - H - 1
        <5>1. (P * 2 - 1) * (H + 1) = P * (2 * H) + P * 2 - H - 1
          BY <1>1
        <5> QED BY <5>1, <1>1
      <4>4. (P * 2 - 1) * d = d * (P * 2 - 1) /\ d * (P * 2 - 1) \in Nat /\ d * R \in Nat /\ P * P \in Nat
        BY <1>1, <2>1
      <4>5. d * R <= P * P
        BY <2>1, <2>3
      <4> QED BY <1>1, <4>1, <4>2, <4>3, <4>4, <4>5
    <3> QED BY <3>1, <3>2, <2>1, <1>1
  <2> DEFINE high == Wrapped(((n * m) % 2 ^ (2 * Word)) \div 2 ^ Word)
  <2>5. high = n
    <3> DEFINE x == n * m
    <3>1. P \in Nat /\ P > 1 /\ 2 ^ Word = P /\ 2 ^ (2 * Word) = P * P
      BY <1>1
    <3>2. x \in Nat /\ P * n <= x /\ x < P * (n + 1) /\ n < P /\ n \in Nat
      <4> HIDE DEF P, H
      <4>1. CASE n = 0
        BY <4>1, <3>1, <1>6
      <4>2. CASE n = 1
        BY <4>2, <3>1, <2>4, <1>6
      <4> QED BY <4>1, <4>2, <1>5
    <3> HIDE DEF x, P
    <3>3. Wrapped((x % 2 ^ (2 * Word)) \div 2 ^ Word) = n
      BY <3>1, <3>2, HighOf
    <3> QED BY <3>3 DEF x
  <2>6. UnsignedQuotient(d, n) = Shr(Wrapped(high + Shr(Wrapped(n - high), 1)), Word - 1)
    <3>1. m >= P
      BY <2>4
    <3> QED BY <1>4, <2>2, <3>1 DEF UnsignedQuotient
  <2> HIDE DEF high
  <2>7. n - n = 0 /\ Wrapped(0) = 0 /\ Shr(0, 1) = 0 /\ n + 0 = n /\ Wrapped(n) = n
    <3>1. 2 ^ 1 = 2
      BY PowersAssumption
    <3>2. 0 \div 2 = 0
      OBVIOUS
    <3>3. n \in Int /\ 0 % P = 0 /\ n % P = n
      <4> HIDE DEF P, H
      <4> QED BY <1>1
    <3> QED BY <3>1, <3>2, <3>3 DEF Shr, Wrapped, P
  <2>8. Shr(n, Word - 1) = 0
    <3>1. n \div H = 0
      <4> HIDE DEF P, H
      <4> QED BY <1>1, <1>5
    <3> QED BY <3>1 DEF Shr, H
  <2> QED BY <2>5, <2>6, <2>7, <2>8, <1>5
<1> QED BY <1>7, <1>8

(* An unsigned division by a power of two, or of a numerator whose product
   with the divisor has Word bits, is reduced to what it computes; so is a
   remainder.                                                                *)
THEOREM UnsignedExact ==
  \A d \in 1 .. 2 ^ Word - 1, n \in 0 .. 2 ^ Word - 1 :
    IsPower(d) \/ n * d < 2 ^ Word =>
      Reduced("Udiv", d, n) = n \div d /\ Reduced("Urem", d, n) = n % d
<1> SUFFICES ASSUME NEW d \in 1 .. 2 ^ Word - 1, NEW n \in 0 .. 2 ^ Word - 1,
                    IsPower(d) \/ n * d < 2 ^ Word
             PROVE  Reduced("Udiv", d, n) = n \div d /\ Reduced("Urem", d, n) = n % d
  OBVIOUS
<1> DEFINE H == 2 ^ (Word - 1)
           P == 2 ^ Word
<1>1. H \in Nat /\ H > 1 /\ P = 2 * H /\ 2 ^ 0 = 1 /\ d \in 1 .. P - 1 /\ n \in 0 .. P - 1
  BY PowerFacts
<1> HIDE DEF H, P
<1>2. d \in Nat \ {0} /\ n \in Nat /\ d % P = d /\ d < P /\ H \in Nat
  BY <1>1
<1>3. Quotient("Udiv", d, n) = n \div d /\ Quotient("Urem", d, n) = n \div d
  <2>1. CASE IsPower(d)
    <3>1. Shr(n, LogOf(d)) = n \div d
      BY <2>1 DEF IsPower, LogOf, Shr
    <3> QED BY <2>1, <3>1, <1>2 DEF Quotient, IsSigned, Wrapped, P
  <2>2. CASE ~IsPower(d)
    <3>1. d # 1 /\ d # H
      <4>1. 0 \in 0 .. Word /\ Word - 1 \in 0 .. Word
        BY WordAssumption
      <4> QED BY <2>2, <1>1, <4>1 DEF IsPower, H
    <3>2. UnsignedQuotient(d, n) = n \div d
      <4>1. d \in Nat /\ d > 1 /\ d < P /\ (d < H \/ H < d)
        BY <3>1, <1>2
      <4> QED BY <2>2, <4>1, MagicQuotient, LargeQuotient DEF H, P
    <3> QED BY <2>2, <3>2, <1>2 DEF Quotient, IsSigned, Wrapped, P
  <2> QED BY <2>1, <2>2
<1>4. Wrapped(n - (n \div d) * d) = n % d
  <2>1. n % d \in Nat /\ n % d < d /\ n = d * (n \div d) + (n % d) /\ n \div d \in Nat
    BY <1>2, DivMod
  <2>2. n - (n \div d) * d = n % d
    BY <2>1, <1>2
  <2>3. (n % d) % P = n % d
    BY <2>1, <1>1, <1>2
  <2> QED BY <2>2, <2>3 DEF Wrapped, P
<1> QED BY <1>3, <1>4 DEF Reduced

-----------------------------------------------------------------------------
(* The magic numbers of signed divisors.                                     *)
(* For a divisor a the products with m = (X + delta) / a exceed those with
   X / a; what they exceed a quotient by, times a X, stays below the next.   *)
LEMMA Excess ==
  ASSUME NEW a \in Nat, a > 1, NEW X \in Nat, NEW delta \in Nat, delta > 0, delta <= a,
         NEW t \in Nat, a <= t, NEW anc \in Nat, anc = t - 1 - (t % a), anc * delta < X,
         NEW v \in Nat, v <= t, v = t => t % a # a - 1
  PROVE  X * (v % a) + v * delta < X * a
<1> DEFINE r == v % a
           k == v \div a
           R == t % a
           K == t \div a
<1>1. r \in Nat /\ r < a /\ v = a * k + r /\ k \in Nat
  BY DivMod
<1>2. R \in Nat /\ R < a /\ t = a * K + R /\ K \in Nat
  BY DivMod
<1>3. anc = a * K - 1 /\ a * K \in Nat
  <2>1. a * K \in Nat
    BY <1>2
  <2> DEFINE aK == a * K
  <2>2. t = aK + R /\ aK \in Nat /\ R \in Nat /\ anc = t - 1 - R
    BY <2>1, <1>2
  <2> HIDE DEF aK, R
  <2>3. anc = aK - 1
    BY <2>2
  <2> QED BY <2>1, <2>3 DEF aK
<1> HIDE DEF r, k, R, K
<1>4. CASE v <= anc
  <2>1. delta * v <= delta * anc
    BY <1>4, MulMono
  <2>2. v * delta < X
    BY <2>1
  <2>3. X * r <= X * (a - 1)
    <3>1. r <= a - 1 /\ a - 1 \in Nat
      BY <1>1
    <3> QED BY <3>1, <1>1, MulMono
  <2>4. X * (a - 1) + X = X * a
    OBVIOUS
  <2>5. X * r \in Nat /\ X * (a - 1) \in Nat /\ v * delta \in Nat /\ X * a \in Nat
    BY <1>1
  <2>6. X * r + v * delta < X * a
    BY <2>2, <2>3, <2>4, <2>5
  <2> QED BY <2>6 DEF r
<1>5. CASE v > anc
  <2> DEFINE j == v - anc
  <2>1. j \in Nat /\ j > 0 /\ v = anc + j /\ j <= R + 1 /\ j <= a
    BY <1>2, <1>3, <1>5
  <2>2. j <= a - 1
    <3>1. CASE v = t
      BY <3>1, <1>2, <1>3 DEF R
    <3>2. CASE v # t
      BY <3>2, <1>2, <1>3
    <3> QED BY <3>1, <3>2
  <2>3. r = j - 1
    <3>1. v = a * K + (j - 1)
      BY <1>3, <2>1
    <3>2. v \div a = K
      <4>1. a * (K + 1) = a * K + a
        BY <1>2
      <4>2. a * K <= v /\ v < a * (K + 1)
        BY <4>1, <3>1, <2>1, <2>2, <1>3
      <4>3. v \in Int /\ K \in Int /\ a \in Nat \ {0}
        BY <1>2
      <4> HIDE DEF j
      <4> QED BY <4>2, <4>3, DivBounds
    <3>3. k = K
      BY <3>2 DEF k
    <3>4. a * k = a * K
      BY <3>3
    <3> QED BY <3>1, <3>4, <1>1, <1>3, <2>1
  <2>4. j <= anc
    <3>1. K > 0
      BY <1>2
    <3>2. a * 1 <= a * K
      BY <3>1, <1>2, MulMono
    <3> QED BY <3>2, <1>3, <2>2, <1>2
  <2>5. j * delta < X
    <3>1. delta * j <= delta * anc
      BY <2>4, <2>1, MulMono
    <3> QED BY <3>1, <2>1
  <2>6. v * delta = anc * delta + j * delta
    BY <2>1
  <2>7. X * r <= X * (a - 2)
    <3>1. r <= a - 2 /\ a - 2 \in Nat /\ r \in Nat
      BY <2>2, <2>3, <1>1
    <3> QED BY <3>1, MulMono
  <2>8. X * (a - 2) + X + X = X * a
    OBVIOUS
  <2> HIDE DEF j
  <2>9. X * r \in Nat /\ X * (a - 2) \in Nat /\ v * delta \in Nat /\ X * a \in Nat /\ j * delta \in Nat /\ anc * delta \in Nat
    BY <1>1, <2>1
  <2>10. X * r + v * delta < X * a
    BY <2>5, <2>6, <2>7, <2>8, <2>9
  <2> QED BY <2>10 DEF r
<1> QED BY <1>4, <1>5

LEMMA MagicUp ==
  ASSUME NEW a \in Nat, a > 1, NEW X \in Nat, X > 0, NEW delta \in Nat, NEW m \in Nat, m * a = X + delta,
         NEW u \in Nat, NEW k \in Nat, NEW r \in Nat, u = a * k + r, X * r + u * delta < X * a
  PROVE  X * k <= u * m /\ u * m < X * (k + 1)
<1> DEFINE p == u * m
<1>1. r \in Nat /\ u = a * k + r /\ k \in Nat
  OBVIOUS
<1>2. p * a = u * X + u * delta
  <2>1. p * a = u * (m * a)
    OBVIOUS
  <2>2. u * (X + delta) = u * X + u * delta
    OBVIOUS
  <2> HIDE DEF p
  <2> QED BY <2>1, <2>2
<1>3. u * X = a * (X * k) + X * r
  BY <1>1
<1>4. p \in Nat
  OBVIOUS
<1> HIDE DEF p
<1>5. a * p = a * (X * k) + X * r + u * delta
  BY <1>2, <1>3, <1>4
<1>6. X * r + u * delta < X * a
  OBVIOUS
<1>7. X * k \in Nat /\ X * r \in Nat /\ u * delta \in Nat /\ X * (k + 1) \in Nat
  BY <1>1
<1>8. X * k <= p
  <2>1. CASE p < X * k
    <3>1. a * (p + 1) <= a * (X * k)
      BY <2>1, <1>4, <1>7, MulMono
    <3> QED BY <3>1, <1>4, <1>5, <1>7
  <2> QED BY <2>1, <1>4, <1>7
<1>9. p < X * (k + 1)
  <2>1. a * (X * (k + 1)) = a * (X * k) + X * a
    BY <1>1
  <2>2. a * p < a * (X * (k + 1))
    BY <2>1, <1>5, <1>6, <1>7
  <2> QED BY <2>2, <1>4, <1>7, MulStrict
<1> QED BY <1>8, <1>9 DEF p

LEMMA MagicDown ==
  ASSUME NEW a \in Nat, a > 1, NEW X \in Nat, X > 0, NEW delta \in Nat, delta > 0,
         NEW m \in Nat, m * a = X + delta,
         NEW v \in Nat, v > 0, X * (v % a) + v * delta <= X * a
  PROVE  (-(v * m)) \div X = -(v \div a) - 1
<1> DEFINE r == v % a
           k == v \div a
           p == v * m
<1>1. r \in Nat /\ r < a /\ v = a * k + r /\ k \in Nat
  BY DivMod
<1>2. p * a = v * X + v * delta
  <2>1. p * a = v * (m * a)
    OBVIOUS
  <2>2. v * (X + delta) = v * X + v * delta
    OBVIOUS
  <2> HIDE DEF p
  <2> QED BY <2>1, <2>2
<1> HIDE DEF r, k
<1>3. v * X = a * (X * k) + X * r
  BY <1>1
<1>4. p \in Nat
  OBVIOUS
<1> HIDE DEF p
<1>5. a * p = a * (X * k) + X * r + v * delta
  BY <1>2, <1>3, <1>4
<1>6. X * r + v * delta <= X * a
  BY DEF r
<1>7. X * k \in Nat /\ X * r \in Nat /\ v * delta \in Nat /\ X * (k + 1) \in Nat /\ v * delta > 0
  BY <1>1
<1>8. X * k < p
  <2>1. CASE p <= X * k
    <3>1. a * p <= a * (X * k)
      BY <2>1, <1>4, <1>7, MulMono
    <3> QED BY <3>1, <1>4, <1>5, <1>7
  <2> QED BY <2>1, <1>4, <1>7
<1>9. p <= X * (k + 1)
  <2>1. a * (X * (k + 1)) = a * (X * k) + X * a
    BY <1>1
  <2>2. a * p <= a * (X * (k + 1))
    BY <2>1, <1>5, <1>6, <1>7
  <2>3. CASE p > X * (k + 1)
    <3>1. a * (X * (k + 1) + 1) <= a * p
      BY <2>3, <1>4, <1>7, MulMono
    <3> QED BY <3>1, <2>2, <1>4, <1>7
  <2> QED BY <2>3, <1>4, <1>7
<1>10. X * (-k - 1) <= -p /\ -p < X * (-k - 1 + 1)
  <2>1. X * (-k - 1) = -(X * (k + 1)) /\ X * (-k - 1 + 1) = -(X * k)
    BY <1>1
  <2> QED BY <2>1, <1>7, <1>8, <1>9, <1>4
<1>11. -p \in Int /\ -k - 1 \in Int
  BY <1>1, <1>4
<1>12. (-p) \div X = -k - 1
  <2> DEFINE w == -p
             q == -k - 1
  <2>1. w \in Int /\ q \in Int /\ X \in Nat \ {0} /\ X * q <= w /\ w < X * (q + 1)
    BY <1>10, <1>11
  <2> HIDE DEF w, q
  <2>2. w \div X = q
    BY <2>1, DivBounds
  <2> QED BY <2>2 DEF w, q
<1> QED BY <1>12 DEF p, k

(* The condition of the loop, without its divisions.                         *)
LEMMA StopsWhen ==
  ASSUME NEW X \in Nat, NEW anc \in Nat \ {0}, NEW delta \in Nat
  PROVE  ~(X \div anc < delta \/ (X \div anc = delta /\ X % anc = 0)) <=> anc * delta < X
<1> DEFINE q == X \div anc
           r == X % anc
<1>1. q \in Nat /\ r \in Nat /\ r < anc /\ X = anc * q + r
  BY DivMod
<1> HIDE DEF q, r
<1>2. anc * q \in Nat /\ anc * delta \in Nat
  BY <1>1
<1>3. CASE q < delta
  <2>1. anc * (q + 1) <= anc * delta
    BY <1>1, <1>3, MulMono
  <2>2. anc * (q + 1) = anc * q + anc
    BY <1>1
  <2> QED BY <2>1, <2>2, <1>1, <1>2, <1>3 DEF q, r
<1>4. CASE q = delta
  BY <1>1, <1>2, <1>4 DEF q, r
<1>5. CASE q > delta
  <2>1. anc * (delta + 1) <= anc * q
    BY <1>1, <1>5, MulMono
  <2>2. anc * (delta + 1) = anc * delta + anc
    OBVIOUS
  <2> QED BY <2>1, <2>2, <1>1, <1>2, <1>5 DEF q, r
<1> QED BY <1>1, <1>3, <1>4, <1>5

(* The divisors that have a magic number, the numerators, and the numbers t and
   anc of the code for them.                                                 *)
Half == 2 ^ (Word - 1)
Size == 2 ^ Word
Limit(d) == IF d < 0 THEN Half + 1 ELSE Half
Anc(d) == Limit(d) - 1 - (Limit(d) % Abs(d))
Rest(d, p) == Abs(d) - (2 ^ p % Abs(d))

Divisor(d) == d \in -Half .. Half - 1 /\ d \notin {0, 1, -1}

LEMMA Halves ==
  /\ Half \in Nat /\ Half > 1 /\ Size = 2 * Half /\ Size \in Nat
  /\ \E h \in Nat \ {0} : Half = 2 * h
BY PowerFacts DEF Half, Size

LEMMA AncFacts ==
  ASSUME NEW d, Divisor(d)
  PROVE  /\ Abs(d) \in Nat /\ Abs(d) > 1 /\ Abs(d) <= Half /\ Abs(d) <= Limit(d)
         /\ Limit(d) \in Nat /\ Anc(d) \in Nat \ {0} /\ Anc(d) <= Half
         /\ Limit(d) % Abs(d) \in Nat /\ Limit(d) % Abs(d) < Abs(d)
         /\ Anc(d) = Half => d < 0 /\ Limit(d) % Abs(d) = 0
<1>1. Abs(d) \in Nat /\ Abs(d) > 1 /\ Abs(d) <= Half /\ (d >= 0 => Abs(d) < Half)
  BY Halves DEF Divisor, Abs
<1>2. Limit(d) \in Nat /\ (d < 0 => Limit(d) = Half + 1) /\ (d >= 0 => Limit(d) = Half) /\ d \in Int
  BY Halves DEF Limit, Divisor
<1> DEFINE a == Abs(d)
           t == Limit(d)
           R == t % a
<1>3. R \in Nat /\ R < a
  BY <1>1, <1>2, DivMod
<1>4. Anc(d) = t - 1 - R
  BY DEF Anc
<1>5. a <= t
  BY <1>1, <1>2, Halves
<1> HIDE DEF a, t, R
<1>6. a \in Nat /\ a > 1 /\ a <= Half /\ (d >= 0 => a < Half) /\ t \in Nat
      /\ (d < 0 => t = Half + 1) /\ (d >= 0 => t = Half)
  BY <1>1, <1>2 DEF a, t
<1>7. Anc(d) \in Nat \ {0} /\ Anc(d) <= Half /\ (Anc(d) = Half => d < 0 /\ R = 0)
  BY <1>2, <1>3, <1>4, <1>6, Halves
<1> QED BY <1>1, <1>2, <1>3, <1>5, <1>7 DEF R, a, t

LEMMA PreciseMeans ==
  ASSUME NEW d, Divisor(d), NEW p \in Word .. 2 * Word - 2
  PROVE  /\ 2 ^ p \in Nat \ {0} /\ 2 ^ (p - Word) \in Nat \ {0} /\ 2 ^ p = Size * 2 ^ (p - Word)
         /\ Rest(d, p) \in Nat \ {0} /\ Rest(d, p) <= Abs(d)
         /\ (2 ^ p \div Abs(d) + 1) * Abs(d) = 2 ^ p + Rest(d, p)
         /\ 2 ^ p \div Abs(d) \in Nat
         /\ Precise(d, p) <=> Anc(d) * Rest(d, p) < 2 ^ p
<1>1. Word \in 0 .. Word /\ p - Word \in 0 .. Word /\ Word + (p - Word) = p
  BY WordAssumption
<1>2. 2 ^ p = 2 ^ Word * 2 ^ (p - Word) /\ 2 ^ Word \in Nat \ {0} /\ 2 ^ (p - Word) \in Nat \ {0}
  BY <1>1, PowersAssumption
<1> DEFINE X == 2 ^ p
           a == Abs(d)
<1>3. X \in Nat \ {0}
  BY <1>2
<1>4. a \in Nat \ {0} /\ Anc(d) \in Nat \ {0}
  BY AncFacts
<1> HIDE DEF X, a
<1>5. X \div a \in Nat /\ X % a \in Nat /\ X % a < a /\ X = a * (X \div a) + (X % a)
  BY <1>3, <1>4, DivMod
<1>6. (X \div a + 1) * a = X + (a - (X % a))
  <2> DEFINE q == X \div a
             r == X % a
  <2>1. q \in Nat /\ r \in Nat /\ X = a * q + r
    BY <1>5
  <2> HIDE DEF q, r
  <2>2. (q + 1) * a = X + (a - r)
    BY <2>1, <1>3, <1>4
  <2> QED BY <2>2 DEF q, r
<1>7. Rest(d, p) = a - (X % a)
  BY DEF Rest, a, X
<1>8. Rest(d, p) \in Nat \ {0} /\ Rest(d, p) <= a
  BY <1>4, <1>5, <1>7
<1>9. Precise(d, p) <=> ~(X \div Anc(d) < Rest(d, p) \/ (X \div Anc(d) = Rest(d, p) /\ X % Anc(d) = 0))
  <2>1. Half + (IF d < 0 THEN 1 ELSE 0) = Limit(d)
    BY Halves DEF Limit
  <2> QED BY <2>1 DEF Precise, Anc, Rest, X, Half
<1>10. Precise(d, p) <=> Anc(d) * Rest(d, p) < X
  BY <1>3, <1>4, <1>8, <1>9, StopsWhen
<1> QED BY <1>2, <1>3, <1>5, <1>6, <1>7, <1>8, <1>10 DEF X, a, Size

(* The exponent at which the loop stops.                                     *)
Stops(d, p) == /\ p \in Word .. 2 * Word - 2 /\ Precise(d, p)
               /\ p > Word => ~Precise(d, p - 1)

LEMMA StopsSomewhere ==
  ASSUME NEW d, Exponents(d) # {}
  PROVE  \E p : p = (CHOOSE q \in Exponents(d) : TRUE) /\ Stops(d, p)
<1> DEFINE p == CHOOSE q \in Exponents(d) : TRUE
<1>1. p \in Exponents(d)
  OBVIOUS
<1> HIDE DEF p
<1>2. /\ p \in Word .. 2 * Word - 2 /\ Precise(d, p)
      /\ \A o \in Word .. 2 * Word - 2 : Precise(d, o) => p <= o
  BY <1>1 DEF Exponents, FirstOf
<1>3. p > Word => p - 1 \in Word .. 2 * Word - 2 /\ ~(p <= p - 1)
  BY <1>2, WordAssumption
<1>4. Stops(d, p)
  BY <1>2, <1>3 DEF Stops
<1> QED BY <1>4 DEF p

Factor(d, p) == 2 ^ p \div Abs(d) + 1

(* The factor has Word bits, as a smaller exponent would have done otherwise. *)
LEMMA FactorFits ==
  ASSUME NEW d, Divisor(d), NEW p, Stops(d, p)
  PROVE  Factor(d, p) \in Nat /\ Factor(d, p) > 0 /\ Factor(d, p) < Size
<1> DEFINE a == Abs(d)
           X == 2 ^ p
           m == Factor(d, p)
           delta == Rest(d, p)
<1>1. /\ X \in Nat \ {0} /\ delta \in Nat \ {0} /\ delta <= a /\ m * a = X + delta
      /\ X \div a \in Nat /\ m = X \div a + 1 /\ X = Size * 2 ^ (p - Word) /\ p \in Word .. 2 * Word - 2
  BY PreciseMeans DEF Stops, Factor
<1>2. /\ a \in Nat /\ a > 1 /\ a <= Half /\ Anc(d) \in Nat \ {0} /\ Anc(d) <= Half
      /\ Anc(d) = Half => d < 0 /\ Limit(d) % a = 0
  BY AncFacts
<1>3. m \in Nat /\ m > 0
  BY <1>1
<1> HIDE DEF a, X, m, delta
<1>4. Size * a = 2 * (Half * a) /\ Half * a \in Nat
  BY <1>2, Halves
<1>5. CASE p = Word
  <2>1. X = Size
    <3>1. 2 ^ (p - Word) = 1
      BY <1>5, WordAssumption, PowersAssumption
    <3> QED BY <3>1, <1>1, Halves
  <2>2. Size + delta < Size * a
    <3>1. Half * 2 <= Half * a
      BY <1>2, Halves, MulMono
    <3> QED BY <3>1, <1>1, <1>2, <1>4, Halves
  <2>3. a * m < a * Size
    <3>1. a * m = X + delta /\ a * Size = Size * a
      BY <1>1, <1>2, <1>3, Halves
    <3> QED BY <3>1, <2>1, <2>2
  <2> QED BY <2>3, <1>2, <1>3, Halves, MulStrict DEF m
<1>6. CASE p > Word
  <2> DEFINE Y == 2 ^ (p - 1)
             e == Rest(d, p - 1)
             y == Y \div a
             T == 2 ^ (p - Word)
  <2>1. p - 1 \in Word .. 2 * Word - 2 /\ ~Precise(d, p - 1)
    BY <1>1, <1>6, WordAssumption DEF Stops
  <2>2. /\ Y \in Nat \ {0} /\ e \in Nat \ {0} /\ e <= a /\ y \in Nat /\ (y + 1) * a = Y + e
        /\ ~(Anc(d) * e < Y) /\ Y = Size * 2 ^ (p - 1 - Word) /\ 2 ^ (p - 1 - Word) \in Nat \ {0}
    BY <2>1, PreciseMeans DEF a
  <2>3. T = 2 * 2 ^ (p - 1 - Word)
    <3>1. 1 \in 0 .. Word /\ p - 1 - Word \in 0 .. Word /\ 1 + (p - 1 - Word) = p - Word
      BY <1>1, <1>6, WordAssumption
    <3> QED BY <3>1, PowersAssumption
  <2>4. X = 2 * Y
    BY <2>2, <2>3, <1>1, Halves
  <2>5. Y = Half * T
    BY <2>2, <2>3, Halves
  <2> DEFINE T2 == 2 ^ (p - 1 - Word)
  <2>6. T2 \in Nat \ {0} /\ T = 2 * T2
    BY <2>2, <2>3
  <2> HIDE DEF Y, e, y, T, T2
  <2>7. Y <= Anc(d) * e /\ Anc(d) * e \in Nat
    BY <2>2, <1>2
  <2>8. CASE e < a
    <3>1. Anc(d) * e <= Anc(d) * (a - 1)
      <4>1. e <= a - 1 /\ a - 1 \in Nat /\ e \in Nat
        BY <2>8, <2>2, <1>2
      <4> QED BY <4>1, <1>2, MulMono
    <3>2. Anc(d) * (a - 1) <= Half * (a - 1)
      <4>1. (a - 1) * Anc(d) <= (a - 1) * Half
        <5>1. a - 1 \in Nat
          BY <1>2
        <5> QED BY <5>1, <1>2, Halves, MulMono
      <4> QED BY <4>1, <1>2, Halves
    <3>3. Half * (a - 1) = Half * a - Half
      BY <1>2, Halves
    <3>4. X + delta < Size * a
      <4>1. Anc(d) * (a - 1) \in Nat
        BY <1>2
      <4> QED BY <4>1, <3>1, <3>2, <3>3, <2>4, <2>7, <2>2, <1>1, <1>2, <1>4, Halves
    <3>5. a * m < a * Size
      <4>1. a * m = X + delta /\ a * Size = Size * a
        BY <1>1, <1>2, <1>3, Halves
      <4> QED BY <4>1, <3>4
    <3> QED BY <3>5, <1>2, <1>3, Halves, MulStrict DEF m
  <2>9. CASE e = a
    <3>1. Y = a * y
      <4>1. (y + 1) * a = a * y + a
        BY <1>2, <2>2
      <4>2. a * y \in Nat
        BY <1>2, <2>2
      <4> QED BY <4>1, <4>2, <2>2, <2>9, <1>2
    <3>2. y <= Anc(d)
      <4>1. CASE Anc(d) < y
        <5>1. a * (Anc(d) + 1) <= a * y
          BY <4>1, <1>2, <2>2, MulMono
        <5>2. a * (Anc(d) + 1) = Anc(d) * a + a
          BY <1>2
        <5>3. Anc(d) * e = Anc(d) * a
          BY <2>9
        <5> QED BY <5>1, <5>2, <5>3, <3>1, <2>7, <1>2
      <4> QED BY <4>1, <1>2, <2>2
    <3>3. X \div a = 2 * y
      <4>1. X = a * (2 * y)
        BY <3>1, <2>4, <1>2, <2>2
      <4>2. a * (2 * y) <= X /\ X < a * (2 * y + 1)
        <5>1. a * (2 * y + 1) = a * (2 * y) + a
          BY <1>2, <2>2
        <5> QED BY <4>1, <5>1, <1>1, <1>2
      <4>3. 2 * y \in Int
        BY <2>2
      <4> QED BY <4>2, <4>3, <1>1, <1>2, DivBounds
    <3>4. m = 2 * y + 1
      BY <3>3, <1>1
    <3>5. y # Half
      <4> SUFFICES ASSUME y = Half PROVE FALSE
        OBVIOUS
      <4>1. Limit(d) % a = 0 /\ Limit(d) = Half + 1
        BY <3>2, <1>2, Halves DEF Limit
      <4>2. a = T
        <5>1. Half * a = Half * T
          BY <3>1, <2>5, <1>2, Halves
        <5>2. Half * a <= Half * T /\ Half * T <= Half * a
          BY <5>1, <1>4
        <5>3. CASE a < T
          <6>1. Half * (a + 1) <= Half * T
            BY <5>3, <1>2, <2>6, Halves, MulMono
          <6>2. Half * (a + 1) = Half * a + Half
            BY <1>2, Halves
          <6> QED BY <6>1, <6>2, <5>1, <1>4, Halves
        <5>4. CASE T < a
          <6>1. Half * (T + 1) <= Half * a
            BY <5>4, <1>2, <2>6, Halves, MulMono
          <6>2. Half * (T + 1) = Half * T + Half
            BY <2>6, Halves
          <6> QED BY <6>1, <6>2, <5>1, <1>4, Halves
        <5> QED BY <5>3, <5>4, <1>2, <2>6
      <4>3. PICK h \in Nat \ {0} : Half = 2 * h
        BY Halves
      <4> DEFINE k == (Half + 1) \div a
      <4>4. Half + 1 = a * k /\ k \in Nat
        BY <4>1, <1>2, Halves, DivMod
      <4> HIDE DEF k
      <4>5. 2 * h + 1 = 2 * (T2 * k) /\ T2 * k \in Nat
        BY <4>2, <4>3, <4>4, <2>6
      <4> QED BY <4>5
    <3>6. y < Half
      BY <3>2, <3>5, <1>2, <2>2, Halves
    <3> QED BY <3>4, <3>6, <2>2, <1>3, Halves DEF m
  <2> QED BY <2>2, <2>8, <2>9, <1>2
<1> QED BY <1>1, <1>5, <1>6, WordAssumption

(* From an exponent where the loop may stop on the quotients of all numerators
   come out right, the negative ones one too small.                           *)
LEMMA FactorDivides ==
  ASSUME NEW d, Divisor(d), NEW p \in Word .. 2 * Word - 2, Precise(d, p)
  PROVE  /\ \A u \in 0 .. Limit(d) - 1 : (u * Factor(d, p)) \div 2 ^ p = u \div Abs(d)
         /\ \A v \in 1 .. Half : (-(v * Factor(d, p))) \div 2 ^ p = -(v \div Abs(d)) - 1
<1> DEFINE a == Abs(d)
           X == 2 ^ p
           m == Factor(d, p)
           delta == Rest(d, p)
           t == Limit(d)
           anc == Anc(d)
<1>1. /\ X \in Nat /\ X > 0 /\ delta \in Nat /\ delta > 0 /\ delta <= a /\ m * a = X + delta
      /\ m \in Nat /\ anc * delta < X /\ X = Size * 2 ^ (p - Word) /\ 2 ^ (p - Word) \in Nat \ {0}
  BY PreciseMeans DEF Factor
<1>2. /\ a \in Nat /\ a > 1 /\ t \in Nat /\ a <= t /\ anc \in Nat /\ anc = t - 1 - (t % a)
      /\ t % a \in Nat /\ t % a < a
  BY AncFacts DEF Anc
<1>3. t \in {Half, Half + 1}
  BY DEF Limit
<1> HIDE DEF a, X, m, delta, t, anc
<1>4. \A u \in 0 .. t - 1 : (u * m) \div X = u \div a
  <2> SUFFICES ASSUME NEW u \in 0 .. t - 1 PROVE (u * m) \div X = u \div a
    OBVIOUS
  <2>1. u \in Nat /\ u <= t /\ u # t
    BY <1>2
  <2>2. X * (u % a) + u * delta < X * a
    BY <2>1, <1>1, <1>2, Excess
  <2> DEFINE k == u \div a
             r == u % a
             x == u * m
  <2>3. k \in Nat /\ r \in Nat /\ u = a * k + r
    BY <2>1, <1>2, DivMod
  <2>4. X * r + u * delta < X * a
    BY <2>2
  <2> HIDE DEF k, r
  <2>5. X * k <= x /\ x < X * (k + 1)
    BY <2>1, <2>3, <2>4, <1>1, <1>2, MagicUp
  <2>6. x \in Int /\ k \in Int /\ X \in Nat \ {0}
    BY <2>1, <2>3, <1>1
  <2> HIDE DEF x
  <2>7. x \div X = k
    BY <2>5, <2>6, DivBounds
  <2> QED BY <2>7 DEF x, k
<1>5. \A v \in 1 .. Half : (-(v * m)) \div X = -(v \div a) - 1
  <2> SUFFICES ASSUME NEW v \in 1 .. Half PROVE (-(v * m)) \div X = -(v \div a) - 1
    OBVIOUS
  <2>1. v \in Nat /\ v > 0 /\ v <= t
    BY <1>3, Halves
  <2>2. CASE v = t => t % a # a - 1
    <3>1. X * (v % a) + v * delta < X * a
      BY <2>1, <2>2, <1>1, <1>2, Excess
    <3>2. X * (v % a) + v * delta <= X * a
      <4>1. v % a \in Nat
        BY <2>1, <1>2, DivMod
      <4> QED BY <3>1, <4>1, <1>1, <1>2, <2>1
    <3> QED BY <2>1, <3>2, <1>1, <1>2, MagicDown
  <2>3. CASE v = t /\ t % a = a - 1
    <3> DEFINE T == 2 * 2 ^ (p - Word)
               k == t \div a
               Q == X \div a
    <3>1. v = Half /\ t = Half
      BY <2>3, <1>3, Halves
    <3>2. T \in Nat /\ X = Half * T
      BY <1>1, Halves
    <3>3. k \in Nat /\ Half = a * k + (a - 1)
      BY <2>3, <3>1, <1>2, DivMod
    <3>4. Q \in Nat /\ m = Q + 1
      BY <1>1, <1>2, DivMod DEF m, Factor, X, a
    <3> HIDE DEF T, k, Q
    <3>5. X + T = a * (T * (k + 1))
      <4>1. X = (a * k + (a - 1)) * T
        BY <3>2, <3>3
      <4> QED BY <4>1, <3>2, <3>3, <1>2
    <3>6. T > 0
      BY <3>2, <1>1, Halves
    <3>7. Q < T * (k + 1)
      <4>1. a * Q <= X
        <5>1. (Q + 1) * a = a * Q + a
          BY <3>4, <1>2
        <5> QED BY <5>1, <3>4, <1>1, <1>2
      <4>2. T * (k + 1) \in Nat /\ a * Q \in Nat
        BY <3>2, <3>3, <3>4, <1>2
      <4>3. a * Q < a * (T * (k + 1))
        BY <4>1, <4>2, <3>5, <3>6, <3>2, <1>1, <1>2
      <4> QED BY <4>2, <4>3, <3>4, <1>2, MulStrict
    <3>8. delta <= T
      <4>1. T * (k + 1) \in Nat
        BY <3>2, <3>3
      <4>2. a * (Q + 1) <= a * (T * (k + 1))
        <5>1. Q + 1 <= T * (k + 1) /\ Q + 1 \in Nat
          BY <4>1, <3>4, <3>7
        <5> QED BY <5>1, <4>1, <1>2, MulMono
      <4>3. a * (Q + 1) = X + delta
        BY <3>4, <1>1, <1>2
      <4> QED BY <4>2, <4>3, <3>2, <3>5, <1>1
    <3>9. v * delta <= X
      BY <3>1, <3>2, <3>8, <1>1, Halves, MulMono
    <3>10. X * (v % a) = X * a - X
      <4>1. v % a = a - 1
        BY <2>3
      <4>2. X * (a - 1) = X * a - X
        BY <1>1, <1>2
      <4> QED BY <4>1, <4>2
    <3>11. X * (v % a) + v * delta <= X * a
      <4>1. v * delta \in Nat /\ X * a \in Nat
        BY <2>1, <1>1, <1>2
      <4> QED BY <4>1, <3>9, <3>10, <1>1
    <3> QED BY <2>1, <3>11, <1>1, <1>2, MagicDown
  <2> QED BY <2>2, <2>3
<1> QED BY <1>4, <1>5 DEF a, X, m, t

(* Words of Word bits and the numbers they stand for.                        *)
LEMMA DivModInt ==
  ASSUME NEW a \in Int, NEW b \in Nat \ {0}
  PROVE  /\ a \div b \in Int /\ a % b \in Nat /\ a % b < b
         /\ a = b * (a \div b) + (a % b)
BY SMT

LEMMA ModBounds ==
  ASSUME NEW a \in Int, NEW b \in Nat \ {0}, NEW q \in Int, NEW r \in Nat, r < b, a = b * q + r
  PROVE  a % b = r
<1>1. b * q <= a /\ a < b * (q + 1)
  <2>1. b * (q + 1) = b * q + b
    OBVIOUS
  <2> QED BY <2>1
<1>2. a \div b = q
  BY <1>1, DivBounds
<1>3. a = b * (a \div b) + (a % b) /\ a % b \in Nat
  BY DivModInt
<1>4. b * (a \div b) = b * q
  BY <1>2
<1>5. b * q \in Int
  OBVIOUS
<1> QED BY <1>3, <1>4, <1>5

Numerals == 0 .. Size - 1

LEMMA WrappedIs ==
  ASSUME NEW z \in Int, NEW n \in Numerals, NEW k \in Int, z = Size * k + n
  PROVE  Wrapped(z) = n
<1>1. Size \in Nat \ {0} /\ n \in Nat /\ n < Size
  BY Halves DEF Numerals
<1>2. z % Size = n
  BY <1>1, ModBounds
<1> QED BY <1>2 DEF Wrapped, Size

LEMMA WrappedIn ==
  ASSUME NEW z \in Int
  PROVE  Wrapped(z) \in Numerals /\ \E k \in Int : z = Size * k + Wrapped(z)
<1>1. Size \in Nat \ {0}
  BY Halves
<1>2. z \div Size \in Int /\ z % Size \in Nat /\ z % Size < Size /\ z = Size * (z \div Size) + (z % Size)
  BY <1>1, DivModInt
<1> QED BY <1>1, <1>2 DEF Wrapped, Size, Numerals

LEMMA SameWord ==
  ASSUME NEW y \in Int, NEW z \in Int, NEW k \in Int, y = z + Size * k
  PROVE  Wrapped(y) = Wrapped(z)
<1>1. PICK j \in Int : z = Size * j + Wrapped(z)
  BY WrappedIn
<1>2. Wrapped(z) \in Numerals /\ Wrapped(z) \in Int
  BY WrappedIn, Halves DEF Numerals
<1>3. y = Size * (j + k) + Wrapped(z)
  <2>1. Size * (j + k) = Size * j + Size * k
    BY Halves
  <2> QED BY <1>1, <1>2, <2>1, Halves
<1> QED BY <1>2, <1>3, WrappedIs

LEMMA SignedIn ==
  ASSUME NEW n \in Numerals
  PROVE  /\ AsSigned(n) \in -Half .. Half - 1 /\ Wrapped(AsSigned(n)) = n
         /\ \E k \in {0, -1} : AsSigned(n) = n + Size * k
         /\ AsSigned(n) < 0 <=> n >= Half
<1>1. n \in Nat /\ n < 2 * Half
  BY Halves DEF Numerals
<1>2. AsSigned(n) = IF n >= Half THEN n - Size ELSE n
  BY DEF AsSigned, Half, Size
<1>3. \E k \in {0, -1} : AsSigned(n) = n + Size * k
  BY <1>1, <1>2, Halves
<1>4. AsSigned(n) \in -Half .. Half - 1 /\ (AsSigned(n) < 0 <=> n >= Half)
  BY <1>1, <1>2, Halves
<1>5. Wrapped(AsSigned(n)) = n
  <2>1. CASE n >= Half
    <3>1. AsSigned(n) = Size * (-1) + n /\ -1 \in Int /\ AsSigned(n) \in Int
      BY <1>1, <1>2, <2>1, Halves
    <3> QED BY <3>1, WrappedIs
  <2>2. CASE ~(n >= Half)
    <3>1. AsSigned(n) = Size * 0 + n /\ 0 \in Int /\ AsSigned(n) \in Int
      BY <1>1, <1>2, <2>2, Halves
    <3> QED BY <3>1, WrappedIs
  <2> QED BY <2>1, <2>2
<1> QED BY <1>3, <1>4, <1>5

LEMMA SignedBack ==
  ASSUME NEW z \in -Half .. Half - 1
  PROVE  /\ AsSigned(Wrapped(z)) = z
         /\ Wrapped(z) = IF z < 0 THEN z + Size ELSE z
<1>1. CASE z < 0
  <2>1. z + Size \in Numerals /\ z \in Int /\ z = Size * (-1) + (z + Size) /\ -1 \in Int
    BY <1>1, Halves DEF Numerals
  <2>2. Wrapped(z) = z + Size
    BY <2>1, WrappedIs
  <2>3. AsSigned(z + Size) = z
    <3> DEFINE x == z + Size
    <3>1. x >= Half /\ x - Size = z
      BY <1>1, Halves
    <3> HIDE DEF x
    <3>2. AsSigned(x) = x - Size
      BY <3>1 DEF AsSigned, Half, Size
    <3> QED BY <3>1, <3>2 DEF x
  <2> QED BY <1>1, <2>2, <2>3
<1>2. CASE ~(z < 0)
  <2>1. z \in Numerals /\ z \in Int /\ z = Size * 0 + z /\ 0 \in Int
    BY <1>2, Halves DEF Numerals
  <2>2. Wrapped(z) = z
    BY <2>1, WrappedIs
  <2>3. AsSigned(z) = z
    <3>1. ~(z >= Half)
      BY <1>2, Halves
    <3> QED BY <3>1 DEF AsSigned, Half
  <2> QED BY <1>2, <2>2, <2>3
<1> QED BY <1>1, <1>2

(* The arithmetic shift of the word of a number.                             *)
LEMMA SarIs ==
  ASSUME NEW z \in -Half .. Half - 1, NEW s \in Nat
  PROVE  Sar(Wrapped(z), s) = Wrapped(z \div 2 ^ s)
BY SignedBack DEF Sar

LEMMA DivDiv ==
  ASSUME NEW a \in Int, NEW b \in Nat \ {0}, NEW c \in Nat \ {0},
         NEW x \in Int, b * x <= a, a < b * x + b,
         NEW q \in Int, c * q <= x, x < c * q + c
  PROVE  (b * c) * q <= a /\ a < (b * c) * (q + 1)
<1> DEFINE e == x - c * q
<1>1. e \in Nat /\ x = c * q + e /\ e + 1 <= c
  OBVIOUS
<1> HIDE DEF e
<1>2. b * x = (b * c) * q + b * e
  BY <1>1
<1>3. b * e \in Nat /\ b * (e + 1) <= b * c /\ b * (e + 1) = b * e + b
  <2>1. b * (e + 1) <= b * c
    BY <1>1, MulMono
  <2> QED BY <1>1, <2>1
<1>4. (b * c) * (q + 1) = (b * c) * q + b * c /\ (b * c) * q \in Int /\ b * c \in Nat
  OBVIOUS
<1> QED BY <1>2, <1>3, <1>4

LEMMA DivPlus ==
  ASSUME NEW a \in Int, NEW b \in Nat \ {0}, NEW k \in Int
  PROVE  (a + b * k) \div b = (a \div b) + k
<1> DEFINE q == a \div b
           c == a + b * k
<1>1. q \in Int /\ b * q <= a /\ a < b * q + b
  BY DivModInt
<1> HIDE DEF q
<1>2. b * (q + k) <= c /\ c < b * ((q + k) + 1)
  <2>1. b * (q + k) = b * q + b * k /\ b * ((q + k) + 1) = b * q + b * k + b /\ b * q \in Int /\ b * k \in Int
    BY <1>1
  <2> QED BY <2>1, <1>1
<1>3. c \in Int /\ q + k \in Int
  BY <1>1
<1> HIDE DEF c
<1>4. c \div b = q + k
  BY <1>2, <1>3, DivBounds
<1> QED BY <1>4 DEF c, q

(* Dividing does not leave a range around 0.                                 *)
LEMMA DivRange ==
  ASSUME NEW z \in Int, NEW b \in Nat \ {0}, NEW h \in Nat \ {0}, NEW hb \in Nat, hb = h * b,
         -hb <= z, z < hb
  PROVE  z \div b \in -h .. h - 1
<1> DEFINE q == z \div b
<1>1. q \in Int /\ b * q <= z /\ z < b * q + b
  BY DivModInt
<1> HIDE DEF q
<1>2. -h <= q
  <2>1. CASE q <= -h - 1
    <3>1. b * (h + 1) <= b * (-q)
      <4>1. h + 1 <= -q /\ -q \in Nat
        BY <2>1, <1>1
      <4> QED BY <4>1, MulMono
    <3>2. b * (h + 1) = h * b + b /\ b * (-q) = -(b * q) /\ h * b \in Int /\ b * q \in Int
      BY <1>1
    <3> QED BY <3>1, <3>2, <1>1
  <2> QED BY <2>1, <1>1
<1>3. q <= h - 1
  <2>1. CASE h <= q
    <3>1. b * h <= b * q
      BY <2>1, <1>1, MulMono
    <3>2. b * h = h * b /\ h * b \in Int /\ b * q \in Int
      BY <1>1
    <3> QED BY <3>1, <3>2, <1>1
  <2> QED BY <2>1, <1>1
<1> QED BY <1>1, <1>2, <1>3 DEF q

(* The multiplier with its correction is the factor with the divisor's sign. *)
Multiplier(d, p) == IF d < 0 THEN -Factor(d, p) ELSE Factor(d, p)

LEMMA SignedMagicIs ==
  ASSUME NEW d, Divisor(d), Exponents(d) # {}
  PROVE  \E p : /\ Stops(d, p) /\ SignedMagic(d).shift = p - Word
                /\ SignedMagic(d).magic \in Int /\ SignedMagic(d).correction \in {-1, 0, 1}
                /\ SignedMagic(d).magic + Size * SignedMagic(d).correction = Multiplier(d, p)
<1>1. PICK p : p = (CHOOSE q \in Exponents(d) : TRUE) /\ Stops(d, p)
  BY StopsSomewhere
<1> DEFINE m == Factor(d, p)
           magic == AsSigned(Wrapped(IF d < 0 THEN -m ELSE m))
           c == IF d > 0 /\ magic < 0 THEN 1 ELSE IF d < 0 /\ magic > 0 THEN -1 ELSE 0
<1>2. SignedMagic(d) = [magic |-> magic, shift |-> p - Word, correction |-> c]
  BY <1>1 DEF SignedMagic, Factor
<1>3. m \in Nat /\ m > 0 /\ m < Size
  BY <1>1, FactorFits
<1>4. d \in Int /\ d # 0
  BY Halves DEF Divisor
<1>7. /\ SignedMagic(d).magic = magic /\ SignedMagic(d).shift = p - Word
      /\ SignedMagic(d).correction = c /\ c \in {-1, 0, 1}
  BY <1>2
<1> HIDE DEF m
<1>5. CASE d > 0
  <2>1. Wrapped(m) = m
    <3>1. m \in Int /\ m \in Numerals /\ m = Size * 0 + m /\ 0 \in Int
      BY <1>3, Halves DEF Numerals
    <3> QED BY <3>1, WrappedIs
  <2>2. magic = IF m >= Half THEN m - Size ELSE m
    BY <2>1, <1>4, <1>5 DEF AsSigned, Half, Size
  <2>3. magic \in Int /\ magic + Size * c = m
    <3>1. CASE m >= Half
      <4>1. magic = m - Size /\ magic < 0
        BY <2>2, <3>1, <1>3, Halves
      <4>2. c = 1
        BY <4>1, <1>5
      <4> HIDE DEF magic, c
      <4> QED BY <4>1, <4>2, <1>3, Halves
    <3>2. CASE ~(m >= Half)
      <4>1. magic = m /\ ~(magic < 0)
        BY <2>2, <3>2, <1>3, Halves
      <4>2. c = 0
        BY <4>1, <1>4, <1>5
      <4> HIDE DEF magic, c
      <4> QED BY <4>1, <4>2, <1>3, Halves
    <3> QED BY <3>1, <3>2
  <2>4. Multiplier(d, p) = m
    BY <1>4, <1>5 DEF Multiplier, m
  <2> HIDE DEF magic, c
  <2> QED BY <1>1, <1>7, <2>3, <2>4
<1>6. CASE d < 0
  <2>1. Wrapped(-m) = Size - m
    <3>1. -m \in Int /\ Size - m \in Numerals /\ -m = Size * (-1) + (Size - m) /\ -1 \in Int
      BY <1>3, Halves DEF Numerals
    <3> QED BY <3>1, WrappedIs
  <2>2. magic = IF Size - m >= Half THEN Size - m - Size ELSE Size - m
    BY <2>1, <1>6 DEF AsSigned, Half, Size
  <2>3. magic \in Int /\ magic + Size * c = -m
    <3>1. CASE Size - m >= Half
      <4>1. magic = -m /\ ~(magic > 0)
        BY <2>2, <3>1, <1>3, Halves
      <4>2. c = 0
        BY <4>1, <1>4, <1>6
      <4> HIDE DEF magic, c
      <4> QED BY <4>1, <4>2, <1>3, Halves
    <3>2. CASE ~(Size - m >= Half)
      <4>1. magic = Size - m /\ magic > 0
        BY <2>2, <3>2, <1>3, Halves
      <4>2. c = -1
        BY <4>1, <1>4, <1>6
      <4> HIDE DEF magic, c
      <4> QED BY <4>1, <4>2, <1>3, Halves
    <3> QED BY <3>1, <3>2
  <2>4. Multiplier(d, p) = -m
    BY <1>6 DEF Multiplier, m
  <2> HIDE DEF magic, c
  <2> QED BY <1>1, <1>7, <2>3, <2>4
<1> QED BY <1>4, <1>5, <1>6

(* The high half of the product is the product with the factor, divided.     *)
LEMMA HighHalfIs ==
  ASSUME NEW n \in Numerals, NEW M \in Int, NEW r,
         r.magic \in Int, r.correction \in Int, r.magic + Size * r.correction = M
  PROVE  HighHalf(r, n) = Wrapped((AsSigned(n) * M) \div Size)
<1> DEFINE s == AsSigned(n)
           mg == r.magic
           c == r.correction
           z == (s * M) \div Size
<1>1. /\ s \in Int /\ mg \in Int /\ c \in Int /\ M = mg + Size * c /\ n \in Int
      /\ Size \in Nat \ {0} /\ \E k \in {0, -1} : s = n + Size * k
  BY SignedIn, Halves DEF Numerals
<1>2. HighHalf(r, n) = Wrapped((s * mg) \div Size + c * n)
  BY DEF HighHalf, Size
<1> HIDE DEF s, mg, c
<1>3. s * M = s * mg + Size * (s * c)
  BY <1>1
<1>4. z = (s * mg) \div Size + s * c
  <2> DEFINE x == s * mg
             k == s * c
  <2>1. x \in Int /\ k \in Int /\ s * M = x + Size * k
    BY <1>1, <1>3
  <2> HIDE DEF x, k
  <2>2. (x + Size * k) \div Size = (x \div Size) + k
    BY <1>1, <2>1, DivPlus
  <2> QED BY <2>1, <2>2 DEF x, k
<1>5. (s * mg) \div Size \in Int
  <2> DEFINE x == s * mg
  <2>1. x \in Int
    BY <1>1
  <2> HIDE DEF x
  <2>2. x \div Size \in Int
    BY <1>1, <2>1, DivModInt
  <2> QED BY <2>2 DEF x
<1> DEFINE y == (s * mg) \div Size
<1>6. PICK k \in {0, -1} : s = n + Size * k
  BY <1>1
<1>7. y + c * n = z + Size * (-(c * k))
  <2>1. y \in Int /\ z = y + s * c
    BY <1>4, <1>5
  <2> HIDE DEF y, z
  <2>2. s * c = c * n + Size * (c * k)
    BY <1>1, <1>6
  <2>3. Size * (-(c * k)) = -(Size * (c * k)) /\ Size * (c * k) \in Int /\ c * n \in Int
    BY <1>1, <1>6
  <2> QED BY <2>1, <2>2, <2>3
<1>8. y + c * n \in Int /\ z \in Int /\ -(c * k) \in Int
  <2> HIDE DEF y, z
  <2>1. y \in Int /\ s * c \in Int /\ c * n \in Int /\ c * k \in Int
    BY <1>1, <1>5, <1>6 DEF y
  <2>2. z = y + s * c
    BY <1>4 DEF y
  <2> QED BY <2>1, <2>2
<1> HIDE DEF y, z
<1>9. Wrapped(y + c * n) = Wrapped(z)
  BY <1>7, <1>8, SameWord
<1> QED BY <1>2, <1>9 DEF y, z, s

(* What is shifted out of the product, and one more for a negative quotient.  *)
LEMMA Rounded ==
  ASSUME NEW w \in Int, NEW m \in Nat, m < Size, NEW p \in Word .. 2 * Word - 2,
         -(Half * m) <= w, w <= Half * m, m > 0
  PROVE  LET q == Sar(Wrapped(w \div Size), p - Word)
             y == w \div 2 ^ p
         IN  /\ y \in Int
             /\ Wrapped(q + Shr(q, Word - 1)) = Wrapped(y + (IF y < 0 THEN 1 ELSE 0))
<1> DEFINE z == w \div Size
           S == 2 ^ (p - Word)
           y == w \div 2 ^ p
           q == Sar(Wrapped(z), p - Word)
<1>1. S \in Nat \ {0} /\ 2 ^ p = Size * S /\ p - Word \in Nat
  <2>1. Word \in 0 .. Word /\ p - Word \in 0 .. Word /\ Word + (p - Word) = p
    BY WordAssumption
  <2> QED BY <2>1, PowersAssumption DEF Size
<1> HIDE DEF S
<1>2. z \in -Half .. Half - 1
  <2>1. Half * m < Half * Size
    <3>1. Half * (m + 1) <= Half * Size
      BY Halves, MulMono
    <3>2. Half * (m + 1) = Half * m + Half /\ Half * m \in Nat /\ Half * Size \in Nat
      BY Halves
    <3> QED BY <3>1, <3>2, Halves
  <2>2. -(Half * Size) <= w /\ w < Half * Size
    <3>1. Half * m \in Nat /\ Half * Size \in Nat
      BY Halves
    <3> QED BY <2>1, <3>1
  <2>3. Size \in Nat \ {0} /\ Half \in Nat \ {0} /\ Half * Size \in Nat
    BY Halves
  <2> QED BY <2>2, <2>3, DivRange
<1>3. y = z \div S
  <2> DEFINE X == 2 ^ p
  <2>1. X \in Nat \ {0} /\ Size \in Nat \ {0} /\ X = Size * S
    BY <1>1, Halves
  <2> HIDE DEF X
  <2> DEFINE q0 == z \div S
  <2>2. z \in Int /\ Size * z <= w /\ w < Size * z + Size
    BY <2>1, DivModInt
  <2> HIDE DEF z
  <2>3. q0 \in Int /\ S * q0 <= z /\ z < S * q0 + S
    BY <1>1, <2>2, DivModInt
  <2> HIDE DEF q0
  <2>4. X * q0 <= w /\ w < X * (q0 + 1)
    BY <1>1, <2>1, <2>2, <2>3, DivDiv
  <2>5. w \div X = q0
    BY <2>1, <2>3, <2>4, DivBounds
  <2> QED BY <2>5 DEF X, q0
<1>4. y \in -Half .. Half - 1
  <2> HIDE DEF z
  <2>1. -(Half * S) <= z /\ z < Half * S /\ z \in Int
    <3>1. Half * 1 <= Half * S
      BY <1>1, Halves, MulMono
    <3>2. Half * S \in Nat
      BY <1>1, Halves
    <3> QED BY <1>2, <3>1, <3>2, Halves
  <2>2. Half \in Nat \ {0} /\ Half * S \in Nat
    BY <1>1, Halves
  <2>3. z \div S \in -Half .. Half - 1
    BY <1>1, <2>1, <2>2, DivRange
  <2> QED BY <1>3, <2>3
<1>5. q = Wrapped(y)
  <2> HIDE DEF z
  <2>1. q = Wrapped(z \div 2 ^ (p - Word))
    BY <1>1, <1>2, SarIs
  <2> QED BY <2>1, <1>3 DEF S
<1>6. y \in Int
  BY <1>4, Halves
<1> HIDE DEF z, y, q
<1>7. q = IF y < 0 THEN y + Size ELSE y
  BY <1>4, <1>5, SignedBack
<1>8. Shr(q, Word - 1) = IF y < 0 THEN 1 ELSE 0
  <2>1. Shr(q, Word - 1) = q \div Half
    BY DEF Shr, Half
  <2>2. CASE y < 0
    <3>1. Half * 1 <= q /\ q < Half * (1 + 1) /\ q \in Int /\ Half \in Nat \ {0}
      BY <1>4, <1>7, <2>2, Halves
    <3>2. q \div Half = 1
      BY <3>1, DivBounds
    <3> QED BY <2>1, <2>2, <3>2
  <2>3. CASE ~(y < 0)
    <3>1. Half * 0 <= q /\ q < Half * (0 + 1) /\ q \in Int /\ Half \in Nat \ {0}
      BY <1>4, <1>7, <2>3, Halves
    <3>2. q \div Half = 0
      BY <3>1, DivBounds
    <3> QED BY <2>1, <2>3, <3>2
  <2> QED BY <2>2, <2>3
<1> DEFINE o == IF y < 0 THEN 1 ELSE 0
<1>9. q + o = (y + o) + Size * o /\ q + o \in Int /\ y + o \in Int /\ o \in Int
  BY <1>6, <1>7, Halves
<1> HIDE DEF o
<1>10. Wrapped(q + o) = Wrapped(y + o)
  BY <1>9, SameWord
<1> QED BY <1>6, <1>8, <1>10 DEF o, q, y, z

(* The signed quotient rounds towards zero.                                  *)
LEMMA SignedQuotientRight ==
  ASSUME NEW d, Divisor(d), Exponents(d) # {}, NEW n \in Numerals
  PROVE  SignedQuotient(d, n) = Wrapped(TowardZero(AsSigned(n), d))
<1> DEFINE s == AsSigned(n)
<1>1. PICK p : /\ Stops(d, p) /\ SignedMagic(d).shift = p - Word
               /\ SignedMagic(d).magic \in Int /\ SignedMagic(d).correction \in {-1, 0, 1}
               /\ SignedMagic(d).magic + Size * SignedMagic(d).correction = Multiplier(d, p)
  BY SignedMagicIs
<1> DEFINE m == Factor(d, p)
           M == Multiplier(d, p)
           w == s * M
           y == w \div 2 ^ p
           a == Abs(d)
<1>2. m \in Nat /\ m > 0 /\ m < Size /\ d \in Int /\ d # 0
  <2>1. d \in Int /\ d # 0
    BY Halves DEF Divisor
  <2> QED BY <1>1, <2>1, FactorFits
<1>3. M \in Int /\ M = IF d < 0 THEN -m ELSE m
  BY <1>2 DEF Multiplier
<1>4. s \in Int /\ -Half <= s /\ s <= Half - 1
  BY SignedIn, Halves
<1>5. HighHalf(SignedMagic(d), n) = Wrapped(w \div Size)
  BY <1>1, <1>3, HighHalfIs
<1>6. p \in Word .. 2 * Word - 2 /\ Precise(d, p)
  BY <1>1 DEF Stops
<1> DEFINE u == IF d < 0 THEN -s ELSE s
<1>7. u \in Int /\ w = u * m /\ -Half <= u /\ u <= Limit(d) - 1 /\ u <= Half
  <2> HIDE DEF s, m, M
  <2>1. w = u * m
    BY <1>2, <1>3, <1>4
  <2>2. u \in Int /\ -Half <= u /\ u <= Limit(d) - 1 /\ u <= Half
    BY <1>4, Halves DEF Limit
  <2> QED BY <2>1, <2>2
<1>8. w \in Int /\ -(Half * m) <= w /\ w <= Half * m
  <2> HIDE DEF m, w, u
  <2>1. w \in Int
    BY <1>2, <1>7
  <2>2. CASE u >= 0
    <3>1. m * u <= m * Half /\ m * u \in Nat
      BY <2>2, <1>2, <1>7, Halves, MulMono
    <3> QED BY <3>1, <1>2, <1>7, <2>1, Halves
  <2>3. CASE u < 0
    <3>1. m * (-u) <= m * Half /\ m * (-u) \in Nat
      BY <2>3, <1>2, <1>7, Halves, MulMono
    <3>2. m * (-u) = -w
      BY <1>2, <1>7
    <3> QED BY <3>1, <3>2, <1>2, <2>1, Halves
  <2> QED BY <2>2, <2>3, <1>7
<1>9. SignedQuotient(d, n) = Wrapped(y + (IF y < 0 THEN 1 ELSE 0)) /\ y \in Int
  <2> DEFINE q == Sar(HighHalf(SignedMagic(d), n), p - Word)
  <2>1. SignedQuotient(d, n) = Wrapped(q + Shr(q, Word - 1))
    BY <1>1 DEF SignedQuotient
  <2> HIDE DEF w, m
  <2>2. q = Sar(Wrapped(w \div Size), p - Word)
    BY <1>5
  <2> QED BY <1>2, <1>6, <1>8, <2>1, <2>2, Rounded
<1>10. a \in Nat \ {0} /\ a = (IF d < 0 THEN -d ELSE d)
  BY <1>2 DEF Abs
<1>11. TowardZero(s, d) = Sign(s) * Sign(d) * (Abs(s) \div a)
  BY DEF TowardZero
<1> HIDE DEF s, m, M, y, u, a
<1>12. CASE u >= 0
  <2>1. u \in 0 .. Limit(d) - 1
    BY <1>7, <1>12, Halves DEF Limit
  <2>2. y = u \div a
    BY <2>1, <1>6, <1>7, FactorDivides DEF y, m, a
  <2>3. u \div a \in Nat
    BY <1>7, <1>10, <1>12, DivMod
  <2>4. TowardZero(s, d) = u \div a
    <3>1. CASE u = 0
      <4>1. 0 \div a = 0
        BY <1>10
      <4>2. s = 0 /\ Abs(s) = 0
        BY <3>1, <1>4 DEF u, Abs
      <4>3. Sign(s) * Sign(d) * 0 = 0
        BY DEF Sign
      <4> QED BY <4>1, <4>2, <4>3, <1>11, <3>1
    <3>2. CASE u # 0
      <4>1. Abs(s) = u /\ Sign(s) * Sign(d) = 1
        BY <3>2, <1>2, <1>4, <1>12 DEF u, Abs, Sign
      <4> QED BY <4>1, <1>11, <2>3
    <3> QED BY <3>1, <3>2
  <2> QED BY <1>9, <2>2, <2>3, <2>4 DEF s
<1>13. CASE u < 0
  <2> DEFINE v == -u
  <2>1. v \in 1 .. Half /\ v \in Nat
    BY <1>7, <1>13, Halves
  <2>2. y = -(v \div a) - 1
    <3>1. w = -(v * m)
      BY <1>2, <1>7
    <3> HIDE DEF v
    <3> QED BY <2>1, <3>1, <1>6, FactorDivides DEF y, m, a
  <2>3. v \div a \in Nat
    <3> HIDE DEF v
    <3> QED BY <2>1, <1>10, DivMod
  <2>4. Abs(s) = v /\ Sign(s) * Sign(d) = -1
    BY <1>2, <1>4, <1>13 DEF u, Abs, Sign
  <2> HIDE DEF v
  <2>5. y + (IF y < 0 THEN 1 ELSE 0) = TowardZero(s, d)
    BY <2>2, <2>3, <2>4, <1>11
  <2> QED BY <1>9, <2>5 DEF s
<1> QED BY <1>7, <1>12, <1>13

LEMMA TowardZeroIs ==
  ASSUME NEW s \in Int, NEW d \in Int \ {0}
  PROVE  /\ Abs(d) \in Nat \ {0} /\ Abs(s) \in Nat /\ s = Sign(s) * Abs(s) /\ d = Sign(d) * Abs(d)
         /\ Sign(s) \in {1, -1} /\ Sign(d) \in {1, -1} /\ Abs(s) \div Abs(d) \in Nat
         /\ TowardZero(s, d) = Sign(s) * Sign(d) * (Abs(s) \div Abs(d)) /\ TowardZero(s, d) \in Int
<1>1. /\ Abs(d) \in Nat \ {0} /\ Abs(s) \in Nat /\ s = Sign(s) * Abs(s) /\ d = Sign(d) * Abs(d)
      /\ Sign(s) \in {1, -1} /\ Sign(d) \in {1, -1}
  BY DEF Abs, Sign
<1>2. Abs(s) \div Abs(d) \in Nat
  BY <1>1, DivMod
<1>3. TowardZero(s, d) = Sign(s) * Sign(d) * (Abs(s) \div Abs(d))
  BY DEF TowardZero
<1> DEFINE q == Abs(s) \div Abs(d)
<1>4. Sign(s) * Sign(d) * q \in Int
  <2> HIDE DEF q
  <2> QED BY <1>1, <1>2 DEF q
<1> QED BY <1>1, <1>2, <1>3, <1>4

(* Division by a power of two, which may have any sign.                      *)
LEMMA ShiftedQuotientRight ==
  ASSUME NEW d \in Int, -Half <= d, d < Size, d \notin {0, 1, -1}, IsPower(Abs(d)), NEW n \in Numerals
  PROVE  ShiftedQuotient(d, n) = Wrapped(TowardZero(AsSigned(n), d)) /\ Abs(d) <= Half
<1> DEFINE s == AsSigned(n)
           k == LogOf(Abs(d))
           a == 2 ^ k
           B == 2 ^ (Word - k)
<1>1. k \in 0 .. Word /\ a = Abs(d)
  BY DEF IsPower, LogOf
<1>2. a \in Nat /\ a > 1 /\ a < Size
  BY <1>1, Halves DEF Abs
<1>3. k # 0 /\ k # Word
  BY <1>1, <1>2, Halves, PowersAssumption DEF Size
<1>4. Size = a * B /\ B \in Nat \ {0}
  <2>1. k \in 0 .. Word /\ Word - k \in 0 .. Word /\ k + (Word - k) = Word
    BY <1>1, WordAssumption
  <2> QED BY <2>1, PowersAssumption DEF Size
<1>5. a <= Half
  <2> DEFINE C == 2 ^ (Word - 1 - k)
  <2>1. k \in 0 .. Word /\ Word - 1 - k \in 0 .. Word /\ k + (Word - 1 - k) = Word - 1
    BY <1>1, <1>3, WordAssumption
  <2>2. Half = a * C /\ C \in Nat \ {0}
    BY <2>1, PowersAssumption DEF Half
  <2> HIDE DEF a, C
  <2>3. a * 1 <= a * C
    BY <1>2, <2>2, MulMono
  <2> QED BY <2>2, <2>3, <1>2
<1>6. s \in -Half .. Half - 1 /\ Wrapped(s) = n /\ \E j \in {0, -1} : s = n + Size * j
  BY SignedIn
<1>7. n \in Int /\ s \in Int /\ k \in Nat
  BY <1>1, <1>6, Halves DEF Numerals
<1> HIDE DEF s, k, a, B
<1>8. Sar(n, Word - 1) = IF s < 0 THEN Size - 1 ELSE 0
  <2>1. Sar(n, Word - 1) = Wrapped(s \div Half)
    BY DEF Sar, s, Half
  <2>2. CASE s < 0
    <3>1. Half * (-1) <= s /\ s < Half * (-1 + 1) /\ -1 \in Int /\ Half \in Nat \ {0}
      BY <1>6, <1>7, <2>2, Halves
    <3>2. s \div Half = -1
      BY <3>1, <1>7, DivBounds
    <3>3. -1 \in -Half .. Half - 1 /\ -1 < 0
      BY Halves
    <3>4. Wrapped(-1) = -1 + Size
      BY <3>3, SignedBack
    <3> QED BY <2>1, <2>2, <3>2, <3>4, Halves
  <2>3. CASE ~(s < 0)
    <3>1. Half * 0 <= s /\ s < Half * (0 + 1) /\ 0 \in Int /\ Half \in Nat \ {0}
      BY <1>6, <1>7, <2>3, Halves
    <3>2. s \div Half = 0
      BY <3>1, <1>7, DivBounds
    <3>3. 0 \in -Half .. Half - 1 /\ ~(0 < 0)
      BY Halves
    <3>4. Wrapped(0) = 0
      BY <3>3, SignedBack
    <3> QED BY <2>1, <2>3, <3>2, <3>4
  <2> QED BY <2>2, <2>3
<1> DEFINE adj == Shr(Sar(n, Word - 1), Word - k)
<1>9. adj = IF s < 0 THEN a - 1 ELSE 0
  <2>1. adj = Sar(n, Word - 1) \div B
    BY DEF Shr, B
  <2>2. CASE s < 0
    <3>1. B * (a - 1) = Size - B /\ B * ((a - 1) + 1) = Size
      BY <1>2, <1>4
    <3>2. B * (a - 1) <= Size - 1 /\ Size - 1 < B * ((a - 1) + 1) /\ Size - 1 \in Int /\ a - 1 \in Int
      BY <3>1, <1>2, <1>4, Halves
    <3>3. (Size - 1) \div B = a - 1
      BY <3>2, <1>4, DivBounds
    <3> QED BY <2>1, <2>2, <3>3, <1>8
  <2>3. CASE ~(s < 0)
    <3>1. B * 0 <= 0 /\ 0 < B * (0 + 1) /\ 0 \in Int
      BY <1>4
    <3>2. 0 \div B = 0
      BY <3>1, <1>4, DivBounds
    <3> QED BY <2>1, <2>3, <3>2, <1>8
  <2> QED BY <2>2, <2>3
<1> DEFINE x == s + adj
           y == x \div a
<1> HIDE DEF adj
<1>10. x \in -Half .. Half - 1 /\ x \in Int /\ adj \in Int
  BY <1>2, <1>5, <1>6, <1>7, <1>9, Halves
<1>11. Wrapped(n + adj) = Wrapped(x)
  <2>1. PICK j \in {0, -1} : s = n + Size * j
    BY <1>6
  <2>2. n + adj \in Int /\ -j \in Int /\ n + adj = x + Size * (-j)
    BY <2>1, <1>7, <1>10, Halves
  <2> HIDE DEF x
  <2> QED BY <2>2, <1>10, SameWord
<1>12. Sar(Wrapped(n + adj), k) = Wrapped(y)
  <2> HIDE DEF x
  <2>1. Sar(Wrapped(x), k) = Wrapped(x \div 2 ^ k)
    BY <1>7, <1>10, SarIs
  <2> QED BY <1>11, <2>1 DEF a
<1>13. d \in Int \ {0}
  OBVIOUS
<1>14. TowardZero(s, d) = Sign(s) * Sign(d) * (Abs(s) \div a) /\ TowardZero(s, d) \in Int
  BY <1>1, <1>7, <1>13, TowardZeroIs
<1>15. y = Sign(s) * (Abs(s) \div a) /\ y \in Int
  <2> DEFINE v == Abs(s)
             g == v \div a
             r == v % a
  <2>1. v \in Nat
    BY <1>7, <1>13, TowardZeroIs
  <2>2. g \in Nat /\ r \in Nat /\ r < a /\ v = a * g + r
    <3> HIDE DEF v
    <3> QED BY <2>1, <1>2, DivMod
  <2>3. a * g \in Nat
    BY <1>2, <2>2
  <2>4. CASE s < 0
    <3>1. v = -s /\ Sign(s) = -1 /\ x = s + a - 1
      BY <2>4, <1>2, <1>7, <1>9 DEF Abs, Sign
    <3> HIDE DEF v, g, r, x
    <3>2. a * (-g) = -(a * g) /\ a * (-g + 1) = -(a * g) + a
      BY <1>2, <2>2
    <3>3. a * (-g) <= x /\ x < a * (-g + 1) /\ -g \in Int
      BY <2>1, <2>2, <2>3, <3>1, <3>2, <1>2, <1>7
    <3>4. x \div a = -g
      BY <3>3, <1>2, <1>10, DivBounds
    <3> QED BY <3>1, <3>4, <2>2 DEF y, g, v
  <2>5. CASE ~(s < 0)
    <3>1. v = s /\ Sign(s) = 1 /\ x = s
      BY <2>5, <1>2, <1>7, <1>9 DEF Abs, Sign
    <3> HIDE DEF v, g, r, x
    <3>2. x \div a = g
      BY <3>1 DEF g
    <3> QED BY <3>1, <3>2, <2>2 DEF y, g, v
  <2> QED BY <2>4, <2>5
<1>16. ShiftedQuotient(d, n) = IF d < 0 THEN Wrapped(-Wrapped(y)) ELSE Wrapped(y)
  BY <1>12 DEF ShiftedQuotient, adj, k
<1> HIDE DEF x, y
<1>17. CASE d < 0
  <2>1. PICK j \in Int : y = Size * j + Wrapped(y)
    BY <1>15, WrappedIn
  <2>2. Wrapped(y) \in Int
    BY <1>15, WrappedIn, Halves DEF Numerals
  <2>3. -Wrapped(y) = -y + Size * j /\ -Wrapped(y) \in Int /\ -y \in Int
    BY <2>1, <2>2, <1>15, Halves
  <2>4. Wrapped(-Wrapped(y)) = Wrapped(-y)
    BY <2>3, SameWord
  <2>5. -y = TowardZero(s, d)
    <3> DEFINE g == Abs(s) \div a
    <3>1. Sign(d) = -1 /\ Sign(s) \in {1, -1} /\ g \in Nat
      BY <1>1, <1>7, <1>13, <1>17, TowardZeroIs DEF Sign
    <3> HIDE DEF g
    <3>2. y = Sign(s) * g /\ TowardZero(s, d) = Sign(s) * Sign(d) * g
      BY <1>14, <1>15 DEF g
    <3> QED BY <3>1, <3>2
  <2> QED BY <1>1, <1>5, <1>16, <1>17, <2>4, <2>5 DEF s
<1>18. CASE ~(d < 0)
  <2>1. y = TowardZero(s, d)
    <3> DEFINE g == Abs(s) \div a
    <3>1. Sign(d) = 1 /\ Sign(s) \in {1, -1} /\ g \in Nat
      BY <1>1, <1>7, <1>13, <1>18, TowardZeroIs DEF Sign
    <3> HIDE DEF g
    <3>2. y = Sign(s) * g /\ TowardZero(s, d) = Sign(s) * Sign(d) * g
      BY <1>14, <1>15 DEF g
    <3> QED BY <3>1, <3>2
  <2> QED BY <1>1, <1>5, <1>16, <1>18, <2>1 DEF s
<1> QED BY <1>17, <1>18

(* Whatever a signed division is replaced with rounds towards zero what it
   divides by, which is the divisor, or Half for the lowest number.          *)
LEMMA QuotientRight ==
  ASSUME NEW op \in {"Div", "Rem"}, NEW d \in Int, d # 0, -Half <= d, d < Size, Reducible(op, d),
         NEW n \in Numerals
  PROVE  \E e \in Int \ {0}, j \in Int :
           /\ Quotient(op, d, n) = Wrapped(TowardZero(AsSigned(n), e))
           /\ d = e + Size * j
           /\ Abs(e) = Abs(AsSigned(Wrapped(d)))
           /\ d # Half => e = AsSigned(Wrapped(d))
<1> DEFINE s == AsSigned(n)
           u == Wrapped(d)
           e == AsSigned(u)
<1>1. u \in Numerals /\ \E k \in Int : d = Size * k + u
  BY WrappedIn
<1>2. e \in -Half .. Half - 1 /\ e \in Int /\ \E k \in {0, -1} : e = u + Size * k
  BY <1>1, SignedIn, Halves
<1>3. \E j \in Int : d = e + Size * j
  <2>1. PICK k \in Int : d = Size * k + u
    BY <1>1
  <2>2. PICK i \in {0, -1} : e = u + Size * i
    BY <1>2
  <2>3. u \in Int
    BY <1>1, Halves DEF Numerals
  <2> HIDE DEF u, e
  <2>4. d = e + Size * (k - i) /\ k - i \in Int
    <3>1. Size * (k - i) = Size * k - Size * i /\ Size * k \in Int /\ Size * i \in Int
      BY Halves
    <3> QED BY <2>1, <2>2, <2>3, <3>1
  <2> QED BY <2>4
<1>4. s \in Int /\ Wrapped(s) = n
  BY SignedIn, Halves
<1>5. IsSigned(op) /\ op # "Udiv" /\ op # "Urem"
  BY DEF IsSigned
<1>6. d < Half => e = d
  BY SignedBack, Halves
<1>7. 1 < Half
  BY Halves
<1> HIDE DEF s, e, u
<1>8. CASE d = 1
  <2>1. TowardZero(s, 1) = s
    <3>1. Abs(1) = 1 /\ Sign(1) = 1 /\ Abs(s) \in Nat
      BY <1>4 DEF Abs, Sign
    <3>2. Abs(s) \div 1 = Abs(s)
      BY <3>1
    <3>3. TowardZero(s, 1) = Sign(s) * 1 * Abs(s)
      BY <3>1, <3>2 DEF TowardZero
    <3> QED BY <3>3, <1>4 DEF Abs, Sign
  <2>2. Quotient(op, d, n) = n
    BY <1>5, <1>8 DEF Quotient
  <2>3. e = 1
    BY <1>6, <1>7, <1>8
  <2> QED BY <1>3, <1>4, <1>8, <2>1, <2>2, <2>3 DEF s, e, u
<1>9. CASE d = -1
  <2>1. TowardZero(s, -1) = -s
    <3>1. Abs(-1) = 1 /\ Sign(-1) = -1 /\ Abs(s) \in Nat
      <4>1. \A x \in Int : x < 0 => Abs(x) = -x /\ Sign(x) = -1
        BY DEF Abs, Sign
      <4>2. -1 \in Int /\ -1 < 0 /\ 0 - (-1) = 1
        OBVIOUS
      <4>3. Abs(s) \in Nat
        BY <1>4 DEF Abs
      <4> QED BY <4>1, <4>2, <4>3
    <3>2. Abs(s) \div 1 = Abs(s)
      BY <3>1
    <3>3. TowardZero(s, -1) = Sign(s) * (-1) * Abs(s)
      BY <3>1, <3>2 DEF TowardZero
    <3> QED BY <3>3, <1>4 DEF Abs, Sign
  <2>2. Quotient(op, d, n) = Wrapped(-n)
    BY <1>5, <1>9 DEF Quotient
  <2>3. Wrapped(-n) = Wrapped(-s)
    <3>1. PICK k \in {0, -1} : s = n + Size * k
      BY SignedIn DEF s
    <3>2. n \in Int
      BY Halves DEF Numerals
    <3>3. -n = -s + Size * k /\ k \in Int /\ -n \in Int /\ -s \in Int
      BY <3>1, <3>2, <1>4, Halves
    <3> QED BY <3>3, SameWord
  <2>4. e = -1
    BY <1>6, <1>9, Halves
  <2> QED BY <1>3, <1>9, <2>1, <2>2, <2>3, <2>4 DEF s, e, u
<1>10. CASE d \notin {1, -1} /\ IsPower(Abs(d))
  <2>1. Quotient(op, d, n) = ShiftedQuotient(d, n)
    BY <1>5, <1>10 DEF Quotient
  <2>2. ShiftedQuotient(d, n) = Wrapped(TowardZero(s, d)) /\ Abs(d) <= Half
    BY <1>10, ShiftedQuotientRight DEF s
  <2>3. d <= Half
    BY <2>2, Halves DEF Abs
  <2>4. CASE d = Half
    <3>1. u = Half
      <4>1. d = Size * 0 + d /\ d \in Numerals /\ 0 \in Int
        BY <2>4, Halves DEF Numerals
      <4> QED BY <2>4, <4>1, WrappedIs DEF u
    <3>2. e = Half - Size
      BY <3>1, Halves DEF e, AsSigned, Half, Size
    <3>3. Abs(e) = Abs(d)
      BY <3>2, <2>4, Halves DEF Abs
    <3>4. d \in Int \ {0} /\ d = d + Size * 0 /\ 0 \in Int
      BY Halves
    <3> QED BY <2>1, <2>2, <2>4, <3>3, <3>4 DEF s, e, u
  <2>5. CASE d < Half
    <3>1. e = d /\ d \in Int \ {0}
      BY <1>6, <2>5
    <3> QED BY <1>3, <2>1, <2>2, <3>1 DEF s, e, u
  <2> QED BY <2>3, <2>4, <2>5, Halves
<1>11. CASE d \notin {1, -1} /\ ~IsPower(Abs(d))
  <2>1. HasMagic(d)
    BY <1>5, <1>11 DEF Reducible
  <2>2. Divisor(e) /\ Exponents(e) # {}
    BY <1>2, <2>1 DEF HasMagic, Divisor, e, u
  <2>3. Quotient(op, d, n) = SignedQuotient(e, n)
    BY <1>5, <1>11 DEF Quotient, e, u
  <2>4. SignedQuotient(e, n) = Wrapped(TowardZero(s, e))
    BY <2>2, SignedQuotientRight DEF s
  <2>5. e \in Int \ {0}
    BY <1>2, <2>2 DEF Divisor
  <2> QED BY <1>3, <2>3, <2>4, <2>5 DEF s, e, u
<1> QED BY <1>8, <1>9, <1>10, <1>11

(* For every width: whatever the divisor and the numerator are, a signed
   division that is reduced gives the quotient rounded towards zero, and a
   remainder what is left of it.  The magic numbers of computeSignedMagic32
   have Word bits and are exact for all numerators; only a division by the
   lowest number, written without a sign, is wrong.                          *)
THEOREM SignedExact ==
  \A d \in -(2 ^ (Word - 1)) .. 2 ^ Word - 1, n \in 0 .. 2 ^ Word - 1 :
    /\ Reducible("Div", d) /\ d # 2 ^ (Word - 1) => Reduced("Div", d, n) = SignedDiv(n, d)
    /\ Reducible("Rem", d) => Reduced("Rem", d, n) = SignedRem(n, d)
<1> SUFFICES ASSUME NEW d \in -Half .. Size - 1, NEW n \in Numerals
             PROVE  /\ Reducible("Div", d) /\ d # Half => Reduced("Div", d, n) = SignedDiv(n, d)
                    /\ Reducible("Rem", d) => Reduced("Rem", d, n) = SignedRem(n, d)
  BY DEF Half, Size, Numerals
<1>1. d \in Int /\ -Half <= d /\ d < Size
  BY Halves
<1>2. ASSUME Reducible("Div", d), d # Half PROVE Reduced("Div", d, n) = SignedDiv(n, d)
  <2>1. d # 0
    BY <1>2 DEF Reducible
  <2>2. PICK e \in Int \ {0}, j \in Int :
          /\ Quotient("Div", d, n) = Wrapped(TowardZero(AsSigned(n), e))
          /\ d # Half => e = AsSigned(Wrapped(d))
    BY <1>1, <1>2, <2>1, QuotientRight
  <2> QED BY <1>2, <2>2 DEF Reduced, SignedDiv
<1>3. ASSUME Reducible("Rem", d) PROVE Reduced("Rem", d, n) = SignedRem(n, d)
  <2> DEFINE s == AsSigned(n)
             u == AsSigned(Wrapped(d))
  <2>1. d # 0
    BY <1>3 DEF Reducible
  <2>2. PICK e \in Int \ {0}, j \in Int :
          /\ Quotient("Rem", d, n) = Wrapped(TowardZero(s, e))
          /\ d = e + Size * j /\ Abs(e) = Abs(u)
    BY <1>1, <1>3, <2>1, QuotientRight
  <2>3. /\ s \in Int /\ n \in Int /\ \E k \in {0, -1} : s = n + Size * k
    BY SignedIn, Halves DEF Numerals
  <2> DEFINE T == TowardZero(s, e)
             Q == Wrapped(T)
             g == Abs(s) \div Abs(e)
             r == Abs(s) % Abs(e)
  <2>4. /\ Abs(e) \in Nat \ {0} /\ Abs(s) \in Nat /\ s = Sign(s) * Abs(s) /\ e = Sign(e) * Abs(e)
        /\ Sign(s) \in {1, -1} /\ Sign(e) \in {1, -1} /\ g \in Nat
        /\ T = Sign(s) * Sign(e) * g /\ T \in Int
    BY <2>3, TowardZeroIs
  <2>5. r \in Nat /\ Abs(s) = Abs(e) * g + r
    BY <2>4, DivMod
  <2>6. Q \in Int /\ \E k \in Int : T = Size * k + Q
    <3>1. T \in Int
      BY <2>4
    <3> HIDE DEF T
    <3>2. Q \in Numerals /\ \E k \in Int : T = Size * k + Q
      BY <3>1, WrappedIn
    <3>3. Q \in Int
      BY <3>2, Halves DEF Numerals
    <3> QED BY <3>2, <3>3
  <2>7. Reduced("Rem", d, n) = Wrapped(n - Q * d)
    BY <2>2 DEF Reduced
  <2> HIDE DEF s, u, T, Q, g, r
  <2>8. s - T * e = Sign(s) * r
    <3> DEFINE A == Abs(e)
               S == Abs(s)
               x == Sign(s)
               y == Sign(e)
    <3>1. /\ A \in Nat /\ S \in Nat /\ s = x * S /\ e = y * A /\ x \in {1, -1} /\ y \in {1, -1}
          /\ T = x * y * g /\ S = A * g + r /\ r \in Nat /\ g \in Nat
      BY <2>4, <2>5
    <3> HIDE DEF A, S, x, y
    <3>2. T * e = x * (A * g)
      <4>1. T * e = (x * y * g) * (y * A)
        BY <3>1
      <4>2. CASE y = 1
        BY <4>1, <4>2, <3>1
      <4>3. CASE y = -1
        BY <4>1, <4>3, <3>1
      <4> QED BY <4>2, <4>3, <3>1
    <3>3. x * S = x * (A * g) + x * r
      BY <3>1
    <3>4. s - T * e = x * r
      BY <3>1, <3>2, <3>3
    <3> QED BY <3>4 DEF x
  <2>9. Wrapped(n - Q * d) = Wrapped(s - T * e)
    <3>1. PICK k \in {0, -1} : s = n + Size * k
      BY <2>3
    <3>2. PICK i \in Int : T = Size * i + Q
      BY <2>6
    <3> DEFINE w == -k + i * e - Q * j
    <3>3. e \in Int /\ j \in Int /\ d \in Int /\ d = e + Size * j /\ Size \in Int
      BY <2>2, <1>1, Halves
    <3>4. Q * d = Q * e + Size * (Q * j)
      BY <2>6, <3>3
    <3>5. T * e = Size * (i * e) + Q * e
      BY <2>6, <3>2, <3>3
    <3>6. Size * w = -(Size * k) + Size * (i * e) - Size * (Q * j)
      BY <2>6, <3>3
    <3>7. w \in Int /\ Q * e \in Int /\ Size * (i * e) \in Int /\ Size * (Q * j) \in Int /\ Size * k \in Int
      BY <2>6, <3>3
    <3> HIDE DEF w
    <3>8. n - Q * d = (s - T * e) + Size * w
      BY <2>3, <3>1, <3>4, <3>5, <3>6, <3>7
    <3>9. n - Q * d \in Int /\ s - T * e \in Int
      BY <2>3, <3>4, <3>5, <3>7
    <3> QED BY <3>7, <3>8, <3>9, SameWord
  <2> QED BY <2>2, <2>7, <2>8, <2>9 DEF SignedRem, s, u, r
<1> QED BY <1>2, <1>3

-----------------------------------------------------------------------------
(* The block returns what it returned.                                       *)

(* What an operand of code c may be, and what it amounts to when instruction
   i amounts to W[i].                                                         *)
Usable(p, c) ==
  {v \in AtomSet(p) \cup {Inst(i) : i \in 1 .. Len(c)} :
     v.kind = "inst" => v.of \in 1 .. Len(c) /\ c[v.of].op \in Arithmetic \cup {"Reduced"}}

Amounts(p, W, v) == IF v.kind = "inst" THEN W[v.of] ELSE ValueOf(p, v)

(* An instruction of the program is what it was, but for its operands, or was
   reduced; its operands amount to what they did.                             *)
Kept(p, c, W, i) ==
  /\ W[i] = p.value[i]
  /\ \/ c[i].op = p.code[i].op /\ Len(c[i].args) = Len(p.code[i].args)
     \/ /\ c[i].op = "Reduced" /\ p.code[i].op \in Divisions /\ Len(c[i].args) = 1
        /\ \A e \in Envs : ReducesExactly(p, e) =>
             c[i].as[ValueOf(p, p.code[i].args[1])[e]] = p.value[i][e]
  /\ \A k \in 1 .. Len(c[i].args) : Amounts(p, W, c[i].args[k]) = ValueOf(p, p.code[i].args[k])

(* An instruction of extractBest computes what it amounts to.                 *)
Built(p, c, W, i) ==
  /\ c[i].op \in Arithmetic \ Divisions /\ Len(c[i].args) = 2
  /\ W[i] = Compute(c[i].op, Amounts(p, W, c[i].args[1]), Amounts(p, W, c[i].args[2]))

Right(p, c, W) ==
  /\ (\E S : c \in Seq(S)) /\ Len(p.code) <= Len(c)
  /\ W \in [1 .. Len(c) -> Results]
  /\ \A i \in 1 .. Len(c) : c[i].args \in Seq(Usable(p, c))
  /\ \A i \in 1 .. Len(p.code) : Kept(p, c, W, i)
  /\ \A i \in Len(p.code) + 1 .. Len(c) : Built(p, c, W, i)

(* No instruction is reduced yet.                                             *)
Plain(c) ==
  \A i \in 1 .. Len(c) : c[i] = [op |-> c[i].op, args |-> c[i].args] /\ c[i].op # "Reduced"

LEMMA CodeOf ==
  ASSUME NEW p \in Programs
  PROVE  /\ \E S : p.code \in Seq(S)
         /\ Len(p.code) \in Nat \ {0}
         /\ Plain(p.code)
         /\ \A i \in 1 .. Len(p.code) : p.code[i].args \in Seq(Operands(p))
         /\ "Reduced" \notin Arithmetic
         /\ p.code[Len(p.code)].op \notin Arithmetic \cup {"Reduced"}
         /\ Len(p.code[Len(p.code)].args) > 0
<1> DEFINE ops == {p.code[i].op : i \in 1 .. Len(p.code)}
           S == [op : ops, args : Seq(Operands(p))]
           n == Len(p.code)
<1>1. /\ p.code \in Seq(S) /\ p.code # <<>> /\ p.code[n].op \notin Arithmetic /\ p.code[n].args # <<>>
      /\ "Reduced" \notin ops \cup Arithmetic
  BY BlockAssumption
<1>2. n \in Nat \ {0}
  <2> HIDE DEF S
  <2> QED BY <1>1
<1>3. \A i \in 1 .. n : p.code[i] \in S
  <2> HIDE DEF S
  <2> QED BY <1>1, ElementOfSeq
<1>4. Plain(p.code)
  BY <1>1, <1>3 DEF Plain
<1>5. \A i \in 1 .. n : p.code[i].op \in ops /\ p.code[i].args \in Seq(Operands(p))
  BY <1>3
<1>6. n \in 1 .. n
  BY <1>2
<1>7. Len(p.code[n].args) > 0
  <2>1. p.code[n].args \in Seq(Operands(p)) /\ p.code[n].args # <<>>
    BY <1>1, <1>5, <1>6
  <2> QED BY <2>1
<1> HIDE DEF S, ops
<1> QED BY <1>1, <1>2, <1>4, <1>5, <1>6, <1>7

LEMMA OperandUsable ==
  ASSUME NEW p \in Programs, NEW v \in Operands(p)
  PROVE  v \in Usable(p, p.code) /\ (v.kind = "inst" => v.of \in 1 .. Len(p.code))
BY DEF Usable, AtomSet, Operands, Inst, Leaf, Const

(* A value is one of the results.                                             *)
LEMMA AmountsTyped ==
  ASSUME NEW p \in Programs, NEW c, NEW W \in [1 .. Len(c) -> Results], NEW v \in Usable(p, c)
  PROVE  Amounts(p, W, v) \in Results
<1>1. CASE v.kind = "inst"
  BY <1>1 DEF Usable, Amounts
<1>2. CASE v.kind # "inst"
  <2>1. v \in AtomSet(p)
    BY <1>2 DEF Usable, Inst
  <2> QED BY <1>2, <2>1, AtomValue DEF Amounts
<1> QED BY <1>1, <1>2

(* Before anything is replaced.                                               *)
LEMMA RightAtFirst ==
  ASSUME NEW p \in Programs
  PROVE  Plain(p.code) /\ \E W : Right(p, p.code, W)
<1> DEFINE n == Len(p.code)
           W == [i \in 1 .. n |-> p.value[i]]
<1>1. n \in Nat /\ Plain(p.code) /\ \E S : p.code \in Seq(S)
  BY CodeOf
<1>2. W \in [1 .. n -> Results]
  BY ProgramAssumption DEF Results
<1>3. ASSUME NEW i \in 1 .. n PROVE p.code[i].args \in Seq(Usable(p, p.code)) /\ Kept(p, p.code, W, i)
  <2>1. p.code[i].args \in Seq(Operands(p))
    BY CodeOf
  <2>2. Operands(p) \subseteq Usable(p, p.code)
    BY OperandUsable
  <2>3. p.code[i].args \in Seq(Usable(p, p.code))
    BY <2>1, <2>2
  <2>4. ASSUME NEW k \in 1 .. Len(p.code[i].args)
        PROVE  Amounts(p, W, p.code[i].args[k]) = ValueOf(p, p.code[i].args[k])
    <3> DEFINE v == p.code[i].args[k]
    <3>1. v \in Operands(p)
      BY <2>1, ElementOfSeq
    <3> HIDE DEF v
    <3>2. v.kind = "inst" => v.of \in 1 .. n
      BY <3>1, OperandUsable
    <3>3. Amounts(p, W, v) = ValueOf(p, v)
      BY <3>2 DEF Amounts, ValueOf
    <3> QED BY <3>3 DEF v
  <2>5. W[i] = p.value[i]
    OBVIOUS
  <2> HIDE DEF W
  <2> QED BY <2>3, <2>4, <2>5 DEF Kept
<1>4. n + 1 .. n = {}
  BY <1>1
<1> HIDE DEF W
<1>5. Right(p, p.code, W)
  BY <1>1, <1>2, <1>3, <1>4 DEF Right
<1> QED BY <1>1, <1>5

(* A new instruction amounts to what it computes, and the others to what they
   did.                                                                       *)
LEMMA RightWhenBuilt ==
  ASSUME NEW p \in Programs, NEW c, NEW W, Right(p, c, W), Plain(c),
         NEW op \in Arithmetic \ Divisions, NEW args \in Seq(Usable(p, c)), Len(args) = 2,
         NEW r \in Results, r = Compute(op, Amounts(p, W, args[1]), Amounts(p, W, args[2]))
  PROVE  \E V : LET d == Append(c, [op |-> op, args |-> args])
                    v == Inst(Len(c) + 1)
                IN  /\ Right(p, d, V) /\ Plain(d)
                    /\ \A u \in Usable(p, c) : u \in Usable(p, d) /\ Amounts(p, V, u) = Amounts(p, W, u)
                    /\ v \in Usable(p, d) /\ Amounts(p, V, v) = r
<1> DEFINE x == [op |-> op, args |-> args]
           d == Append(c, x)
           n == Len(c)
           V == [i \in 1 .. n + 1 |-> IF i = n + 1 THEN r ELSE W[i]]
           v == Inst(n + 1)
<1>1. PICK S : c \in Seq(S)
  BY DEF Right
<1>2. x.op = op /\ x.args = args /\ x = [op |-> x.op, args |-> x.args]
  OBVIOUS
<1> HIDE DEF x
<1>3. /\ n \in Nat /\ d \in Seq(S \cup {x}) /\ Len(d) = n + 1 /\ d[n + 1] = x
      /\ \A i \in 1 .. n : d[i] = c[i]
  <2>1. c \in Seq(S \cup {x}) /\ x \in S \cup {x}
    BY <1>1
  <2> DEFINE Z == S \cup {x}
  <2> HIDE DEF Z
  <2>2. c \in Seq(Z) /\ x \in Z
    BY <2>1 DEF Z
  <2>3. n \in Nat /\ d \in Seq(Z) /\ Len(d) = n + 1 /\ d[n + 1] = x /\ \A i \in 1 .. n : d[i] = c[i]
    BY <2>2, AppendProperties
  <2> QED BY <2>3 DEF Z
<1>4. /\ W \in [1 .. n -> Results] /\ Len(p.code) <= n /\ Len(p.code) \in Nat
      /\ V \in [1 .. n + 1 -> Results] /\ V[n + 1] = r /\ \A i \in 1 .. n : V[i] = W[i]
  <2>1. W \in [1 .. n -> Results] /\ Len(p.code) <= n /\ Len(p.code) \in Nat
    BY CodeOf DEF Right
  <2> QED BY <2>1, <1>3
<1> HIDE DEF d, V
<1>5. ASSUME NEW u \in Usable(p, c) PROVE u \in Usable(p, d) /\ Amounts(p, V, u) = Amounts(p, W, u)
  <2>1. 1 .. n \subseteq 1 .. n + 1
    BY <1>3
  <2>2. u \in AtomSet(p) \cup {Inst(i) : i \in 1 .. Len(d)}
    BY <1>3, <2>1 DEF Usable
  <2>3. u.kind = "inst" => u.of \in 1 .. n /\ u.of \in 1 .. n + 1 /\ c[u.of].op \in Arithmetic \cup {"Reduced"}
    BY <2>1 DEF Usable
  <2> QED BY <1>3, <1>4, <2>2, <2>3 DEF Usable, Amounts
<1>6. v \in Usable(p, d) /\ Amounts(p, V, v) = r
  <2>1. v.kind = "inst" /\ v.of = n + 1 /\ n + 1 \in 1 .. n + 1
    BY <1>3 DEF Inst
  <2> QED BY <1>2, <1>3, <1>4, <2>1 DEF Usable, Amounts
<1>7. ASSUME NEW i \in 1 .. n
      PROVE  /\ i \in 1 .. n + 1 /\ c[i].args \in Seq(Usable(p, c)) /\ c[i].args \in Seq(Usable(p, d))
             /\ \A k \in 1 .. Len(c[i].args) :
                  Amounts(p, V, c[i].args[k]) = Amounts(p, W, c[i].args[k])
  <2>1. i \in 1 .. n + 1 /\ c[i].args \in Seq(Usable(p, c))
    BY <1>3 DEF Right
  <2> DEFINE U == Usable(p, c)
             as == c[i].args
  <2> HIDE DEF U, as
  <2>2. as \in Seq(U)
    BY <2>1 DEF U, as
  <2>3. \A k \in 1 .. Len(as) : as[k] \in U
    BY <2>2, ElementOfSeq
  <2>4. \A k \in 1 .. Len(as) : Amounts(p, V, as[k]) = Amounts(p, W, as[k])
    BY <1>5, <2>3 DEF U
  <2>5. U \subseteq Usable(p, d)
    BY <1>5 DEF U
  <2>6. as \in Seq(Usable(p, d))
    BY <2>2, <2>5, SeqMonotonic, Zenon
  <2> QED BY <2>1, <2>4, <2>6 DEF as
<1>8. ASSUME NEW i \in 1 .. Len(p.code) PROVE Kept(p, d, V, i)
  <2>1. i \in 1 .. n
    BY <1>4, <1>3
  <2>2. Kept(p, c, W, i)
    BY DEF Right
  <2>3. d[i] = c[i] /\ V[i] = W[i]
    BY <1>3, <1>4, <2>1
  <2>4. \A k \in 1 .. Len(c[i].args) : Amounts(p, V, c[i].args[k]) = Amounts(p, W, c[i].args[k])
    BY <1>7, <2>1
  <2> QED BY <2>2, <2>3, <2>4, Zenon DEF Kept
<1>9. args \in Seq(Usable(p, d))
  <2>1. Usable(p, c) \subseteq Usable(p, d)
    BY <1>5
  <2> QED BY <2>1
<1>10. ASSUME NEW i \in Len(p.code) + 1 .. Len(d) PROVE Built(p, d, V, i)
  <2>1. CASE i = n + 1
    <3>1. args[1] \in Usable(p, c) /\ args[2] \in Usable(p, c)
      <4> DEFINE U == Usable(p, c)
      <4> HIDE DEF U
      <4>1. args \in Seq(U) /\ 1 \in 1 .. Len(args) /\ 2 \in 1 .. Len(args)
        BY DEF U
      <4>2. args[1] \in U /\ args[2] \in U
        BY <4>1, ElementOfSeq
      <4> QED BY <4>2 DEF U
    <3>2. Amounts(p, V, args[1]) = Amounts(p, W, args[1]) /\ Amounts(p, V, args[2]) = Amounts(p, W, args[2])
      BY <1>5, <3>1
    <3> QED BY <1>2, <1>3, <1>4, <2>1, <3>2 DEF Built
  <2>2. CASE i # n + 1
    <3>1. i \in 1 .. n /\ i \in Len(p.code) + 1 .. n
      BY <1>3, <1>4, <2>2
    <3>2. Built(p, c, W, i)
      BY <3>1 DEF Right
    <3>3. 1 \in 1 .. Len(c[i].args) /\ 2 \in 1 .. Len(c[i].args)
      BY <3>2 DEF Built
    <3> QED BY <1>3, <1>4, <1>7, <3>1, <3>2, <3>3 DEF Built
  <2> QED BY <2>1, <2>2
<1>11. ASSUME NEW i \in 1 .. Len(d)
       PROVE  /\ d[i].args \in Seq(Usable(p, d))
              /\ d[i] = [op |-> d[i].op, args |-> d[i].args] /\ d[i].op # "Reduced"
  <2>1. CASE i = n + 1
    BY <2>1, <1>2, <1>3, <1>9, CodeOf
  <2>2. CASE i # n + 1
    <3>1. i \in 1 .. n /\ d[i] = c[i]
      BY <1>3, <2>2
    <3> QED BY <1>7, <3>1 DEF Plain
  <2> QED BY <2>1, <2>2
<1>12. Right(p, d, V) /\ Plain(d)
  <2>1. Len(p.code) <= Len(d)
    BY <1>3, <1>4
  <2>2. \E Z : d \in Seq(Z)
    BY <1>3
  <2>3. V \in [1 .. Len(d) -> Results]
    BY <1>3, <1>4
  <2> QED BY <1>8, <1>10, <1>11, <2>1, <2>2, <2>3 DEF Right, Plain
<1> QED BY <1>5, <1>6, <1>12 DEF d, x

LEMMA PartsOf ==
  ASSUME NEW o, NEW as, NEW x, x = [op |-> o, args |-> as]
  PROVE  x.op = o /\ x.args = as /\ x = [op |-> x.op, args |-> x.args]
OBVIOUS

(* An operand for one that amounts to the same.                               *)
LEMMA RightWhenReplaced ==
  ASSUME NEW p \in Programs, NEW c, NEW W, Right(p, c, W), Plain(c),
         NEW i0 \in 1 .. Len(p.code), NEW best \in Usable(p, c), Amounts(p, W, best) = p.value[i0],
         NEW d, d = [i \in DOMAIN c |-> [c[i] EXCEPT !.args =
                       [k \in DOMAIN @ |-> IF @[k] = Inst(i0) THEN best ELSE @[k]]]]
  PROVE  Right(p, d, W) /\ Plain(d) /\ Usable(p, d) = Usable(p, c)
<1> DEFINE n == Len(c)
           Sub(s) == [k \in DOMAIN s |-> IF s[k] = Inst(i0) THEN best ELSE s[k]]
<1>1. PICK S : c \in Seq(S)
  BY DEF Right
<1>2. n \in Nat /\ DOMAIN c = 1 .. n /\ Len(p.code) \in Nat /\ Len(p.code) <= n
  <2>1. n \in Nat /\ DOMAIN c = 1 .. n
    BY <1>1, LenProperties
  <2> QED BY <2>1, CodeOf DEF Right
<1>3. \A i \in 1 .. n : d[i].op = c[i].op /\ d[i].args = Sub(c[i].args) /\ d[i] = [op |-> d[i].op, args |-> d[i].args]
  <2> SUFFICES ASSUME NEW i \in 1 .. n
               PROVE  d[i].op = c[i].op /\ d[i].args = Sub(c[i].args) /\ d[i] = [op |-> d[i].op, args |-> d[i].args]
    OBVIOUS
  <2>1. c[i] = [op |-> c[i].op, args |-> c[i].args]
    BY DEF Plain
  <2>2. d[i] = [c[i] EXCEPT !.args = Sub(c[i].args)]
    BY <1>2
  <2> DEFINE o == c[i].op
             t == Sub(c[i].args)
             x == d[i]
  <2>3. x = [op |-> o, args |-> t]
    BY <2>1, <2>2 DEF Sub
  <2> HIDE DEF o, t, x
  <2>4. x.op = o /\ x.args = t /\ x = [op |-> x.op, args |-> x.args]
    BY <2>3, PartsOf
  <2> QED BY <2>4 DEF o, t, x
<1>4. DOMAIN d = 1 .. n
  BY <1>2
<1>5. d \in Seq({d[i] : i \in 1 .. n}) /\ Len(d) = n
  <2> DEFINE Z == {d[i] : i \in 1 .. n}
  <2>1. d \in [1 .. n -> Z]
    BY <1>4
  <2> HIDE DEF Z
  <2>2. d \in Seq(Z)
    BY <1>2, <2>1, SeqDef
  <2>3. Len(d) = n
    BY <1>2, <1>4, <2>2, LenProperties
  <2> QED BY <2>2, <2>3 DEF Z
<1>6. Usable(p, d) = Usable(p, c)
  BY <1>2, <1>3, <1>5 DEF Usable
<1>7. \A i \in 1 .. Len(p.code) : W[i] = p.value[i]
  BY DEF Right, Kept
<1>8. Amounts(p, W, Inst(i0)) = Amounts(p, W, best)
  BY <1>7 DEF Amounts, Inst
<1>9. ASSUME NEW i \in 1 .. n
      PROVE  /\ d[i].args \in Seq(Usable(p, d)) /\ Len(d[i].args) = Len(c[i].args)
             /\ \A k \in 1 .. Len(d[i].args) : Amounts(p, W, d[i].args[k]) = Amounts(p, W, c[i].args[k])
  <2> DEFINE U == Usable(p, c)
             as == c[i].args
             m == Len(as)
             bs == Sub(as)
  <2> HIDE DEF U
  <2>1. as \in Seq(U)
    BY DEF Right, U
  <2> HIDE DEF as
  <2>2. m \in Nat /\ DOMAIN as = 1 .. m /\ \A k \in 1 .. m : as[k] \in U
    BY <2>1, LenProperties, ElementOfSeq
  <2>3. best \in U
    BY DEF U
  <2>4. bs \in [1 .. m -> U]
    BY <2>2, <2>3
  <2>5. \A k \in 1 .. m : Amounts(p, W, bs[k]) = Amounts(p, W, as[k])
    BY <1>8, <2>2
  <2> HIDE DEF bs
  <2>6. bs \in Seq(U) /\ Len(bs) = m
    <3>1. bs \in Seq(U)
      BY <2>2, <2>4, SeqDef
    <3>2. DOMAIN bs = 1 .. m /\ m \in Nat
      BY <2>2, <2>4
    <3> HIDE DEF m
    <3>3. Len(bs) \in Nat /\ 1 .. Len(bs) = 1 .. m
      BY <3>1, <3>2, LenProperties
    <3>4. Len(bs) = m
      BY <3>2, <3>3
    <3> QED BY <3>1, <3>4
  <2>7. d[i].args = bs
    BY <1>3 DEF bs, as
  <2> QED BY <2>5, <2>6, <2>7, <1>6 DEF as, U
<1> HIDE DEF Sub
<1>10. ASSUME NEW i \in 1 .. Len(p.code) PROVE Kept(p, d, W, i)
  <2>1. i \in 1 .. n
    BY <1>2
  <2>2. Kept(p, c, W, i) /\ c[i] = [op |-> c[i].op, args |-> c[i].args]
    BY <2>1 DEF Right, Plain
  <2>3. d[i].op = c[i].op
    BY <1>3, <2>1
  <2>4. /\ Len(d[i].args) = Len(c[i].args)
        /\ \A k \in 1 .. Len(d[i].args) : Amounts(p, W, d[i].args[k]) = Amounts(p, W, c[i].args[k])
    BY <2>1, <1>9, Zenon
  <2>5. \A k \in 1 .. Len(d[i].args) : Amounts(p, W, d[i].args[k]) = ValueOf(p, p.code[i].args[k])
    BY <2>2, <2>4, Zenon DEF Kept
  <2>6. c[i].op # "Reduced"
    BY <2>1 DEF Plain
  <2>7. c[i].op = p.code[i].op /\ Len(c[i].args) = Len(p.code[i].args)
    BY <2>2, <2>6, Zenon DEF Kept
  <2> QED BY <2>2, <2>3, <2>4, <2>5, <2>7, Zenon DEF Kept
<1>11. ASSUME NEW i \in Len(p.code) + 1 .. Len(d) PROVE Built(p, d, W, i)
  <2>1. i \in 1 .. n /\ i \in Len(p.code) + 1 .. n
    BY <1>2, <1>5
  <2>2. Built(p, c, W, i) /\ d[i].op = c[i].op
    BY <1>3, <2>1 DEF Right
  <2>3. Len(c[i].args) = 2
    BY <2>2 DEF Built
  <2>4. 1 \in 1 .. Len(d[i].args) /\ 2 \in 1 .. Len(d[i].args) /\ Len(d[i].args) = 2
    <3> DEFINE m == Len(d[i].args)
    <3>1. m = Len(c[i].args)
      BY <2>1, <1>9
    <3>2. m = 2
      BY <2>3, <3>1
    <3> HIDE DEF m
    <3>3. 1 \in 1 .. m /\ 2 \in 1 .. m
      BY <3>2
    <3> QED BY <3>2, <3>3 DEF m
  <2>5. /\ Amounts(p, W, d[i].args[1]) = Amounts(p, W, c[i].args[1])
        /\ Amounts(p, W, d[i].args[2]) = Amounts(p, W, c[i].args[2])
    BY <2>1, <2>4, <1>9
  <2> QED BY <2>2, <2>4, <2>5, Zenon DEF Built
<1>12. Right(p, d, W)
  <2>1. \E Z : d \in Seq(Z)
    BY <1>5
  <2>2. \A i \in 1 .. Len(d) : d[i].args \in Seq(Usable(p, d))
    BY <1>5, <1>9
  <2>3. W \in [1 .. Len(d) -> Results]
    BY <1>5 DEF Right
  <2> QED BY <1>2, <1>5, <1>10, <1>11, <2>1, <2>2, <2>3 DEF Right
<1>13. Plain(d)
  <2>1. \A i \in 1 .. n : c[i].op # "Reduced"
    BY DEF Plain
  <2> QED BY <1>3, <1>5, <2>1 DEF Plain
<1> QED BY <1>6, <1>12, <1>13

(* A list that is not empty has a cheapest node.                              *)
LEMMA CheapestIn ==
  ASSUME NEW s, NEW n \in Nat \ {0}, DOMAIN s = 1 .. n
  PROVE  \E k \in 1 .. n : Cheapest(s) = s[k] /\ \A l \in 1 .. n : CostOf(s[k]) <= CostOf(s[l])
<1> DEFINE costs == {CostOf(s[k]) : k \in 1 .. n}
<1>1. \A k \in 1 .. n : CostOf(s[k]) \in Nat
  BY DEF CostOf, Cost
<1>2. costs \in SUBSET Nat /\ costs # {}
  <2>1. 1 \in 1 .. n
    OBVIOUS
  <2> QED BY <1>1, <2>1
<1>3. PICK m \in costs : \A x \in costs : m <= x
  BY <1>2, LeastElement
<1> DEFINE K == {k \in 1 .. n : CostOf(s[k]) = m}
<1>4. K \in SUBSET Nat /\ K # {}
  BY <1>3
<1>5. PICK k \in K : \A l \in K : k <= l
  BY <1>4, LeastElement
<1>6. k \in 1 .. n /\ CostOf(s[k]) = m /\ \A l \in 1 .. n : m <= CostOf(s[l])
  BY <1>3, <1>5
<1>7. \A l \in 1 .. k - 1 : CostOf(s[k]) < CostOf(s[l])
  <2> SUFFICES ASSUME NEW l \in 1 .. k - 1 PROVE CostOf(s[k]) < CostOf(s[l])
    OBVIOUS
  <2>1. l \in 1 .. n /\ ~(k <= l) /\ l \in Nat
    BY <1>6
  <2>2. l \notin K
    BY <1>5, <2>1
  <2>3. CostOf(s[l]) # m /\ CostOf(s[l]) \in Nat /\ m \in Nat /\ m <= CostOf(s[l])
    BY <1>1, <1>6, <2>1, <2>2
  <2> QED BY <2>3, <1>6
<1> DEFINE P(j) == /\ \A l \in DOMAIN s : CostOf(s[j]) <= CostOf(s[l])
                   /\ \A l \in 1 .. j - 1 : CostOf(s[j]) < CostOf(s[l])
<1>8. \E j \in DOMAIN s : P(j)
  BY <1>6, <1>7
<1>9. Cheapest(s) = s[CHOOSE j \in DOMAIN s : P(j)]
  BY DEF Cheapest
<1>10. \A j : P(j) => \A l \in 1 .. n : CostOf(s[j]) <= CostOf(s[l])
  OBVIOUS
<1> HIDE DEF P
<1> QED BY <1>8, <1>9, <1>10

(* A node none of whose children is missing has them extracted.               *)
LEMMA NoneMissing ==
  ASSUME NEW n, DOMAIN n.children = 1 .. 2, Missing(n) = {}
  PROVE  \A k \in 1 .. 2 : graph.rep[n.children[k]] \in DOMAIN extracted
<1> DEFINE todo == {k \in DOMAIN n.children : graph.rep[n.children[k]] \notin DOMAIN extracted}
<1>1. FirstFrom(todo, 1) = {}
  BY DEF Missing
<1>2. CASE 1 \in todo
  <2>1. 1 \in FirstFrom(todo, 1)
    BY <1>2 DEF FirstFrom
  <2> QED BY <1>1, <2>1
<1>3. CASE 1 \notin todo /\ 2 \in todo
  <2>1. 2 \in FirstFrom(todo, 1)
    BY <1>3 DEF FirstFrom
  <2> QED BY <1>1, <2>1
<1>4. CASE 1 \notin todo /\ 2 \notin todo
  BY <1>4
<1> QED BY <1>2, <1>3, <1>4

(* What was extracted for a class amounts to what the class was made for.     *)
Taken(p, c, W, g, ex) ==
  \A k \in DOMAIN ex : k \in Ids(g) /\ ex[k] \in Usable(p, c) /\ Amounts(p, W, ex[k]) = g.val[k]

Extracting(p, c, W, g, ex, s) ==
  Right(p, c, W) /\ Plain(c) /\ Taken(p, c, W, g, ex) /\ s \in Seq(Ids(g))

(* The inductive invariant of the e-graph: the code is the program's until
   something is extracted, and amounts to it from then on.                    *)
Following ==
  /\ Agreeing
  /\ phase \in {"add", "rules", "merge", "rebuild"} =>
       code = program.code /\ DOMAIN extracted = {} /\ extracting = <<>>
  /\ phase \notin {"add", "done"} => roots # <<>>
  /\ phase = "extract" =>
       /\ at \in Nat \ {0}
       /\ Exact(program) => \E W : Extracting(program, code, W, graph, extracted, extracting)
  /\ phase = "done" /\ (roots # <<>> => Exact(program)) => \E W : Right(program, code, W)

(* Until something is extracted.                                              *)
Before == phase \in {"add", "rules", "merge", "rebuild"}

LEMMA StepBefore ==
  ASSUME Following, Agreeing', Before, UNCHANGED <<program, code, extracts>>,
         phase' \in {"add", "rules", "merge", "rebuild", "extract", "done"},
         phase = "add" => phase' = "add" \/ (phase' # "done" => roots # <<>>),
         phase # "add" => phase' # "add",
         roots' = roots \/ (phase = "add" /\ phase' = "add"),
         phase' = "extract" => at' = 1
  PROVE  Following'
<1>1. /\ program' = program /\ code' = program.code /\ DOMAIN extracted' = {} /\ extracting' = <<>>
      /\ program \in Programs
  BY DEF Following, Before, extracts, Agreeing
<1>2. phase' \notin {"add", "done"} => roots' # <<>>
  BY DEF Following, Before
<1>3. \E W : Right(program, program.code, W) /\ Plain(program.code)
  BY <1>1, RightAtFirst
<1>4. \E W : Extracting(program, program.code, W, graph', extracted', extracting')
  <2>1. <<>> \in Seq(Ids(graph'))
    BY EmptySeq
  <2> QED BY <1>1, <1>3, <2>1 DEF Extracting, Taken
<1> QED BY <1>1, <1>2, <1>3, <1>4 DEF Following

LEMMA StepsBefore ==
  ASSUME Following, Next, ~(BeginExtraction \/ ExtractBest \/ Replace \/ EndOfExtraction)
  PROVE  Following'
<1>1. Agreeing'
  BY Inductive DEF Following
<1>2. CASE BeginCandidate \/ AddOperand \/ AddTop
  BY <1>1, <1>2, StepBefore DEF BeginCandidate, AddOperand, AddTop, Before
<1>3. CASE EndOfCandidates
  BY <1>1, <1>3, StepBefore DEF EndOfCandidates, StartLoop, Before, adds
<1>4. CASE Identity \/ Cancel \/ Cheapen
  BY <1>1, <1>4, StepBefore DEF Identity, Cancel, Cheapen, Matches, Before, adds, extracts, Equate, rebuilds
<1>5. CASE NextNode \/ EndOfClass \/ EndOfRules
  BY <1>1, <1>5, StepBefore DEF NextNode, EndOfClass, EndOfRules, NextClass, Before, adds
<1>6. CASE MergeNext \/ EndOfMerges
  BY <1>1, <1>6, StepBefore DEF MergeNext, EndOfMerges, StartLoop, Before, adds
<1>7. CASE RebuildNode \/ RebuildEndOfClass
  BY <1>1, <1>7, StepBefore DEF RebuildNode, RebuildEndOfClass, StartLoop, NextClass, Before, adds
<1> QED BY <1>2, <1>3, <1>4, <1>5, <1>6, <1>7 DEF Next

(* A call of extractBest begins, or ends, or all do.                          *)
LEMMA Stacked ==
  ASSUME NEW S, NEW s \in Seq(S)
  PROVE  /\ \A x \in S : Append(s, x) \in Seq(S) /\ <<x>> \in Seq(S)
         /\ <<>> \in Seq(S)
         /\ s # <<>> => Top(s) \in S /\ Pop(s) \in Seq(S)
<1>1. s # <<>> => Top(s) \in S
  BY DEF Top
<1>2. s # <<>> => Pop(s) \in Seq(S)
  <2> DEFINE n == Len(s) - 1
  <2>1. \A i \in 1 .. n : s[i] \in S
    OBVIOUS
  <2>2. n \in Int
    OBVIOUS
  <2> HIDE DEF n
  <2>3. SubSeq(s, 1, n) \in Seq(S)
    BY <2>1, <2>2, SubSeqProperties
  <2> QED BY <2>3 DEF Pop, n
<1> QED BY <1>1, <1>2

LEMMA StepBeginExtraction == ASSUME Following, BeginExtraction PROVE Following'
<1>1. Agreeing'
  BY StepExtract DEF Following
<1>2. /\ phase = "extract" /\ at <= Len(roots) /\ extracting' = <<graph.rep[roots[at].id]>>
      /\ UNCHANGED <<program, code, phase, graph, roots, at, extracted>>
  BY DEF BeginExtraction, adds, cursor
<1>3. ASSUME Exact(program)
      PROVE  \E W : Extracting(program, code, W, graph, extracted, extracting')
  <2>1. PICK W : Extracting(program, code, W, graph, extracted, extracting)
    BY <1>2, <1>3 DEF Following
  <2>2. RootsOk(program, graph, roots) /\ GoodClasses(graph) /\ at \in Nat \ {0}
    BY <1>2, <1>3 DEF Following, Agreeing, InProgress, GoodGraph
  <2>3. Len(roots) \in Nat
    BY <2>2 DEF RootsOk
  <2>4. at \in 1 .. Len(roots)
    BY <1>2, <2>2, <2>3
  <2>5. graph.rep[roots[at].id] \in Ids(graph)
    BY <2>2, <2>4 DEF RootsOk, GoodClasses
  <2>6. extracting' \in Seq(Ids(graph))
    BY <1>2, <2>1, <2>5, Stacked DEF Extracting
  <2> QED BY <2>1, <2>6 DEF Extracting
<1> QED BY <1>1, <1>2, <1>3 DEF Following

(* An atom is usable: the program refers to it, or it is a constant.          *)
LEMMA AtomUsable ==
  ASSUME NEW p \in Programs, NEW c, NEW W, Right(p, c, W), NEW v \in AtomSet(p)
  PROVE  v \in Usable(p, c) /\ Amounts(p, W, v) = ValueOf(p, v)
<1>1. CASE v.kind # "inst"
  BY <1>1 DEF Usable, Amounts
<1>2. CASE v.kind = "inst"
  <2>1. v.of \in 1 .. Len(p.code) /\ p.code[v.of].op \in Arithmetic
    BY <1>2 DEF AtomSet, Operands, Inst, Leaf, Const, Made
  <2>2. Kept(p, c, W, v.of) /\ Len(p.code) <= Len(c)
    BY <2>1 DEF Right
  <2>3. v.of \in 1 .. Len(c)
    <3>1. PICK S : c \in Seq(S)
      BY DEF Right
    <3>2. Len(c) \in Nat /\ Len(p.code) \in Nat
      BY <3>1, CodeOf
    <3> QED BY <2>1, <2>2, <3>2
  <2>4. c[v.of].op \in Arithmetic \cup {"Reduced"}
    BY <2>1, <2>2, Zenon DEF Kept
  <2>5. W[v.of] = p.value[v.of]
    BY <2>2, Zenon DEF Kept
  <2> QED BY <1>2, <2>3, <2>4, <2>5 DEF Usable, Amounts, ValueOf
<1> QED BY <1>1, <1>2

(* What is extracted next amounts to what its class was made for.             *)
LEMMA TakenNext ==
  ASSUME NEW p, NEW c, NEW W, NEW g, NEW d, NEW V, NEW ex, Taken(p, c, W, g, ex),
         \A u \in Usable(p, c) : u \in Usable(p, d) /\ Amounts(p, V, u) = Amounts(p, W, u),
         NEW k \in Ids(g), NEW v \in Usable(p, d), Amounts(p, V, v) = g.val[k],
         NEW ey, DOMAIN ey = DOMAIN ex \cup {k}, ey[k] = v, \A j \in DOMAIN ex : j # k => ey[j] = ex[j]
  PROVE  Taken(p, d, V, g, ey)
BY DEF Taken

(* The node extractBest takes stands for the class it is called for.          *)
LEMMA BestNode ==
  ASSUME NEW p \in Programs, NEW g, GoodGraph(p, g), NEW k \in Ids(g), Entry(g, k) # <<>>
  PROVE  Stands(p, g, Cheapest(Entry(g, k)), k)
<1> DEFINE s == Entry(g, k)
<1>1. k \in DOMAIN g.classes /\ s = g.classes[k]
  BY DEF Entry
<1>2. Listed(p, g, k, s)
  BY <1>1 DEF GoodGraph
<1>3. s \in Seq(NodeSet(p)) /\ s # <<>> /\ \A j \in 1 .. Len(s) : Stands(p, g, s[j], k)
  BY <1>2 DEF Listed
<1> HIDE DEF s
<1>4. Len(s) \in Nat \ {0} /\ DOMAIN s = 1 .. Len(s)
  <2>1. s \in Seq(NodeSet(p))
    BY <1>3
  <2> DEFINE Z == NodeSet(p)
  <2> HIDE DEF Z
  <2>2. s \in Seq(Z)
    BY <2>1 DEF Z
  <2> QED BY <2>2, <1>3, LenProperties, EmptySeq
<1>5. PICK j \in 1 .. Len(s) : Cheapest(s) = s[j]
  BY <1>4, CheapestIn
<1> QED BY <1>3, <1>5 DEF s

LEMMA StepExtractBest == ASSUME Following, ExtractBest PROVE Following'
<1>1. Agreeing'
  BY StepExtract DEF Following
<1> DEFINE k == Top(extracting)
           nodes == Entry(graph, k)
           best == Cheapest(nodes)
<1>2. /\ phase = "extract" /\ extracting # <<>> /\ UNCHANGED <<program, graph, roots>>
      /\ \/ nodes = <<>> /\ GiveUp
         \/ nodes # <<>> /\ IsAtom(best) /\ TakeAtom(best)
         \/ /\ nodes # <<>> /\ ~IsAtom(best)
            /\ \/ \E c \in Missing(best) : ExtractChild(c)
               \/ Missing(best) = {} /\ best.op \in Buildable /\ Build(best)
               \/ Missing(best) = {} /\ best.op \notin Buildable /\ GiveUp
  BY DEF ExtractBest, adds
<1>3. roots # <<>> /\ at \in Nat \ {0} /\ program \in Programs
  BY <1>2 DEF Following, Agreeing
<1>4. at' \in Nat \ {0} /\ phase' \in {"extract", "overflow"}
  BY <1>2, <1>3 DEF GiveUp, TakeAtom, ExtractChild, Build
<1>5. ASSUME Exact(program), phase' = "extract"
      PROVE  \E W : Extracting(program, code', W, graph, extracted', extracting')
  <2>1. PICK W : Extracting(program, code, W, graph, extracted, extracting)
    BY <1>2, <1>5 DEF Following
  <2>2. GoodGraph(program, graph)
    BY <1>5 DEF Following, Agreeing
  <2>3. /\ Right(program, code, W) /\ Plain(code) /\ Taken(program, code, W, graph, extracted)
        /\ extracting \in Seq(Ids(graph))
    BY <2>1 DEF Extracting
  <2>4. k \in Ids(graph) /\ Pop(extracting) \in Seq(Ids(graph)) /\ <<>> \in Seq(Ids(graph))
    BY <1>2, <2>3, Stacked
  <2> HIDE DEF k
  <2>5. CASE GiveUp
    <3>1. code' = code /\ extracted' = extracted /\ extracting' = <<>>
      BY <2>5 DEF GiveUp
    <3> QED BY <2>3, <2>4, <3>1 DEF Extracting
  <2>6. CASE nodes # <<>> /\ IsAtom(best) /\ TakeAtom(best)
    <3>1. Stands(program, graph, best, k)
      BY <1>3, <2>2, <2>4, <2>6, BestNode
    <3> HIDE DEF best
    <3>2. PICK v \in AtomSet(program) : best = Atom(v)
      <4>1. ASSUME NEW op, NEW x, NEW y, best = Node(op, x, y) PROVE FALSE
        BY <2>6, <4>1, NodeParts
      <4> QED BY <3>1, <4>1 DEF Stands, GoodNode
    <3>3. best.atom = v /\ ValueOf(program, v) = graph.val[k]
      BY <2>6, <3>1, <3>2 DEF Stands, Denotation, Atom
    <3>4. v \in Usable(program, code) /\ Amounts(program, W, v) = graph.val[k]
      BY <1>3, <2>3, <3>3, AtomUsable
    <3>5. /\ code' = code /\ extracting' = Pop(extracting)
          /\ extracted' = [j \in DOMAIN extracted \cup {k} |-> IF j = k THEN v ELSE extracted[j]]
      BY <2>6, <3>3 DEF TakeAtom, Extracted, k
    <3>6. Taken(program, code, W, graph, extracted')
      <4>1. PICK ey : ey = extracted'
        OBVIOUS
      <4>2. Taken(program, code, W, graph, extracted)
        BY <2>3
      <4>3. \A u \in Usable(program, code) :
              u \in Usable(program, code) /\ Amounts(program, W, u) = Amounts(program, W, u)
        OBVIOUS
      <4>4. /\ DOMAIN ey = DOMAIN extracted \cup {k} /\ ey[k] = v
            /\ \A j \in DOMAIN extracted : j # k => ey[j] = extracted[j]
        BY <3>5, <4>1
      <4>5. Taken(program, code, W, graph, ey)
        BY <2>4, <3>4, <4>2, <4>3, <4>4, TakenNext
      <4> QED BY <4>1, <4>5
    <3> QED BY <2>3, <2>4, <3>5, <3>6 DEF Extracting
  <2>7. CASE nodes # <<>> /\ ~IsAtom(best)
    <3>1. Stands(program, graph, best, k)
      BY <1>3, <2>2, <2>4, <2>7, BestNode
    <3> HIDE DEF best
    <3>2. PICK op \in Arithmetic, x \in Ids(graph), y \in Ids(graph) : best = Node(op, x, y)
      <4>1. ASSUME NEW v \in AtomSet(program), best = Atom(v) PROVE FALSE
        BY <1>3, <2>7, <4>1, AtomValue DEF IsAtom, Atom
      <4> QED BY <3>1, <4>1 DEF Stands, GoodNode
    <3>3. /\ best.op = op /\ best.children = <<x, y>> /\ best.children[1] = x /\ best.children[2] = y
          /\ DOMAIN best.children = 1 .. 2
      BY <3>2, NodeParts
    <3>4. Compute(op, graph.val[x], graph.val[y]) = graph.val[k]
      BY <2>7, <3>1, <3>3 DEF Stands, Denotation
    <3>5. /\ graph.rep[x] \in Ids(graph) /\ graph.rep[y] \in Ids(graph)
          /\ graph.val[graph.rep[x]] = graph.val[x] /\ graph.val[graph.rep[y]] = graph.val[y]
          /\ graph.val[k] \in Results
      BY <2>2, <2>4, <3>2 DEF GoodGraph, GoodClasses, Ids
    <3>6. ASSUME NEW c \in Missing(best), ExtractChild(c)
          PROVE  Extracting(program, code', W, graph, extracted', extracting')
      <4>1. c \in Ids(graph)
        <5>1. PICK j \in DOMAIN best.children : c = graph.rep[best.children[j]]
          BY FirstFromIn DEF Missing
        <5> QED BY <3>3, <3>5, <5>1
      <4>2. code' = code /\ extracted' = extracted /\ extracting' = Append(extracting, c)
        BY <1>5, <3>6 DEF ExtractChild
      <4>3. extracting' \in Seq(Ids(graph))
        BY <2>3, <4>1, <4>2, Stacked
      <4> QED BY <2>3, <4>2, <4>3 DEF Extracting
    <3>7. CASE Missing(best) = {} /\ best.op \in Buildable /\ Build(best)
      <4> DEFINE args == [j \in DOMAIN best.children |-> extracted[graph.rep[best.children[j]]]]
                 U == Usable(program, code)
      <4>1. /\ DOMAIN args = 1 .. 2 /\ args[1] = extracted[graph.rep[x]] /\ args[2] = extracted[graph.rep[y]]
            /\ graph.rep[x] \in DOMAIN extracted /\ graph.rep[y] \in DOMAIN extracted
        <5>1. \A j \in 1 .. 2 : graph.rep[best.children[j]] \in DOMAIN extracted
          BY <3>3, <3>7, NoneMissing
        <5> QED BY <3>3, <5>1
      <4>2. /\ args[1] \in U /\ Amounts(program, W, args[1]) = graph.val[x]
            /\ args[2] \in U /\ Amounts(program, W, args[2]) = graph.val[y]
        BY <2>3, <3>5, <4>1 DEF Taken
      <4>3. args \in Seq(U) /\ Len(args) = 2
        <5> HIDE DEF U
        <5>1. args = [j \in 1 .. 2 |-> args[j]]
          BY <3>3
        <5> HIDE DEF args
        <5>2. \A j \in 1 .. 2 : args[j] \in U
          BY <4>2
        <5>3. args \in [1 .. 2 -> U]
          BY <5>1, <5>2
        <5>4. args \in Seq(U)
          BY <5>3, SeqDef
        <5> QED BY <4>1, <5>4, LenProperties
      <4>4. op \in Arithmetic \ Divisions
        BY <3>3, <3>7 DEF Buildable, Divisions
      <4>5. graph.val[k] = Compute(op, Amounts(program, W, args[1]), Amounts(program, W, args[2]))
        BY <3>4, <4>2
      <4>6. /\ code' = Append(code, [op |-> op, args |-> args]) /\ extracting' = Pop(extracting)
            /\ extracted' = [j \in DOMAIN extracted \cup {k} |-> IF j = k THEN Inst(Len(code) + 1) ELSE extracted[j]]
        BY <3>3, <3>7 DEF Build, Extracted, k
      <4> HIDE DEF args, U
      <4>7. PICK V :
              /\ Right(program, code', V) /\ Plain(code')
              /\ \A u \in Usable(program, code) :
                   u \in Usable(program, code') /\ Amounts(program, V, u) = Amounts(program, W, u)
              /\ Inst(Len(code) + 1) \in Usable(program, code')
              /\ Amounts(program, V, Inst(Len(code) + 1)) = graph.val[k]
        <5>1. args \in Seq(Usable(program, code))
          BY <4>3 DEF U
        <5> QED BY <1>3, <2>3, <3>5, <4>3, <4>4, <4>5, <4>6, <5>1, RightWhenBuilt
      <4>8. Taken(program, code', V, graph, extracted')
        <5>1. PICK ey, d, v : ey = extracted' /\ d = code' /\ v = Inst(Len(code) + 1)
          OBVIOUS
        <5>2. Taken(program, code, W, graph, extracted)
          BY <2>3
        <5>3. \A u \in Usable(program, code) :
                u \in Usable(program, d) /\ Amounts(program, V, u) = Amounts(program, W, u)
          BY <4>7, <5>1
        <5>4. v \in Usable(program, d) /\ Amounts(program, V, v) = graph.val[k]
          BY <4>7, <5>1
        <5>5. /\ DOMAIN ey = DOMAIN extracted \cup {k} /\ ey[k] = v
              /\ \A j \in DOMAIN extracted : j # k => ey[j] = extracted[j]
          BY <4>6, <5>1
        <5>6. Taken(program, d, V, graph, ey)
          BY <2>4, <5>2, <5>3, <5>4, <5>5, TakenNext
        <5> QED BY <5>1, <5>6
      <4> QED BY <2>4, <4>6, <4>7, <4>8 DEF Extracting
    <3> QED BY <1>2, <2>5, <2>7, <3>6, <3>7 DEF best
  <2> QED BY <1>2, <2>5, <2>6, <2>7
<1> QED BY <1>1, <1>2, <1>3, <1>4, <1>5 DEF Following

LEMMA StepReplace == ASSUME Following, Replace PROVE Following'
<1>1. Agreeing'
  BY StepExtract DEF Following
<1> DEFINE c == graph.rep[roots[at].id]
           best == extracted[c]
           i0 == roots[at].of
<1>2. /\ phase = "extract" /\ phase' = "extract" /\ at <= Len(roots) /\ at' = at + 1 /\ c \in DOMAIN extracted
      /\ UNCHANGED <<program, graph, roots, extracted, extracting>>
      /\ code' = [i \in DOMAIN code |-> [code[i] EXCEPT !.args =
                    [k \in DOMAIN @ |-> IF @[k] = Inst(i0) THEN best ELSE @[k]]]]
  BY DEF Replace, adds, extracts
<1>3. at \in Nat \ {0} /\ roots # <<>> /\ program \in Programs
  BY <1>2 DEF Following, Agreeing
<1>4. ASSUME Exact(program)
      PROVE  \E W : Extracting(program, code', W, graph, extracted, extracting)
  <2>1. PICK W : Extracting(program, code, W, graph, extracted, extracting)
    BY <1>2, <1>4 DEF Following
  <2>2. RootsOk(program, graph, roots) /\ GoodClasses(graph)
    BY <1>4 DEF Following, Agreeing, InProgress, GoodGraph
  <2>3. at \in 1 .. Len(roots)
    <3>1. Len(roots) \in Nat
      BY <2>2 DEF RootsOk
    <3> QED BY <1>2, <1>3, <3>1
  <2>4. i0 \in 1 .. Len(program.code) /\ graph.val[c] = program.value[i0]
    BY <2>2, <2>3 DEF RootsOk, GoodClasses
  <2>5. best \in Usable(program, code) /\ Amounts(program, W, best) = program.value[i0]
    BY <1>2, <2>1, <2>4 DEF Extracting, Taken
  <2> HIDE DEF c, best, i0
  <2>6. Right(program, code', W) /\ Plain(code') /\ Usable(program, code') = Usable(program, code)
    BY <1>2, <1>3, <2>1, <2>4, <2>5, RightWhenReplaced DEF Extracting
  <2>7. Taken(program, code', W, graph, extracted)
    BY <2>1, <2>6 DEF Extracting, Taken
  <2> QED BY <2>1, <2>6, <2>7 DEF Extracting
<1>5. at' \in Nat \ {0}
  BY <1>2, <1>3
<1> QED BY <1>1, <1>2, <1>3, <1>4, <1>5 DEF Following

LEMMA StepEndOfExtraction == ASSUME Following, EndOfExtraction PROVE Following'
<1>1. Agreeing'
  BY StepExtract DEF Following
<1>2. phase = "extract" /\ phase' = "done" /\ UNCHANGED <<program, code, roots>>
  BY DEF EndOfExtraction, adds
<1> QED BY <1>1, <1>2 DEF Following, Extracting

LEMMA FollowingInductive == Following /\ [Next]_vars => Following'
<1> SUFFICES ASSUME Following, [Next]_vars PROVE Following'
  OBVIOUS
<1>1. CASE Next
  BY <1>1, StepsBefore, StepBeginExtraction, StepExtractBest, StepReplace, StepEndOfExtraction
<1>2. CASE UNCHANGED vars
  <2>1. Agreeing'
    BY <1>2, Inductive DEF Following
  <2> QED BY <1>2, <2>1 DEF Following, vars, adds, cursor, extracts
<1> QED BY <1>1, <1>2

LEMMA FollowingAtFirst == ASSUME NEW p \in {"add", "done"}, Start(p) PROVE Following
<1>1. Agreeing
  BY StartAgreeing
<1>2. phase = p /\ code = program.code /\ DOMAIN extracted = {} /\ extracting = <<>> /\ program \in Programs
  BY DEF Start
<1>3. \E W : Right(program, code, W)
  BY <1>2, RightAtFirst
<1> QED BY <1>1, <1>2, <1>3 DEF Following

(* However the constant a is written, a division by it is reduced to what the
   machine computes.                                                          *)
LEMMA ReductionRight ==
  ASSUME NEW op \in Divisions, NEW a \in Data, NEW d \in {a, AsSigned(a)}, Reducible(op, d),
         NEW n \in Data, op \in {"Udiv", "Urem"} => IsPower(a) \/ n * a < 2 ^ Word,
         op = "Div" => a # 2 ^ (Word - 1)
  PROVE  Reduced(op, d, n) = Apply[op][<<n, a>>]
<1>1. Data = Numerals /\ Numerals = 0 .. Size - 1 /\ Size \in Nat /\ Half \in Nat /\ Size = 2 * Half
  BY DataAssumption, Halves DEF Numerals, Size
<1>2. a \in Int /\ 0 <= a /\ a < Size /\ n \in Int /\ 0 <= n /\ n < Size
  BY <1>1
<1>3. \E j \in {0, -1} : d = a + Size * j
  BY <1>1, <1>2 DEF AsSigned, Half, Size
<1>4. PICK j \in {0, -1} : d = a + Size * j
  BY <1>3
<1>5. d \in Int
  BY <1>1, <1>2, <1>4
<1>6. Wrapped(d) = a /\ Wrapped(a) = a
  <2>1. a = Size * 0 + a /\ 0 \in Int /\ d = Size * j + a /\ j \in Int
    BY <1>1, <1>2, <1>4
  <2> QED BY <1>1, <1>2, <1>5, <2>1, WrappedIs
<1>7. a # 0
  <2> SUFFICES ASSUME a = 0 PROVE FALSE
    OBVIOUS
  <2>1. d # 0
    BY DEF Reducible
  <2>2. AsSigned(0) = 0
    BY Halves DEF AsSigned, Half
  <2> QED BY <2>1, <2>2
<1>8. /\ Apply["Udiv"][<<n, a>>] = n \div a /\ Apply["Urem"][<<n, a>>] = n % a
      /\ Apply["Div"][<<n, a>>] = SignedDiv(n, a) /\ Apply["Rem"][<<n, a>>] = SignedRem(n, a)
  BY <1>7, DataAssumption
<1>9. CASE op \in {"Udiv", "Urem"}
  <2>1. a \in 1 .. 2 ^ Word - 1 /\ n \in 0 .. 2 ^ Word - 1
    BY <1>1, <1>2, <1>7 DEF Size
  <2>2. Reduced("Udiv", a, n) = n \div a /\ Reduced("Urem", a, n) = n % a
    BY <1>9, <2>1, UnsignedExact
  <2>3. /\ Quotient("Udiv", d, n) = Quotient("Udiv", a, n)
        /\ Quotient("Urem", d, n) = Quotient("Urem", a, n)
        /\ Quotient("Urem", a, n) = Quotient("Udiv", a, n)
    BY <1>6 DEF Quotient, IsSigned
  <2>4. Quotient("Udiv", a, n) = n \div a
    BY <2>2 DEF Reduced
  <2>5. CASE op = "Udiv"
    BY <1>8, <2>3, <2>4, <2>5 DEF Reduced
  <2>6. CASE op = "Urem"
    <3> DEFINE q == n \div a
    <3>1. q \in Int
      BY <1>2, <1>7
    <3>2. Wrapped(n - q * a) = n % a
      BY <2>2, <2>3, <2>4 DEF Reduced
    <3> HIDE DEF q
    <3>3. n - q * d = (n - q * a) + Size * (-(q * j)) /\ n - q * a \in Int /\ n - q * d \in Int /\ -(q * j) \in Int
      BY <1>1, <1>2, <1>4, <3>1
    <3>4. Wrapped(n - q * d) = Wrapped(n - q * a)
      BY <3>3, SameWord
    <3>5. Reduced("Urem", d, n) = Wrapped(n - q * d)
      BY <2>3, <2>4 DEF Reduced, q
    <3> QED BY <1>8, <2>6, <3>2, <3>4, <3>5
  <2> QED BY <1>9, <2>5, <2>6
<1>10. CASE op \in {"Div", "Rem"}
  <2>1. d \in -(2 ^ (Word - 1)) .. 2 ^ Word - 1
    <3>1. d = a \/ d = a - Size
      BY <1>1, <1>4
    <3>2. d = a - Size => a >= Half
      BY <1>1, <1>2 DEF AsSigned, Half, Size
    <3>3. d \in -Half .. Size - 1
      BY <1>1, <1>2, <3>1, <3>2
    <3> QED BY <3>3 DEF Half, Size
  <2>2. n \in 0 .. 2 ^ Word - 1
    BY <1>1 DEF Size
  <2>3. SignedDiv(n, d) = SignedDiv(n, a) /\ SignedRem(n, d) = SignedRem(n, a)
    BY <1>6 DEF SignedDiv, SignedRem
  <2>4. op = "Div" => d # 2 ^ (Word - 1)
    <3>1. AsSigned(a) # Half
      BY <1>1, <1>2 DEF AsSigned, Half, Size
    <3> QED BY <3>1 DEF Half
  <2> QED BY <1>8, <1>10, <2>1, <2>2, <2>3, <2>4, SignedExact
<1> QED BY <1>9, <1>10 DEF Divisions

(* A division is of the program, by a constant that is what the program
   divides by.                                                                *)
LEMMA DivisionOf ==
  ASSUME program \in Programs, NEW W, Right(program, code, W), NEW i \in 1 .. Len(code), IsDivision(i)
  PROVE  LET a == code[i].args[2].of
             o == program.code[i]
         IN  /\ i \in 1 .. Len(program.code) /\ o.op = code[i].op /\ Len(code[i].args) = 2
             /\ code[i].args[1] \in Usable(program, code)
             /\ Amounts(program, W, code[i].args[1]) = ValueOf(program, o.args[1])
             /\ a \in Data /\ ValueOf(program, o.args[2]) = [e \in Envs |-> a]
             /\ W[i] = program.value[i]
             /\ program.value[i] = Compute(o.op, ValueOf(program, o.args[1]), ValueOf(program, o.args[2]))
             /\ ValueOf(program, o.args[1]) \in Results
<1> DEFINE p == program
           o == p.code[i]
           v == code[i].args[2]
           U == Usable(p, code)
           as == code[i].args
<1>1. code[i].op \in Divisions /\ IsConst(v)
  BY DEF IsDivision
<1>2. i \in 1 .. Len(p.code)
  <2> SUFFICES ASSUME i \notin 1 .. Len(p.code) PROVE FALSE
    OBVIOUS
  <2>1. PICK S : code \in Seq(S)
    BY DEF Right
  <2>2. Len(code) \in Nat /\ Len(p.code) \in Nat
    BY <2>1, CodeOf
  <2>3. i \in Len(p.code) + 1 .. Len(code)
    BY <2>2
  <2>4. Built(p, code, W, i)
    BY <2>3 DEF Right
  <2> QED BY <1>1, <2>4 DEF Built
<1>3. Kept(p, code, W, i)
  BY <1>2 DEF Right
<1>4. code[i].op # "Reduced"
  BY <1>1 DEF Divisions
<1>5. o.op = code[i].op /\ Len(code[i].args) = Len(o.args) /\ W[i] = p.value[i]
  BY <1>3, <1>4, Zenon DEF Kept
<1>6. o.op \in Arithmetic
  BY <1>1, <1>5, ProgramAssumption DEF Divisions
<1>7. Len(o.args) = 2 /\ p.value[i] = Compute(o.op, ValueOf(p, o.args[1]), ValueOf(p, o.args[2]))
  BY <1>2, <1>6, ProgramAssumption
<1>8. as \in Seq(U) /\ Len(as) = 2
  BY <1>5, <1>7 DEF Right
<1> HIDE DEF U
<1>9. as[1] \in U /\ as[2] \in U /\ 1 \in 1 .. Len(as) /\ 2 \in 1 .. Len(as)
  <2> HIDE DEF as
  <2>1. 1 \in 1 .. Len(as) /\ 2 \in 1 .. Len(as)
    BY <1>8
  <2> QED BY <1>8, <2>1, ElementOfSeq, Zenon
<1>10. /\ Amounts(p, W, as[1]) = ValueOf(p, o.args[1])
       /\ Amounts(p, W, as[2]) = ValueOf(p, o.args[2])
  BY <1>3, <1>9, Zenon DEF Kept
<1>11. v.kind \in {"const", "made"} /\ v.of \in Data
  <2>1. v.kind \in {"const", "made"}
    BY <1>1 DEF IsConst
  <2>2. v \in U
    BY <1>9
  <2> HIDE DEF v
  <2>3. v \in AtomSet(p)
    BY <2>1, <2>2 DEF U, Usable, Inst
  <2>4. v.of \in Data
    BY <2>1, <2>3 DEF AtomSet, Operands, Inst, Leaf, Const, Made
  <2> QED BY <2>1, <2>4
<1>12. ValueOf(p, o.args[2]) = [e \in Envs |-> v.of]
  <2>1. Amounts(p, W, v) = ValueOf(p, v)
    BY <1>11 DEF Amounts
  <2>2. ValueOf(p, v) = [e \in Envs |-> v.of]
    BY <1>11 DEF ValueOf
  <2> QED BY <1>10, <2>1, <2>2
<1>13. ValueOf(p, o.args[1]) \in Results
  <2>1. W \in [1 .. Len(code) -> Results]
    BY DEF Right
  <2>2. Amounts(p, W, as[1]) \in Results
    BY <1>9, <2>1, AmountsTyped DEF U
  <2> QED BY <1>10, <2>2
<1> QED BY <1>2, <1>5, <1>7, <1>8, <1>9, <1>10, <1>11, <1>12, <1>13 DEF U

(* A division is replaced by what computes the same.                          *)
LEMMA RightWhenReduced ==
  ASSUME program \in Programs, NEW W, Right(program, code, W), NEW i \in 1 .. Len(code), IsDivision(i),
         NEW d \in Spellings(code[i].args[2].of), Reducible(code[i].op, d),
         NEW c, c = [code EXCEPT ![i] =
                       [op |-> "Reduced", args |-> <<code[i].args[1]>>, as |-> Reduction(code[i].op, d)]]
  PROVE  Right(program, c, W)
<1> DEFINE p == program
           a == code[i].args[2].of
           o == p.code[i]
           v == code[i].args[1]
           n == Len(code)
           as == Reduction(code[i].op, d)
           x == [op |-> "Reduced", args |-> <<v>>, as |-> as]
<1>1. /\ i \in 1 .. Len(p.code) /\ o.op = code[i].op
      /\ v \in Usable(p, code)
      /\ Amounts(p, W, v) = ValueOf(p, o.args[1])
      /\ a \in Data /\ ValueOf(p, o.args[2]) = [e \in Envs |-> a]
      /\ W[i] = p.value[i]
      /\ p.value[i] = Compute(o.op, ValueOf(p, o.args[1]), ValueOf(p, o.args[2]))
      /\ ValueOf(p, o.args[1]) \in Results
  BY DivisionOf
<1>2. o.op \in Divisions /\ o.op \in Arithmetic
  BY <1>1, ProgramAssumption DEF IsDivision, Divisions
<1>3. d \in {a, AsSigned(a)}
  BY DEF Spellings
<1>4. ASSUME NEW e \in Envs, ReducesExactly(p, e)
      PROVE  as[ValueOf(p, o.args[1])[e]] = p.value[i][e]
  <2> DEFINE m == ValueOf(p, o.args[1])[e]
  <2>1. m \in Data
    BY <1>1 DEF Results
  <2>2. /\ o.op \in {"Udiv", "Urem"} => IsPower(a) \/ m * a < 2 ^ Word
        /\ o.op = "Div" => a # 2 ^ (Word - 1)
    <3>1. ValueOf(p, o.args[2])[e] = a
      BY <1>1
    <3>2. LET y == ValueOf(p, o.args[1])[e]
              z == ValueOf(p, o.args[2])[e]
          IN  /\ o.op \in {"Udiv", "Urem"} => IsPower(z) \/ y * z < 2 ^ Word
              /\ o.op = "Div" => z # 2 ^ (Word - 1)
      BY <1>1, <1>2, <1>4 DEF ReducesExactly
    <3> QED BY <3>1, <3>2
  <2>3. Reduced(o.op, d, m) = Apply[o.op][<<m, a>>]
    <3> HIDE DEF m, a, o
    <3>1. Reducible(o.op, d)
      BY <1>1
    <3> QED BY <1>1, <1>2, <1>3, <2>1, <2>2, <3>1, ReductionRight
  <2>4. as[m] = Reduced(o.op, d, m)
    BY <1>1, <2>1 DEF Reduction
  <2>5. p.value[i][e] = Apply[o.op][<<m, a>>]
    BY <1>1, Zenon DEF Compute
  <2> QED BY <2>3, <2>4, <2>5
<1> HIDE DEF as
<1>5. x.op = "Reduced" /\ x.args = <<v>> /\ x.as = as
  OBVIOUS
<1>6. c = [code EXCEPT ![i] = x]
  BY DEF as
<1> HIDE DEF x
<1>7. PICK S : code \in Seq(S)
  BY DEF Right
<1>8. /\ n \in Nat /\ c \in Seq(S \cup {x}) /\ Len(c) = n /\ c[i] = x
      /\ \A j \in 1 .. n : j # i => c[j] = code[j]
  <2> DEFINE Z == S \cup {x}
  <2>1. code \in Seq(Z) /\ x \in Z
    BY <1>7, SeqMonotonic
  <2> HIDE DEF Z
  <2>2. n \in Nat /\ DOMAIN code = 1 .. n
    BY <2>1, LenProperties
  <2>3. c \in [1 .. n -> Z]
    BY <1>6, <2>1, <2>2, ElementOfSeq
  <2>4. c \in Seq(Z)
    BY <2>2, <2>3, SeqDef, Zenon
  <2> HIDE DEF n
  <2>5. DOMAIN c = 1 .. n
    BY <2>3
  <2>6. Len(c) \in Nat /\ 1 .. Len(c) = 1 .. n
    BY <2>4, <2>5, LenProperties
  <2>7. Len(c) = n
    BY <2>2, <2>6
  <2> QED BY <1>6, <2>2, <2>4, <2>7 DEF Z, n
<1>9. Usable(p, c) = Usable(p, code)
  <2>1. code[i].op \in Arithmetic
    BY <1>1, <1>2
  <2>2. \A j \in 1 .. n : c[j].op \in Arithmetic \cup {"Reduced"} <=> code[j].op \in Arithmetic \cup {"Reduced"}
    BY <1>5, <1>8, <2>1
  <2> QED BY <1>8, <2>2 DEF Usable
<1>10. Kept(p, c, W, i)
  <2>1. Len(<<v>>) = 1 /\ <<v>>[1] = v /\ 1 .. 1 = {1}
    OBVIOUS
  <2>2. c[i].op = "Reduced" /\ c[i].args = <<v>> /\ c[i].as = as
    BY <1>5, <1>8
  <2>3. \A k \in 1 .. Len(c[i].args) : Amounts(p, W, c[i].args[k]) = ValueOf(p, p.code[i].args[k])
    <3>1. SUFFICES ASSUME NEW k \in 1 .. Len(c[i].args)
                   PROVE  Amounts(p, W, c[i].args[k]) = ValueOf(p, p.code[i].args[k])
      OBVIOUS
    <3>2. k = 1
      BY <2>1, <2>2
    <3> QED BY <1>1, <2>1, <2>2, <3>2
  <2>4. Len(c[i].args) = 1
    BY <2>1, <2>2
  <2>5. \A e \in Envs : ReducesExactly(p, e) => c[i].as[ValueOf(p, p.code[i].args[1])[e]] = p.value[i][e]
    BY <1>4, <2>2
  <2> QED BY <1>1, <1>2, <2>2, <2>3, <2>4, <2>5, Zenon DEF Kept
<1>11. ASSUME NEW j \in 1 .. Len(p.code) PROVE Kept(p, c, W, j)
  <2>1. CASE j = i
    BY <1>10, <2>1
  <2>2. CASE j # i
    <3>1. j \in 1 .. n
      BY <1>8, CodeOf DEF Right
    <3>2. Kept(p, code, W, j) /\ c[j] = code[j]
      BY <1>8, <2>2, <3>1 DEF Right
    <3> QED BY <3>2, Zenon DEF Kept
  <2> QED BY <2>1, <2>2
<1>12. ASSUME NEW j \in Len(p.code) + 1 .. Len(c) PROVE Built(p, c, W, j)
  <2>1. j \in 1 .. n /\ j # i /\ j \in Len(p.code) + 1 .. Len(code)
    <3>1. Len(p.code) \in Nat
      BY CodeOf
    <3> QED BY <1>1, <1>8, <3>1
  <2>2. Built(p, code, W, j) /\ c[j] = code[j]
    BY <1>8, <2>1 DEF Right
  <2> QED BY <2>2 DEF Built
<1>13. ASSUME NEW j \in 1 .. Len(c) PROVE c[j].args \in Seq(Usable(p, c))
  <2>1. CASE j = i
    <3> DEFINE U == Usable(p, c)
    <3>1. v \in U
      BY <1>1, <1>9
    <3> HIDE DEF U
    <3>2. <<v>> \in Seq(U)
      BY <3>1
    <3> QED BY <1>5, <1>8, <2>1, <3>2 DEF U
  <2>2. CASE j # i
    <3>1. j \in 1 .. n /\ c[j] = code[j]
      BY <1>8, <2>2
    <3> QED BY <1>9, <3>1 DEF Right
  <2> QED BY <2>1, <2>2
<1>14. (\E Z : c \in Seq(Z)) /\ Len(p.code) <= Len(c) /\ W \in [1 .. Len(c) -> Results]
  BY <1>8 DEF Right
<1> QED BY <1>11, <1>12, <1>13, <1>14 DEF Right

-----------------------------------------------------------------------------
(* Both passes.                                                               *)
FollowingInTurn == Following /\ (pass # "egraph" => phase = "done") /\ visit \in Nat \ {0}

LEMMA StepVisit == ASSUME FollowingInTurn, Visit PROVE FollowingInTurn'
<1>1. /\ phase = "done" /\ pass = "divisions" /\ visit <= Len(code) /\ visit' = visit + 1
      /\ UNCHANGED <<program, phase, graph, adding, roots, at, pos, queue, newMemo, kept, pass>>
  BY DEF FollowingInTurn, Visit, adds, cursor, rebuilds
<1>2. Agreeing'
  BY <1>1 DEF FollowingInTurn, Following, Agreeing
<1>3. program \in Programs /\ visit \in Nat \ {0} /\ visit' \in Nat \ {0}
  BY <1>1 DEF FollowingInTurn, Following, Agreeing
<1>4. ASSUME roots # <<>> => Exact(program) PROVE \E W : Right(program, code', W)
  <2>1. PICK W : Right(program, code, W)
    BY <1>1, <1>4 DEF FollowingInTurn, Following
  <2>2. CASE code' = code
    BY <2>1, <2>2
  <2>3. CASE code' # code
    <3>1. PICK d \in Spellings(code[visit].args[2].of) :
            /\ IsDivision(visit) /\ Reducible(code[visit].op, d)
            /\ code' = [code EXCEPT ![visit] =
                          [op |-> "Reduced", args |-> <<code[visit].args[1]>>, as |-> Reduction(code[visit].op, d)]]
      BY <2>3 DEF Visit
    <3>2. visit \in 1 .. Len(code)
      <4>1. PICK S : code \in Seq(S)
        BY <2>1 DEF Right
      <4>2. Len(code) \in Nat
        BY <4>1
      <4> QED BY <1>1, <1>3, <4>2
    <3>3. PICK c : c = code'
      OBVIOUS
    <3>4. Right(program, c, W)
      BY <1>3, <2>1, <3>1, <3>2, <3>3, RightWhenReduced
    <3> QED BY <3>3, <3>4
  <2> QED BY <2>2, <2>3
<1> QED BY <1>1, <1>2, <1>3, <1>4 DEF FollowingInTurn, Following

LEMMA FollowingInTurnInductive == FollowingInTurn /\ [PassesNext]_passVars => FollowingInTurn'
<1> SUFFICES ASSUME FollowingInTurn, [PassesNext]_passVars PROVE FollowingInTurn'
  OBVIOUS
<1>1. CASE EGraphStep
  BY <1>1, FollowingInductive DEF FollowingInTurn, EGraphStep
<1>2. CASE EndOfEGraph
  <2>1. Following'
    BY <1>2, FollowingInductive DEF FollowingInTurn, EndOfEGraph
  <2> QED BY <1>2, <2>1 DEF FollowingInTurn, EndOfEGraph, vars
<1>3. CASE Visit
  BY <1>3, StepVisit
<1>4. CASE EndOfDivisions
  <2>1. Following' /\ phase = "done" /\ phase' = "done"
    BY <1>4, FollowingInductive DEF FollowingInTurn, EndOfDivisions, vars
  <2> QED BY <1>4, <2>1 DEF FollowingInTurn, EndOfDivisions
<1>5. CASE UNCHANGED passVars
  <2>1. Following'
    BY <1>5, FollowingInductive DEF FollowingInTurn, passVars
  <2> QED BY <1>5, <2>1 DEF FollowingInTurn, passVars, vars
<1> QED BY <1>1, <1>2, <1>3, <1>4, <1>5 DEF PassesNext

(* The steps of a computation of the block.                                    *)
Layer(before) ==
  {j \in 1 .. Len(code) : \A k \in DOMAIN code[j].args :
     code[j].args[k].kind = "inst" => code[j].args[k].of \in before}

Layered(n, g) == g = [m \in 0 .. n |-> IF m = 0 THEN {} ELSE Layer(g[m - 1])]

StepNow(before) == [j \in 1 .. Len(code) |-> ResultOf(j, before)]

Stepped(n, g) == g = [m \in 0 .. n |-> IF m = 0 THEN Unset ELSE StepNow(g[m - 1])]

Turn(m, before) == [before EXCEPT ![m] = ResultOf(m, before)]

Run(n, g) == g = [m \in 0 .. n |-> IF m = 0 THEN Unset ELSE Turn(m, g[m - 1])]

LEMMA LayeredExists == \A n \in Nat : \E g : Layered(n, g)
<1> DEFINE T == {n \in Nat : \E g : Layered(n, g)}
<1>1. 0 \in T
  <2>1. Layered(0, [m \in 0 .. 0 |-> {}])
    BY DEF Layered
  <2> QED BY <2>1
<1>2. ASSUME NEW n \in Nat, n \in T PROVE n + 1 \in T
  <2>1. PICK g : Layered(n, g)
    BY <1>2
  <2>2. \A m \in 0 .. n : g[m] = IF m = 0 THEN {} ELSE Layer(g[m - 1])
    BY <2>1 DEF Layered
  <2> DEFINE h == [m \in 0 .. n + 1 |-> IF m = n + 1 THEN Layer(g[n]) ELSE g[m]]
  <2>3. \A m \in 0 .. n : h[m] = g[m]
    OBVIOUS
  <2>4. ASSUME NEW m \in 0 .. n + 1
        PROVE  h[m] = IF m = 0 THEN {} ELSE Layer(h[m - 1])
    <3>1. CASE m = n + 1
      BY <2>3, <3>1
    <3>2. CASE m \in 0 .. n
      <4>1. m # 0 => m - 1 \in 0 .. n
        BY <3>2
      <4> QED BY <2>2, <2>3, <3>2, <4>1
    <3> QED BY <3>1, <3>2
  <2>5. Layered(n + 1, h)
    BY <2>4 DEF Layered
  <2> QED BY <2>5
<1> HIDE DEF T
<1>3. \A n \in Nat : n \in T
  BY <1>1, <1>2, Induction
<1> QED BY <1>3 DEF T

LEMMA SteppedExists == \A n \in Nat : \E g : Stepped(n, g)
<1> DEFINE T == {n \in Nat : \E g : Stepped(n, g)}
<1>1. 0 \in T
  <2>1. Stepped(0, [m \in 0 .. 0 |-> Unset])
    BY DEF Stepped
  <2> QED BY <2>1
<1>2. ASSUME NEW n \in Nat, n \in T PROVE n + 1 \in T
  <2>1. PICK g : Stepped(n, g)
    BY <1>2
  <2>2. \A m \in 0 .. n : g[m] = IF m = 0 THEN Unset ELSE StepNow(g[m - 1])
    BY <2>1 DEF Stepped
  <2> DEFINE h == [m \in 0 .. n + 1 |-> IF m = n + 1 THEN StepNow(g[n]) ELSE g[m]]
  <2>3. \A m \in 0 .. n : h[m] = g[m]
    OBVIOUS
  <2>4. ASSUME NEW m \in 0 .. n + 1
        PROVE  h[m] = IF m = 0 THEN Unset ELSE StepNow(h[m - 1])
    <3>1. CASE m = n + 1
      BY <2>3, <3>1
    <3>2. CASE m \in 0 .. n
      <4>1. m # 0 => m - 1 \in 0 .. n
        BY <3>2
      <4> QED BY <2>2, <2>3, <3>2, <4>1
    <3> QED BY <3>1, <3>2
  <2>5. Stepped(n + 1, h)
    BY <2>4 DEF Stepped
  <2> QED BY <2>5
<1> HIDE DEF T
<1>3. \A n \in Nat : n \in T
  BY <1>1, <1>2, Induction
<1> QED BY <1>3 DEF T

LEMMA RunExists == \A n \in Nat : \E g : Run(n, g)
<1> DEFINE T == {n \in Nat : \E g : Run(n, g)}
<1>1. 0 \in T
  <2>1. Run(0, [m \in 0 .. 0 |-> Unset])
    BY DEF Run
  <2> QED BY <2>1
<1>2. ASSUME NEW n \in Nat, n \in T PROVE n + 1 \in T
  <2>1. PICK g : Run(n, g)
    BY <1>2
  <2>2. \A m \in 0 .. n : g[m] = IF m = 0 THEN Unset ELSE Turn(m, g[m - 1])
    BY <2>1 DEF Run
  <2> DEFINE h == [m \in 0 .. n + 1 |-> IF m = n + 1 THEN Turn(n + 1, g[n]) ELSE g[m]]
  <2>3. \A m \in 0 .. n : h[m] = g[m]
    OBVIOUS
  <2>4. ASSUME NEW m \in 0 .. n + 1
        PROVE  h[m] = IF m = 0 THEN Unset ELSE Turn(m, h[m - 1])
    <3>1. CASE m = n + 1
      BY <2>3, <3>1
    <3>2. CASE m \in 0 .. n
      <4>1. m # 0 => m - 1 \in 0 .. n
        BY <3>2
      <4> QED BY <2>2, <2>3, <3>2, <4>1
    <3> QED BY <3>1, <3>2
  <2>5. Run(n + 1, h)
    BY <2>4 DEF Run
  <2> QED BY <2>5
<1> HIDE DEF T
<1>3. \A n \in Nat : n \in T
  BY <1>1, <1>2, Induction
<1> QED BY <1>3 DEF T

(* What the definitions of Computed, Evaluated and Executed are.              *)
LEMMA ComputedIs ==
  ASSUME NEW n \in Nat
  PROVE  \E g : Layered(n, g) /\ Computed(n) = g[n]
<1> DEFINE g == CHOOSE h : Layered(n, h)
<1>1. Layered(n, g)
  BY LayeredExists
<1>2. Computed(n) = g[n]
  BY DEF Computed, Layered, Layer
<1> QED BY <1>1, <1>2

LEMMA EvaluatedIs ==
  ASSUME NEW n \in Nat
  PROVE  \E g : Stepped(n, g) /\ Evaluated(n) = g[n]
<1> DEFINE g == CHOOSE h : Stepped(n, h)
<1>1. Stepped(n, g)
  BY SteppedExists
<1>2. Evaluated(n) = g[n]
  BY DEF Evaluated, Stepped, StepNow
<1> QED BY <1>1, <1>2

LEMMA ExecutedIs ==
  ASSUME NEW n \in Nat
  PROVE  \E g : Run(n, g) /\ Executed(n) = g[n]
<1> DEFINE g == CHOOSE h : Run(n, h)
<1>1. Run(n, g)
  BY RunExists
<1>2. Executed(n) = g[n]
  BY DEF Executed, Run, Turn
<1> QED BY <1>1, <1>2

(* An instruction whose operands have what they amount to gets what it amounts
   to.                                                                        *)
LEMMA StepRight ==
  ASSUME program \in Programs, NEW W, Right(program, code, W), NEW e \in Envs, ReducesExactly(program, e),
         NEW S, NEW before, \A j \in S : code[j].op \in Arithmetic \cup {"Reduced"} => before[j][e] = W[j][e],
         NEW i \in Layer(S)
  PROVE  /\ code[i].op \in Arithmetic \cup {"Reduced"} => ResultOf(i, before)[e] = W[i][e]
         /\ i = Len(program.code) =>
              ResultOf(i, before)[e] = ValueOf(program, program.code[i].args[1])[e]
<1> DEFINE p == program
           U == Usable(p, code)
           as == code[i].args
           V(v) == IF v.kind = "inst" THEN before[v.of] ELSE ValueOf(p, v)
           X(k) == V(as[k])
<1>1. PICK Z : code \in Seq(Z)
  BY DEF Right
<1>2. Len(code) \in Nat /\ Len(p.code) \in Nat \ {0} /\ Len(p.code) <= Len(code) /\ i \in 1 .. Len(code)
  BY <1>1, CodeOf DEF Right, Layer
<1>3. as \in Seq(U)
  BY <1>2 DEF Right
<1>4. ASSUME NEW k \in 1 .. Len(as) PROVE X(k)[e] = Amounts(p, W, as[k])[e]
  <2> DEFINE v == as[k]
  <2>1. v \in U /\ k \in DOMAIN as
    <3> HIDE DEF U, as
    <3> QED BY <1>3, ElementOfSeq, LenProperties
  <2>2. CASE v.kind = "inst"
    <3>1. v.of \in S
      BY <2>1, <2>2 DEF Layer
    <3>2. code[v.of].op \in Arithmetic \cup {"Reduced"}
      BY <2>1, <2>2 DEF Usable
    <3>3. X(k) = before[v.of]
      BY <2>2
    <3> QED BY <2>2, <3>1, <3>2, <3>3 DEF Amounts
  <2>3. CASE v.kind # "inst"
    BY <2>3 DEF Amounts
  <2> QED BY <2>2, <2>3
<1>5. ResultOf(i, before) =
        CASE code[i].op \in Arithmetic -> Compute(code[i].op, X(1), X(2))
          [] code[i].op = "Reduced"    -> [f \in Envs |-> code[i].as[X(1)[f]]]
          [] OTHER                     -> X(1)
  BY DEF ResultOf
<1>6. "Reduced" \notin Arithmetic
  BY CodeOf
<1> HIDE DEF X
<1>7. CASE code[i].op \in Arithmetic
  <2>1. /\ Len(as) = 2
        /\ W[i] = Compute(code[i].op, Amounts(p, W, as[1]), Amounts(p, W, as[2]))
    <3>1. CASE i \in 1 .. Len(p.code)
      <4>1. Kept(p, code, W, i)
        BY <3>1 DEF Right
      <4>2. code[i].op = p.code[i].op /\ Len(as) = Len(p.code[i].args) /\ W[i] = p.value[i]
        BY <1>6, <1>7, <4>1, Zenon DEF Kept
      <4>3. /\ Len(p.code[i].args) = 2
            /\ p.value[i] = Compute(p.code[i].op, ValueOf(p, p.code[i].args[1]), ValueOf(p, p.code[i].args[2]))
        BY <1>7, <3>1, <4>2, ProgramAssumption
      <4>4. Len(as) = 2
        BY <4>2, <4>3
      <4>5. 1 \in 1 .. Len(as) /\ 2 \in 1 .. Len(as)
        BY <4>4
      <4>6. Amounts(p, W, as[1]) = ValueOf(p, p.code[i].args[1]) /\ Amounts(p, W, as[2]) = ValueOf(p, p.code[i].args[2])
        BY <4>1, <4>5, Zenon DEF Kept
      <4> QED BY <4>2, <4>3, <4>4, <4>6
    <3>2. CASE i \notin 1 .. Len(p.code)
      <4>1. i \in Len(p.code) + 1 .. Len(code)
        BY <1>2, <3>2
      <4>2. Built(p, code, W, i)
        BY <4>1 DEF Right
      <4> QED BY <4>2 DEF Built
    <3> QED BY <3>1, <3>2
  <2>2. 1 \in 1 .. Len(as) /\ 2 \in 1 .. Len(as)
    BY <2>1
  <2>3. X(1)[e] = Amounts(p, W, as[1])[e] /\ X(2)[e] = Amounts(p, W, as[2])[e]
    BY <1>4, <2>2
  <2>4. ResultOf(i, before) = Compute(code[i].op, X(1), X(2))
    BY <1>5, <1>6, <1>7
  <2>5. ResultOf(i, before)[e] = W[i][e]
    <3> HIDE DEF as
    <3>1. Compute(code[i].op, X(1), X(2))[e] = Apply[code[i].op][<<X(1)[e], X(2)[e]>>]
      BY DEF Compute
    <3>2. W[i][e] = Apply[code[i].op][<<Amounts(p, W, as[1])[e], Amounts(p, W, as[2])[e]>>]
      BY <2>1 DEF Compute
    <3> QED BY <2>3, <2>4, <3>1, <3>2
  <2>6. i # Len(p.code)
    <3> SUFFICES ASSUME i = Len(p.code) PROVE FALSE
      OBVIOUS
    <3>1. Kept(p, code, W, i)
      BY <1>2 DEF Right
    <3>2. code[i].op = p.code[i].op
      BY <1>6, <1>7, <3>1, Zenon DEF Kept
    <3> QED BY <1>7, <3>2, CodeOf
  <2> QED BY <2>5, <2>6
<1>8. CASE code[i].op = "Reduced"
  <2>1. i \in 1 .. Len(p.code)
    <3> SUFFICES ASSUME i \notin 1 .. Len(p.code) PROVE FALSE
      OBVIOUS
    <3>1. i \in Len(p.code) + 1 .. Len(code)
      BY <1>2
    <3>2. Built(p, code, W, i)
      BY <3>1 DEF Right
    <3> QED BY <1>6, <1>8, <3>2 DEF Built
  <2>2. Kept(p, code, W, i)
    BY <2>1 DEF Right
  <2>3. p.code[i].op # "Reduced"
    BY <2>1, CodeOf, Zenon DEF Plain
  <2>4. /\ p.code[i].op \in Divisions /\ Len(as) = 1 /\ W[i] = p.value[i]
        /\ code[i].as[ValueOf(p, p.code[i].args[1])[e]] = p.value[i][e]
    BY <1>8, <2>2, <2>3, Zenon DEF Kept
  <2>5. 1 \in 1 .. Len(as)
    BY <2>4
  <2>6. X(1)[e] = ValueOf(p, p.code[i].args[1])[e]
    BY <1>4, <2>2, <2>5, Zenon DEF Kept
  <2>7. ResultOf(i, before) = [f \in Envs |-> code[i].as[X(1)[f]]]
    BY <1>5, <1>6, <1>8
  <2>8. ResultOf(i, before)[e] = W[i][e]
    BY <2>4, <2>6, <2>7
  <2>9. i # Len(p.code)
    <3>1. p.code[i].op \in Arithmetic
      BY <2>4, ProgramAssumption, Zenon DEF Divisions
    <3> QED BY <3>1, CodeOf
  <2> QED BY <2>8, <2>9
<1>9. CASE code[i].op \notin Arithmetic \cup {"Reduced"}
  <2>1. ResultOf(i, before) = X(1)
    BY <1>5, <1>9
  <2>2. ASSUME i = Len(p.code) PROVE X(1)[e] = ValueOf(p, p.code[i].args[1])[e]
    <3>1. Kept(p, code, W, i)
      BY <1>2, <2>2 DEF Right
    <3>2. Len(as) = Len(p.code[i].args)
      BY <1>9, <3>1, Zenon DEF Kept
    <3>3. Len(p.code[i].args) > 0
      BY <2>2, CodeOf
    <3>4. 1 \in 1 .. Len(as)
      <4> DEFINE l == Len(as)
      <4>1. l \in Nat
        <5> HIDE DEF as, U
        <5> QED BY <1>3, LenProperties
      <4>2. l > 0
        BY <3>2, <3>3
      <4> HIDE DEF l
      <4>3. 1 \in 1 .. l
        BY <4>1, <4>2
      <4> QED BY <4>3 DEF l
    <3> QED BY <1>4, <3>1, <3>4 DEF Kept
  <2> QED BY <1>9, <2>1, <2>2
<1> QED BY <1>7, <1>8, <1>9

(* The return of the program is in the block; operands are instructions of it. *)
LEMMA LastIn ==
  ASSUME program \in Programs, NEW W, Right(program, code, W)
  PROVE  /\ Len(code) \in Nat \ {0} /\ Len(program.code) \in 1 .. Len(code)
         /\ Len(program.code) \in Nat \ {0}
<1> DEFINE n == Len(code)
           last == Len(program.code)
<1>1. PICK S : code \in Seq(S)
  BY DEF Right
<1>2. n \in Nat /\ last \in Nat \ {0} /\ last <= n
  BY <1>1, CodeOf DEF Right
<1> HIDE DEF n, last
<1>3. n \in Nat \ {0} /\ last \in 1 .. n /\ last \in Nat \ {0}
  BY <1>2
<1> QED BY <1>3 DEF n, last

LEMMA ReadsInstruction ==
  ASSUME NEW W, Right(program, code, W), NEW j \in 1 .. Len(code),
         NEW k \in DOMAIN code[j].args, code[j].args[k].kind = "inst"
  PROVE  code[j].args[k].of \in 1 .. Len(code) /\ k \in 1 .. Len(code[j].args)
<1> DEFINE as == code[j].args
           U == Usable(program, code)
<1>1. as \in Seq(U)
  BY DEF Right
<1>2. as[k] \in U /\ k \in 1 .. Len(as)
  <2>1. PICK s : s = as
    OBVIOUS
  <2>2. s \in Seq(U) /\ k \in DOMAIN s
    BY <1>1, <2>1
  <2> HIDE DEF U, as
  <2>3. k \in 1 .. Len(s)
    BY <2>2, LenProperties
  <2> QED BY <2>1, <2>2, <2>3, ElementOfSeq
<1> QED BY <1>2 DEF Usable

(* A block that can be computed amounts to what the program returns.          *)
LEMMA ReturnsSame ==
  ASSUME program \in Programs, NEW W, Right(program, code, W), NEW e \in Envs, ReducesExactly(program, e), Acyclic
  PROVE  Evaluated(Len(code))[Len(program.code)][e]
           = ValueOf(program, program.code[Len(program.code)].args[1])[e]
<1> DEFINE n == Len(code)
           last == Len(program.code)
<1>1. n \in Nat \ {0} /\ last \in 1 .. n
  BY LastIn
<1>2. PICK s : Layered(n, s) /\ Computed(n) = s[n]
  BY <1>1, ComputedIs
<1>3. PICK g : Stepped(n, g) /\ Evaluated(n) = g[n]
  BY <1>1, EvaluatedIs
<1>4. \A m \in 0 .. n : s[m] = IF m = 0 THEN {} ELSE Layer(s[m - 1])
  BY <1>2 DEF Layered
<1>5. \A m \in 0 .. n : g[m] = IF m = 0 THEN Unset ELSE StepNow(g[m - 1])
  BY <1>3 DEF Stepped
<1> HIDE DEF n
<1> DEFINE Worth(m) == \A j \in s[m] : /\ code[j].op \in Arithmetic \cup {"Reduced"} => g[m][j][e] = W[j][e]
                                       /\ j = last => g[m][j][e] = ValueOf(program, program.code[last].args[1])[e]
           T == {m \in Nat : m <= n => Worth(m)}
<1>6. 0 \in T
  <2>1. s[0] = {}
    BY <1>1, <1>4
  <2>2. Worth(0)
    BY <2>1
  <2> HIDE DEF Worth
  <2> QED BY <2>2
<1>7. ASSUME NEW m \in Nat, m \in T PROVE m + 1 \in T
  <2> SUFFICES ASSUME m + 1 <= n PROVE Worth(m + 1)
    BY DEF Worth
  <2>1. m <= n /\ Worth(m) /\ m + 1 \in 0 .. n /\ m + 1 # 0 /\ (m + 1) - 1 = m
    BY <1>1, <1>7
  <2>2. s[m + 1] = Layer(s[m]) /\ g[m + 1] = StepNow(g[m])
    BY <1>4, <1>5, <2>1
  <2>3. ASSUME NEW j \in s[m + 1]
        PROVE  /\ code[j].op \in Arithmetic \cup {"Reduced"} => g[m + 1][j][e] = W[j][e]
               /\ j = last => g[m + 1][j][e] = ValueOf(program, program.code[last].args[1])[e]
    <3>1. PICK S, b : S = s[m] /\ b = g[m]
      OBVIOUS
    <3>2. \A i \in S : code[i].op \in Arithmetic \cup {"Reduced"} => b[i][e] = W[i][e]
      BY <2>1, <3>1
    <3>3. j \in Layer(S)
      BY <2>2, <2>3, <3>1
    <3>4. /\ code[j].op \in Arithmetic \cup {"Reduced"} => ResultOf(j, b)[e] = W[j][e]
          /\ j = last => ResultOf(j, b)[e] = ValueOf(program, program.code[j].args[1])[e]
      BY <3>2, <3>3, StepRight
    <3>5. g[m + 1][j] = ResultOf(j, b)
      BY <2>2, <3>1, <3>3 DEF StepNow, Layer
    <3> QED BY <3>4, <3>5
  <2> QED BY <2>3
<1>8. \A m \in Nat : m \in T
  <2> HIDE DEF T
  <2> QED BY <1>6, <1>7, Induction
<1>9. Worth(n)
  <2>1. n \in Nat /\ n <= n
    BY <1>1
  <2> HIDE DEF Worth
  <2> QED BY <1>8, <2>1
<1>10. last \in s[n]
  BY <1>1, <1>2 DEF Acyclic, n
<1> QED BY <1>3, <1>9, <1>10 DEF n

(* A block whose instructions stand behind those they read returns what the
   program returns, when it is executed in their order.                       *)
LEMMA ReturnsInOrder ==
  ASSUME program \in Programs, NEW W, Right(program, code, W), NEW e \in Envs, ReducesExactly(program, e),
         InPlace(Len(program.code))
  PROVE  Executed(Len(program.code))[Len(program.code)][e]
           = ValueOf(program, program.code[Len(program.code)].args[1])[e]
<1> DEFINE last == Len(program.code)
<1>1. Len(code) \in Nat \ {0} /\ last \in 1 .. Len(code) /\ last \in Nat \ {0}
  BY LastIn
<1>2. PICK g : Run(last, g) /\ Executed(last) = g[last]
  BY <1>1, ExecutedIs
<1>3. \A m \in 0 .. last : g[m] = IF m = 0 THEN Unset ELSE Turn(m, g[m - 1])
  BY <1>2 DEF Run
<1> DEFINE Worth(m) ==
             /\ DOMAIN g[m] = 1 .. Len(code)
             /\ \A j \in 1 .. m : /\ code[j].op \in Arithmetic \cup {"Reduced"} => g[m][j][e] = W[j][e]
                                  /\ j = last => g[m][j][e] = ValueOf(program, program.code[last].args[1])[e]
           T == {m \in Nat : m <= last => Worth(m)}
<1> HIDE DEF last
<1>4. 0 \in T
  <2>1. g[0] = Unset
    BY <1>1, <1>3
  <2>2. Worth(0)
    BY <2>1 DEF Unset
  <2> HIDE DEF Worth
  <2> QED BY <2>2
<1>5. ASSUME NEW m \in Nat, m \in T PROVE m + 1 \in T
  <2> SUFFICES ASSUME m + 1 <= last PROVE Worth(m + 1)
    BY DEF Worth
  <2>1. m <= last /\ Worth(m) /\ m + 1 \in 0 .. last /\ m + 1 # 0 /\ (m + 1) - 1 = m
    BY <1>1, <1>5
  <2>2. PICK i, b : i = m + 1 /\ b = g[m]
    OBVIOUS
  <2>3. g[i] = [b EXCEPT ![i] = ResultOf(i, b)] /\ DOMAIN b = 1 .. Len(code)
    BY <1>3, <2>1, <2>2 DEF Turn
  <2>4. i \in 1 .. Len(code) /\ i \in 1 .. last
    BY <1>1, <2>1, <2>2
  <2>5. i \in Layer(1 .. m)
    <3>1. ASSUME NEW k \in DOMAIN code[i].args, code[i].args[k].kind = "inst"
          PROVE  code[i].args[k].of \in 1 .. m
      <4>1. PICK j : j = code[i].args[k].of
        OBVIOUS
      <4>2. j \in ReadBy(i)
        BY <3>1, <4>1 DEF ReadBy
      <4>3. j < i
        BY <2>4, <4>2 DEF InPlace, last
      <4>4. j \in 1 .. Len(code)
        BY <2>4, <3>1, <4>1, ReadsInstruction
      <4>5. j \in 1 .. m
        <5>1. j \in Nat /\ 1 <= j
          BY <1>1, <4>4
        <5> QED BY <2>2, <4>3, <5>1
      <4> QED BY <4>1, <4>5
    <3> QED BY <2>4, <3>1 DEF Layer
  <2>6. /\ code[i].op \in Arithmetic \cup {"Reduced"} => ResultOf(i, b)[e] = W[i][e]
        /\ i = last => ResultOf(i, b)[e] = ValueOf(program, program.code[last].args[1])[e]
    <3>1. \A j \in 1 .. m : code[j].op \in Arithmetic \cup {"Reduced"} => b[j][e] = W[j][e]
      BY <2>1, <2>2
    <3>2. PICK S : S = 1 .. m
      OBVIOUS
    <3>3. i \in Layer(S) /\ \A j \in S : code[j].op \in Arithmetic \cup {"Reduced"} => b[j][e] = W[j][e]
      BY <2>5, <3>1, <3>2
    <3> HIDE DEF Worth, T
    <3>4. /\ code[i].op \in Arithmetic \cup {"Reduced"} => ResultOf(i, b)[e] = W[i][e]
          /\ i = Len(program.code) => ResultOf(i, b)[e] = ValueOf(program, program.code[i].args[1])[e]
      BY <3>3, StepRight
    <3> QED BY <3>4 DEF last
  <2>7. DOMAIN g[i] = 1 .. Len(code) /\ g[i][i] = ResultOf(i, b) /\ \A j : j # i => g[i][j] = b[j]
    BY <2>3, <2>4
  <2>8. ASSUME NEW j \in 1 .. m
        PROVE  /\ code[j].op \in Arithmetic \cup {"Reduced"} => g[i][j][e] = W[j][e]
               /\ j # last
    <3>1. j # i /\ j # last
      BY <1>1, <2>1, <2>2
    <3> QED BY <2>1, <2>2, <2>7, <3>1
  <2>9. \A j \in 1 .. m + 1 : j \in 1 .. m \/ j = i
    BY <2>2
  <2> QED BY <2>2, <2>6, <2>7, <2>8, <2>9
<1>6. \A m \in Nat : m \in T
  <2> HIDE DEF T
  <2> QED BY <1>4, <1>5, Induction
<1>7. Worth(last) /\ last \in 1 .. last
  <2>1. last \in Nat /\ last <= last /\ last \in 1 .. last
    BY <1>1
  <2> HIDE DEF Worth
  <2> QED BY <1>6, <2>1
<1> QED BY <1>2, <1>7 DEF last

LEMMA FollowingInTurnAtFirst == PassesInit => FollowingInTurn
<1> SUFFICES ASSUME PassesInit PROVE FollowingInTurn
  OBVIOUS
<1>1. Following
  BY FollowingAtFirst DEF PassesInit
<1> QED BY <1>1 DEF FollowingInTurn, PassesInit, Start

(* The classes agree also when divisions are reduced afterwards.              *)
THEOREM PassesAgree == PassesSpec => []ClassesAgree
<1>1. FollowingInTurn => ClassesAgree
  BY AgreeingEnough DEF FollowingInTurn, Following
<1> QED BY <1>1, FollowingInTurnAtFirst, FollowingInTurnInductive, PTL DEF PassesSpec

-----------------------------------------------------------------------------
(* The order in which the instructions can be computed.  A class gets a rank,
   the last instruction it needs: those it holds and the classes of the operands
   of its nodes are not above it, but for x - x in a class that holds zero, and a
   class that holds a constant needs none.  The nodes of a class read the same
   classes, up to constants, but for those that say nothing of it (x + 0 in the
   class of x, x - x in that of zero).  Two classes are united for a reason only,
   and each reason leaves one of the two ranks good for both: so every merge
   keeps such an order.  Extraction then gives a level to each instruction it
   builds, the rank of its class, and no instruction reads one of a higher level
   or one behind it on its own.                                               *)

(* The class of a node of the memo, and those of its operands; whether a class
   holds a constant.                                                          *)
Keys(g)     == DOMAIN g.memo
Home(g, n)  == g.rep[g.memo[n]]
Lhs(g, n)   == g.rep[n.children[1]]
Rhs(g, n)   == g.rep[n.children[2]]
Fixed(g, c) == \E n \in Keys(g) : IsConst(n.atom) /\ Home(g, n) = c

(* Nodes that say nothing of their class: it is that of an operand, or zero.  *)
Loops(g, n)   == ~IsAtom(n) /\ Lhs(g, n) = Home(g, n) /\ Fixed(g, Rhs(g, n))
Cancels(g, n) == ~IsAtom(n) /\ n.op \in {"Sub", "Xor"} /\ Lhs(g, n) = Rhs(g, n)
Spent(g, n)   == Loops(g, n) \/ (Cancels(g, n) /\ Fixed(g, Home(g, n)))

(* Nodes that differ as the rules allow.                                      *)
Cheap == {"Udiv", "Shr", "Div", "Sar", "Mul", "Shl", "Urem", "And"}

Like(g, n, m) ==
  /\ ~IsAtom(n) /\ ~IsAtom(m) /\ Lhs(g, n) = Lhs(g, m)
  /\ \/ n.op = m.op /\ Rhs(g, n) = Rhs(g, m)
     \/ n.op \in Cheap /\ m.op \in Cheap /\ Fixed(g, Rhs(g, n)) /\ Fixed(g, Rhs(g, m))

Alike(g, n, m) ==
  \/ Like(g, n, m)
  \/ IsAtom(n) /\ IsAtom(m) /\ (n = m \/ (IsConst(n.atom) /\ IsConst(m.atom)))

Uniform(g) ==
  \A n, m \in Keys(g) : Home(g, n) = Home(g, m) => Spent(g, n) \/ Spent(g, m) \/ Alike(g, n, m)

(* Class c needs none of the instructions above E[c]: not those it holds, and
   not through the operands of its nodes.                                     *)
Reaches(g, E, n) ==
  IF IsAtom(n) THEN n.atom.kind = "inst" => n.atom.of <= E[Home(g, n)]
  ELSE \/ Cancels(g, n) /\ Fixed(g, Home(g, n))
       \/ E[Lhs(g, n)] <= E[Home(g, n)] /\ E[Rhs(g, n)] <= E[Home(g, n)]

Ranked(g, E) ==
  /\ E \in [Nat -> Nat]
  /\ \A c \in Nat : Fixed(g, c) => E[c] = 0
  /\ \A n \in Keys(g) : Reaches(g, E, n)

Shaped(g) ==
  \A n \in Keys(g) : Home(g, n) \in Nat /\ (~IsAtom(n) => Lhs(g, n) \in Nat /\ Rhs(g, n) \in Nat)

(* A constant is an atom.                                                     *)
LEMMA ConstIsAtom == ASSUME NEW n, IsConst(n.atom) PROVE IsAtom(n)
BY DEF IsConst, IsAtom, None

(* Graph h is g with class a and class b united, as class c.                  *)
United(a, b, c, x) == IF x \in {a, b} THEN c ELSE x

Merges(g, h, a, b, c) ==
  /\ a # b /\ c \in {a, b} /\ Keys(h) = Keys(g)
  /\ \A n \in Keys(g) :
       /\ Home(h, n) = United(a, b, c, Home(g, n))
       /\ ~IsAtom(n) => /\ Lhs(h, n) = United(a, b, c, Lhs(g, n))
                        /\ Rhs(h, n) = United(a, b, c, Rhs(g, n))

(* A class holds a constant afterwards if one of those it was made of did.    *)
LEMMA FixedUnited ==
  ASSUME NEW g, NEW h, NEW a, NEW b, NEW c, Merges(g, h, a, b, c)
  PROVE  /\ \A x : Fixed(g, x) => Fixed(h, United(a, b, c, x))
         /\ \A x : Fixed(h, x) => IF x = c THEN Fixed(g, a) \/ Fixed(g, b) ELSE Fixed(g, x)
BY DEF Merges, Fixed, United

(* A node that says nothing of its class goes on saying nothing.              *)
LEMMA SpentUnited ==
  ASSUME NEW g, NEW h, NEW a, NEW b, NEW c, Merges(g, h, a, b, c), NEW n \in Keys(g)
  PROVE  /\ Spent(g, n) => Spent(h, n)
         /\ Cancels(g, n) => Cancels(h, n)
         /\ Loops(g, n) => Loops(h, n)
<1>1. Cancels(g, n) => Cancels(h, n)
  BY DEF Merges, Cancels
<1>2. Loops(g, n) => Loops(h, n)
  BY FixedUnited DEF Merges, Loops
<1>3. Fixed(g, Home(g, n)) => Fixed(h, Home(h, n))
  BY FixedUnited DEF Merges
<1> QED BY <1>1, <1>2, <1>3 DEF Spent

(* Nodes that were alike still are.                                           *)
LEMMA AlikeUnited ==
  ASSUME NEW g, NEW h, NEW a, NEW b, NEW c, Merges(g, h, a, b, c), NEW n \in Keys(g), NEW m \in Keys(g),
         Alike(g, n, m)
  PROVE  Alike(h, n, m)
BY FixedUnited DEF Merges, Alike, Like

(* Being alike is symmetric and transitive.                                   *)
LEMMA AlikeItself == ASSUME NEW g, NEW n PROVE Alike(g, n, n)
BY DEF Alike, Like

(* Likeness goes both ways.                                                   *)
LEMMA AlikeSwapped ==
  ASSUME NEW g, NEW n, NEW m, Alike(g, n, m) PROVE Alike(g, m, n)
BY DEF Alike, Like

(* Likeness carries over from node to node.                                   *)
LEMMA AlikeThrough ==
  ASSUME NEW g, NEW n, NEW m, NEW o, Alike(g, n, m), Alike(g, m, o) PROVE Alike(g, n, o)
BY DEF Alike, Like

(* The nodes of the united class go together when those of a and b do.        *)
LEMMA UniformUnited ==
  ASSUME NEW g, NEW h, NEW a, NEW b, NEW c, Merges(g, h, a, b, c), Uniform(g),
         \A n, m \in Keys(g) : Home(g, n) = a /\ Home(g, m) = b
           => Spent(h, n) \/ Spent(h, m) \/ Alike(h, n, m)
  PROVE  Uniform(h)
<1> SUFFICES ASSUME NEW n \in Keys(g), NEW m \in Keys(g), Home(h, n) = Home(h, m)
             PROVE  Spent(h, n) \/ Spent(h, m) \/ Alike(h, n, m)
  BY DEF Uniform, Merges
<1>1. CASE Home(g, n) = Home(g, m)
  BY <1>1, SpentUnited, AlikeUnited DEF Uniform
<1>2. CASE Home(g, n) # Home(g, m)
  <2>1. \/ Home(g, n) = a /\ Home(g, m) = b
        \/ Home(g, n) = b /\ Home(g, m) = a
    BY <1>2 DEF Merges, United
  <2>2. Spent(h, n) \/ Spent(h, m) \/ Alike(h, n, m) \/ Alike(h, m, n)
    BY <2>1
  <2> QED BY <2>2, AlikeSwapped
<1> QED BY <1>1, <1>2

(* What is left of the ranks when a and b become c, of rank v.                *)
Lowered(E, c, v) == [E EXCEPT ![c] = v]

(* The lower of the two ranks will do for the class made of both.             *)
LEMMA RankedUnited ==
  ASSUME NEW g, NEW h, NEW a \in Nat, NEW b \in Nat, NEW c, Merges(g, h, a, b, c), Shaped(g),
         NEW E, Ranked(g, E), NEW v \in Nat, v <= E[a], v <= E[b],
         \A n \in Keys(g) : Home(g, n) \in {a, b} =>
           IF IsAtom(n) THEN n.atom.kind = "inst" => n.atom.of <= v
           ELSE \/ Spent(h, n)
                \/ E[Lhs(g, n)] <= v /\ E[Rhs(g, n)] <= v
  PROVE  /\ Ranked(h, Lowered(E, c, v))
         /\ \A x \in Nat : Lowered(E, c, v)[United(a, b, c, x)] <= E[x]
<1> DEFINE F == Lowered(E, c, v)
           u(x) == United(a, b, c, x)
<1>1. E \in [Nat -> Nat] /\ F \in [Nat -> Nat] /\ c \in Nat /\ F[c] = v /\ \A x \in Nat : x # c => F[x] = E[x]
  BY DEF Ranked, Lowered, Merges
<1> HIDE DEF F
<1>2. \A x \in Nat : u(x) \in Nat /\ F[u(x)] <= E[x]
  <2> SUFFICES ASSUME NEW x \in Nat PROVE u(x) \in Nat /\ F[u(x)] <= E[x]
    OBVIOUS
  <2>1. CASE x \in {a, b}
    BY <1>1, <2>1 DEF United
  <2>2. CASE x \notin {a, b}
    BY <1>1, <2>2 DEF United, Merges
  <2> QED BY <2>1, <2>2
<1>3. ASSUME NEW x \in Nat, Fixed(h, x) PROVE F[x] = 0
  <2>1. CASE x = c
    <3>1. Fixed(g, a) \/ Fixed(g, b)
      BY <1>3, <2>1, FixedUnited
    <3>2. E[a] = 0 \/ E[b] = 0
      BY <3>1 DEF Ranked
    <3> QED BY <1>1, <2>1, <3>2
  <2>2. CASE x # c
    <3>1. Fixed(g, x)
      BY <1>3, <2>2, FixedUnited
    <3> QED BY <1>1, <2>2, <3>1 DEF Ranked
  <2> QED BY <2>1, <2>2
<1>4. ASSUME NEW n \in Keys(g) PROVE Reaches(h, F, n)
  <2>1. /\ Home(g, n) \in Nat /\ Home(h, n) = u(Home(g, n))
        /\ ~IsAtom(n) => /\ Lhs(g, n) \in Nat /\ Rhs(g, n) \in Nat
                         /\ Lhs(h, n) = u(Lhs(g, n)) /\ Rhs(h, n) = u(Rhs(g, n))
    BY DEF Shaped, Merges
  <2>2. /\ ~IsAtom(n) => /\ F[Lhs(h, n)] \in Nat /\ F[Rhs(h, n)] \in Nat
                         /\ F[Lhs(h, n)] <= E[Lhs(g, n)] /\ F[Rhs(h, n)] <= E[Rhs(g, n)]
                         /\ E[Lhs(g, n)] \in Nat /\ E[Rhs(g, n)] \in Nat
        /\ F[Home(h, n)] \in Nat /\ E[Home(g, n)] \in Nat /\ Home(h, n) \in Nat
    BY <1>1, <1>2, <2>1
  <2>3. ASSUME Spent(h, n) PROVE Reaches(h, F, n)
    <3>1. CASE Cancels(h, n) /\ Fixed(h, Home(h, n))
      BY <3>1 DEF Reaches, Cancels
    <3>2. CASE Loops(h, n)
      <4>1. ~IsAtom(n) /\ Lhs(h, n) = Home(h, n) /\ Rhs(h, n) \in Nat /\ Fixed(h, Rhs(h, n))
        BY <3>2, <1>2, <2>1 DEF Loops
      <4>2. F[Rhs(h, n)] = 0
        BY <4>1, <1>3
      <4> QED BY <4>1, <4>2, <2>2 DEF Reaches
    <3> QED BY <2>3, <3>1, <3>2 DEF Spent
  <2>4. CASE Home(g, n) \in {a, b}
    <3>1. F[Home(h, n)] = v
      BY <2>1, <2>4, <1>1 DEF United
    <3>2. IF IsAtom(n) THEN n.atom.kind = "inst" => n.atom.of <= v
          ELSE Spent(h, n) \/ (E[Lhs(g, n)] <= v /\ E[Rhs(g, n)] <= v)
      BY <2>4
    <3>3. CASE IsAtom(n)
      BY <3>1, <3>2, <3>3 DEF Reaches
    <3>4. CASE ~IsAtom(n) /\ ~Spent(h, n)
      <4>1. F[Lhs(h, n)] <= v /\ F[Rhs(h, n)] <= v
        BY <2>2, <3>2, <3>4
      <4> QED BY <3>1, <3>4, <4>1 DEF Reaches
    <3> QED BY <2>3, <3>3, <3>4
  <2>5. CASE Home(g, n) \notin {a, b}
    <3>1. Home(h, n) = Home(g, n) /\ F[Home(h, n)] = E[Home(g, n)]
      BY <2>1, <2>5, <1>1 DEF United, Merges
    <3>2. Reaches(g, E, n)
      BY DEF Ranked
    <3>3. CASE IsAtom(n)
      BY <3>1, <3>2, <3>3 DEF Reaches
    <3>4. CASE ~IsAtom(n) /\ Cancels(g, n) /\ Fixed(g, Home(g, n))
      BY <3>4, <2>3, SpentUnited DEF Spent
    <3>5. CASE ~IsAtom(n) /\ E[Lhs(g, n)] <= E[Home(g, n)] /\ E[Rhs(g, n)] <= E[Home(g, n)]
      <4>1. F[Lhs(h, n)] <= F[Home(h, n)] /\ F[Rhs(h, n)] <= F[Home(h, n)]
        BY <2>2, <3>1, <3>5
      <4> QED BY <3>5, <4>1 DEF Reaches
    <3> QED BY <3>2, <3>3, <3>4, <3>5 DEF Reaches
  <2> QED BY <2>4, <2>5
<1>5. Ranked(h, F)
  BY <1>1, <1>3, <1>4 DEF Ranked, Merges
<1> QED BY <1>2, <1>5 DEF F

(* A step from g to h that unites classes leaves an order.                     *)
Ordering(g, E) == Uniform(g) /\ Ranked(g, E)

UnitesWell(g, h, a, b, c, E) ==
  \E v \in Nat : Ordering(h, Lowered(E, c, v)) /\ \A x \in Nat : Lowered(E, c, v)[United(a, b, c, x)] <= E[x]

(* All nodes of one class come to say nothing of it.                           *)
LEMMA Absorbed ==
  ASSUME NEW g, NEW h, NEW a \in Nat, NEW b \in Nat, NEW c, Merges(g, h, a, b, c), Shaped(g),
         NEW E, Ordering(g, E), E[b] <= E[a],
         \A n \in Keys(g) : Home(g, n) = a => Spent(h, n)
  PROVE  UnitesWell(g, h, a, b, c, E)
<1>1. E \in [Nat -> Nat] /\ Uniform(g) /\ Ranked(g, E)
  BY DEF Ordering, Ranked
<1>2. Uniform(h)
  BY <1>1, UniformUnited
<1>3. ASSUME NEW n \in Keys(g), Home(g, n) \in {a, b}
      PROVE  IF IsAtom(n) THEN n.atom.kind = "inst" => n.atom.of <= E[b]
             ELSE Spent(h, n) \/ (E[Lhs(g, n)] <= E[b] /\ E[Rhs(g, n)] <= E[b])
  <2>1. CASE Home(g, n) = a
    BY <2>1 DEF Spent, Loops, Cancels
  <2>2. CASE Home(g, n) = b
    <3>1. Reaches(g, E, n)
      BY <1>1 DEF Ranked
    <3>2. Spent(g, n) => Spent(h, n)
      BY SpentUnited
    <3> QED BY <2>2, <3>1, <3>2 DEF Reaches, Spent
  <2> QED BY <1>3, <2>1, <2>2
<1>4. E[b] \in Nat /\ E[b] <= E[b]
  BY <1>1
<1>5. Ranked(h, Lowered(E, c, E[b])) /\ \A x \in Nat : Lowered(E, c, E[b])[United(a, b, c, x)] <= E[x]
  BY <1>1, <1>3, <1>4, RankedUnited
<1> QED BY <1>2, <1>4, <1>5 DEF UnitesWell, Ordering

(* A node of class a has class b for an operand, with a constant; or it cancels,
   and b is zero's.                                                            *)
LEMMA Absorbs ==
  ASSUME NEW g, NEW h, NEW a \in Nat, NEW b \in Nat, NEW c, Merges(g, h, a, b, c), Shaped(g),
         NEW E, Ordering(g, E), NEW p \in Keys(g), Home(g, p) = a, ~IsAtom(p), ~Spent(g, p),
         \/ Lhs(g, p) = b /\ Fixed(g, Rhs(g, p))
         \/ Cancels(g, p) /\ Fixed(g, b)
  PROVE  UnitesWell(g, h, a, b, c, E)
<1>1. E \in [Nat -> Nat] /\ Uniform(g) /\ Ranked(g, E)
  BY DEF Ordering, Ranked
<1>2. E[b] <= E[a]
  <2>1. CASE Fixed(g, b)
    <3>1. E[b] = 0 /\ E[a] \in Nat
      BY <1>1, <2>1 DEF Ranked
    <3> QED BY <3>1
  <2>2. CASE Lhs(g, p) = b
    <3>1. Reaches(g, E, p)
      BY <1>1 DEF Ranked
    <3> QED BY <2>2, <3>1 DEF Reaches, Spent
  <2> QED BY <2>1, <2>2
<1>3. ASSUME NEW n \in Keys(g), Home(g, n) = a PROVE Spent(h, n)
  <2>1. CASE Spent(g, n)
    BY <2>1, SpentUnited
  <2>2. CASE ~Spent(g, n)
    <3>1. Like(g, n, p)
      BY <1>1, <1>3, <2>2 DEF Uniform, Alike
    <3>2. CASE Lhs(g, p) = b /\ Fixed(g, Rhs(g, p))
      <4>1. ~IsAtom(n) /\ Lhs(g, n) = b /\ Fixed(g, Rhs(g, n))
        BY <3>1, <3>2 DEF Like
      <4>2. Lhs(h, n) = c /\ Home(h, n) = c /\ Rhs(h, n) = United(a, b, c, Rhs(g, n))
        BY <1>3, <4>1 DEF Merges, United
      <4> QED BY <4>1, <4>2, FixedUnited DEF Spent, Loops
    <3>3. CASE Cancels(g, p) /\ Fixed(g, b)
      <4>1. Cancels(g, n)
        BY <3>1, <3>3 DEF Like, Cancels, Cheap
      <4>2. Home(h, n) = c /\ United(a, b, c, b) = c
        BY <1>3 DEF Merges, United
      <4>3. Fixed(h, c)
        BY <3>3, <4>2, FixedUnited
      <4> QED BY <4>1, <4>2, <4>3, SpentUnited DEF Spent
    <3> QED BY <3>2, <3>3
  <2> QED BY <2>1, <2>2
<1> QED BY <1>2, <1>3, Absorbed

(* Two classes with constants.                                                 *)
LEMMA BothFixed ==
  ASSUME NEW g, NEW h, NEW a \in Nat, NEW b \in Nat, NEW c, Merges(g, h, a, b, c), Shaped(g),
         NEW E, Ordering(g, E), Fixed(g, a), Fixed(g, b)
  PROVE  UnitesWell(g, h, a, b, c, E)
<1>1. E \in [Nat -> Nat] /\ Uniform(g) /\ Ranked(g, E) /\ E[a] = 0 /\ E[b] = 0
  BY DEF Ordering, Ranked
<1>2. ASSUME NEW n \in Keys(g), Home(g, n) \in {a, b}, ~Spent(g, n) PROVE IsAtom(n) /\ IsConst(n.atom)
  <2>1. PICK m \in Keys(g) : IsConst(m.atom) /\ Home(g, m) = Home(g, n)
    BY <1>2 DEF Fixed
  <2>2. IsAtom(m) /\ ~Spent(g, m)
    BY <2>1, ConstIsAtom DEF Spent, Loops, Cancels
  <2>3. Alike(g, n, m)
    BY <1>1, <1>2, <2>1, <2>2 DEF Uniform
  <2> QED BY <2>1, <2>2, <2>3 DEF Alike, Like
<1>3. Uniform(h)
  <2>1. ASSUME NEW n \in Keys(g), NEW m \in Keys(g), Home(g, n) = a, Home(g, m) = b
        PROVE  Spent(h, n) \/ Spent(h, m) \/ Alike(h, n, m)
    BY <1>2, <2>1, SpentUnited DEF Alike
  <2> QED BY <1>1, <2>1, UniformUnited
<1>4. ASSUME NEW n \in Keys(g), Home(g, n) \in {a, b}
      PROVE  IF IsAtom(n) THEN n.atom.kind = "inst" => n.atom.of <= 0
             ELSE Spent(h, n) \/ (E[Lhs(g, n)] <= 0 /\ E[Rhs(g, n)] <= 0)
  <2>1. Spent(g, n) => Spent(h, n) /\ ~IsAtom(n)
    BY SpentUnited DEF Spent, Loops, Cancels
  <2> QED BY <1>2, <1>4, <2>1 DEF IsConst
<1>5. 0 \in Nat /\ 0 <= E[a] /\ 0 <= E[b]
  BY <1>1
<1>6. Ranked(h, Lowered(E, c, 0)) /\ \A x \in Nat : Lowered(E, c, 0)[United(a, b, c, x)] <= E[x]
  BY <1>1, <1>4, <1>5, RankedUnited
<1> QED BY <1>3, <1>5, <1>6 DEF UnitesWell, Ordering

(* Two classes with nodes that are alike, the lower of which is a.             *)
LEMMA BothAlike ==
  ASSUME NEW g, NEW h, NEW a \in Nat, NEW b \in Nat, NEW c, Merges(g, h, a, b, c), Shaped(g),
         NEW E, Ordering(g, E), E[a] <= E[b],
         NEW p \in Keys(g), NEW q \in Keys(g), Home(g, p) = a, Home(g, q) = b,
         ~Spent(g, p), ~Spent(g, q), Like(g, p, q)
  PROVE  UnitesWell(g, h, a, b, c, E)
<1>1. E \in [Nat -> Nat] /\ Uniform(g) /\ Ranked(g, E)
  BY DEF Ordering, Ranked
<1>2. ASSUME NEW n \in Keys(g), Home(g, n) \in {a, b}, ~Spent(g, n) PROVE Alike(g, n, p)
  <2>1. CASE Home(g, n) = a
    BY <1>1, <1>2, <2>1 DEF Uniform
  <2>2. CASE Home(g, n) = b
    <3>1. Alike(g, n, q)
      BY <1>1, <1>2, <2>2 DEF Uniform
    <3>2. Alike(g, q, p)
      BY AlikeSwapped DEF Alike
    <3> QED BY <3>1, <3>2, AlikeThrough
  <2> QED BY <1>2, <2>1, <2>2
<1>3. Uniform(h)
  <2>1. ASSUME NEW n \in Keys(g), NEW m \in Keys(g), Home(g, n) = a, Home(g, m) = b
        PROVE  Spent(h, n) \/ Spent(h, m) \/ Alike(h, n, m)
    <3>1. CASE Spent(g, n) \/ Spent(g, m)
      BY <3>1, SpentUnited
    <3>2. CASE ~Spent(g, n) /\ ~Spent(g, m)
      <4>1. Alike(g, n, p) /\ Alike(g, m, p)
        BY <1>2, <2>1, <3>2
      <4>2. Alike(g, n, m)
        BY <4>1, AlikeSwapped, AlikeThrough
      <4> QED BY <4>2, AlikeUnited
    <3> QED BY <3>1, <3>2
  <2> QED BY <1>1, <2>1, UniformUnited
<1>4. E[Lhs(g, p)] <= E[a] /\ E[Rhs(g, p)] <= E[a] /\ ~IsAtom(p)
  <2>1. Reaches(g, E, p)
    BY <1>1 DEF Ranked
  <2> QED BY <2>1 DEF Reaches, Spent, Like
<1>5. ASSUME NEW n \in Keys(g), Home(g, n) \in {a, b}
      PROVE  IF IsAtom(n) THEN n.atom.kind = "inst" => n.atom.of <= E[a]
             ELSE Spent(h, n) \/ (E[Lhs(g, n)] <= E[a] /\ E[Rhs(g, n)] <= E[a])
  <2>1. CASE Spent(g, n)
    BY <2>1, SpentUnited DEF Spent, Loops, Cancels
  <2>2. CASE ~Spent(g, n)
    <3>1. Like(g, n, p)
      BY <1>2, <1>4, <1>5, <2>2 DEF Alike
    <3>2. E[Lhs(g, n)] <= E[a] /\ ~IsAtom(n)
      BY <1>4, <3>1 DEF Like
    <3>3. CASE Rhs(g, n) = Rhs(g, p)
      BY <1>4, <3>2, <3>3
    <3>4. CASE Fixed(g, Rhs(g, n))
      <4>1. Rhs(g, n) \in Nat /\ E[a] \in Nat
        BY <1>1, <3>2 DEF Shaped
      <4>2. E[Rhs(g, n)] = 0
        BY <1>1, <3>4, <4>1 DEF Ranked
      <4> QED BY <3>2, <4>1, <4>2
    <3> QED BY <3>1, <3>3, <3>4 DEF Like
  <2> QED BY <2>1, <2>2
<1>6. E[a] \in Nat /\ E[a] <= E[a]
  BY <1>1
<1>7. Ranked(h, Lowered(E, c, E[a])) /\ \A x \in Nat : Lowered(E, c, E[a])[United(a, b, c, x)] <= E[x]
  BY <1>1, <1>5, <1>6, RankedUnited
<1> QED BY <1>3, <1>6, <1>7 DEF UnitesWell, Ordering

(* Why the rules and rebuild unite class a with class b.                       *)
Reason(g, a, b) ==
  \E n \in Keys(g) : Home(g, n) = a /\ ~IsAtom(n) /\
    \/ Lhs(g, n) = b /\ Fixed(g, Rhs(g, n))
    \/ Cancels(g, n) /\ Fixed(g, b)
    \/ \E m \in Keys(g) : Home(g, m) = b /\ Like(g, n, m)

(* The reasons for a merge hold for either order of its classes.              *)
LEMMA Swapped ==
  ASSUME NEW g, NEW h, NEW a, NEW b, NEW c, NEW E
  PROVE  /\ Merges(g, h, a, b, c) => Merges(g, h, b, a, c)
         /\ UnitesWell(g, h, b, a, c, E) => UnitesWell(g, h, a, b, c, E)
<1>1. \A x : United(a, b, c, x) = United(b, a, c, x)
  BY DEF United
<1> QED BY <1>1 DEF Merges, UnitesWell

(* Nodes whose operands are the same are a reason to unite their classes.     *)
LEMMA OperandReason ==
  ASSUME NEW g, NEW h, NEW a \in Nat, NEW b \in Nat, NEW c, Merges(g, h, a, b, c), Shaped(g),
         NEW E, Ordering(g, E), NEW n \in Keys(g), Home(g, n) = a, ~IsAtom(n),
         \/ Lhs(g, n) = b /\ Fixed(g, Rhs(g, n))
         \/ Cancels(g, n) /\ Fixed(g, b)
  PROVE  UnitesWell(g, h, a, b, c, E)
<1>1. CASE Fixed(g, a) /\ Fixed(g, b)
  BY <1>1, BothFixed
<1>2. CASE ~(Fixed(g, a) /\ Fixed(g, b))
  <2>1. ~Spent(g, n)
    BY <1>2 DEF Spent, Loops, Cancels, Merges
  <2> QED BY <2>1, Absorbs
<1> QED BY <1>1, <1>2

(* Two classes that there is a reason to unite can be united.                 *)
LEMMA UnitedForReason ==
  ASSUME NEW g, NEW h, NEW a \in Nat, NEW b \in Nat, NEW c, Merges(g, h, a, b, c), Shaped(g),
         NEW E, Ordering(g, E), Reason(g, a, b)
  PROVE  UnitesWell(g, h, a, b, c, E)
<1>1. PICK n \in Keys(g) : Home(g, n) = a /\ ~IsAtom(n) /\
         \/ Lhs(g, n) = b /\ Fixed(g, Rhs(g, n))
         \/ Cancels(g, n) /\ Fixed(g, b)
         \/ \E m \in Keys(g) : Home(g, m) = b /\ Like(g, n, m)
  BY DEF Reason
<1>2. CASE \/ Lhs(g, n) = b /\ Fixed(g, Rhs(g, n))
           \/ Cancels(g, n) /\ Fixed(g, b)
  BY <1>1, <1>2, OperandReason
<1>3. ASSUME NEW m \in Keys(g), Home(g, m) = b, Like(g, n, m)
      PROVE  UnitesWell(g, h, a, b, c, E)
  <2>1. Merges(g, h, b, a, c) /\ ~IsAtom(m) /\ Like(g, m, n)
    BY <1>3, Swapped DEF Like
  <2>2. CASE Spent(g, n)
    <3>1. \/ Lhs(g, m) = a /\ Fixed(g, Rhs(g, m))
          \/ Cancels(g, m) /\ Fixed(g, a)
      BY <1>1, <1>3, <2>2 DEF Spent, Loops, Cancels, Like, Cheap
    <3>2. UnitesWell(g, h, b, a, c, E)
      BY <1>3, <2>1, <3>1, OperandReason
    <3> QED BY <3>2, Swapped
  <2>3. CASE Spent(g, m)
    <3>1. \/ Lhs(g, n) = b /\ Fixed(g, Rhs(g, n))
          \/ Cancels(g, n) /\ Fixed(g, b)
      BY <1>1, <1>3, <2>3 DEF Spent, Loops, Cancels, Like, Cheap
    <3> QED BY <1>1, <3>1, OperandReason
  <2>4. CASE ~Spent(g, n) /\ ~Spent(g, m)
    <3>1. E[a] \in Nat /\ E[b] \in Nat
      BY DEF Ordering, Ranked
    <3>2. CASE E[a] <= E[b]
      BY <1>1, <1>3, <2>4, <3>2, BothAlike
    <3>3. CASE E[b] <= E[a]
      <4>1. UnitesWell(g, h, b, a, c, E)
        BY <1>1, <1>3, <2>1, <2>4, <3>3, BothAlike
      <4> QED BY <4>1, Swapped
    <3> QED BY <3>1, <3>2, <3>3
  <2> QED BY <2>2, <2>3, <2>4
<1> QED BY <1>1, <1>2, <1>3

-----------------------------------------------------------------------------
(* What find returns is a class of its own.                                    *)
Firm(g) == \A c \in Ids(g) : g.rep[g.rep[c]] = g.rep[c]

(* A node is in the memo for its class, perhaps with the children it had.      *)
Same(g, k, n) ==
  IF IsAtom(n) THEN k = n
  ELSE ~IsAtom(k) /\ k.op = n.op /\ Lhs(g, k) = Lhs(g, n) /\ Rhs(g, k) = Rhs(g, n)

Traced(g, n, c) == \E k \in Keys(g) : Same(g, k, n) /\ Home(g, k) = g.rep[c]

TracedList(g, c, s) == \A k \in 1 .. Len(s) : Traced(g, s[k], c)

(* What was one class in g is one in h.                                        *)
Lasting(g, h) ==
  /\ Ids(g) \subseteq Ids(h)
  /\ \A n \in Keys(g) : n \in Keys(h) /\ h.memo[n] = g.memo[n]
  /\ \A x \in Ids(g) : h.rep[x] = h.rep[g.rep[x]]

(* Classes x and y are one, or there is a reason to unite them.                *)
Due(g, x, y) == g.rep[x] = g.rep[y] \/ Reason(g, g.rep[x], g.rep[y])

(* The operands of a node are classes of the graph.                           *)
LEMMA NodeShape ==
  ASSUME NEW p \in Programs, NEW g, GoodClasses(g), NEW n, GoodNode(p, g, n)
  PROVE  /\ IsAtom(n) => n.atom \in AtomSet(p) /\ n = Atom(n.atom)
         /\ ~IsAtom(n) =>
              /\ n.op \in Arithmetic /\ n = Node(n.op, n.children[1], n.children[2])
              /\ n.children[1] \in Ids(g) /\ Lhs(g, n) \in Ids(g)
              /\ n.children[2] \in Ids(g) /\ Rhs(g, n) \in Ids(g)
<1>1. CASE \E v \in AtomSet(p) : n = Atom(v)
  <2>1. PICK v \in AtomSet(p) : n = Atom(v)
    BY <1>1
  <2>2. n.atom = v /\ v # None
    BY <2>1, AtomValue DEF Atom
  <2> QED BY <2>1, <2>2 DEF IsAtom
<1>2. ASSUME NEW op \in Arithmetic, NEW x \in Ids(g), NEW y \in Ids(g), n = Node(op, x, y)
      PROVE  /\ ~IsAtom(n) /\ n.op \in Arithmetic /\ n = Node(n.op, n.children[1], n.children[2])
             /\ n.children[1] \in Ids(g) /\ Lhs(g, n) \in Ids(g)
             /\ n.children[2] \in Ids(g) /\ Rhs(g, n) \in Ids(g)
  BY <1>2, NodeParts DEF Lhs, Rhs, GoodClasses
<1> QED BY <1>1, <1>2 DEF GoodNode

(* A node of the memo belongs to a class of the graph.                        *)
LEMMA KeyShape ==
  ASSUME NEW p \in Programs, NEW g, GoodGraph(p, g), NEW n \in Keys(g)
  PROVE  g.memo[n] \in Ids(g) /\ Home(g, n) \in Ids(g) /\ GoodNode(p, g, n) /\ Home(g, n) = g.rep[g.memo[n]]
BY DEF GoodGraph, GoodMemo, Stands, GoodClasses, Home, Keys

(* The classes of all nodes of the memo are numbers.                          *)
LEMMA ShapedGraph ==
  ASSUME NEW p \in Programs, NEW g, GoodGraph(p, g)
  PROVE  Shaped(g) /\ Ids(g) \subseteq Nat
<1>1. Ids(g) \subseteq Nat /\ GoodClasses(g)
  BY DEF GoodGraph, Ids
<1> QED BY <1>1, KeyShape, NodeShape DEF Shaped

(* Nodes of one class stay in one class.                                      *)
LEMMA HomeLasts ==
  ASSUME NEW p \in Programs, NEW g, GoodGraph(p, g), NEW h, Lasting(g, h), NEW n \in Keys(g), NEW c \in Ids(g),
         Home(g, n) = g.rep[c]
  PROVE  n \in Keys(h) /\ Home(h, n) = h.rep[c]
<1>1. g.memo[n] \in Ids(g) /\ g.rep[g.memo[n]] = g.rep[c]
  BY KeyShape
<1>2. h.rep[g.memo[n]] = h.rep[c]
  BY <1>1 DEF Lasting
<1> QED BY <1>2 DEF Lasting, Home

(* A class that holds a constant goes on holding one.                         *)
LEMMA FixedLasts ==
  ASSUME NEW p \in Programs, NEW g, GoodGraph(p, g), NEW h, Lasting(g, h), NEW c \in Ids(g), Fixed(g, g.rep[c])
  PROVE  Fixed(h, h.rep[c])
BY HomeLasts DEF Fixed

(* Operands of one class stay in one class.                                   *)
LEMMA OperandsLast ==
  ASSUME NEW p \in Programs, NEW g, GoodGraph(p, g), NEW h, Lasting(g, h),
         NEW n, GoodNode(p, g, n), ~IsAtom(n), NEW c \in Ids(g)
  PROVE  /\ Lhs(g, n) = g.rep[c] => Lhs(h, n) = h.rep[c]
         /\ Rhs(g, n) = g.rep[c] => Rhs(h, n) = h.rep[c]
<1>1. n.children[1] \in Ids(g) /\ n.children[2] \in Ids(g)
  BY NodeShape DEF GoodGraph
<1> QED BY <1>1 DEF Lasting, Lhs, Rhs

(* Nodes that are the same up to their classes stay so.                       *)
LEMMA SameOperandsLast ==
  ASSUME NEW p \in Programs, NEW g, GoodGraph(p, g), NEW h, Lasting(g, h),
         NEW n, GoodNode(p, g, n), ~IsAtom(n), NEW k, GoodNode(p, g, k), ~IsAtom(k)
  PROVE  /\ Lhs(g, k) = Lhs(g, n) => Lhs(h, k) = Lhs(h, n)
         /\ Rhs(g, k) = Rhs(g, n) => Rhs(h, k) = Rhs(h, n)
         /\ Lhs(g, n) = Rhs(g, n) => Lhs(h, n) = Rhs(h, n)
         /\ Fixed(g, Rhs(g, n)) => Fixed(h, Rhs(h, n))
<1>1. /\ n.children[1] \in Ids(g) /\ n.children[2] \in Ids(g)
      /\ k.children[1] \in Ids(g) /\ k.children[2] \in Ids(g)
  BY NodeShape DEF GoodGraph
<1>2. Fixed(g, Rhs(g, n)) => Fixed(h, Rhs(h, n))
  BY <1>1, FixedLasts DEF Rhs
<1> QED BY <1>1, <1>2 DEF Lasting, Lhs, Rhs

(* What was traced to a node of the memo still is.                            *)
LEMMA TracedLasts ==
  ASSUME NEW p \in Programs, NEW g, GoodGraph(p, g), NEW h, Lasting(g, h),
         NEW n, GoodNode(p, g, n), NEW c \in Ids(g), Traced(g, n, c)
  PROVE  Traced(h, n, c)
<1>1. PICK k \in Keys(g) : Same(g, k, n) /\ Home(g, k) = g.rep[c]
  BY DEF Traced
<1>2. k \in Keys(h) /\ Home(h, k) = h.rep[c]
  BY <1>1, HomeLasts
<1>3. GoodNode(p, g, k)
  BY KeyShape
<1>4. Same(h, k, n)
  BY <1>1, <1>3, SameOperandsLast DEF Same
<1> QED BY <1>2, <1>4 DEF Traced

(* The same, for a whole list.                                                *)
LEMMA TracedListLasts ==
  ASSUME NEW p \in Programs, NEW g, GoodGraph(p, g), NEW h, Lasting(g, h), NEW c \in Ids(g),
         NEW s, Listed(p, g, c, s), TracedList(g, c, s)
  PROVE  TracedList(h, c, s)
BY TracedLasts DEF TracedList, Listed, Stands

(* What was a reason for a merge still is, or the classes are one by now.     *)
LEMMA DueLasts ==
  ASSUME NEW p \in Programs, NEW g, GoodGraph(p, g), NEW h, Lasting(g, h), NEW x \in Ids(g), NEW y \in Ids(g),
         Due(g, x, y)
  PROVE  Due(h, x, y)
<1>1. CASE g.rep[x] = g.rep[y]
  BY <1>1 DEF Lasting, Due
<1>2. CASE Reason(g, g.rep[x], g.rep[y])
  <2>1. PICK n \in Keys(g) : Home(g, n) = g.rep[x] /\ ~IsAtom(n) /\
          \/ Lhs(g, n) = g.rep[y] /\ Fixed(g, Rhs(g, n))
          \/ Cancels(g, n) /\ Fixed(g, g.rep[y])
          \/ \E m \in Keys(g) : Home(g, m) = g.rep[y] /\ Like(g, n, m)
    BY <1>2 DEF Reason
  <2>2. n \in Keys(h) /\ Home(h, n) = h.rep[x] /\ GoodNode(p, g, n)
    BY <2>1, HomeLasts, KeyShape
  <2>3. CASE Lhs(g, n) = g.rep[y] /\ Fixed(g, Rhs(g, n))
    <3>1. Lhs(h, n) = h.rep[y] /\ Fixed(h, Rhs(h, n))
      BY <2>1, <2>2, <2>3, OperandsLast, SameOperandsLast
    <3> QED BY <2>1, <2>2, <3>1 DEF Due, Reason
  <2>4. CASE Cancels(g, n) /\ Fixed(g, g.rep[y])
    <3>1. Cancels(h, n) /\ Fixed(h, h.rep[y])
      BY <2>1, <2>2, <2>4, FixedLasts, SameOperandsLast DEF Cancels
    <3> QED BY <2>1, <2>2, <3>1 DEF Due, Reason
  <2>5. ASSUME NEW m \in Keys(g), Home(g, m) = g.rep[y], Like(g, n, m)
        PROVE  Due(h, x, y)
    <3>1. m \in Keys(h) /\ Home(h, m) = h.rep[y] /\ GoodNode(p, g, m) /\ ~IsAtom(m)
      BY <2>5, HomeLasts, KeyShape DEF Like
    <3>2. Like(h, n, m)
      BY <2>1, <2>2, <2>5, <3>1, SameOperandsLast DEF Like
    <3> QED BY <2>1, <2>2, <3>1, <3>2 DEF Due, Reason
  <2> QED BY <2>1, <2>3, <2>4, <2>5
<1> QED BY <1>1, <1>2 DEF Due

(* The lists of the classes make no difference.                                *)
LEMMA SameOrder ==
  ASSUME NEW g, NEW h, h.memo = g.memo, h.rep = g.rep, NEW E, Ordering(g, E)
  PROVE  Ordering(h, E)
<1>1. /\ Keys(h) = Keys(g)
      /\ \A n : Home(h, n) = Home(g, n) /\ Lhs(h, n) = Lhs(g, n) /\ Rhs(h, n) = Rhs(g, n)
  BY DEF Keys, Home, Lhs, Rhs
<1>2. \A c : Fixed(h, c) <=> Fixed(g, c)
  BY <1>1 DEF Fixed
<1>3. \A n : Spent(h, n) <=> Spent(g, n)
  BY <1>1, <1>2 DEF Spent, Loops, Cancels
<1>4. \A n, m : Alike(h, n, m) <=> Alike(g, n, m)
  BY <1>1, <1>2 DEF Alike, Like
<1>5. Uniform(h)
  BY <1>1, <1>3, <1>4 DEF Ordering, Uniform
<1>6. \A n \in Keys(g) : Reaches(h, E, n)
  BY <1>1, <1>2 DEF Ordering, Ranked, Reaches, Cancels
<1> QED BY <1>1, <1>2, <1>5, <1>6 DEF Ordering, Ranked

(* Two classes become one.                                                     *)
LEMMA OrderUnited ==
  ASSUME NEW p \in Programs, NEW g, GoodGraph(p, g), Firm(g), NEW E, Ordering(g, E),
         NEW x \in Ids(g), NEW y \in Ids(g), Due(g, x, y),
         NEW h, h.memo = g.memo,
         h.rep = [c \in DOMAIN g.rep |-> IF g.rep[c] = g.rep[y] THEN g.rep[x] ELSE g.rep[c]]
  PROVE  /\ Firm(h) /\ Lasting(g, h)
         /\ \E F : Ordering(h, F) /\ \A c \in Ids(g) : F[h.rep[c]] <= E[g.rep[c]]
<1> DEFINE a == g.rep[x]
           b == g.rep[y]
<1>1. /\ DOMAIN g.rep = Ids(g) /\ Len(g.rep) \in Nat /\ Ids(g) \subseteq Nat
      /\ \A c \in Ids(g) : g.rep[c] \in Ids(g)
  BY DEF GoodGraph, GoodClasses, Ids
<1>2. Ids(h) = Ids(g)
  <2>1. h.rep \in Seq(Nat) /\ Len(h.rep) = Len(g.rep)
    <3>1. h.rep \in [1 .. Len(g.rep) -> Nat]
      BY <1>1 DEF Ids
    <3>2. h.rep \in Seq(Nat)
      BY <1>1, <3>1, SeqDef
    <3> QED BY <1>1, <3>1, <3>2, LenProperties
  <2> QED BY <2>1 DEF Ids
<1>3. a \in Ids(g) /\ b \in Ids(g) /\ g.rep[a] = a /\ g.rep[b] = b
  BY <1>1 DEF Firm
<1>4. \A c \in Ids(g) : h.rep[c] = IF g.rep[c] = b THEN a ELSE g.rep[c]
  BY <1>1
<1>5. Firm(h)
  BY <1>1, <1>2, <1>3, <1>4 DEF Firm
<1>6. Lasting(g, h)
  BY <1>1, <1>2, <1>4 DEF Lasting, Firm, Keys
<1>7. E \in [Nat -> Nat]
  BY DEF Ordering, Ranked
<1>8. CASE a = b
  <2>1. h.rep = g.rep
    <3>1. g.rep \in [Ids(g) -> Nat] /\ h.rep \in [Ids(g) -> Nat]
      BY <1>1, <1>3 DEF GoodGraph, GoodClasses
    <3>2. \A c \in Ids(g) : h.rep[c] = g.rep[c]
      BY <1>4, <1>8
    <3> QED BY <3>1, <3>2
  <2>2. Ordering(h, E)
    BY <2>1, SameOrder
  <2>3. \A c \in Ids(g) : E[g.rep[c]] \in Nat
    BY <1>1, <1>7
  <2>4. \A c \in Ids(g) : E[h.rep[c]] <= E[g.rep[c]]
    BY <2>1, <2>3
  <2> QED BY <1>5, <1>6, <2>2, <2>4
<1>9. CASE a # b
  <2>1. \A c \in Ids(g) : h.rep[c] = United(a, b, a, g.rep[c])
    BY <1>4 DEF United
  <2>2. Merges(g, h, a, b, a)
    <3>1. ASSUME NEW n \in Keys(g)
          PROVE  /\ Home(h, n) = United(a, b, a, Home(g, n))
                 /\ ~IsAtom(n) => /\ Lhs(h, n) = United(a, b, a, Lhs(g, n))
                                  /\ Rhs(h, n) = United(a, b, a, Rhs(g, n))
      <4>1. g.memo[n] \in Ids(g)
        BY KeyShape
      <4>2. ~IsAtom(n) => n.children[1] \in Ids(g) /\ n.children[2] \in Ids(g)
        BY KeyShape, NodeShape DEF GoodGraph
      <4> QED BY <2>1, <4>1, <4>2 DEF Home, Lhs, Rhs
    <3> QED BY <1>9, <3>1 DEF Merges, Keys
  <2>3. Reason(g, a, b)
    BY <1>9 DEF Due
  <2> HIDE DEF a, b
  <2>4. UnitesWell(g, h, a, b, a, E)
    BY <1>1, <1>3, <2>2, <2>3, ShapedGraph, UnitedForReason
  <2>5. PICK v \in Nat : Ordering(h, Lowered(E, a, v)) /\ \A c \in Nat : Lowered(E, a, v)[United(a, b, a, c)] <= E[c]
    BY <2>4 DEF UnitesWell
  <2>6. \A c \in Ids(g) : Lowered(E, a, v)[h.rep[c]] <= E[g.rep[c]]
    BY <1>1, <2>1, <2>5
  <2> QED BY <1>5, <1>6, <2>5, <2>6
<1> QED BY <1>8, <1>9

(* How high a node is that was added for the program.                          *)
Highest(a, b) == IF a <= b THEN b ELSE a

Height(g, E, n) ==
  IF ~IsAtom(n) THEN Highest(E[Lhs(g, n)], E[Rhs(g, n)])
  ELSE IF n.atom.kind = "inst" THEN n.atom.of ELSE 0

Tight(g, E) == \A n \in Keys(g) : E[Home(g, n)] <= Height(g, E, n)

(* The height of a node is a number.                                          *)
LEMMA HeightTyped ==
  ASSUME NEW p \in Programs, NEW g, GoodGraph(p, g), NEW E \in [Nat -> Nat], NEW n, GoodNode(p, g, n)
  PROVE  Height(g, E, n) \in Nat
<1>1. CASE ~IsAtom(n)
  <2>1. Lhs(g, n) \in Nat /\ Rhs(g, n) \in Nat
    BY <1>1, NodeShape, ShapedGraph DEF GoodGraph
  <2> QED BY <1>1, <2>1 DEF Height, Highest
<1>2. CASE IsAtom(n)
  <2>1. n.atom \in AtomSet(p)
    BY <1>2, NodeShape DEF GoodGraph
  <2>2. n.atom.kind = "inst" => n.atom.of \in 1 .. Len(p.code)
    BY <2>1, OperandOf DEF AtomSet, Made
  <2>3. Len(p.code) \in Nat
    BY CodeOf
  <2> QED BY <1>2, <2>2, <2>3 DEF Height
<1> QED BY <1>1, <1>2

(* What addNode looks for is the node with the classes of its operands.        *)
LEMMA CanonicalSame ==
  ASSUME NEW p \in Programs, NEW g, GoodGraph(p, g), Firm(g), NEW n, GoodNode(p, g, n)
  PROVE  LET m == Canonical(g, n)
         IN  /\ (IsAtom(m) <=> IsAtom(n)) /\ Same(g, m, n) /\ m.op = n.op /\ m.atom = n.atom
             /\ ~IsAtom(n) => /\ m.children[1] = Lhs(g, n) /\ m.children[2] = Rhs(g, n)
                              /\ Lhs(g, m) = Lhs(g, n) /\ Rhs(g, m) = Rhs(g, n)
<1> DEFINE m == Canonical(g, n)
<1>1. CASE IsAtom(n)
  <2>1. PICK v : n = Atom(v)
    BY <1>1, NodeShape DEF GoodGraph
  <2>2. m = n
    BY <2>1 DEF Canonical, Atom
  <2> QED BY <1>1, <2>2 DEF Same
<1>2. CASE ~IsAtom(n)
  <2>1. /\ n = Node(n.op, n.children[1], n.children[2])
        /\ n.children[1] \in Ids(g) /\ n.children[2] \in Ids(g)
    BY <1>2, NodeShape DEF GoodGraph
  <2>2. m = Node(n.op, Lhs(g, n), Rhs(g, n))
    <3>1. PICK op, x, y : op = n.op /\ x = n.children[1] /\ y = n.children[2]
      OBVIOUS
    <3>2. n = Node(op, x, y)
      BY <2>1, <3>1
    <3>3. Canonical(g, n) = Node(op, g.rep[x], g.rep[y])
      BY <3>2 DEF Canonical, Node
    <3> QED BY <3>1, <3>3 DEF Lhs, Rhs
  <2> HIDE DEF m
  <2>3. /\ ~IsAtom(m) /\ m.op = n.op /\ m.children[1] = Lhs(g, n) /\ m.children[2] = Rhs(g, n)
        /\ m.atom = n.atom
    <3>1. n.atom = None
      BY <2>1 DEF Node
    <3> QED BY <2>2, <3>1, NodeParts DEF Node
  <2>4. Lhs(g, m) = Lhs(g, n) /\ Rhs(g, m) = Rhs(g, n)
    BY <2>1, <2>3 DEF Firm, Lhs, Rhs
  <2> QED BY <1>2, <2>3, <2>4 DEF Same, m
<1> QED BY <1>1, <1>2

(* A class of one node.                                                        *)
LEMMA OrderAdded ==
  ASSUME NEW p \in Programs, NEW g, GoodGraph(p, g), Firm(g), NEW E, Ordering(g, E),
         NEW n, GoodNode(p, g, n), Canonical(g, n) \notin Keys(g)
  PROVE  LET h == Added(p, g, Canonical(g, n))
             id == Len(g.rep) + 1
             F == [E EXCEPT ![id] = Height(g, E, n)]
         IN  /\ Firm(h) /\ Lasting(g, h) /\ Ordering(h, F) /\ id \in Ids(h)
             /\ \A c \in Ids(g) : h.rep[c] = g.rep[c] /\ F[g.rep[c]] = E[g.rep[c]]
             /\ Traced(h, n, id) /\ h.rep[id] = id /\ F[id] = Height(g, E, n)
             /\ Traced(h, Canonical(g, n), id)
             /\ Tight(g, E) => Tight(h, F)
<1> DEFINE m == Canonical(g, n)
           h == Added(p, g, m)
           id == Len(g.rep) + 1
           F == [E EXCEPT ![id] = Height(g, E, n)]
<1>1. /\ h.rep = Append(g.rep, id)
      /\ h.memo = [o \in DOMAIN g.memo \cup {m} |-> IF o = m THEN id ELSE g.memo[o]]
  BY DEF Added
<1> HIDE DEF h
<1>2. /\ g.rep \in Seq(Nat) /\ Len(g.rep) \in Nat /\ id \in Nat /\ id \notin Ids(g)
      /\ \A c \in Ids(g) : g.rep[c] \in Ids(g)
      /\ Ids(g) \subseteq Nat
  BY DEF GoodGraph, GoodClasses, Ids
<1>3. /\ Ids(h) = Ids(g) \cup {id} /\ h.rep[id] = id
      /\ \A c \in Ids(g) : h.rep[c] = g.rep[c]
  <2>1. h.rep \in Seq(Nat) /\ Len(h.rep) = id
    BY <1>1, <1>2
  <2> QED BY <1>1, <1>2, <2>1 DEF Ids
<1>4. /\ Keys(h) = Keys(g) \cup {m} /\ m \notin Keys(g) /\ h.memo[m] = id
      /\ \A k \in Keys(g) : h.memo[k] = g.memo[k]
  BY <1>1 DEF Keys
<1>5. E \in [Nat -> Nat] /\ Height(g, E, n) \in Nat /\ Uniform(g) /\ Ranked(g, E)
  BY HeightTyped DEF Ordering, Ranked
<1>6. F \in [Nat -> Nat] /\ F[id] = Height(g, E, n) /\ \A c \in Ids(g) : F[c] = E[c]
  BY <1>2, <1>5
<1> HIDE DEF F, id
<1>7. Firm(h)
  BY <1>2, <1>3 DEF Firm
<1>8. Lasting(g, h)
  BY <1>2, <1>3, <1>4 DEF Lasting, Firm
<1>9. /\ (IsAtom(m) <=> IsAtom(n)) /\ Same(g, m, n) /\ m.op = n.op /\ m.atom = n.atom
      /\ ~IsAtom(n) => /\ m.children[1] = Lhs(g, n) /\ m.children[2] = Rhs(g, n)
                       /\ Lhs(g, m) = Lhs(g, n) /\ Rhs(g, m) = Rhs(g, n)
                       /\ Lhs(g, n) \in Ids(g) /\ Rhs(g, n) \in Ids(g)
  BY CanonicalSame, NodeShape DEF GoodGraph
<1>10. GoodNode(p, g, m)
  BY CanonicalGood DEF GoodGraph
<1> HIDE DEF m
(* The nodes of g have the classes they had.                                  *)
<1>11. ASSUME NEW k \in Keys(g)
       PROVE  /\ Home(h, k) = Home(g, k) /\ Home(g, k) \in Ids(g)
              /\ ~IsAtom(k) => /\ Lhs(h, k) = Lhs(g, k) /\ Lhs(g, k) \in Ids(g)
                               /\ Rhs(h, k) = Rhs(g, k) /\ Rhs(g, k) \in Ids(g)
  <2>1. g.memo[k] \in Ids(g) /\ GoodNode(p, g, k) /\ Home(g, k) \in Ids(g)
    BY KeyShape
  <2>2. ~IsAtom(k) => /\ k.children[1] \in Ids(g) /\ Lhs(g, k) \in Ids(g)
                      /\ k.children[2] \in Ids(g) /\ Rhs(g, k) \in Ids(g)
    BY <2>1, NodeShape DEF GoodGraph
  <2> QED BY <1>3, <1>4, <2>1, <2>2 DEF Home, Lhs, Rhs
<1>12. /\ Home(h, m) = id
       /\ ~IsAtom(m) => Lhs(h, m) = Lhs(g, n) /\ Rhs(h, m) = Rhs(g, n) /\ Lhs(g, n) \in Ids(g) /\ Rhs(g, n) \in Ids(g)
  <2>1. ~IsAtom(m) => m.children[1] \in Ids(g) /\ m.children[2] \in Ids(g)
    BY <1>10, NodeShape DEF GoodGraph
  <2> QED BY <1>3, <1>4, <1>9, <2>1 DEF Home, Lhs, Rhs
<1>13. /\ \A c \in Ids(g) : Fixed(h, c) <=> Fixed(g, c)
       /\ \A c : Fixed(h, c) => c \in Ids(g) \/ (c = id /\ IsConst(m.atom))
  BY <1>2, <1>4, <1>11, <1>12 DEF Fixed
<1>14. \A k \in Keys(g) : /\ Spent(g, k) => Spent(h, k)
                          /\ Cancels(g, k) => Cancels(h, k)
  BY <1>11, <1>13 DEF Spent, Loops, Cancels
<1>15. \A k, l \in Keys(g) : Alike(g, k, l) => Alike(h, k, l)
  BY <1>11, <1>13 DEF Alike, Like
<1>16. Uniform(h)
  <2> SUFFICES ASSUME NEW k \in Keys(h), NEW l \in Keys(h), Home(h, k) = Home(h, l)
               PROVE  Spent(h, k) \/ Spent(h, l) \/ Alike(h, k, l)
    BY DEF Uniform
  <2>1. CASE k \in Keys(g) /\ l \in Keys(g)
    BY <1>5, <1>11, <1>14, <1>15, <2>1 DEF Uniform
  <2>2. CASE k = m /\ l = m
    <3>1. Alike(h, m, m)
      BY AlikeItself
    <3> QED BY <2>2, <3>1
  <2>3. CASE ~(k \in Keys(g) <=> l \in Keys(g))
    BY <1>2, <1>4, <1>11, <1>12, <2>3
  <2> QED BY <1>4, <2>1, <2>2, <2>3
<1>17. ASSUME NEW c \in Nat, Fixed(h, c) PROVE F[c] = 0
  <2>1. CASE c \in Ids(g)
    BY <1>5, <1>6, <1>13, <1>17, <2>1 DEF Ranked
  <2>2. CASE c = id /\ IsConst(m.atom)
    <3>1. IsConst(n.atom) /\ IsAtom(n)
      BY <1>9, <2>2, ConstIsAtom
    <3> QED BY <1>6, <2>2, <3>1 DEF Height, IsConst
  <2> QED BY <1>13, <1>17, <2>1, <2>2
<1>18. ASSUME NEW k \in Keys(g) PROVE Reaches(h, F, k)
  <2>1. Reaches(g, E, k)
    BY <1>5 DEF Ranked
  <2> QED BY <1>6, <1>11, <1>13, <1>14, <2>1 DEF Reaches
<1>19. Height(h, F, m) = Height(g, E, n)
  BY <1>6, <1>9, <1>12 DEF Height
<1>20. Reaches(h, F, m)
  <2>1. CASE IsAtom(m)
    <3>1. m.atom.kind = "inst" => Height(h, F, m) = m.atom.of
      BY <2>1 DEF Height
    <3>2. Height(h, F, m) \in Nat /\ F[Home(h, m)] = Height(h, F, m)
      BY <1>5, <1>6, <1>12, <1>19
    <3>3. F[Home(h, m)] <= F[Home(h, m)]
      BY <3>2
    <3> QED BY <2>1, <3>1, <3>2, <3>3 DEF Reaches
  <2>2. CASE ~IsAtom(m)
    <3>1. F[Home(h, m)] = Highest(F[Lhs(h, m)], F[Rhs(h, m)])
      BY <1>6, <1>12, <1>19, <2>2 DEF Height
    <3>2. F[Lhs(h, m)] \in Nat /\ F[Rhs(h, m)] \in Nat
      BY <1>2, <1>6, <1>12, <2>2
    <3> QED BY <2>2, <3>1, <3>2 DEF Reaches, Highest
  <2> QED BY <2>1, <2>2
<1>21. Ordering(h, F)
  BY <1>4, <1>6, <1>16, <1>17, <1>18, <1>20 DEF Ordering, Ranked
<1>22. Traced(h, n, id)
  <2>1. Same(h, m, n)
    <3>1. ~IsAtom(n) => n.children[1] \in Ids(g) /\ n.children[2] \in Ids(g)
      BY NodeShape DEF GoodGraph
    <3>2. ~IsAtom(n) => Lhs(h, n) = Lhs(g, n) /\ Rhs(h, n) = Rhs(g, n)
      BY <1>3, <3>1 DEF Lhs, Rhs
    <3> QED BY <1>9, <1>12, <3>2 DEF Same
  <2> QED BY <1>3, <1>4, <1>12, <2>1 DEF Traced
<1>23. Traced(h, m, id)
  BY <1>3, <1>4, <1>12 DEF Traced, Same
<1>24. ASSUME Tight(g, E) PROVE Tight(h, F)
  <2>1. ASSUME NEW k \in Keys(g) PROVE F[Home(h, k)] <= Height(h, F, k)
    <3>1. Height(h, F, k) = Height(g, E, k)
      BY <1>6, <1>11 DEF Height
    <3> QED BY <1>6, <1>11, <1>24, <3>1 DEF Tight
  <2>2. F[Home(h, m)] <= Height(h, F, m)
    BY <1>5, <1>6, <1>12, <1>19
  <2> QED BY <1>4, <2>1, <2>2 DEF Tight
<1>25. \A c \in Ids(g) : h.rep[c] = g.rep[c] /\ F[g.rep[c]] = E[g.rep[c]]
  BY <1>2, <1>3, <1>6
<1> QED BY <1>3, <1>6, <1>7, <1>8, <1>21, <1>22, <1>23, <1>24, <1>25 DEF h, F, id, m

ListsTraced(g) == \A c \in DOMAIN g.classes : TracedList(g, c, g.classes[c])

(* addNode: the classes of g keep their ranks, and the class returned has one
   as high as the node at the most.                                            *)
LEMMA AddNodeOrder ==
  ASSUME NEW p \in Programs, NEW g, GoodGraph(p, g), Firm(g), NEW E, Ordering(g, E), NEW n, GoodNode(p, g, n)
  PROVE  LET h == AddNode(p, g, n).graph
             id == AddNode(p, g, n).id
         IN  \E F : /\ Firm(h) /\ Lasting(g, h) /\ Ordering(h, F)
                    /\ id \in Ids(h) /\ Traced(h, n, id)
                    /\ \A c \in Ids(g) : h.rep[c] = g.rep[c] /\ F[g.rep[c]] = E[g.rep[c]]
                    /\ ListsTraced(g) => ListsTraced(h)
                    /\ Tight(g, E) => Tight(h, F) /\ F[h.rep[id]] <= Height(g, E, n)
<1> DEFINE m == Canonical(g, n)
<1>1. E \in [Nat -> Nat] /\ Height(g, E, n) \in Nat
  BY HeightTyped DEF Ordering, Ranked
<1>2. CASE m \in Keys(g)
  <2>1. AddNode(p, g, n) = [graph |-> g, id |-> g.rep[g.memo[m]]]
    BY <1>2 DEF AddNode, Keys
  <2>2. g.memo[m] \in Ids(g) /\ g.rep[g.memo[m]] \in Ids(g) /\ Home(g, m) = g.rep[g.memo[m]]
    BY <1>2, KeyShape
  <2>3. g.rep[g.rep[g.memo[m]]] = Home(g, m)
    BY <2>2 DEF Firm
  <2>4. /\ (IsAtom(m) <=> IsAtom(n)) /\ Same(g, m, n) /\ m.atom = n.atom
        /\ ~IsAtom(n) => Lhs(g, m) = Lhs(g, n) /\ Rhs(g, m) = Rhs(g, n)
    BY CanonicalSame
  <2>5. Height(g, E, m) = Height(g, E, n)
    BY <2>4 DEF Height
  <2>6. Tight(g, E) => E[Home(g, m)] <= Height(g, E, n)
    BY <1>2, <2>5 DEF Tight
  <2>7. Traced(g, n, g.rep[g.memo[m]])
    BY <1>2, <2>3, <2>4 DEF Traced
  <2>8. Lasting(g, g)
    BY DEF Lasting, Firm
  <2> HIDE DEF m
  <2> QED BY <2>1, <2>2, <2>3, <2>6, <2>7, <2>8
<1>3. CASE m \notin Keys(g)
  <2> DEFINE h == Added(p, g, m)
             id == Len(g.rep) + 1
             F == [E EXCEPT ![id] = Height(g, E, n)]
  <2>1. AddNode(p, g, n) = [graph |-> h, id |-> id]
    BY <1>3 DEF AddNode, Keys
  <2>2. /\ Firm(h) /\ Lasting(g, h) /\ Ordering(h, F) /\ id \in Ids(h)
        /\ \A c \in Ids(g) : h.rep[c] = g.rep[c] /\ F[g.rep[c]] = E[g.rep[c]]
        /\ Traced(h, n, id) /\ h.rep[id] = id /\ F[id] = Height(g, E, n)
        /\ Traced(h, m, id)
        /\ Tight(g, E) => Tight(h, F)
    BY <1>3, OrderAdded
  <2>3. /\ DOMAIN h.classes = DOMAIN g.classes \cup {id} /\ h.classes[id] = <<m>>
        /\ \A c \in DOMAIN g.classes : c # id => h.classes[c] = g.classes[c]
    BY DEF Added
  <2> HIDE DEF h, id, F, m
  <2>4. F[h.rep[id]] <= Height(g, E, n)
    BY <1>1, <2>2
  <2>5. ASSUME ListsTraced(g) PROVE ListsTraced(h)
    <3>1. TracedList(h, id, <<m>>)
      BY <2>2 DEF TracedList
    <3>2. ASSUME NEW c \in DOMAIN g.classes PROVE TracedList(h, c, g.classes[c])
      <4>1. c \in Ids(g) /\ Listed(p, g, c, g.classes[c])
        BY DEF GoodGraph
      <4> QED BY <2>2, <2>5, <4>1, TracedListLasts DEF ListsTraced
    <3> QED BY <2>3, <3>1, <3>2 DEF ListsTraced
  <2> QED BY <2>1, <2>2, <2>4, <2>5
<1> QED BY <1>2, <1>3

-----------------------------------------------------------------------------
(* What is in progress is in order, too: the roots are below the instructions
   they are for, there is a reason for each merge to come.                     *)
Bound(v) == IF v.kind = "inst" THEN v.of ELSE 0

FrameLow(p, g, E, f) ==
  \A j \in 1 .. Len(f.ids) : E[g.rep[f.ids[j]]] <= Bound(p.code[f.of.of].args[j])

AddLow(p, g, E, s)   == \A k \in 1 .. Len(s) : FrameLow(p, g, E, s[k])
RootsLow(g, E, r)    == \A k \in 1 .. Len(r) : E[g.rep[r[k].id]] < r[k].of
QueueDue(g, q)       == \A k \in 1 .. Len(q) : Due(g, q[k][1], q[k][2])
MemoTraced(g, memo)  == \A n \in DOMAIN memo : Traced(g, n, memo[n])

InOrder(E) ==
  /\ Firm(graph) /\ Ordering(graph, E) /\ ListsTraced(graph)
  /\ RootsLow(graph, E, roots) /\ QueueDue(graph, queue)
  /\ phase = "add" => Tight(graph, E) /\ AddLow(program, graph, E, adding)
  /\ phase = "rebuild" => MemoTraced(graph, newMemo) /\ TracedList(graph, at, kept)

(* No instruction reads one that is above it, or behind it on its level.       *)
Arranged(c, lev) ==
  \A j \in 1 .. Len(c) : \A k \in 1 .. Len(c[j].args) : c[j].args[k].kind = "inst" =>
    LET i == c[j].args[k].of
    IN  i \in 1 .. Len(c) /\ (lev[i] < lev[j] \/ (lev[i] = lev[j] /\ i < j))

(* The instruction extracted for a class is not above the class.               *)
Lowest(E, lev) ==
  /\ lev \in [Nat -> Nat] /\ Arranged(code, lev)
  /\ \A i \in 1 .. Len(program.code) : lev[i] = i
  /\ \A c \in DOMAIN extracted : extracted[c].kind = "inst" =>
       extracted[c].of \in 1 .. Len(code) /\ lev[extracted[c].of] <= E[c]
  /\ \A k \in 1 .. Len(extracting) : graph.rep[extracting[k]] = extracting[k]

Arranging ==
  /\ Exact(program) =>
       \E E : InOrder(E) /\ (phase = "extract" /\ ConstantsListed => \E lev : Lowest(E, lev))
  /\ phase = "done" /\ (roots # <<>> => Exact(program) /\ ConstantsListed) =>
       \E lev \in [Nat -> Nat] : Arranged(code, lev) /\ \A i \in 1 .. Len(program.code) : lev[i] = i

(* The block comes in order.                                                  *)
LEMMA ArrangedAtFirst ==
  ASSUME NEW p \in Programs PROVE Arranged(p.code, [i \in Nat |-> i])
<1>1. ASSUME NEW j \in 1 .. Len(p.code), NEW k \in 1 .. Len(p.code[j].args), p.code[j].args[k].kind = "inst"
      PROVE  p.code[j].args[k].of \in 1 .. Len(p.code) /\ p.code[j].args[k].of < j
  <2>1. p.code[j].args \in Seq(Operands(p))
    BY CodeOf
  <2> DEFINE as == p.code[j].args
             S == Operands(p)
  <2>2. as[k] \in S /\ k \in DOMAIN as
    <3> HIDE DEF as, S
    <3>1. as \in Seq(S) /\ k \in 1 .. Len(as)
      BY <2>1 DEF as, S
    <3> QED BY <3>1, ElementOfSeq, LenProperties
  <2>3. as[k].of < j
    BY <1>1, <2>2, ProgramAssumption
  <2> QED BY <1>1, <2>2, <2>3, OperandOf
<1>2. Len(p.code) \in Nat
  BY CodeOf
<1> QED BY <1>1, <1>2 DEF Arranged

(* Until something is extracted.                                               *)
LEMMA ArrangingBefore ==
  ASSUME Following, Following', phase \in {"add", "rules", "merge", "rebuild"}, UNCHANGED <<program, code, extracts>>,
         Exact(program) => \E F : InOrder(F)'
  PROVE  Arranging'
<1>1. /\ code' = program.code /\ program' = program /\ DOMAIN extracted' = {} /\ extracting' = <<>>
      /\ program \in Programs
  BY DEF Following, Agreeing, extracts
<1> DEFINE lev == [i \in Nat |-> i]
<1>2. Arranged(code', lev) /\ lev \in [Nat -> Nat] /\ \A i \in 1 .. Len(program'.code) : lev[i] = i
  <2>1. Len(program.code) \in Nat
    BY <1>1, CodeOf
  <2> QED BY <1>1, <2>1, ArrangedAtFirst
<1> HIDE DEF lev
<1>3. ASSUME NEW E PROVE Lowest(E, lev)'
  BY <1>1, <1>2 DEF Lowest
<1>4. Exact(program)' <=> Exact(program)
  BY <1>1
<1>5. Exact(program') => \E F : InOrder(F)' /\ ((phase = "extract" /\ ConstantsListed)' => \E l : Lowest(F, l)')
  BY <1>1, <1>3
<1> QED BY <1>2, <1>5 DEF Arranging

(* The representative of a class is a class.                                  *)
LEMMA RepIn ==
  ASSUME NEW p \in Programs, NEW g, GoodGraph(p, g), NEW c \in Ids(g)
  PROVE  c \in Nat /\ g.rep[c] \in Ids(g) /\ g.rep[c] \in Nat
<1>1. g.rep[c] \in Ids(g)
  BY DEF GoodGraph, GoodClasses
<1> QED BY <1>1, ShapedGraph

(* When classes are united or added, the rest stays in order.                  *)
LEMMA RestLasts ==
  ASSUME NEW p \in Programs, NEW g, GoodGraph(p, g), NEW h, GoodGraph(p, h), Lasting(g, h),
         NEW E \in [Nat -> Nat], NEW F \in [Nat -> Nat], \A c \in Ids(g) : F[h.rep[c]] <= E[g.rep[c]]
  PROVE  /\ \A r : RootsOk(p, g, r) /\ RootsLow(g, E, r) => RootsLow(h, F, r)
         /\ \A q : QueueOk(g, q) /\ QueueDue(g, q) => QueueDue(h, q)
         /\ \A memo : GoodMemo(p, g, memo) /\ MemoTraced(g, memo) => MemoTraced(h, memo)
<1>1. ASSUME NEW r, RootsOk(p, g, r), RootsLow(g, E, r), NEW k \in 1 .. Len(r)
      PROVE  F[h.rep[r[k].id]] < r[k].of
  <2>1. r[k].id \in Ids(g) /\ r[k].id \in Ids(h) /\ r[k].of \in 1 .. Len(p.code) /\ Len(p.code) \in Nat
    BY <1>1, CodeOf DEF RootsOk, Lasting
  <2>2. E[g.rep[r[k].id]] < r[k].of /\ F[h.rep[r[k].id]] <= E[g.rep[r[k].id]]
    BY <1>1, <2>1 DEF RootsLow
  <2>3. g.rep[r[k].id] \in Nat /\ h.rep[r[k].id] \in Nat
    BY <2>1, RepIn
  <2>4. PICK i, j, n, l, x, y : i = E[x] /\ j = F[y] /\ n = r[k].of /\ l = Len(p.code) /\ x = g.rep[r[k].id] /\ y = h.rep[r[k].id]
    OBVIOUS
  <2>5. i \in Nat /\ j \in Nat
    BY <2>3, <2>4
  <2>6. n \in 1 .. l /\ l \in Nat /\ i < n /\ j <= i
    BY <2>1, <2>2, <2>4
  <2>7. j < n
    BY <2>5, <2>6
  <2> QED BY <2>4, <2>7
<1>2. ASSUME NEW q, QueueOk(g, q), QueueDue(g, q), NEW k \in 1 .. Len(q) PROVE Due(h, q[k][1], q[k][2])
  BY <1>2, DueLasts DEF QueueOk, QueueDue
<1>3. ASSUME NEW memo, GoodMemo(p, g, memo), MemoTraced(g, memo), NEW n \in DOMAIN memo PROVE Traced(h, n, memo[n])
  BY <1>3, TracedLasts DEF GoodMemo, MemoTraced, Stands
<1> QED BY <1>1, <1>2, <1>3 DEF RootsLow, QueueDue, MemoTraced

(* The next candidate is begun: no class changes.                             *)
LEMMA OrderBeginCandidate == ASSUME Following, Following', Arranging, BeginCandidate PROVE Arranging'
<1>1. phase = "add" /\ phase' = "add" /\ UNCHANGED <<program, code, graph, roots, queue, extracts>>
  BY DEF BeginCandidate
<1>2. PICK f : adding' = <<f>> /\ f.ids = <<>>
  BY DEF BeginCandidate
<1>3. ASSUME NEW E, InOrder(E) PROVE InOrder(E)'
  <2>1. AddLow(program, graph, E, adding')
    <3>1. 1 .. Len(f.ids) = {} /\ Len(adding') = 1 /\ adding'[1] = f
      BY <1>2
    <3> QED BY <3>1 DEF AddLow, FrameLow
  <2> QED BY <1>1, <1>3, <2>1 DEF InOrder
<1> QED BY <1>1, <1>3, ArrangingBefore DEF Arranging

(* An operand is taken as it is.                                              *)
LEMMA OrderAddOperand == ASSUME Following, Following', Arranging, AddOperand PROVE Arranging'
<1>1. phase = "add" /\ phase' = "add" /\ UNCHANGED <<program, code, graph, roots, queue, extracts>>
  BY DEF AddOperand
<1>2. PICK f : adding' = Append(adding, f) /\ f.ids = <<>>
  BY DEF AddOperand
<1>3. ASSUME Exact(program), NEW E, InOrder(E) PROVE InOrder(E)'
  <2>1. AddLow(program, graph, E, adding')
    <3>1. 1 .. Len(f.ids) = {}
      BY <1>2
    <3>2. PICK S : adding \in Seq(S)
      BY <1>3 DEF Following, Agreeing, InProgress, AddOk
    <3>3. adding' = Append(adding, f) /\ Len(adding') = Len(adding) + 1 /\ Len(adding) \in Nat
      BY <1>2, <3>2
    <3>4. \A k \in 1 .. Len(adding') : adding'[k] = IF k = Len(adding) + 1 THEN f ELSE adding[k]
      BY <3>2, <3>3
    <3>5. \A k \in 1 .. Len(adding') : k # Len(adding) + 1 => k \in 1 .. Len(adding)
      BY <3>3
    <3>6. AddLow(program, graph, E, adding)
      BY <1>1, <1>3 DEF InOrder
    <3> QED BY <3>1, <3>4, <3>5, <3>6 DEF AddLow, FrameLow
  <2> QED BY <1>1, <1>3, <2>1 DEF InOrder
<1> QED BY <1>1, <1>3, ArrangingBefore DEF Arranging

(* How high the node of a call is: below its instruction, if that is expanded.  *)
LEMMA NodeLow ==
  ASSUME NEW p \in Programs, NEW g, GoodGraph(p, g), NEW E \in [Nat -> Nat], NEW f, FrameOk(p, g, f), FrameLow(p, g, E, f)
  PROVE  /\ Height(g, E, Atom(f.of)) = Bound(f.of)
         /\ f.of.kind = "inst" /\ p.code[f.of.of].op \in Arithmetic /\ Len(f.ids) = 2 =>
              Height(g, E, Node(p.code[f.of.of].op, f.ids[1], f.ids[2])) < Bound(f.of)
<1>1. f.of \in Operands(p) /\ f.of \in AtomSet(p)
  BY DEF FrameOk, Frames, AtomSet
<1>2. Height(g, E, Atom(f.of)) = Bound(f.of)
  <2>1. f.of # None
    BY <1>1, AtomValue
  <2> QED BY <2>1 DEF Height, Atom, IsAtom, Bound
<1>3. ASSUME f.of.kind = "inst", p.code[f.of.of].op \in Arithmetic, Len(f.ids) = 2
      PROVE  Height(g, E, Node(p.code[f.of.of].op, f.ids[1], f.ids[2])) < Bound(f.of)
  <2> DEFINE i == f.of.of
             as == p.code[i].args
             n == Node(p.code[i].op, f.ids[1], f.ids[2])
  <2>1. i \in 1 .. Len(p.code) /\ Len(p.code) \in Nat /\ Bound(f.of) = i
    BY <1>1, <1>3, OperandOf, CodeOf DEF Bound
  <2>2. as \in Seq(Operands(p)) /\ Len(as) = 2
    BY <1>3, <2>1, ProgramAssumption
  <2>3. ASSUME NEW j \in 1 .. 2 PROVE Bound(as[j]) \in Nat /\ Bound(as[j]) < i
    <3>1. as[j] \in Operands(p) /\ j \in DOMAIN as
      <4> DEFINE S == Operands(p)
      <4> HIDE DEF S, as
      <4>1. as \in Seq(S) /\ Len(as) = 2
        BY <2>2 DEF S
      <4> QED BY <4>1, ElementOfSeq, LenProperties DEF S
    <3>2. as[j].kind = "inst" => as[j].of < i
      BY <2>1, <3>1, ProgramAssumption
    <3>3. as[j].kind = "inst" => as[j].of \in 1 .. Len(p.code)
      BY <3>1, OperandOf
    <3>4. PICK b : b = as[j].of
      OBVIOUS
    <3>5. CASE as[j].kind = "inst"
      <4>1. Bound(as[j]) = b
        BY <3>4, <3>5 DEF Bound
      <4>2. PICK l : l = Len(p.code)
        OBVIOUS
      <4>3. b \in 1 .. l /\ l \in Nat /\ b < i
        BY <2>1, <3>2, <3>3, <3>4, <3>5, <4>2
      <4>4. b \in Nat
        BY <4>3
      <4> QED BY <4>1, <4>3, <4>4
    <3>6. CASE as[j].kind # "inst"
      <4>1. Bound(as[j]) = 0
        BY <3>6 DEF Bound
      <4> QED BY <2>1, <4>1
    <3> QED BY <3>5, <3>6
  <2>4. ASSUME NEW j \in 1 .. 2 PROVE E[g.rep[f.ids[j]]] \in Nat /\ E[g.rep[f.ids[j]]] < i
    <3>1. j \in 1 .. Len(f.ids)
      BY <1>3
    <3>2. f.ids[j] \in Ids(g)
      BY <3>1 DEF FrameOk
    <3>3. g.rep[f.ids[j]] \in Nat
      BY <3>2, RepIn
    <3>4. E[g.rep[f.ids[j]]] <= Bound(as[j])
      BY <3>1 DEF FrameLow
    <3>5. PICK a, b, l, m, x : a = E[x] /\ x = g.rep[f.ids[j]] /\ b = Bound(as[j]) /\ l = Len(p.code) /\ m = i
      OBVIOUS
    <3>6. a \in Nat
      BY <3>3, <3>5, Zenon
    <3>7. b \in Nat /\ b < m /\ m \in 1 .. l /\ l \in Nat /\ a <= b
      BY <2>1, <2>3, <3>4, <3>5, Zenon
    <3>8. a < m
      BY <3>6, <3>7
    <3> QED BY <3>5, <3>6, <3>8
  <2>5. Height(g, E, n) = Highest(E[g.rep[f.ids[1]]], E[g.rep[f.ids[2]]])
    <3>1. PICK op, x, y : op = p.code[i].op /\ x = f.ids[1] /\ y = f.ids[2] /\ op \in Arithmetic
      BY <1>3
    <3>2. PICK o : o = Node(op, x, y)
      OBVIOUS
    <3>3. ~IsAtom(o) /\ o.children[1] = x /\ o.children[2] = y
      BY <3>2, NodeParts
    <3>4. Height(g, E, o) = Highest(E[g.rep[x]], E[g.rep[y]])
      BY <3>3 DEF Height, Lhs, Rhs
    <3> QED BY <3>1, <3>2, <3>4
  <2>6. 1 \in 1 .. 2 /\ 2 \in 1 .. 2
    OBVIOUS
  <2> QED BY <2>1, <2>4, <2>5, <2>6 DEF Highest
<1> QED BY <1>2, <1>3

(* The stack after a call returned id.                                          *)
Put(s, id) == [Pop(s) EXCEPT ![Len(Pop(s))].ids = Append(@, id)]

(* The id that a call returns is put on the frame below.                      *)
LEMMA Returned ==
  ASSUME NEW p, NEW g, NEW s, AddOk(p, g, s), s # <<>>, Pop(s) # <<>>, NEW id \in Ids(g)
  PROVE  LET t == Put(s, id)
             n == Len(s) - 1
         IN  /\ Len(t) = n /\ n \in Nat \ {0} /\ n + 1 \in 1 .. Len(s) /\ n + 1 = Len(s)
             /\ \A k \in 1 .. n : k \in 1 .. Len(s) /\ (k # n => t[k] = s[k])
             /\ t[n].of = s[n].of /\ t[n].ids = Append(s[n].ids, id)
             /\ Waits(p, s[n], s[n + 1].of)
<1> DEFINE n == Len(s) - 1
           t == [Pop(s) EXCEPT ![Len(Pop(s))].ids = Append(@, id)]
<1>1. s \in Seq(Frames(p)) /\ Len(s) \in Nat \ {0}
  BY DEF AddOk
<1>2. /\ Pop(s) \in Seq(Frames(p)) /\ Len(Pop(s)) = n
      /\ \A k \in 1 .. n : Pop(s)[k] = s[k]
  BY <1>1 DEF Pop
<1>3. n \in Nat \ {0} /\ n \in 1 .. Len(s) - 1 /\ n + 1 = Len(s) /\ n + 1 \in 1 .. Len(s)
  BY <1>1, <1>2
<1>4. s[n] = [of |-> s[n].of, ids |-> s[n].ids]
  <2>1. s[n] \in Frames(p)
    BY <1>1, <1>3 DEF AddOk
  <2> QED BY <2>1 DEF Frames
<1>5. Waits(p, s[n], s[n + 1].of)
  BY <1>3 DEF AddOk
<1>6. DOMAIN Pop(s) = 1 .. n
  BY <1>2, <1>3
<1> DEFINE u == [s[n] EXCEPT !.ids = Append(@, id)]
<1>7. u.of = s[n].of /\ u.ids = Append(s[n].ids, id)
  <2>1. PICK v : v = s[n]
    OBVIOUS
  <2>2. v = [of |-> v.of, ids |-> v.ids]
    BY <1>4, <2>1
  <2>3. [v EXCEPT !.ids = Append(@, id)] = [of |-> v.of, ids |-> Append(v.ids, id)]
    BY <2>2
  <2> QED BY <2>1, <2>3
<1>8. t = [k \in 1 .. n |-> IF k = n THEN u ELSE s[k]]
  <2>1. t = [Pop(s) EXCEPT ![n] = u]
    BY <1>2, <1>3
  <2> HIDE DEF u
  <2> QED BY <1>2, <1>3, <1>6, <2>1
<1>9. Len(t) = n
  <2>1. PICK S : S = {IF k = n THEN u ELSE s[k] : k \in 1 .. n}
    OBVIOUS
  <2> HIDE DEF u, n
  <2>2. t \in [1 .. n -> S]
    BY <1>8, <2>1
  <2> HIDE DEF t
  <2>3. t \in Seq(S) /\ Len(t) = n
    BY <1>3, <2>2
  <2> QED BY <2>3
<1>10. t[n] = u /\ \A k \in 1 .. n : k # n => t[k] = s[k]
  <2> HIDE DEF u
  <2> QED BY <1>3, <1>8, Zenon
<1>11. t[n].of = s[n].of /\ t[n].ids = Append(s[n].ids, id)
  BY <1>7, <1>10
<1>12. \A k \in 1 .. n : k \in 1 .. Len(s)
  BY <1>1, <1>3
<1> HIDE DEF n
<1> QED BY <1>3, <1>5, <1>9, <1>10, <1>11, <1>12, Zenon DEF Put, n

(* The node of the candidate on top is added.                                 *)
LEMMA OrderAddTop == ASSUME Following, Following', Arranging, AddTop PROVE Arranging'
<1> DEFINE f == Top(adding)
           expands == Expands(f.of, Len(adding) - 1)
           node == IF expands THEN Node(code[f.of.of].op, f.ids[1], f.ids[2]) ELSE Atom(f.of)
           added == AddNode(program, graph, node)
<1>1. phase = "add" /\ phase' = "add" /\ adding # <<>> /\ UNCHANGED <<program, code, queue, extracts>>
  BY DEF AddTop
<1>2. ASSUME Exact(program), NEW E, InOrder(E) PROVE \E F : InOrder(F)'
  <2>1. /\ program \in Programs /\ code = program.code /\ GoodGraph(program, graph) /\ GoodGraph(program, graph')
        /\ AddOk(program, graph, adding) /\ RootsOk(program, graph, roots) /\ QueueOk(graph, queue)
    BY <1>1, <1>2 DEF Following, Agreeing, InProgress
  <2>2. /\ Firm(graph) /\ Ordering(graph, E) /\ ListsTraced(graph) /\ Tight(graph, E)
        /\ AddLow(program, graph, E, adding) /\ RootsLow(graph, E, roots) /\ QueueDue(graph, queue)
    BY <1>1, <1>2 DEF InOrder
  <2>3. adding \in Seq(Frames(program)) /\ Len(adding) \in Nat \ {0} /\ Len(adding) \in 1 .. Len(adding)
    BY <1>1, <2>1 DEF AddOk
  <2>4. FrameOk(program, graph, f) /\ FrameLow(program, graph, E, f) /\ f.of \in Operands(program)
    BY <2>1, <2>2, <2>3 DEF AddOk, AddLow, Top, FrameOk, Frames
  <2>5. expands => Len(f.ids) = 2 /\ f.of.kind = "inst" /\ program.code[f.of.of].op \in Arithmetic
    BY <2>1 DEF AddTop, Expands
  <2>6. GoodNode(program, graph, node)
    BY <1>2, <2>1, <2>4, <2>5, FrameNode
  <2>7. E \in [Nat -> Nat]
    BY <2>2 DEF Ordering, Ranked
  <2>8. /\ expands => Height(graph, E, node) < Bound(f.of)
        /\ ~expands => Height(graph, E, node) = Bound(f.of)
    BY <2>1, <2>4, <2>5, <2>7, NodeLow
  <2> HIDE DEF node
  <2>9. Height(graph, E, node) \in Nat
    BY <2>1, <2>6, <2>7, HeightTyped
  <2>10. PICK h, id : h = added.graph /\ id = added.id
    OBVIOUS
  <2>11. PICK F : /\ Firm(h) /\ Lasting(graph, h) /\ Ordering(h, F) /\ id \in Ids(h)
                  /\ \A c \in Ids(graph) : h.rep[c] = graph.rep[c] /\ F[graph.rep[c]] = E[graph.rep[c]]
                  /\ ListsTraced(h) /\ Tight(h, F) /\ F[h.rep[id]] <= Height(graph, E, node)
    BY <2>1, <2>2, <2>6, <2>10, AddNodeOrder
  <2>12. graph' = h
    BY <2>10 DEF AddTop, node
  <2>13. F \in [Nat -> Nat] /\ GoodGraph(program, h)
    BY <2>1, <2>11, <2>12 DEF Ordering, Ranked
  <2>14. \A c \in Ids(graph) : F[h.rep[c]] <= E[graph.rep[c]] /\ F[h.rep[c]] = E[graph.rep[c]]
    <3> SUFFICES ASSUME NEW c \in Ids(graph) PROVE F[h.rep[c]] <= E[graph.rep[c]] /\ F[h.rep[c]] = E[graph.rep[c]]
      OBVIOUS
    <3>1. graph.rep[c] \in Nat
      BY <2>1, RepIn
    <3>2. E[graph.rep[c]] \in Nat
      BY <2>7, <3>1
    <3> QED BY <2>11, <3>2
  <2>15. RootsLow(h, F, roots) /\ QueueDue(h, queue)
    BY <2>1, <2>2, <2>7, <2>11, <2>13, <2>14, RestLasts
  <2>16. \A k \in 1 .. Len(adding) : FrameLow(program, h, F, adding[k])
    BY <2>1, <2>2, <2>14 DEF AddLow, FrameLow, AddOk, FrameOk
  <2>17. F[h.rep[id]] \in Nat
    <3>1. h.rep[id] \in Nat
      BY <2>1, <2>11, <2>13, RepIn
    <3> QED BY <2>13, <3>1
  <2>18. Bound(f.of) \in Nat
    <3>1. f.of.kind = "inst" => f.of.of \in 1 .. Len(program.code)
      BY <2>4, OperandOf
    <3>2. Len(program.code) \in Nat
      BY <2>1, CodeOf
    <3> QED BY <3>1, <3>2 DEF Bound
  <2>19. F[h.rep[id]] <= Bound(f.of) /\ (expands => F[h.rep[id]] < Bound(f.of))
    <3>1. PICK x, y, z : x = F[h.rep[id]] /\ y = Height(graph, E, node) /\ z = Bound(f.of)
      OBVIOUS
    <3>2. x \in Nat /\ y \in Nat /\ z \in Nat /\ x <= y /\ (expands => y < z) /\ (~expands => y = z)
      BY <2>8, <2>9, <2>11, <2>17, <2>18, <3>1
    <3> HIDE DEF expands
    <3> QED BY <3>1, <3>2
  <2>20. RootsLow(h, F, roots') /\ AddLow(program, h, F, adding')
    <3>1. CASE Pop(adding) = <<>>
      <4>1. adding' = <<>> /\ roots' = Append(roots, [of |-> f.of.of, id |-> id])
        BY <2>10, <3>1 DEF AddTop, node
      <4>2. Len(adding) = 1
        <5>1. Len(Pop(adding)) = Len(adding) - 1
          BY <1>1, <2>3, PopLength
        <5> QED BY <2>3, <3>1, <5>1
      <4>3. f.of.kind = "inst" /\ code[f.of.of].op \in Arithmetic
        <5>1. f.of.kind = "inst"
          BY <1>1, <2>1, <4>2 DEF AddOk, Top
        <5> QED BY <2>1, <2>4, <5>1 DEF Operands, Inst, Leaf, Const
      <4>4. expands
        BY <4>2, <4>3, ProgramAssumption DEF Expands
      <4>5. F[h.rep[id]] < f.of.of
        BY <2>19, <4>3, <4>4 DEF Bound
      <4>6. RootsLow(h, F, roots')
        <5>1. PICK r : r = [of |-> f.of.of, id |-> id]
          OBVIOUS
        <5>2. r.of = f.of.of /\ r.id = id /\ roots' = Append(roots, r)
          BY <4>1, <5>1
        <5>3. F[h.rep[r.id]] < r.of
          BY <4>5, <5>2
        <5>4. PICK S : roots \in Seq(S)
          BY <2>1 DEF RootsOk
        <5>5. /\ Len(roots') = Len(roots) + 1 /\ Len(roots) \in Nat
              /\ \A k \in 1 .. Len(roots') : roots'[k] = IF k = Len(roots) + 1 THEN r ELSE roots[k]
          BY <5>2, <5>4
        <5>6. \A k \in 1 .. Len(roots') : k # Len(roots) + 1 => k \in 1 .. Len(roots)
          BY <5>5
        <5> QED BY <2>15, <5>3, <5>5, <5>6 DEF RootsLow
      <4>7. 1 .. Len(adding') = {}
        BY <4>1
      <4> QED BY <4>6, <4>7 DEF AddLow
    <3>2. CASE Pop(adding) # <<>>
      <4>1. roots' = roots /\ adding' = [Pop(adding) EXCEPT ![Len(Pop(adding))].ids = Append(@, id)]
        BY <2>10, <3>2 DEF AddTop, node
      <4>2. AddOk(program, h, adding)
        <5>1. Extends(graph, h)
          BY <2>1, <2>6, <2>10, AddNodeGood
        <5> QED BY <2>1, <5>1, ProgressStays DEF InProgress
      <4> DEFINE n == Len(adding) - 1
      <4>3. /\ Len(adding') = n /\ n \in Nat \ {0} /\ n + 1 \in 1 .. Len(adding) /\ n + 1 = Len(adding)
            /\ \A k \in 1 .. n : k \in 1 .. Len(adding) /\ (k # n => adding'[k] = adding[k])
            /\ adding'[n].of = adding[n].of /\ adding'[n].ids = Append(adding[n].ids, id)
            /\ Waits(program, adding[n], adding[n + 1].of)
        <5>1. PICK s, t : s = adding /\ t = adding'
          OBVIOUS
        <5>2. t = Put(s, id) /\ s # <<>> /\ Pop(s) # <<>> /\ AddOk(program, h, s)
          BY <1>1, <3>2, <4>1, <4>2, <5>1 DEF Put
        <5>3. /\ Len(t) = Len(s) - 1 /\ Len(s) - 1 \in Nat \ {0}
              /\ (Len(s) - 1) + 1 \in 1 .. Len(s) /\ (Len(s) - 1) + 1 = Len(s)
              /\ \A k \in 1 .. Len(s) - 1 : k \in 1 .. Len(s) /\ (k # Len(s) - 1 => t[k] = s[k])
              /\ t[Len(s) - 1].of = s[Len(s) - 1].of /\ t[Len(s) - 1].ids = Append(s[Len(s) - 1].ids, id)
              /\ Waits(program, s[Len(s) - 1], s[(Len(s) - 1) + 1].of)
          BY <2>11, <5>2, Returned
        <5> QED BY <5>1, <5>3
      <4>4. adding[n + 1].of = f.of
        BY <4>3 DEF Top
      <4> HIDE DEF n, f
      <4>5. n \in 1 .. Len(adding)
        BY <4>3
      <4>6. adding[n].ids \in Seq(Nat) /\ Len(adding[n].ids) \in Nat
        BY <2>1, <4>5 DEF AddOk, FrameOk, Frames
      <4>7. FrameLow(program, h, F, adding'[n])
        <5>1. PICK ids, jds, i : ids = adding[n].ids /\ jds = Append(ids, id) /\ i = adding[n].of.of
          OBVIOUS
        <5>2. Len(jds) = Len(ids) + 1 /\ \A j \in 1 .. Len(jds) : jds[j] = IF j = Len(ids) + 1 THEN id ELSE ids[j]
          BY <4>6, <5>1
        <5>3. ASSUME NEW j \in 1 .. Len(jds) PROVE F[h.rep[jds[j]]] <= Bound(program.code[i].args[j])
          <6>1. CASE j = Len(ids) + 1
            <7>1. f.of = program.code[i].args[j]
              BY <4>3, <4>4, <5>1, <6>1 DEF Waits
            <7>2. jds[j] = id
              BY <5>2, <6>1
            <7> QED BY <2>19, <7>1, <7>2
          <6>2. CASE j # Len(ids) + 1
            <7>1. j \in 1 .. Len(ids) /\ jds[j] = ids[j]
              BY <4>6, <5>1, <5>2, <6>2
            <7> QED BY <2>16, <4>5, <5>1, <7>1 DEF FrameLow
          <6> QED BY <6>1, <6>2
        <5>4. adding'[n].ids = jds /\ adding'[n].of.of = i
          BY <4>3, <5>1
        <5> QED BY <5>3, <5>4 DEF FrameLow
      <4>8. \A k \in 1 .. n : FrameLow(program, h, F, adding'[k])
        <5>1. ASSUME NEW k \in 1 .. n, k # n PROVE FrameLow(program, h, F, adding'[k])
          <6>1. adding'[k] = adding[k] /\ k \in 1 .. Len(adding)
            BY <4>3, <5>1
          <6> QED BY <2>16, <6>1
        <5> QED BY <4>7, <5>1
      <4> QED BY <2>15, <4>1, <4>3, <4>8 DEF AddLow
    <3> QED BY <3>1, <3>2
  <2> QED BY <1>1, <2>11, <2>12, <2>15, <2>20 DEF InOrder
<1> QED BY <1>1, <1>2, ArrangingBefore DEF Arranging

(* All candidates are added.                                                  *)
LEMMA OrderEndOfCandidates == ASSUME Following, Following', Arranging, EndOfCandidates PROVE Arranging'
<1>1. /\ phase = "add" /\ UNCHANGED <<program, code, graph, roots, queue, extracts>> /\ phase' \notin {"add", "rebuild"}
  BY DEF EndOfCandidates, StartLoop, adds
<1>2. ASSUME NEW E, InOrder(E) PROVE InOrder(E)'
  BY <1>1, <1>2 DEF InOrder
<1> QED BY <1>1, <1>2, ArrangingBefore DEF Arranging

(* The constant a rule finds in a class is a node of the memo.                  *)
LEMMA ConstantFixed ==
  ASSUME NEW p \in Programs, NEW g, GoodGraph(p, g), Firm(g), ListsTraced(g), NEW c \in Ids(g),
         ConstantOf(g, g.rep[c]) # {}
  PROVE  Fixed(g, g.rep[c])
<1> DEFINE r == g.rep[c]
<1>1. PICK k \in DOMAIN Entry(g, r) : IsConst(Entry(g, r)[k].atom)
  BY DEF ConstantOf, Constants
<1>2. r \in DOMAIN g.classes /\ Entry(g, r) = g.classes[r]
  BY <1>1 DEF Entry
<1>3. k \in 1 .. Len(g.classes[r])
  BY <1>1, <1>2 DEF GoodGraph, Listed
<1>4. Traced(g, g.classes[r][k], r)
  BY <1>2, <1>3 DEF ListsTraced, TracedList
<1>5. g.rep[r] = r
  BY DEF Firm
<1> QED BY <1>1, <1>2, <1>4, <1>5, ConstIsAtom DEF Traced, Same, Fixed

(* The node of the memo behind the one that a rule matches.                     *)
LEMMA VisitedKey ==
  ASSUME Following, Exact(program), phase = "rules", NEW r, Matches(r), NEW E, InOrder(E)
  PROVE  /\ at \in Ids(graph) /\ GoodNode(program, graph, Visited) /\ ~IsAtom(Visited)
         /\ \E k \in Keys(graph) : Same(graph, k, Visited) /\ Home(graph, k) = graph.rep[at]
<1>1. GoodGraph(program, graph) /\ at \in DOMAIN graph.classes /\ pos \in Nat \ {0} /\ pos <= Len(Nodes(at))
  BY DEF Following, Agreeing, Classes, Matches
<1>2. Listed(program, graph, at, graph.classes[at]) /\ at \in Ids(graph)
  BY <1>1 DEF GoodGraph
<1>3. pos \in 1 .. Len(graph.classes[at])
  BY <1>1, <1>2 DEF Listed, Nodes
<1>4. GoodNode(program, graph, Visited)
  BY <1>2, <1>3 DEF Listed, Nodes, Visited, Stands
<1>5. Traced(graph, Visited, at)
  BY <1>1, <1>3 DEF InOrder, ListsTraced, TracedList, Visited, Nodes
<1>6. r \in Matching(Visited)
  BY FirstFromIn DEF Matches
<1> QED BY <1>2, <1>4, <1>5, <1>6 DEF Traced, Matching

(* A class and one found for it can be queued to be united.                   *)
LEMMA EquateOrder ==
  ASSUME Following, Following', Exact(program), phase = "rules", NEW r, Matches(r), NEW h, NEW c, Equate(h, c),
         NEW E, InOrder(E), NEW F, Firm(h), Lasting(graph, h), Ordering(h, F), ListsTraced(h),
         \A d \in Ids(graph) : F[h.rep[d]] <= E[graph.rep[d]], Due(h, at, c)
  PROVE  InOrder(F)'
<1>1. /\ graph' = h /\ queue' = Append(queue, <<graph.rep[at], c>>) /\ phase' = "rules"
      /\ UNCHANGED <<program, roots>>
  BY DEF Equate, Matches, adds
<1>2. /\ program \in Programs /\ GoodGraph(program, graph) /\ GoodGraph(program, h)
      /\ RootsOk(program, graph, roots) /\ QueueOk(graph, queue) /\ at \in Ids(graph)
  <2>1. /\ program \in Programs /\ GoodGraph(program, graph) /\ InProgress(program, graph, adding, roots, queue)
        /\ at \in DOMAIN graph.classes
    BY DEF Following, Agreeing, Classes
  <2>2. GoodGraph(program, h)
    BY <1>1 DEF Following, Agreeing
  <2> QED BY <2>1, <2>2 DEF InProgress, GoodGraph
<1>3. E \in [Nat -> Nat] /\ F \in [Nat -> Nat] /\ RootsLow(graph, E, roots) /\ QueueDue(graph, queue)
  BY DEF InOrder, Ordering, Ranked
<1>4. RootsLow(h, F, roots) /\ QueueDue(h, queue)
  BY <1>2, <1>3, RestLasts
<1>5. Due(h, graph.rep[at], c)
  BY <1>2 DEF Due, Lasting
<1>6. QueueDue(h, queue')
  <2>1. PICK q : q = <<graph.rep[at], c>>
    OBVIOUS
  <2>2. queue' = Append(queue, q) /\ q[1] = graph.rep[at] /\ q[2] = c
    BY <1>1, <2>1
  <2>3. PICK S : queue \in Seq(S)
    BY <1>2 DEF QueueOk
  <2>4. /\ Len(queue') = Len(queue) + 1 /\ Len(queue) \in Nat
        /\ \A k \in 1 .. Len(queue') : queue'[k] = IF k = Len(queue) + 1 THEN q ELSE queue[k]
    BY <2>2, <2>3
  <2>5. \A k \in 1 .. Len(queue') : k # Len(queue) + 1 => k \in 1 .. Len(queue)
    BY <2>4
  <2> QED BY <1>4, <1>5, <2>2, <2>4, <2>5 DEF QueueDue
<1> QED BY <1>1, <1>4, <1>6 DEF InOrder

(* The identities: the class is that of an operand.                           *)
LEMMA OrderIdentity == ASSUME Following, Following', Arranging, Identity PROVE Arranging'
<1>1. phase = "rules" /\ Matches(1) /\ 1 \in Matching(Visited) /\ UNCHANGED <<program, code, extracts>>
  BY FirstFromIn DEF Identity, Matches
<1>2. ASSUME Exact(program), NEW E, InOrder(E) PROVE InOrder(E)'
  <2> DEFINE x == Visited.children[1]
             y == Visited.children[2]
  <2>1. program \in Programs /\ GoodGraph(program, graph)
    BY <1>2 DEF Following, Agreeing
  <2>2. Firm(graph) /\ Ordering(graph, E) /\ ListsTraced(graph) /\ E \in [Nat -> Nat]
    BY <1>2 DEF InOrder, Ordering, Ranked
  <2>3. at \in Ids(graph) /\ GoodNode(program, graph, Visited) /\ ~IsAtom(Visited)
    BY <1>1, <1>2, VisitedKey
  <2>4. PICK k \in Keys(graph) : Same(graph, k, Visited) /\ Home(graph, k) = graph.rep[at]
    BY <1>1, <1>2, VisitedKey
  <2>5. x \in Ids(graph) /\ y \in Ids(graph)
    BY <2>1, <2>3, NodeShape DEF GoodGraph
  <2>6. Fixed(graph, graph.rep[y])
    <3>1. ConstantOf(graph, graph.rep[y]) # {}
      BY <1>1 DEF Matching
    <3> QED BY <2>1, <2>2, <2>5, <3>1, ConstantFixed
  <2>7. ~IsAtom(k) /\ Lhs(graph, k) = graph.rep[x] /\ Fixed(graph, Rhs(graph, k))
    BY <2>3, <2>4, <2>6 DEF Same, Lhs, Rhs
  <2>8. Due(graph, at, graph.rep[x])
    <3>1. graph.rep[graph.rep[x]] = graph.rep[x]
      BY <2>2, <2>5 DEF Firm
    <3> QED BY <2>4, <2>7, <3>1 DEF Due, Reason
  <2>9. Lasting(graph, graph)
    BY <2>2 DEF Lasting, Firm
  <2>10. \A d \in Ids(graph) : E[graph.rep[d]] <= E[graph.rep[d]]
    BY <2>1, <2>2, RepIn
  <2>11. Equate(graph, graph.rep[x])
    BY DEF Identity
  <2> QED BY <1>1, <1>2, <2>2, <2>8, <2>9, <2>10, <2>11, EquateOrder
<1> QED BY <1>1, <1>2, ArrangingBefore DEF Arranging

(* A constant added is one of its class.                                        *)
LEMMA MadeFixed ==
  ASSUME NEW h, NEW n, NEW id, Traced(h, Atom(Made(n)), id)
  PROVE  Fixed(h, h.rep[id])
<1>1. Atom(Made(n)).atom = Made(n) /\ IsConst(Made(n)) /\ IsAtom(Atom(Made(n)))
  BY DEF Atom, Made, IsConst, IsAtom, None
<1>2. PICK o : o = Atom(Made(n))
  OBVIOUS
<1> QED BY <1>1, <1>2 DEF Traced, Same, Fixed

(* A value less itself: the class holds zero.                                 *)
LEMMA OrderCancel == ASSUME Following, Following', Arranging, Cancel PROVE Arranging'
<1>1. phase = "rules" /\ Matches(2) /\ 2 \in Matching(Visited) /\ UNCHANGED <<program, code, extracts>>
  BY FirstFromIn DEF Cancel, Matches
<1>2. ASSUME Exact(program), NEW E, InOrder(E) PROVE \E F : InOrder(F)'
  <2> DEFINE zero == Atom(Made(0))
             added == AddNode(program, graph, zero)
  <2>1. program \in Programs /\ GoodGraph(program, graph)
    BY <1>2 DEF Following, Agreeing
  <2>2. Firm(graph) /\ Ordering(graph, E) /\ ListsTraced(graph) /\ E \in [Nat -> Nat]
    BY <1>2 DEF InOrder, Ordering, Ranked
  <2>3. at \in Ids(graph) /\ GoodNode(program, graph, Visited) /\ ~IsAtom(Visited)
    BY <1>1, <1>2, VisitedKey
  <2>4. PICK k \in Keys(graph) : Same(graph, k, Visited) /\ Home(graph, k) = graph.rep[at]
    BY <1>1, <1>2, VisitedKey
  <2>5. ~IsAtom(k) /\ Cancels(graph, k) /\ GoodNode(program, graph, k)
    <3>1. GoodNode(program, graph, k)
      BY <2>1, KeyShape
    <3>2. Visited.op \in {"Sub", "Xor"} /\ Lhs(graph, Visited) = Rhs(graph, Visited)
      BY <1>1 DEF Matching, Lhs, Rhs
    <3> QED BY <2>3, <2>4, <3>1, <3>2 DEF Same, Cancels
  <2>6. GoodNode(program, graph, zero)
    <3>1. 0 \in Data
      BY ArithmeticAssumption
    <3>2. Made(0) \in AtomSet(program)
      BY <3>1 DEF AtomSet
    <3> QED BY <3>2 DEF GoodNode
  <2>7. PICK h, id : h = added.graph /\ id = added.id
    OBVIOUS
  <2>8. PICK F : /\ Firm(h) /\ Lasting(graph, h) /\ Ordering(h, F) /\ id \in Ids(h) /\ Traced(h, zero, id)
                 /\ \A c \in Ids(graph) : h.rep[c] = graph.rep[c] /\ F[graph.rep[c]] = E[graph.rep[c]]
                 /\ ListsTraced(h)
    <3> HIDE DEF zero
    <3> QED BY <2>1, <2>2, <2>6, <2>7, AddNodeOrder
  <2>9. \A c \in Ids(graph) : F[h.rep[c]] <= E[graph.rep[c]]
    <3> SUFFICES ASSUME NEW c \in Ids(graph) PROVE F[h.rep[c]] <= E[graph.rep[c]]
      OBVIOUS
    <3>1. E[graph.rep[c]] \in Nat
      BY <2>1, <2>2, RepIn
    <3> QED BY <2>8, <3>1
  <2>10. Fixed(h, h.rep[id])
    BY <2>8, MadeFixed
  <2>11. k \in Keys(h) /\ Home(h, k) = h.rep[at] /\ Cancels(h, k)
    BY <2>1, <2>3, <2>4, <2>5, <2>8, HomeLasts, SameOperandsLast DEF Cancels
  <2>12. Due(h, at, id)
    BY <2>5, <2>10, <2>11 DEF Due, Reason
  <2>13. Equate(h, id)
    BY <2>7 DEF Cancel
  <2> QED BY <1>1, <1>2, <2>8, <2>9, <2>12, <2>13, EquateOrder
<1> QED BY <1>1, <1>2, ArrangingBefore DEF Arranging

(* The cheaper operation is one that a rule may meet, too.                      *)
LEMMA CheaperStands ==
  ASSUME Agreeing, Exact(program), phase = "rules", Matches(3),
         NEW n \in ConstantOf(graph, graph.rep[Visited.children[2]])
  PROVE  /\ CheaperOp(Visited.op) \in Arithmetic /\ CheaperOperand(Visited.op, n) \in Data
         /\ Allowed(CheaperOp(Visited.op), Constantly(CheaperOperand(Visited.op, n)))
<1>1. 3 \in Matching(Visited) /\ pos <= Len(Nodes(at))
  BY FirstFromIn DEF Matches
<1>2. PICK op \in Arithmetic, x \in Ids(graph), y \in Ids(graph) :
         /\ Visited = Node(op, x, y) /\ Allowed(op, graph.val[y])
         /\ graph.val[at] = Compute(op, graph.val[x], graph.val[y])
  BY <1>1, VisitedNode
<1>3. Visited.op = op /\ Visited.children[1] = x /\ Visited.children[2] = y
  BY <1>2, NodeParts
<1>4. program \in Programs /\ GoodGraph(program, graph)
  BY DEF Agreeing
<1>5. n \in Data /\ graph.val[y] = Constantly(n)
  BY <1>3, <1>4, Find, ConstantValue
<1>6. op \in HasCheaper /\ n \in Powers
  <2>1. PICK m \in ConstantOf(graph, graph.rep[y]) : m \in Powers
    BY <1>1, <1>3 DEF Matching
  <2>2. Constantly(m) = Constantly(n)
    BY <1>4, <1>5, <2>1, Find, ConstantValue
  <2>3. m = n
    BY <2>2, ProgramAssumption DEF Constantly
  <2> QED BY <1>1, <1>3, <2>1, <2>3 DEF Matching
<1> QED BY <1>2, <1>3, <1>4, <1>5, <1>6, Find, CheaperRight

(* A product or quotient gets a node that is cheaper.                         *)
LEMMA OrderCheapen == ASSUME Following, Following', Arranging, Cheapen PROVE Arranging'
<1>1. phase = "rules" /\ Matches(3) /\ 3 \in Matching(Visited) /\ UNCHANGED <<program, code, extracts>>
  BY FirstFromIn DEF Cheapen, Matches
<1>2. ASSUME Exact(program), NEW E, InOrder(E) PROVE \E F : InOrder(F)'
  <2>1. program \in Programs /\ GoodGraph(program, graph)
    BY <1>2 DEF Following, Agreeing
  <2>2. Firm(graph) /\ Ordering(graph, E) /\ ListsTraced(graph) /\ E \in [Nat -> Nat]
    BY <1>2 DEF InOrder, Ordering, Ranked
  <2>3. at \in Ids(graph) /\ GoodNode(program, graph, Visited) /\ ~IsAtom(Visited)
    BY <1>1, <1>2, VisitedKey
  <2>4. PICK k \in Keys(graph) : Same(graph, k, Visited) /\ Home(graph, k) = graph.rep[at]
    BY <1>1, <1>2, VisitedKey
  <2>5. PICK x, y, op : x = Visited.children[1] /\ y = Visited.children[2] /\ op = Visited.op
    OBVIOUS
  <2>6. x \in Ids(graph) /\ y \in Ids(graph) /\ op \in Arithmetic /\ Visited = Node(op, x, y)
    BY <2>1, <2>3, <2>5, NodeShape DEF GoodGraph
  <2>7. /\ ~IsAtom(k) /\ k.op = op /\ Lhs(graph, k) = graph.rep[x] /\ Rhs(graph, k) = graph.rep[y]
        /\ GoodNode(program, graph, k)
    BY <2>1, <2>3, <2>4, <2>5, KeyShape DEF Same, Lhs, Rhs
  <2>8. Fixed(graph, Rhs(graph, k)) /\ op \in HasCheaper
    <3>1. ConstantOf(graph, graph.rep[y]) # {} /\ op \in HasCheaper
      BY <1>1, <2>5 DEF Matching
    <3> QED BY <2>1, <2>2, <2>6, <2>7, <3>1, ConstantFixed
  <2> DEFINE a(n) == AddNode(program, graph, Atom(Made(CheaperOperand(op, n))))
             b(n) == AddNode(program, a(n).graph, Node(CheaperOp(op), graph.rep[x], a(n).id))
  <2>9. PICK n \in ConstantOf(graph, graph.rep[y]) : Equate(b(n).graph, b(n).id)
    BY <2>5 DEF Cheapen
  <2> DEFINE to == CheaperOp(op)
             amount == CheaperOperand(op, n)
             atom == Atom(Made(amount))
             node == Node(to, graph.rep[x], a(n).id)
  <2>10. to \in Arithmetic /\ amount \in Data /\ Allowed(to, Constantly(amount)) /\ to \in Cheap /\ op \in Cheap
    <3>1. to \in Cheap /\ op \in Cheap
      BY <2>8 DEF CheaperOp, HasCheaper, Cheap
    <3>2. to \in Arithmetic /\ amount \in Data /\ Allowed(to, Constantly(amount))
      BY <1>1, <1>2, <2>1, <2>5, <2>9, CheaperStands DEF Following
    <3> QED BY <3>1, <3>2
  <2> HIDE DEF to, amount
  <2>11. GoodNode(program, graph, atom) /\ Denotation(program, graph, atom) = Constantly(amount)
    <3>1. Made(amount) \in AtomSet(program)
      BY <2>10 DEF AtomSet
    <3> QED BY <3>1, <2>1, AtomValue DEF GoodNode, Denotation, IsAtom, Atom, ValueOf, Made, Constantly
  <2>12. PICK h, id : h = a(n).graph /\ id = a(n).id
    OBVIOUS
  <2>13. PICK F : /\ Firm(h) /\ Lasting(graph, h) /\ Ordering(h, F) /\ id \in Ids(h) /\ Traced(h, atom, id)
                  /\ \A c \in Ids(graph) : h.rep[c] = graph.rep[c] /\ F[graph.rep[c]] = E[graph.rep[c]]
                  /\ ListsTraced(h)
    <3>1. h = AddNode(program, graph, atom).graph /\ id = AddNode(program, graph, atom).id
      BY <2>12 DEF amount
    <3> HIDE DEF atom
    <3> QED BY <2>1, <2>2, <2>11, <3>1, AddNodeOrder
  <2>14. GoodGraph(program, h) /\ h.val[id] = Constantly(amount)
    <3>1. h = AddNode(program, graph, atom).graph /\ id = AddNode(program, graph, atom).id
      BY <2>12 DEF amount
    <3> HIDE DEF atom
    <3> QED BY <2>1, <2>11, <3>1, AddNodeGood
  <2>15. GoodNode(program, h, node)
    <3>1. graph.rep[x] \in Ids(h)
      BY <2>1, <2>6, <2>13, RepIn DEF Lasting
    <3> QED BY <2>10, <2>12, <2>13, <2>14, <3>1 DEF GoodNode
  <2>16. PICK i, jd : i = b(n).graph /\ jd = b(n).id
    OBVIOUS
  <2>17. i = AddNode(program, h, node).graph /\ jd = AddNode(program, h, node).id
    BY <2>12, <2>16 DEF to
  <2>18. ~IsAtom(node) /\ node.op = to /\ node.children[1] = graph.rep[x] /\ node.children[2] = id
    BY <2>10, <2>12, NodeParts
  <2> HIDE DEF node, atom, a, b
  <2>19. PICK G : /\ Firm(i) /\ Lasting(h, i) /\ Ordering(i, G) /\ jd \in Ids(i) /\ Traced(i, node, jd)
                  /\ \A c \in Ids(h) : i.rep[c] = h.rep[c] /\ G[h.rep[c]] = F[h.rep[c]]
                  /\ ListsTraced(i)
    BY <2>1, <2>13, <2>14, <2>15, <2>17, AddNodeOrder
  <2>20. GoodGraph(program, i)
    BY <2>1, <2>14, <2>15, <2>17, AddNodeGood
  <2>21. Lasting(graph, i)
    BY <2>1, <2>13, <2>19, RepIn DEF Lasting, Firm
  <2>22. \A c \in Ids(graph) : G[i.rep[c]] <= E[graph.rep[c]]
    <3> SUFFICES ASSUME NEW c \in Ids(graph) PROVE G[i.rep[c]] <= E[graph.rep[c]]
      OBVIOUS
    <3>1. E[graph.rep[c]] \in Nat
      BY <2>1, <2>2, RepIn
    <3>2. c \in Ids(h)
      BY <2>13 DEF Lasting
    <3> QED BY <2>13, <2>19, <3>1, <3>2
  <2>23. /\ k \in Keys(i) /\ Home(i, k) = i.rep[at] /\ Lhs(i, k) = i.rep[x] /\ Fixed(i, Rhs(i, k))
    BY <2>1, <2>3, <2>4, <2>6, <2>7, <2>8, <2>21, HomeLasts, OperandsLast, SameOperandsLast
  <2>24. PICK m \in Keys(i) : ~IsAtom(m) /\ m.op = to /\ Lhs(i, m) = i.rep[graph.rep[x]] /\ Rhs(i, m) = i.rep[id] /\ Home(i, m) = i.rep[jd]
    BY <2>18, <2>19 DEF Traced, Same, Lhs, Rhs
  <2>25. Lhs(i, m) = i.rep[x] /\ Fixed(i, Rhs(i, m))
    <3>1. Fixed(h, h.rep[id])
      BY <2>13, MadeFixed DEF atom
    <3>2. Fixed(i, i.rep[id])
      BY <2>1, <2>13, <2>14, <2>19, <3>1, FixedLasts
    <3> QED BY <2>6, <2>21, <2>24, <3>2 DEF Lasting
  <2>26. Like(i, k, m)
    BY <2>7, <2>10, <2>23, <2>24, <2>25 DEF Like
  <2>27. Due(i, at, jd)
    BY <2>7, <2>23, <2>24, <2>26 DEF Due, Reason
  <2>28. Equate(i, jd)
    BY <2>9, <2>16
  <2> QED BY <1>1, <1>2, <2>19, <2>21, <2>22, <2>27, <2>28, EquateOrder
<1> QED BY <1>1, <1>2, ArrangingBefore DEF Arranging

(* The walk over the nodes changes nothing.                                   *)
LEMMA OrderWalk == ASSUME Following, Following', Arranging, NextNode \/ EndOfClass \/ EndOfRules PROVE Arranging'
<1>1. /\ phase = "rules" /\ phase' \notin {"add", "rebuild"}
      /\ UNCHANGED <<program, code, graph, roots, queue, extracts>>
  BY DEF NextNode, EndOfClass, EndOfRules, adds
<1>2. ASSUME NEW E, InOrder(E) PROVE InOrder(E)'
  BY <1>1, <1>2 DEF InOrder
<1> QED BY <1>1, <1>2, ArrangingBefore DEF Arranging

(* The lists of two classes go together.                                       *)
LEMMA TracedConcat ==
  ASSUME NEW h, NEW c, NEW S, NEW s \in Seq(S), NEW t \in Seq(S), TracedList(h, c, s), TracedList(h, c, t)
  PROVE  TracedList(h, c, s \o t)
<1>1. ASSUME NEW k \in 1 .. Len(s \o t) PROVE Traced(h, (s \o t)[k], c)
  <2>1. CASE k <= Len(s)
    <3>1. k \in 1 .. Len(s) /\ (s \o t)[k] = s[k]
      BY <2>1
    <3> QED BY <3>1 DEF TracedList
  <2>2. CASE k > Len(s)
    <3>1. k - Len(s) \in 1 .. Len(t) /\ (s \o t)[k] = t[k - Len(s)]
      BY <2>2
    <3> QED BY <3>1 DEF TracedList
  <2> QED BY <2>1, <2>2
<1> QED BY <1>1 DEF TracedList

(* merge unites two classes and joins their lists.                            *)
LEMMA MergedOrder ==
  ASSUME NEW p \in Programs, NEW g, GoodGraph(p, g), Firm(g), NEW E, Ordering(g, E), ListsTraced(g),
         NEW x \in Ids(g), NEW y \in Ids(g), Due(g, x, y), g.rep[x] # g.rep[y]
  PROVE  LET h == Merged(g, x, y)
         IN  /\ Firm(h) /\ Lasting(g, h) /\ ListsTraced(h)
             /\ \E F : Ordering(h, F) /\ \A c \in Ids(g) : F[h.rep[c]] <= E[g.rep[c]]
<1> DEFINE a == g.rep[x]
           b == g.rep[y]
           h == Merged(g, x, y)
<1>1. /\ h.memo = g.memo /\ h.rep = [c \in DOMAIN g.rep |-> IF g.rep[c] = b THEN a ELSE g.rep[c]]
      /\ h.classes = [c \in (DOMAIN g.classes \cup {a}) \ {b} |->
                        IF c = a THEN Entry(g, a) \o Entry(g, b) ELSE g.classes[c]]
  BY DEF Merged, Union, GoodGraph
<1> HIDE DEF h
<1>2. Firm(h) /\ Lasting(g, h) /\ \E F : Ordering(h, F) /\ \A c \in Ids(g) : F[h.rep[c]] <= E[g.rep[c]]
  BY <1>1, OrderUnited
<1>3. a \in Ids(g) /\ b \in Ids(g) /\ g.rep[a] = a /\ g.rep[b] = b /\ h.rep[b] = h.rep[a]
  BY <1>1, RepIn DEF Firm, GoodGraph, GoodClasses, Ids
<1> DEFINE S == NodeSet(p)
<1>4. ASSUME NEW c \in Ids(g) PROVE Entry(g, c) \in Seq(S) /\ TracedList(h, c, Entry(g, c))
  <2>1. CASE c \in DOMAIN g.classes
    <3>1. Listed(p, g, c, g.classes[c]) /\ TracedList(g, c, g.classes[c])
      BY <2>1 DEF GoodGraph, ListsTraced
    <3>2. TracedList(h, c, g.classes[c])
      BY <1>2, <3>1, TracedListLasts
    <3> QED BY <2>1, <3>1, <3>2 DEF Entry, Listed
  <2>2. CASE c \notin DOMAIN g.classes
    <3>1. Entry(g, c) = <<>>
      BY <2>2 DEF Entry
    <3>2. 1 .. Len(<<>>) = {} /\ <<>> \in Seq(S)
      BY EmptySeq
    <3> QED BY <3>1, <3>2 DEF TracedList
  <2> QED BY <2>1, <2>2
<1>5. TracedList(h, a, Entry(g, a) \o Entry(g, b))
  <2>1. TracedList(h, a, Entry(g, b))
    BY <1>3, <1>4 DEF TracedList, Traced
  <2> HIDE DEF S
  <2> QED BY <1>3, <1>4, <2>1, TracedConcat
<1>6. ListsTraced(h)
  <2>1. ASSUME NEW c \in DOMAIN h.classes PROVE TracedList(h, c, h.classes[c])
    <3>1. CASE c = a
      BY <1>1, <1>5, <3>1
    <3>2. CASE c # a
      <4>1. c \in DOMAIN g.classes /\ h.classes[c] = Entry(g, c)
        BY <1>1, <3>2 DEF Entry
      <4> QED BY <1>4, <4>1 DEF GoodGraph
    <3> QED BY <3>1, <3>2
  <2> QED BY <2>1 DEF ListsTraced
<1> QED BY <1>2, <1>6 DEF h

(* The next pair of the queue is merged.                                      *)
LEMMA OrderMerge == ASSUME Following, Following', Arranging, MergeNext PROVE Arranging'
<1>1. /\ phase = "merge" /\ phase' = "merge" /\ UNCHANGED <<program, code, roots, extracts>>
      /\ queue # <<>> /\ graph' = Merged(graph, Head(queue)[1], Head(queue)[2]) /\ queue' = Tail(queue)
  BY DEF MergeNext, adds
<1>2. ASSUME Exact(program), NEW E, InOrder(E) PROVE \E F : InOrder(F)'
  <2>1. /\ program \in Programs /\ GoodGraph(program, graph) /\ GoodGraph(program, graph')
        /\ RootsOk(program, graph, roots) /\ QueueOk(graph, queue)
    BY <1>1, <1>2 DEF Following, Agreeing, InProgress
  <2>2. /\ Firm(graph) /\ Ordering(graph, E) /\ ListsTraced(graph) /\ E \in [Nat -> Nat]
        /\ RootsLow(graph, E, roots) /\ QueueDue(graph, queue)
    BY <1>2 DEF InOrder, Ordering, Ranked
  <2>3. PICK x, y : x = Head(queue)[1] /\ y = Head(queue)[2]
    OBVIOUS
  <2>4. x \in Ids(graph) /\ y \in Ids(graph) /\ QueueOk(graph, queue')
    BY <1>1, <2>1, <2>3, QueueTail
  <2>5. Due(graph, x, y) /\ QueueDue(graph, queue')
    <3>1. queue \in Seq(Nat \X Nat) /\ queue # <<>>
      BY <1>1, <2>1 DEF QueueOk
    <3>2. Head(queue) = queue[1] /\ 1 \in 1 .. Len(queue)
      BY <3>1
    <3>3. \A k \in 1 .. Len(Tail(queue)) : Tail(queue)[k] = queue[k + 1] /\ k + 1 \in 1 .. Len(queue)
      BY <3>1
    <3> QED BY <1>1, <2>2, <2>3, <3>2, <3>3 DEF QueueDue
  <2>6. CASE graph.rep[x] = graph.rep[y]
    <3>1. graph' = graph
      BY <1>1, <2>3, <2>6 DEF Merged
    <3>2. InOrder(E)'
      BY <1>1, <2>2, <2>5, <3>1 DEF InOrder
    <3> QED BY <3>2
  <2>7. CASE graph.rep[x] # graph.rep[y]
    <3>1. PICK h : h = Merged(graph, x, y)
      OBVIOUS
    <3>2. PICK F : /\ Firm(h) /\ Lasting(graph, h) /\ ListsTraced(h) /\ Ordering(h, F)
                   /\ \A c \in Ids(graph) : F[h.rep[c]] <= E[graph.rep[c]]
      BY <2>1, <2>2, <2>4, <2>5, <2>7, <3>1, MergedOrder
    <3>3. graph' = h /\ F \in [Nat -> Nat]
      BY <1>1, <2>3, <3>1, <3>2 DEF Ordering, Ranked
    <3>4. RootsLow(h, F, roots) /\ QueueDue(h, queue')
      BY <2>1, <2>2, <2>4, <2>5, <3>2, <3>3, RestLasts
    <3>5. InOrder(F)'
      BY <1>1, <3>2, <3>3, <3>4 DEF InOrder
    <3> QED BY <3>5
  <2> QED BY <2>6, <2>7
<1> QED BY <1>1, <1>2, ArrangingBefore DEF Arranging

(* The queue is empty.                                                        *)
LEMMA OrderEndOfMerges == ASSUME Following, Following', Arranging, EndOfMerges PROVE Arranging'
<1>1. /\ phase = "merge" /\ phase' = "rebuild" /\ UNCHANGED <<program, code, graph, roots, queue, extracts>>
      /\ DOMAIN newMemo' = {} /\ kept' = <<>>
  BY DEF EndOfMerges, StartLoop, adds
<1>2. MemoTraced(graph, newMemo') /\ TracedList(graph, at', kept')
  <2>1. 1 .. Len(kept') = {}
    BY <1>1
  <2> QED BY <1>1, <2>1 DEF MemoTraced, TracedList
<1>3. ASSUME NEW E, InOrder(E) PROVE InOrder(E)'
  BY <1>1, <1>2, <1>3 DEF InOrder
<1> QED BY <1>1, <1>3, ArrangingBefore DEF Arranging

(* rebuild meets two nodes that are one.                                       *)
LEMMA SeenDue ==
  ASSUME NEW g, NEW n, NEW x, NEW y, Traced(g, n, x), Traced(g, n, y)
  PROVE  Due(g, x, y)
<1>1. PICK k \in Keys(g) : Same(g, k, n) /\ Home(g, k) = g.rep[x]
  BY DEF Traced
<1>2. PICK l \in Keys(g) : Same(g, l, n) /\ Home(g, l) = g.rep[y]
  BY DEF Traced
<1>3. CASE IsAtom(n)
  BY <1>1, <1>2, <1>3 DEF Same, Due
<1>4. CASE ~IsAtom(n)
  <2>1. Like(g, k, l) /\ ~IsAtom(k)
    BY <1>1, <1>2, <1>4 DEF Same, Like
  <2> QED BY <1>1, <1>2, <2>1 DEF Due, Reason
<1> QED BY <1>3, <1>4

(* rebuild finds the node again, or keeps it.                                 *)
LEMMA OrderRebuildNode == ASSUME Following, Following', Arranging, RebuildNode PROVE Arranging'
<1> DEFINE n0 == graph.classes[at][pos]
           n == Canonical(graph, n0)
<1>1. /\ phase = "rebuild" /\ phase' = "rebuild" /\ pos <= Len(graph.classes[at])
      /\ UNCHANGED <<program, code, at, roots, queue, extracts>>
  BY DEF RebuildNode, adds
<1>2. ASSUME Exact(program), NEW E, InOrder(E) PROVE \E F : InOrder(F)'
  <2>1. /\ program \in Programs /\ GoodGraph(program, graph) /\ GoodGraph(program, graph')
        /\ RootsOk(program, graph, roots) /\ QueueOk(graph, queue)
        /\ GoodMemo(program, graph, newMemo) /\ Listed(program, graph, at, kept)
        /\ at \in DOMAIN graph.classes /\ pos \in Nat \ {0}
    BY <1>1, <1>2 DEF Following, Agreeing, InProgress, Classes
  <2>2. /\ Firm(graph) /\ Ordering(graph, E) /\ ListsTraced(graph) /\ E \in [Nat -> Nat]
        /\ RootsLow(graph, E, roots) /\ QueueDue(graph, queue)
        /\ MemoTraced(graph, newMemo) /\ TracedList(graph, at, kept)
    BY <1>1, <1>2 DEF InOrder, Ordering, Ranked
  <2>3. at \in Ids(graph) /\ Listed(program, graph, at, graph.classes[at])
    BY <2>1 DEF GoodGraph
  <2>4. pos \in 1 .. Len(graph.classes[at])
    BY <1>1, <2>1, <2>3 DEF Listed
  <2>5. GoodNode(program, graph, n0) /\ Traced(graph, n0, at)
    BY <2>1, <2>2, <2>3, <2>4 DEF Listed, Stands, ListsTraced, TracedList
  <2> HIDE DEF n0
  <2>6. /\ (IsAtom(n) <=> IsAtom(n0)) /\ Same(graph, n, n0) /\ n.op = n0.op
        /\ ~IsAtom(n0) => Lhs(graph, n) = Lhs(graph, n0) /\ Rhs(graph, n) = Rhs(graph, n0)
    BY <2>1, <2>2, <2>5, CanonicalSame
  <2> HIDE DEF n
  <2>7. Traced(graph, n, at)
    BY <2>5, <2>6 DEF Traced, Same
  <2>8. CASE n \in DOMAIN newMemo
    <3>1. /\ newMemo' = newMemo /\ kept' = kept
          /\ graph' = Union(graph, graph.rep[at], graph.rep[newMemo[n]])
      BY <2>8 DEF RebuildNode, n, n0
    <3>2. newMemo[n] \in Ids(graph) /\ Due(graph, at, newMemo[n])
      BY <2>1, <2>2, <2>7, <2>8, SeenDue DEF GoodMemo, Stands, MemoTraced
    <3>3. PICK h, y : h = graph' /\ y = newMemo[n]
      OBVIOUS
    <3>4. /\ h.memo = graph.memo /\ h.classes = graph.classes
          /\ h.rep = [c \in DOMAIN graph.rep |-> IF graph.rep[c] = graph.rep[y] THEN graph.rep[at] ELSE graph.rep[c]]
      BY <2>1, <3>1, <3>3 DEF Union, GoodGraph
    <3>5. PICK F : /\ Firm(h) /\ Lasting(graph, h) /\ Ordering(h, F)
                   /\ \A c \in Ids(graph) : F[h.rep[c]] <= E[graph.rep[c]]
      BY <2>1, <2>2, <2>3, <3>2, <3>3, <3>4, OrderUnited
    <3>6. F \in [Nat -> Nat] /\ GoodGraph(program, h)
      BY <2>1, <3>3, <3>5 DEF Ordering, Ranked
    <3>7. RootsLow(h, F, roots) /\ QueueDue(h, queue) /\ MemoTraced(h, newMemo)
      BY <2>1, <2>2, <3>5, <3>6, RestLasts
    <3>8. TracedList(h, at, kept)
      BY <2>1, <2>2, <2>3, <3>5, TracedListLasts
    <3>9. ListsTraced(h)
      BY <2>1, <2>2, <3>4, <3>5, TracedListLasts DEF ListsTraced, GoodGraph
    <3>10. InOrder(F)'
      BY <1>1, <3>1, <3>3, <3>5, <3>7, <3>8, <3>9 DEF InOrder
    <3> QED BY <3>10
  <2>9. CASE n \notin DOMAIN newMemo
    <3>1. /\ graph' = graph /\ kept' = Append(kept, n)
          /\ newMemo' = [m \in DOMAIN newMemo \cup {n} |-> IF m = n THEN at ELSE newMemo[m]]
      BY <2>9 DEF RebuildNode, n, n0
    <3>2. MemoTraced(graph, newMemo')
      BY <2>2, <2>7, <3>1 DEF MemoTraced
    <3>3. TracedList(graph, at, kept')
      <4>1. PICK S : kept \in Seq(S)
        BY <2>1 DEF Listed
      <4>2. /\ Len(kept') = Len(kept) + 1 /\ Len(kept) \in Nat
            /\ \A k \in 1 .. Len(kept') : kept'[k] = IF k = Len(kept) + 1 THEN n ELSE kept[k]
        BY <3>1, <4>1
      <4>3. \A k \in 1 .. Len(kept') : k # Len(kept) + 1 => k \in 1 .. Len(kept)
        BY <4>2
      <4> QED BY <2>2, <2>7, <4>2, <4>3 DEF TracedList
    <3>4. InOrder(E)'
      BY <1>1, <2>2, <3>1, <3>2, <3>3 DEF InOrder
    <3> QED BY <3>4
  <2> QED BY <2>8, <2>9
<1> QED BY <1>1, <1>2, ArrangingBefore DEF Arranging

(* rebuild is done with the list of a class.                                  *)
LEMMA OrderRebuildEndOfClass == ASSUME Following, Following', Arranging, RebuildEndOfClass PROVE Arranging'
<1>1. /\ phase = "rebuild" /\ phase' # "add" /\ UNCHANGED <<program, code, roots, queue, newMemo, extracts>>
      /\ graph' = [graph EXCEPT !.classes[at] = kept] /\ kept' = <<>>
  BY DEF RebuildEndOfClass, StartLoop, NextClass, adds
<1>2. ASSUME Exact(program), NEW E, InOrder(E) PROVE InOrder(E)'
  <2>1. /\ program \in Programs /\ GoodGraph(program, graph) /\ GoodGraph(program, graph')
        /\ RootsOk(program, graph, roots) /\ QueueOk(graph, queue)
        /\ GoodMemo(program, graph, newMemo) /\ Listed(program, graph, at, kept)
        /\ at \in DOMAIN graph.classes
    BY <1>1, <1>2 DEF Following, Agreeing, InProgress, Classes
  <2>2. /\ Firm(graph) /\ Ordering(graph, E) /\ ListsTraced(graph) /\ E \in [Nat -> Nat]
        /\ RootsLow(graph, E, roots) /\ QueueDue(graph, queue)
        /\ MemoTraced(graph, newMemo) /\ TracedList(graph, at, kept)
    BY <1>1, <1>2 DEF InOrder, Ordering, Ranked
  <2>3. PICK h : h = graph'
    OBVIOUS
  <2>4. /\ h.memo = graph.memo /\ h.rep = graph.rep /\ h.classes = [graph.classes EXCEPT ![at] = kept]
    BY <1>1, <2>1, <2>3 DEF GoodGraph
  <2>5. Firm(h) /\ Lasting(graph, h)
    BY <2>2, <2>4 DEF Firm, Lasting, Ids, Keys
  <2>6. Ordering(h, E)
    BY <2>2, <2>4, SameOrder
  <2>7. \A c \in Ids(graph) : E[h.rep[c]] <= E[graph.rep[c]]
    BY <2>1, <2>2, <2>4, RepIn
  <2>8. RootsLow(h, E, roots) /\ QueueDue(h, queue) /\ MemoTraced(h, newMemo)
    BY <2>1, <2>2, <2>3, <2>5, <2>7, RestLasts
  <2>9. ListsTraced(h)
    <3>1. ASSUME NEW c \in DOMAIN graph.classes PROVE TracedList(h, c, h.classes[c])
      <4>1. c \in Ids(graph)
        BY <2>1 DEF GoodGraph
      <4>2. CASE c = at
        <5>1. h.classes[c] = kept
          BY <2>4, <4>2
        <5> QED BY <2>1, <2>2, <2>5, <4>1, <4>2, <5>1, TracedListLasts
      <4>3. CASE c # at
        <5>1. h.classes[c] = graph.classes[c] /\ Listed(program, graph, c, graph.classes[c]) /\ TracedList(graph, c, graph.classes[c])
          BY <2>1, <2>2, <2>4, <4>3 DEF GoodGraph, ListsTraced
        <5> QED BY <2>1, <2>5, <4>1, <5>1, TracedListLasts
      <4> QED BY <4>2, <4>3
    <3> QED BY <2>4, <3>1 DEF ListsTraced
  <2>10. TracedList(h, at', kept')
    <3>1. 1 .. Len(kept') = {}
      BY <1>1
    <3> QED BY <3>1 DEF TracedList
  <2> QED BY <1>1, <2>3, <2>5, <2>6, <2>8, <2>9, <2>10 DEF InOrder
<1> QED BY <1>1, <1>2, ArrangingBefore DEF Arranging

-----------------------------------------------------------------------------
(* What extractBest takes for a class is not above it.  A node of a class that
   holds a constant may be anything that comes to zero: there the constant is
   taken, if it is listed.                                                    *)
LEMMA BestLow ==
  ASSUME NEW p \in Programs, NEW g, GoodGraph(p, g), NEW E, Ordering(g, E), ListsTraced(g),
         NEW k \in Ids(g), g.rep[k] = k, Entry(g, k) # <<>>,
         Fixed(g, k) => \E j \in DOMAIN Entry(g, k) : IsConst(Entry(g, k)[j].atom)
  PROVE  LET n == Cheapest(Entry(g, k))
         IN  IF IsAtom(n) THEN n.atom.kind = "inst" => n.atom.of <= E[k]
             ELSE E[Lhs(g, n)] <= E[k] /\ E[Rhs(g, n)] <= E[k]
<1> DEFINE s == Entry(g, k)
           n == Cheapest(s)
<1>1. k \in DOMAIN g.classes /\ s = g.classes[k]
  BY DEF Entry
<1>2. TracedList(g, k, s) /\ Listed(p, g, k, s)
  BY <1>1 DEF GoodGraph, ListsTraced
<1> HIDE DEF s
<1>3. Len(s) \in Nat \ {0} /\ DOMAIN s = 1 .. Len(s)
  <2> DEFINE Z == NodeSet(p)
  <2>1. s \in Seq(Z) /\ s # <<>>
    BY <1>2 DEF Listed, s
  <2> HIDE DEF Z
  <2> QED BY <2>1, LenProperties, EmptySeq
<1>4. PICK j \in 1 .. Len(s) : n = s[j] /\ \A l \in 1 .. Len(s) : CostOf(s[j]) <= CostOf(s[l])
  BY <1>3, CheapestIn
<1> HIDE DEF n
<1>5. PICK m \in Keys(g) : Same(g, m, n) /\ Home(g, m) = k
  BY <1>2, <1>4 DEF TracedList, Traced
<1>6. Reaches(g, E, m)
  BY DEF Ordering, Ranked
<1>7. CASE IsAtom(n)
  BY <1>5, <1>6, <1>7 DEF Same, Reaches, n, s
<1>8. CASE ~IsAtom(n)
  <2>1. ~Fixed(g, k)
    <3> SUFFICES ASSUME Fixed(g, k) PROVE FALSE
      OBVIOUS
    <3>1. PICK l \in 1 .. Len(s) : IsConst(s[l].atom)
      BY <1>3 DEF s
    <3>2. CostOf(s[l]) = 0
      BY <3>1, ConstIsAtom DEF CostOf
    <3>3. CostOf(n) \in Nat \ {0}
      BY <1>8 DEF CostOf, Cost
    <3> QED BY <1>4, <3>2, <3>3
  <2>2. E[Lhs(g, n)] <= E[k] /\ E[Rhs(g, n)] <= E[k]
    BY <1>5, <1>6, <1>8, <2>1 DEF Same, Reaches
  <2> QED BY <1>8, <2>2 DEF n, s
<1> QED BY <1>7, <1>8

(* An instruction more, no lower than its operands.                           *)
IsList(c) == \E S : c \in Seq(S)

IsLonger(d, c, x) == d = Append(c, x)

Grown(L, lev, c, d, v) ==
  /\ L \in [Nat -> Nat] /\ Arranged(d, L)
  /\ L[Len(c) + 1] = v /\ \A i \in 1 .. Len(c) : L[i] = lev[i]

ReadsUpTo(x, c, lev, v) ==
  \A k \in 1 .. Len(x.args) : x.args[k].kind = "inst" =>
    x.args[k].of \in 1 .. Len(c) /\ lev[x.args[k].of] <= v

(* A new instruction goes to the level of the class it is built for: its operands
   are below, or before it on its level.                                      *)
LEMMA ArrangedBuilt ==
  ASSUME NEW c, IsList(c), NEW lev \in [Nat -> Nat], Arranged(c, lev), NEW x, NEW v \in Nat, ReadsUpTo(x, c, lev, v),
         NEW d, IsLonger(d, c, x)
  PROVE  \E L : Grown(L, lev, c, d, v)
<1> DEFINE n == Len(c)
           L == Lowered(lev, Len(c) + 1, v)
<1>1. /\ n \in Nat /\ Len(d) = n + 1 /\ d[n + 1] = x /\ \A i \in 1 .. n : d[i] = c[i]
  <2>1. PICK S : c \in Seq(S)
    BY DEF IsList
  <2>2. Len(Append(c, x)) = n + 1 /\ Append(c, x)[n + 1] = x /\ \A i \in 1 .. n : Append(c, x)[i] = c[i]
    BY <2>1, AppendProperties
  <2>3. n \in Nat
    BY <2>1, LenProperties
  <2> QED BY <2>2, <2>3 DEF IsLonger
<1> HIDE DEF n
<1>2. L \in [Nat -> Nat] /\ L[n + 1] = v /\ \A i \in 1 .. n : L[i] = lev[i]
  <2>1. L = [lev EXCEPT ![n + 1] = v]
    BY DEF n, Lowered
  <2>2. n + 1 \in Nat /\ \A i \in 1 .. n : i # n + 1 /\ i \in Nat
    BY <1>1
  <2> HIDE DEF L
  <2> QED BY <2>1, <2>2
<1> HIDE DEF L
<1>3. ASSUME NEW j \in 1 .. Len(d), NEW k \in 1 .. Len(d[j].args), d[j].args[k].kind = "inst"
      PROVE  LET i == d[j].args[k].of
             IN  i \in 1 .. Len(d) /\ (L[i] < L[j] \/ (L[i] = L[j] /\ i < j))
  <2>1. PICK i : i = d[j].args[k].of
    OBVIOUS
  <2>2. CASE j = n + 1
    <3>1. d[j] = x
      BY <1>1, <1>3, <2>2
    <3>2. k \in 1 .. Len(x.args) /\ x.args[k].kind = "inst" /\ x.args[k].of = i
      BY <1>3, <2>1, <3>1
    <3>3. i \in 1 .. n /\ lev[i] <= v
      BY <3>2 DEF n, ReadsUpTo
    <3>4. L[i] = lev[i] /\ L[j] = v /\ lev[i] \in Nat
      BY <1>1, <1>2, <2>2, <3>3
    <3>5. i < j /\ i \in 1 .. Len(d)
      BY <1>1, <2>2, <3>3
    <3>6. L[i] < L[j] \/ L[i] = L[j]
      BY <3>3, <3>4
    <3> QED BY <2>1, <3>5, <3>6
  <2>3. CASE j # n + 1
    <3>1. j \in 1 .. n /\ d[j] = c[j]
      <4>1. j \in 1 .. n
        BY <1>1, <1>3, <2>3
      <4> QED BY <1>1, <4>1
    <3>2. k \in 1 .. Len(c[j].args) /\ c[j].args[k].kind = "inst" /\ c[j].args[k].of = i
      BY <1>3, <2>1, <3>1
    <3>3. i \in 1 .. n /\ (lev[i] < lev[j] \/ (lev[i] = lev[j] /\ i < j))
      BY <3>1, <3>2 DEF Arranged, n
    <3>4. L[i] = lev[i] /\ L[j] = lev[j]
      BY <1>2, <3>1, <3>3
    <3>5. i \in 1 .. Len(d)
      BY <1>1, <3>3
    <3> QED BY <2>1, <3>3, <3>4, <3>5
  <2> QED BY <2>2, <2>3
<1>4. Arranged(d, L)
  BY <1>3 DEF Arranged
<1> QED BY <1>2, <1>4 DEF n, Grown

(* Instructions are counted from one.                                         *)
LEMMA IsNumber == ASSUME NEW l \in Nat, NEW i \in 1 .. l PROVE i \in Nat
OBVIOUS

(* A lower operand for an instruction.                                        *)
IsBelow(v, i, c, lev) == v.kind = "inst" => v.of \in 1 .. Len(c) /\ lev[v.of] < lev[i]

Exchanged(c, i, v) ==
  [j \in DOMAIN c |-> [c[j] EXCEPT !.args = [k \in DOMAIN @ |-> IF @[k] = Inst(i) THEN v ELSE @[k]]]]

(* Operands may be replaced by instructions of a lower level.                 *)
LEMMA ArrangedReplaced ==
  ASSUME NEW p \in Programs, NEW c, NEW W, Right(p, c, W), Plain(c), NEW lev \in [Nat -> Nat], Arranged(c, lev),
         NEW i0 \in Nat, NEW best, IsBelow(best, i0, c, lev),
         NEW d, d = Exchanged(c, i0, best), Right(p, d, W)
  PROVE  Arranged(d, lev) /\ 1 .. Len(d) = 1 .. Len(c)
<1>1. DOMAIN c = 1 .. Len(c) /\ DOMAIN d = 1 .. Len(d) /\ Len(c) \in Nat
  <2>1. PICK S, T : c \in Seq(S) /\ d \in Seq(T)
    BY DEF Right
  <2> QED BY <2>1, LenProperties
<1>2. 1 .. Len(d) = 1 .. Len(c)
  BY <1>1 DEF Exchanged
<1>3. ASSUME NEW j \in 1 .. Len(c)
      PROVE  /\ 1 .. Len(d[j].args) = 1 .. Len(c[j].args)
             /\ \A k \in 1 .. Len(c[j].args) : d[j].args[k] = IF c[j].args[k] = Inst(i0) THEN best ELSE c[j].args[k]
  <2> DEFINE Sub(s) == [k \in DOMAIN s |-> IF s[k] = Inst(i0) THEN best ELSE s[k]]
  <2>1. c[j] = [op |-> c[j].op, args |-> c[j].args]
    BY DEF Plain
  <2>2. d[j] = [c[j] EXCEPT !.args = Sub(c[j].args)]
    BY <1>1 DEF Exchanged
  <2>3. d[j].args = Sub(c[j].args)
    BY <2>1, <2>2
  <2>4. DOMAIN c[j].args = 1 .. Len(c[j].args) /\ DOMAIN d[j].args = 1 .. Len(d[j].args)
    <3>1. PICK as, bs, U, V : as = c[j].args /\ bs = d[j].args /\ U = Usable(p, c) /\ V = Usable(p, d)
      OBVIOUS
    <3>2. as \in Seq(U) /\ bs \in Seq(V)
      BY <1>2, <3>1 DEF Right
    <3>3. DOMAIN as = 1 .. Len(as) /\ DOMAIN bs = 1 .. Len(bs)
      BY <3>2, LenProperties
    <3> QED BY <3>1, <3>3
  <2> QED BY <2>3, <2>4
<1>4. ASSUME NEW j \in 1 .. Len(d), NEW k \in 1 .. Len(d[j].args), d[j].args[k].kind = "inst"
      PROVE  LET i == d[j].args[k].of
             IN  i \in 1 .. Len(d) /\ (lev[i] < lev[j] \/ (lev[i] = lev[j] /\ i < j))
  <2>1. j \in 1 .. Len(c) /\ k \in 1 .. Len(c[j].args)
    BY <1>2, <1>3
  <2>2. CASE c[j].args[k] # Inst(i0)
    <3>1. d[j].args[k] = c[j].args[k]
      BY <1>3, <2>1, <2>2
    <3>2. PICK i : i = c[j].args[k].of
      OBVIOUS
    <3>3. i \in 1 .. Len(c) /\ (lev[i] < lev[j] \/ (lev[i] = lev[j] /\ i < j))
      BY <1>4, <2>1, <3>1, <3>2 DEF Arranged
    <3> QED BY <1>2, <3>1, <3>2, <3>3
  <2>3. CASE c[j].args[k] = Inst(i0)
    <3>1. c[j].args[k].kind = "inst" /\ c[j].args[k].of = i0
      BY <2>3 DEF Inst
    <3>2. lev[i0] < lev[j] \/ (lev[i0] = lev[j] /\ i0 < j)
      BY <2>1, <3>1 DEF Arranged
    <3>3. PICK i : i = best.of
      OBVIOUS
    <3>4. d[j].args[k].of = i /\ i \in 1 .. Len(c) /\ lev[i] < lev[i0]
      BY <1>3, <1>4, <2>1, <2>3, <3>3 DEF IsBelow
    <3>5. PICK a, b, e : a = lev[i] /\ b = lev[i0] /\ e = lev[j]
      OBVIOUS
    <3>6. i \in Nat /\ j \in Nat
      <4>1. PICK l \in Nat : l = Len(c)
        BY <1>1
      <4>2. i \in 1 .. l /\ j \in 1 .. l
        BY <2>1, <3>4, <4>1
      <4> QED BY <4>1, <4>2, IsNumber
    <3>7. a \in Nat /\ b \in Nat /\ e \in Nat
      BY <3>5, <3>6
    <3>8. a < b /\ (b < e \/ b = e)
      BY <3>2, <3>4, <3>5
    <3>9. a < e
      <4> HIDE <1>1
      <4>1. CASE b < e
        BY <3>7, <3>8, <4>1
      <4>2. CASE b = e
        BY <3>8, <4>2
      <4> QED BY <3>8, <4>1, <4>2
    <3>10. lev[i] < lev[j]
      BY <3>5, <3>9
    <3> QED BY <1>2, <3>4, <3>10
  <2> QED BY <2>2, <2>3
<1> QED BY <1>2, <1>4 DEF Arranged

(* While instructions are extracted, the classes stay what they are.           *)
LEMMA ArrangingDuring ==
  ASSUME Arranging, phase = "extract", phase' \in {"extract", "overflow"},
         UNCHANGED <<program, graph, roots, queue>>,
         \A E, lev : Exact(program) /\ ConstantsListed /\ InOrder(E) /\ Lowest(E, lev) /\ phase' = "extract"
           => \E l : Lowest(E, l)'
  PROVE  Arranging'
<1>1. ASSUME NEW E, InOrder(E) PROVE InOrder(E)'
  BY <1>1 DEF InOrder
<1>2. (Exact(program)' <=> Exact(program)) /\ (ConstantsListed' <=> ConstantsListed)
  BY DEF ConstantsListed
<1>3. ASSUME Exact(program)
      PROVE  \E E : InOrder(E)' /\ ((phase = "extract" /\ ConstantsListed)' => \E l : Lowest(E, l)')
  <2>1. PICK E : InOrder(E) /\ (ConstantsListed => \E lev : Lowest(E, lev))
    BY <1>3 DEF Arranging
  <2> QED BY <1>1, <1>2, <1>3, <2>1
<1> QED BY <1>2, <1>3 DEF Arranging

(* extractBest is called for a root.                                          *)
LEMMA OrderBeginExtraction == ASSUME Following, Arranging, BeginExtraction PROVE Arranging'
<1>1. /\ phase = "extract" /\ phase' = "extract" /\ at <= Len(roots) /\ at \in Nat \ {0}
      /\ extracting' = <<graph.rep[roots[at].id]>>
      /\ UNCHANGED <<program, code, graph, roots, queue, extracted>>
  BY DEF BeginExtraction, Following, adds, cursor
<1>2. ASSUME NEW E, NEW lev, Exact(program), InOrder(E), Lowest(E, lev) PROVE Lowest(E, lev)'
  <2>1. RootsOk(program, graph, roots) /\ Firm(graph)
    BY <1>1, <1>2 DEF Following, Agreeing, InProgress, InOrder
  <2>2. at \in 1 .. Len(roots)
    <3>1. Len(roots) \in Nat
      BY <2>1 DEF RootsOk
    <3> QED BY <1>1, <3>1
  <2>3. PICK c : c = graph.rep[roots[at].id]
    OBVIOUS
  <2>4. graph.rep[c] = c
    BY <2>1, <2>2, <2>3 DEF RootsOk, Firm
  <2>5. \A k \in 1 .. Len(extracting') : extracting'[k] = c
    BY <1>1, <2>3
  <2> QED BY <1>1, <1>2, <2>4, <2>5 DEF Lowest
<1> QED BY <1>1, <1>2, ArrangingDuring

(* A call of extractBest ends, or all do.                                      *)
LEMMA CallReturns ==
  ASSUME NEW S, NEW s \in Seq(S), s # <<>>
  PROVE  /\ Top(s) = s[Len(s)] /\ Len(s) \in 1 .. Len(s)
         /\ \A k \in 1 .. Len(Pop(s)) : Pop(s)[k] = s[k] /\ k \in 1 .. Len(s)
         /\ \A x : \A k \in 1 .. Len(Append(s, x)) :
              Append(s, x)[k] = x \/ (k \in 1 .. Len(s) /\ Append(s, x)[k] = s[k])
<1>1. Len(s) \in Nat \ {0}
  BY LenProperties, EmptySeq
<1>2. \A k \in 1 .. Len(Pop(s)) : Pop(s)[k] = s[k] /\ k \in 1 .. Len(s)
  <2>1. PICK n \in Nat : Len(s) = n + 1
    <3>1. Len(s) - 1 \in Nat /\ Len(s) = (Len(s) - 1) + 1
      BY <1>1
    <3> QED BY <3>1, Zenon
  <2>2. Pop(s) = SubSeq(s, 1, n) /\ \A k \in 1 .. n : k \in 1 .. Len(s)
    BY <2>1 DEF Pop
  <2>3. \A k \in 1 .. n : s[k] \in S
    BY <2>2, ElementOfSeq
  <2>4. Len(SubSeq(s, 1, n)) = n /\ \A k \in 1 .. n : SubSeq(s, 1, n)[k] = s[k]
    BY <2>1, <2>2
  <2> QED BY <2>2, <2>4
<1>3. ASSUME NEW x, NEW k \in 1 .. Len(Append(s, x))
      PROVE  Append(s, x)[k] = x \/ (k \in 1 .. Len(s) /\ Append(s, x)[k] = s[k])
  <2>1. s \in Seq(S \cup {x})
    OBVIOUS
  <2>2. Len(Append(s, x)) = Len(s) + 1
    BY <2>1
  <2>3. k = Len(s) + 1 \/ k \in 1 .. Len(s)
    BY <1>1, <2>2
  <2> QED BY <2>1, <2>3
<1> QED BY <1>1, <1>2, <1>3 DEF Top

(* extractBest: an instruction goes to the level of the class it is built for,
   and its operands were extracted for classes that are not above that.       *)
LEMMA OrderExtractBest == ASSUME Following, Arranging, ExtractBest PROVE Arranging'
<1> DEFINE k == Top(extracting)
           nodes == Entry(graph, k)
           best == Cheapest(nodes)
<1>1. /\ phase = "extract" /\ extracting # <<>> /\ UNCHANGED <<program, graph, roots, queue>>
      /\ \/ nodes = <<>> /\ GiveUp
         \/ nodes # <<>> /\ IsAtom(best) /\ TakeAtom(best)
         \/ /\ nodes # <<>> /\ ~IsAtom(best)
            /\ \/ \E c \in Missing(best) : ExtractChild(c)
               \/ Missing(best) = {} /\ best.op \in Buildable /\ Build(best)
               \/ Missing(best) = {} /\ best.op \notin Buildable /\ GiveUp
  BY DEF ExtractBest, adds
<1>2. phase' \in {"extract", "overflow"}
  BY <1>1 DEF GiveUp, TakeAtom, ExtractChild, Build
<1>3. ASSUME NEW E, NEW lev, Exact(program), ConstantsListed, InOrder(E), Lowest(E, lev), phase' = "extract"
      PROVE  \E l : Lowest(E, l)'
  <2>1. PICK W : Extracting(program, code, W, graph, extracted, extracting)
    BY <1>1, <1>3 DEF Following
  <2>2. /\ program \in Programs /\ GoodGraph(program, graph) /\ Firm(graph) /\ Ordering(graph, E) /\ ListsTraced(graph)
        /\ E \in [Nat -> Nat]
    BY <1>3 DEF Following, Agreeing, InOrder, Ordering, Ranked
  <2>3. /\ Right(program, code, W) /\ Plain(code) /\ Taken(program, code, W, graph, extracted)
        /\ extracting \in Seq(Ids(graph))
    BY <2>1 DEF Extracting
  <2>4. /\ lev \in [Nat -> Nat] /\ Arranged(code, lev)
        /\ \A i \in 1 .. Len(program.code) : lev[i] = i
        /\ \A c \in DOMAIN extracted : extracted[c].kind = "inst" =>
             extracted[c].of \in 1 .. Len(code) /\ lev[extracted[c].of] <= E[c]
        /\ \A j \in 1 .. Len(extracting) : graph.rep[extracting[j]] = extracting[j]
    BY <1>3 DEF Lowest
  <2>5. k \in Ids(graph) /\ graph.rep[k] = k /\ E[k] \in Nat
    <3>1. PICK S : S = Ids(graph) /\ extracting \in Seq(S)
      BY <2>3
    <3>2. k \in S /\ \E j \in 1 .. Len(extracting) : k = extracting[j]
      BY <1>1, <3>1, CallReturns, Stacked
    <3>3. k \in Nat
      BY <2>2, <3>1, <3>2, RepIn
    <3> QED BY <2>2, <2>4, <3>1, <3>2, <3>3
  <2>6. /\ \A j \in 1 .. Len(Pop(extracting)) : graph.rep[Pop(extracting)[j]] = Pop(extracting)[j]
        /\ \A j \in 1 .. Len(<<>>) : graph.rep[<<>>[j]] = <<>>[j]
    <3>1. 1 .. Len(<<>>) = {}
      BY EmptySeq
    <3>2. PICK S : extracting \in Seq(S)
      BY <2>3
    <3>3. \A j \in 1 .. Len(Pop(extracting)) : Pop(extracting)[j] = extracting[j] /\ j \in 1 .. Len(extracting)
      BY <1>1, <3>2, CallReturns
    <3> QED BY <2>4, <3>1, <3>3
  <2> HIDE DEF k
  <2>7. CASE GiveUp
    <3>1. code' = code /\ extracted' = extracted /\ extracting' = <<>>
      BY <2>7 DEF GiveUp
    <3>2. Lowest(E, lev)'
      BY <1>1, <2>4, <2>6, <3>1 DEF Lowest
    <3> QED BY <3>2
  <2>8. ASSUME nodes # <<>>
        PROVE  IF IsAtom(best) THEN best.atom.kind = "inst" => best.atom.of <= E[k]
               ELSE E[Lhs(graph, best)] <= E[k] /\ E[Rhs(graph, best)] <= E[k]
    <3>1. Fixed(graph, k) => \E j \in DOMAIN nodes : IsConst(nodes[j].atom)
      BY <1>3, <2>8 DEF Fixed, Keys, Home, ConstantsListed
    <3> QED BY <2>2, <2>5, <2>8, <3>1, BestLow
  <2>9. nodes # <<>> => Stands(program, graph, best, k)
    BY <2>2, <2>5, BestNode
  <2> HIDE DEF best
  <2>10. CASE nodes # <<>> /\ IsAtom(best) /\ TakeAtom(best)
    <3>1. PICK v \in AtomSet(program) : best.atom = v
      BY <2>2, <2>9, <2>10, NodeShape DEF Stands, GoodGraph
    <3>2. /\ code' = code /\ extracting' = Pop(extracting)
          /\ extracted' = [j \in DOMAIN extracted \cup {k} |-> IF j = k THEN v ELSE extracted[j]]
      BY <2>10, <3>1 DEF TakeAtom, Extracted, k
    <3>3. v.kind = "inst" => v.of \in 1 .. Len(code) /\ lev[v.of] <= E[k]
      <4> SUFFICES ASSUME v.kind = "inst" PROVE v.of \in 1 .. Len(code) /\ lev[v.of] <= E[k]
        OBVIOUS
      <4>1. v.of \in 1 .. Len(program.code)
        BY <2>2, OperandOf DEF AtomSet, Made
      <4>2. lev[v.of] = v.of /\ v.of <= E[k]
        BY <2>4, <2>8, <2>10, <3>1, <4>1
      <4>3. v.of \in 1 .. Len(code)
        <5>1. Len(program.code) \in Nat /\ Len(code) \in Nat /\ Len(program.code) <= Len(code)
          BY <2>2, <2>3, CodeOf, LenProperties DEF Right
        <5> QED BY <4>1, <5>1
      <4> QED BY <4>2, <4>3
    <3>4. Lowest(E, lev)'
      <4>1. ASSUME NEW c \in DOMAIN extracted', extracted'[c].kind = "inst"
            PROVE  extracted'[c].of \in 1 .. Len(code) /\ lev[extracted'[c].of] <= E[c]
        BY <2>4, <3>2, <3>3, <4>1
      <4> QED BY <1>1, <2>4, <2>6, <3>2, <4>1 DEF Lowest
    <3> QED BY <3>4
  <2>11. ASSUME NEW c \in Missing(best), ExtractChild(c), nodes # <<>>, ~IsAtom(best)
         PROVE  \E l : Lowest(E, l)'
    <3>1. PICK j \in DOMAIN best.children : c = graph.rep[best.children[j]]
      BY <2>11, FirstFromIn DEF Missing
    <3>2. best.children[j] \in Ids(graph)
      <4>1. GoodNode(program, graph, best)
        BY <2>9, <2>11 DEF Stands
      <4>2. best = Node(best.op, best.children[1], best.children[2]) /\ best.children[1] \in Ids(graph) /\ best.children[2] \in Ids(graph)
        BY <2>2, <2>11, <4>1, NodeShape DEF GoodGraph
      <4>3. PICK op, x, y : op = best.op /\ x = best.children[1] /\ y = best.children[2]
        OBVIOUS
      <4>4. DOMAIN best.children = 1 .. 2
        BY <4>2, <4>3, NodeParts
      <4> QED BY <3>1, <4>2, <4>4
    <3>3. graph.rep[c] = c
      BY <2>2, <3>1, <3>2 DEF Firm
    <3>4. code' = code /\ extracted' = extracted /\ extracting' = Append(extracting, c)
      BY <1>3, <2>11 DEF ExtractChild
    <3>5. \A i \in 1 .. Len(extracting') : graph.rep[extracting'[i]] = extracting'[i]
      <4>1. PICK S : extracting \in Seq(S)
        BY <2>3
      <4>2. \A i \in 1 .. Len(Append(extracting, c)) :
              Append(extracting, c)[i] = c
              \/ (i \in 1 .. Len(extracting) /\ Append(extracting, c)[i] = extracting[i])
        BY <1>1, <4>1, CallReturns
      <4> QED BY <2>4, <3>3, <3>4, <4>2
    <3>6. Lowest(E, lev)'
      BY <1>1, <2>4, <3>4, <3>5 DEF Lowest
    <3> QED BY <3>6
  <2>12. CASE nodes # <<>> /\ ~IsAtom(best) /\ Missing(best) = {} /\ Build(best)
    <3>1. GoodNode(program, graph, best)
      BY <2>9, <2>12 DEF Stands
    <3>2. PICK op, x, y : op = best.op /\ x = best.children[1] /\ y = best.children[2]
      OBVIOUS
    <3>3. best = Node(op, x, y) /\ x \in Ids(graph) /\ y \in Ids(graph)
      BY <2>2, <2>12, <3>1, <3>2, NodeShape DEF GoodGraph
    <3>4. best.op = op /\ best.children = <<x, y>> /\ DOMAIN best.children = 1 .. 2
      BY <3>3, NodeParts
    <3>5. graph.rep[x] \in DOMAIN extracted /\ graph.rep[y] \in DOMAIN extracted
      <4>1. \A j \in 1 .. 2 : graph.rep[best.children[j]] \in DOMAIN extracted
        BY <2>12, <3>4, NoneMissing
      <4> QED BY <3>2, <4>1
    <3>6. E[graph.rep[x]] <= E[k] /\ E[graph.rep[y]] <= E[k] /\ E[graph.rep[x]] \in Nat /\ E[graph.rep[y]] \in Nat
      BY <2>2, <2>8, <2>12, <3>2, <3>3, RepIn, Zenon DEF Lhs, Rhs
    <3> DEFINE args == [j \in DOMAIN best.children |-> extracted[graph.rep[best.children[j]]]]
               d == [op |-> op, args |-> args]
    <3>7. args[1] = extracted[graph.rep[x]] /\ args[2] = extracted[graph.rep[y]] /\ Len(args) = 2
      <4>1. args = [j \in 1 .. 2 |-> extracted[graph.rep[best.children[j]]]]
        BY <3>4
      <4> QED BY <3>2, <4>1
    <3>8. /\ code' = Append(code, d) /\ extracting' = Pop(extracting)
          /\ extracted' = [j \in DOMAIN extracted \cup {k} |-> IF j = k THEN Inst(Len(code) + 1) ELSE extracted[j]]
      BY <2>12, <3>2 DEF Build, Extracted, k
    <3>9. d.args = args
      OBVIOUS
    <3> HIDE DEF args, d
    <3>10. ASSUME NEW j \in 1 .. Len(d.args), d.args[j].kind = "inst"
           PROVE  d.args[j].of \in 1 .. Len(code) /\ lev[d.args[j].of] <= E[k]
      <4>1. PICK c, i : c \in {graph.rep[x], graph.rep[y]} /\ d.args[j] = extracted[c] /\ i = extracted[c].of
        <5>1. j = 1 \/ j = 2
          BY <3>7, <3>9
        <5> QED BY <3>7, <3>9, <5>1
      <4>2. i \in 1 .. Len(code) /\ lev[i] <= E[c]
        BY <2>4, <3>5, <3>10, <4>1
      <4>3. Len(code) \in Nat
        BY <2>3, LenProperties DEF Right
      <4>4. PICK a, b, e : a = lev[i] /\ b = E[c] /\ e = E[k]
        OBVIOUS
      <4>5. a \in Nat /\ b \in Nat /\ e \in Nat /\ a <= b /\ b <= e
        BY <2>4, <2>5, <3>6, <4>1, <4>2, <4>3, <4>4, IsNumber
      <4>6. a <= e
        BY <4>5
      <4> QED BY <4>1, <4>2, <4>4, <4>6
    <3>11. PICK S, n : code \in Seq(S) /\ n = Len(code)
      BY <2>3 DEF Right
    <3>12. PICK L \in [Nat -> Nat] :
              Arranged(Append(code, d), L) /\ L[n + 1] = E[k] /\ \A i \in 1 .. n : L[i] = lev[i]
      <4>1. PICK v \in Nat : v = E[k]
        BY <2>5
      <4>2. ReadsUpTo(d, code, lev, v)
        BY <3>10, <4>1 DEF ReadsUpTo
      <4>3. lev \in [Nat -> Nat] /\ Arranged(code, lev) /\ code \in Seq(S) /\ v \in Nat
        BY <2>4, <3>11, <4>1
      <4>4. PICK c : c = Append(code, d)
        OBVIOUS
      <4>5. IsList(code) /\ IsLonger(c, code, d)
        BY <3>11, <4>4 DEF IsList, IsLonger
      <4>6. PICK L : Grown(L, lev, code, c, v)
        BY <4>2, <4>3, <4>5, ArrangedBuilt
      <4> QED BY <3>11, <4>1, <4>4, <4>6 DEF Grown
    <3>13. n \in Nat /\ Len(Append(code, d)) = n + 1 /\ Len(program.code) \in Nat /\ Len(program.code) <= n
      <4>1. code \in Seq(S \cup {d})
        BY <3>11
      <4>2. n \in Nat /\ Len(Append(code, d)) = n + 1
        BY <3>11, <4>1
      <4> QED BY <2>2, <2>3, <3>11, <4>2, CodeOf DEF Right
    <3>14. \A c \in DOMAIN extracted' : extracted'[c].kind = "inst" =>
             extracted'[c].of \in 1 .. n + 1 /\ L[extracted'[c].of] <= E[c]
      <4> SUFFICES ASSUME NEW c \in DOMAIN extracted', extracted'[c].kind = "inst"
                   PROVE  extracted'[c].of \in 1 .. n + 1 /\ L[extracted'[c].of] <= E[c]
        OBVIOUS
      <4>1. CASE c = k
        <5>1. extracted'[c].of = n + 1
          BY <3>8, <3>11, <4>1 DEF Inst
        <5>2. n + 1 \in 1 .. n + 1
          BY <3>13
        <5>3. L[n + 1] = E[k] /\ E[k] <= E[k]
          BY <2>5, <3>12
        <5> QED BY <4>1, <5>1, <5>2, <5>3
      <4>2. CASE c # k
        <5>1. c \in DOMAIN extracted /\ extracted'[c] = extracted[c]
          BY <3>8, <4>2
        <5>2. extracted[c].of \in 1 .. n /\ lev[extracted[c].of] <= E[c]
          BY <2>4, <3>11, <4>2, <5>1
        <5>3. \A i \in 1 .. n : i \in 1 .. n + 1
          BY <3>13
        <5> QED BY <3>12, <5>1, <5>2, <5>3
      <4> QED BY <4>1, <4>2
    <3>15. \A i \in 1 .. Len(program.code) : L[i] = i
      <4>1. \A i \in 1 .. Len(program.code) : i \in 1 .. n
        BY <3>13
      <4> QED BY <2>4, <3>12, <4>1
    <3>16. Lowest(E, L)'
      <4>1. code' = Append(code, d) /\ extracting' = Pop(extracting) /\ Len(code') = n + 1
        BY <3>8, <3>13
      <4> QED BY <1>1, <2>6, <3>12, <3>14, <3>15, <4>1 DEF Lowest
    <3> QED BY <3>16
  <2> QED BY <1>1, <2>7, <2>10, <2>11, <2>12 DEF best
<1> QED BY <1>1, <1>2, <1>3, ArrangingDuring

(* The uses of a root are given what was extracted for it.                    *)
LEMMA OrderReplace == ASSUME Following, Arranging, Replace PROVE Arranging'
<1> DEFINE c == graph.rep[roots[at].id]
           best == extracted[c]
           i0 == roots[at].of
<1>1. /\ phase = "extract" /\ phase' = "extract" /\ at <= Len(roots) /\ at \in Nat \ {0} /\ c \in DOMAIN extracted
      /\ UNCHANGED <<program, graph, roots, queue, extracted, extracting>>
      /\ code' = [i \in DOMAIN code |-> [code[i] EXCEPT !.args =
                    [k \in DOMAIN @ |-> IF @[k] = Inst(i0) THEN best ELSE @[k]]]]
  BY DEF Replace, Following, adds, extracts
<1>2. ASSUME NEW E, NEW lev, Exact(program), InOrder(E), Lowest(E, lev) PROVE Lowest(E, lev)'
  <2>1. PICK W : Right(program, code, W) /\ Plain(code) /\ Taken(program, code, W, graph, extracted)
    BY <1>1, <1>2 DEF Following, Extracting
  <2>2. program \in Programs /\ RootsOk(program, graph, roots) /\ RootsLow(graph, E, roots) /\ GoodClasses(graph)
    BY <1>1, <1>2 DEF Following, Agreeing, InProgress, InOrder, GoodGraph
  <2>3. at \in 1 .. Len(roots)
    <3>1. Len(roots) \in Nat
      BY <2>2 DEF RootsOk
    <3> QED BY <1>1, <3>1
  <2>4. i0 \in 1 .. Len(program.code) /\ E[c] < i0 /\ graph.val[c] = program.value[i0] /\ c \in Nat
    <3>1. i0 \in 1 .. Len(program.code) /\ graph.val[c] = program.value[i0]
      BY <2>2, <2>3 DEF RootsOk, GoodClasses
    <3>2. c \in Nat
      <4>1. c \in Ids(graph) /\ Len(graph.rep) \in Nat
        BY <2>2, <2>3 DEF RootsOk, GoodClasses
      <4> QED BY <4>1, IsNumber DEF Ids
    <3>3. E[c] < i0
      BY <2>2, <2>3 DEF RootsLow
    <3> QED BY <3>1, <3>2, <3>3
  <2>5. best \in Usable(program, code) /\ Amounts(program, W, best) = program.value[i0]
    BY <1>1, <2>1, <2>4 DEF Taken
  <2>6. /\ lev \in [Nat -> Nat] /\ Arranged(code, lev) /\ lev[i0] = i0
        /\ best.kind = "inst" => best.of \in 1 .. Len(code) /\ lev[best.of] <= E[c]
    BY <1>1, <1>2, <2>4 DEF Lowest
  <2> HIDE DEF c, best, i0
  <2>7. i0 \in Nat /\ Len(code) \in Nat /\ E \in [Nat -> Nat]
    <3>1. Len(program.code) \in Nat /\ Len(code) \in Nat
      BY <2>1, <2>2, CodeOf, LenProperties DEF Right
    <3>2. E \in [Nat -> Nat]
      BY <1>2 DEF InOrder, Ordering, Ranked
    <3> QED BY <2>4, <3>1, <3>2, IsNumber
  <2>8. IsBelow(best, i0, code, lev)
    <3> SUFFICES ASSUME best.kind = "inst" PROVE best.of \in 1 .. Len(code) /\ lev[best.of] < lev[i0]
      BY DEF IsBelow
    <3>1. PICK i, a, e : i = best.of /\ a = lev[i] /\ e = E[c]
      OBVIOUS
    <3>2. i \in 1 .. Len(code) /\ a <= e /\ e < i0 /\ lev[i0] = i0
      BY <2>4, <2>6, <3>1
    <3>3. a \in Nat /\ e \in Nat
      BY <2>4, <2>6, <2>7, <3>1, <3>2, IsNumber
    <3>4. a < i0
      BY <2>7, <3>2, <3>3
    <3> QED BY <3>1, <3>2, <3>4
  <2>9. Right(program, code', W)
    BY <1>1, <2>1, <2>2, <2>4, <2>5, RightWhenReplaced
  <2>10. Arranged(code', lev) /\ 1 .. Len(code') = 1 .. Len(code)
    <3>1. PICK d : d = code'
      OBVIOUS
    <3>2. Right(program, d, W) /\ d = Exchanged(code, i0, best)
      BY <1>1, <2>9, <3>1 DEF Exchanged
    <3>3. lev \in [Nat -> Nat] /\ Arranged(code, lev) /\ i0 \in Nat /\ program \in Programs
      BY <2>2, <2>6, <2>7
    <3>4. Right(program, code, W) /\ Plain(code)
      BY <2>1
    <3>5. Arranged(d, lev) /\ 1 .. Len(d) = 1 .. Len(code)
      BY <2>8, <3>2, <3>3, <3>4, ArrangedReplaced
    <3> QED BY <3>1, <3>5
  <2> QED BY <1>1, <1>2, <2>10 DEF Lowest
<1> QED BY <1>1, <1>2, ArrangingDuring

(* All roots are replaced.                                                    *)
LEMMA OrderEndOfExtraction == ASSUME Following, Arranging, EndOfExtraction PROVE Arranging'
<1>1. /\ phase = "extract" /\ phase' = "done" /\ UNCHANGED <<program, code, graph, roots, queue>> /\ roots # <<>>
  BY DEF EndOfExtraction, Following, adds
<1>2. ASSUME NEW E, InOrder(E) PROVE InOrder(E)'
  BY <1>1, <1>2 DEF InOrder
<1>3. (Exact(program)' <=> Exact(program)) /\ (ConstantsListed' <=> ConstantsListed)
  BY <1>1 DEF ConstantsListed
<1>4. ASSUME Exact(program), ConstantsListed
      PROVE  \E lev \in [Nat -> Nat] : Arranged(code, lev) /\ \A i \in 1 .. Len(program.code) : lev[i] = i
  BY <1>1, <1>4 DEF Arranging, Lowest
<1> QED BY <1>1, <1>2, <1>3, <1>4 DEF Arranging

(* One step per action of the e-graph pass.                                   *)
LEMMA ArrangingInductive == ASSUME Following, Arranging, [Next]_vars PROVE Arranging'
<1>1. Following'
  BY FollowingInductive
<1>2. CASE BeginCandidate \/ AddOperand \/ AddTop \/ EndOfCandidates
  BY <1>1, <1>2, OrderBeginCandidate, OrderAddOperand, OrderAddTop, OrderEndOfCandidates
<1>3. CASE Identity \/ Cancel \/ Cheapen
  BY <1>1, <1>3, OrderIdentity, OrderCancel, OrderCheapen
<1>4. CASE NextNode \/ EndOfClass \/ EndOfRules
  BY <1>1, <1>4, OrderWalk
<1>5. CASE MergeNext \/ EndOfMerges \/ RebuildNode \/ RebuildEndOfClass
  BY <1>1, <1>5, OrderMerge, OrderEndOfMerges, OrderRebuildNode, OrderRebuildEndOfClass
<1>6. CASE BeginExtraction \/ ExtractBest \/ Replace \/ EndOfExtraction
  BY <1>6, OrderBeginExtraction, OrderExtractBest, OrderReplace, OrderEndOfExtraction
<1>7. CASE UNCHANGED vars
  <2>1. UNCHANGED <<program, code, phase, graph, adding, roots, at, queue, newMemo, kept, extracted, extracting>>
    BY <1>7 DEF vars, adds, cursor, rebuilds, extracts
  <2>2. \A E : InOrder(E) => InOrder(E)'
    BY <2>1 DEF InOrder
  <2>3. \A E, lev : Lowest(E, lev) => Lowest(E, lev)'
    BY <2>1 DEF Lowest
  <2>4. (Exact(program)' <=> Exact(program)) /\ (ConstantsListed' <=> ConstantsListed)
    BY <2>1 DEF ConstantsListed
  <2> QED BY <2>1, <2>2, <2>3, <2>4 DEF Arranging
<1> QED BY <1>2, <1>3, <1>4, <1>5, <1>6, <1>7 DEF Next

(* Nothing is added yet: any ranks will do.                                   *)
LEMMA ArrangingAtFirst == ASSUME NEW p \in {"add", "done"}, Start(p) PROVE Arranging
<1>1. /\ phase = p /\ graph = NoGraph /\ roots = <<>> /\ queue = <<>> /\ adding = <<>>
      /\ program \in Programs /\ code = program.code
  BY DEF Start
<1> DEFINE E == [i \in Nat |-> 0]
<1>2. /\ DOMAIN graph.memo = {} /\ DOMAIN graph.classes = {} /\ Ids(graph) = {}
      /\ 1 .. Len(roots) = {} /\ 1 .. Len(queue) = {} /\ 1 .. Len(adding) = {}
  BY <1>1 DEF NoGraph, Ids
<1>3. E \in [Nat -> Nat] /\ \A c \in Nat : E[c] = 0
  OBVIOUS
<1>4. \A c : ~Fixed(graph, c)
  BY <1>2 DEF Fixed, Keys
<1> HIDE DEF E
<1>5. Ordering(graph, E)
  BY <1>2, <1>3, <1>4 DEF Ordering, Uniform, Ranked, Keys
<1>6. InOrder(E)
  BY <1>1, <1>2, <1>5 DEF InOrder, Firm, ListsTraced, RootsLow, QueueDue, Tight, Keys, AddLow
<1>7. phase # "extract"
  BY <1>1
<1> DEFINE lev == [i \in Nat |-> i]
<1>8. lev \in [Nat -> Nat] /\ Arranged(code, lev) /\ \A i \in 1 .. Len(program.code) : lev[i] = i
  <2>1. Len(program.code) \in Nat
    BY <1>1, CodeOf
  <2> QED BY <1>1, <2>1, ArrangedAtFirst
<1> HIDE DEF lev
<1> QED BY <1>6, <1>7, <1>8 DEF Arranging

-----------------------------------------------------------------------------
(* A reduced division reads its numerator only.                               *)
LEMMA ArrangedVisit == ASSUME FollowingInTurn, Arranging, Visit PROVE Arranging'
<1>1. /\ phase = "done" /\ phase' = "done" /\ pass = "divisions" /\ visit <= Len(code) /\ visit \in Nat \ {0}
      /\ UNCHANGED <<program, graph, adding, roots, at, pos, queue, newMemo, kept>>
  BY DEF FollowingInTurn, Visit, adds, cursor, rebuilds
<1>2. ASSUME NEW E, InOrder(E) PROVE InOrder(E)'
  BY <1>1, <1>2 DEF InOrder
<1>3. (Exact(program)' <=> Exact(program)) /\ (ConstantsListed' <=> ConstantsListed)
  BY <1>1 DEF ConstantsListed
<1>4. ASSUME roots # <<>> => Exact(program) /\ ConstantsListed
      PROVE  \E lev \in [Nat -> Nat] : Arranged(code', lev) /\ \A i \in 1 .. Len(program.code) : lev[i] = i
  <2>1. PICK lev \in [Nat -> Nat] : Arranged(code, lev) /\ \A i \in 1 .. Len(program.code) : lev[i] = i
    BY <1>1, <1>4 DEF Arranging
  <2>2. program \in Programs /\ \E W : Right(program, code, W)
    BY <1>1, <1>4 DEF FollowingInTurn, Following, Agreeing
  <2>3. PICK W : Right(program, code, W)
    BY <2>2
  <2>4. CASE code' = code
    BY <2>1, <2>4
  <2>5. CASE code' # code
    <3>1. PICK as : /\ IsDivision(visit)
                    /\ code' = [code EXCEPT ![visit] = [op |-> "Reduced", args |-> <<code[visit].args[1]>>, as |-> as]]
      BY <2>5 DEF Visit
    <3>2. PICK x, d : x = [op |-> "Reduced", args |-> <<code[visit].args[1]>>, as |-> as] /\ d = code'
      OBVIOUS
    <3>3. d = [code EXCEPT ![visit] = x] /\ x.args = <<code[visit].args[1]>>
      BY <3>1, <3>2
    <3>4. PICK S, n : code \in Seq(S) /\ n = Len(code)
      BY <2>3 DEF Right
    <3>5. n \in Nat /\ visit \in 1 .. n
      <4>1. n \in Nat
        BY <3>4
      <4> QED BY <1>1, <3>4, <4>1
    <3>6. Len(d) = n /\ d[visit] = x /\ \A j \in 1 .. n : j # visit => d[j] = code[j]
      BY <3>3, <3>4, <3>5
    <3>7. 1 \in 1 .. Len(code[visit].args)
      <4>1. Len(code[visit].args) = 2
        BY <2>2, <2>3, <3>1, <3>4, <3>5, DivisionOf
      <4> QED BY <4>1
    <3>8. ASSUME NEW j \in 1 .. n, NEW k \in 1 .. Len(d[j].args), d[j].args[k].kind = "inst"
          PROVE  LET i == d[j].args[k].of
                 IN  i \in 1 .. n /\ (lev[i] < lev[j] \/ (lev[i] = lev[j] /\ i < j))
      <4>1. PICK l \in 1 .. Len(code[j].args) : d[j].args[k] = code[j].args[l]
        <5>1. CASE j = visit
          <6>1. d[j].args = <<code[j].args[1]>>
            BY <3>3, <3>6, <5>1
          <6>2. PICK v : v = code[j].args[1]
            OBVIOUS
          <6>3. d[j].args = <<v>> /\ k \in 1 .. Len(<<v>>)
            BY <3>8, <6>1, <6>2
          <6>4. k = 1 /\ <<v>>[1] = v
            BY <6>3
          <6>5. d[j].args[k] = code[j].args[1]
            BY <6>2, <6>3, <6>4
          <6> QED BY <3>7, <5>1, <6>5
        <5>2. CASE j # visit
          BY <3>6, <5>2
        <5> QED BY <5>1, <5>2
      <4> QED BY <2>1, <3>4, <3>8, <4>1 DEF Arranged
    <3>9. Arranged(d, lev)
      BY <3>6, <3>8 DEF Arranged
    <3> QED BY <2>1, <3>2, <3>9
  <2> QED BY <2>4, <2>5
<1> QED BY <1>1, <1>2, <1>3, <1>4 DEF Arranging

(* The same, with the reduction of divisions in turn.                         *)
LEMMA ArrangingInTurn == FollowingInTurn /\ Arranging /\ [PassesNext]_passVars => Arranging'
<1> SUFFICES ASSUME FollowingInTurn, Arranging, [PassesNext]_passVars PROVE Arranging'
  OBVIOUS
<1>1. CASE Visit
  BY <1>1, ArrangedVisit
<1>2. CASE ~Visit
  <2>1. [Next]_vars
    BY <1>2 DEF PassesNext, EGraphStep, EndOfEGraph, EndOfDivisions, passVars
  <2> QED BY <2>1, ArrangingInductive DEF FollowingInTurn
<1> QED BY <1>1, <1>2

(* Among the instructions not yet computed, that of the lowest level that comes
   first can be computed next.                                                *)
LEMMA ComputesMore ==
  ASSUME NEW n \in Nat, n = Len(code), NEW lev \in [Nat -> Nat], Arranged(code, lev),
         \A j \in 1 .. n : DOMAIN code[j].args = 1 .. Len(code[j].args),
         NEW S \in SUBSET (1 .. n), S # 1 .. n
  PROVE  \E j \in Layer(S) : j \notin S
<1> DEFINE U == (1 .. n) \ S
           V == {lev[i] : i \in U}
<1>1. U # {} /\ U \in SUBSET Nat
  <2>1. \A i \in 1 .. n : i \in Nat
    BY IsNumber
  <2>2. U # {}
    OBVIOUS
  <2> QED BY <2>1, <2>2
<1>2. V \in SUBSET Nat /\ V # {}
  BY <1>1
<1>3. PICK v \in V : \A w \in V : v <= w
  BY <1>2, LeastElement
<1> DEFINE K == {i \in U : lev[i] = v}
<1>4. K \in SUBSET Nat /\ K # {}
  BY <1>1, <1>3
<1>5. PICK j \in K : \A i \in K : j <= i
  BY <1>4, LeastElement
<1>6. j \in 1 .. n /\ j \notin S /\ lev[j] = v
  BY <1>5
<1>7. ASSUME NEW k \in DOMAIN code[j].args, code[j].args[k].kind = "inst" PROVE code[j].args[k].of \in S
  <2>1. k \in 1 .. Len(code[j].args)
    BY <1>6
  <2>2. PICK i : i = code[j].args[k].of
    OBVIOUS
  <2>3. i \in 1 .. n /\ (lev[i] < lev[j] \/ (lev[i] = lev[j] /\ i < j))
    BY <1>6, <1>7, <2>1, <2>2 DEF Arranged
  <2>4. SUFFICES ASSUME i \notin S PROVE FALSE
    BY <2>2
  <2>5. i \in U
    BY <2>3, <2>4
  <2>6. PICK w \in Nat : w = lev[i]
    BY <1>1, <2>5
  <2>7. w \in V /\ v \in Nat
    BY <1>2, <2>5, <2>6
  <2>8. v <= w
    BY <1>3, <2>7
  <2>9. ~(w < v)
    <3> HIDE DEF V, U
    <3>1. w \in Nat /\ v \in Nat /\ v <= w
      BY <2>6, <2>7, <2>8
    <3> QED BY <3>1
  <2>10. w = v /\ i < j
    BY <1>6, <2>3, <2>6, <2>9
  <2>11. i \in K
    BY <2>5, <2>6, <2>10
  <2>12. j <= i /\ i \in Nat /\ j \in Nat
    BY <1>1, <1>5, <2>5, <2>11
  <2> QED BY <2>10, <2>12
<1> QED BY <1>6, <1>7 DEF Layer

(* Each step computes one more, until all are.                                *)
LEMMA ArrangedAcyclic ==
  ASSUME NEW n \in Nat, n = Len(code), NEW lev \in [Nat -> Nat], Arranged(code, lev),
         \A j \in 1 .. n : DOMAIN code[j].args = 1 .. Len(code[j].args)
  PROVE  Acyclic
<1>1. PICK s : Layered(n, s) /\ Computed(n) = s[n]
  BY ComputedIs
<1>2. \A m \in 0 .. n : s[m] = IF m = 0 THEN {} ELSE Layer(s[m - 1])
  BY <1>1 DEF Layered
<1> DEFINE More(m, S) == /\ S \in SUBSET (1 .. n) /\ S \subseteq Layer(S)
                         /\ IsFiniteSet(S) /\ Cardinality(S) \in Nat /\ m <= Cardinality(S)
           Enough(m) == m <= n => More(m, s[m])
           T == {m \in Nat : Enough(m)}
<1>3. IsFiniteSet(1 .. n) /\ Cardinality(1 .. n) = n
  <2>1. 1 \in Int /\ n \in Int /\ (IF 1 > n THEN 0 ELSE n - 1 + 1) = n
    OBVIOUS
  <2>2. IsFiniteSet(1 .. n) /\ Cardinality(1 .. n) = IF 1 > n THEN 0 ELSE n - 1 + 1
    BY <2>1, FS_Interval
  <2> QED BY <2>1, <2>2
<1>4. \A S \in SUBSET (1 .. n) : IsFiniteSet(S) /\ Cardinality(S) \in Nat
  BY <1>3, FS_Subset, FS_CardinalityType
<1>5. 0 \in T
  <2>1. s[0] = {}
    BY <1>2
  <2>2. More(0, s[0])
    BY <1>4, <2>1
  <2> HIDE DEF More
  <2> QED BY <2>2
<1>6. ASSUME NEW m \in Nat, m \in T PROVE m + 1 \in T
  <2>0. SUFFICES Enough(m + 1)
    <3> HIDE DEF Enough
    <3> QED OBVIOUS
  <2> HIDE DEF More
  <2> SUFFICES ASSUME m + 1 <= n PROVE More(m + 1, s[m + 1])
    OBVIOUS
  <2>1. More(m, s[m])
    <3>1. m <= n
      OBVIOUS
    <3> QED BY <1>6, <3>1
  <2> USE DEF More
  <2>2. m + 1 \in 0 .. n /\ m + 1 # 0 /\ (m + 1) - 1 = m
    OBVIOUS
  <2>3. s[m + 1] = Layer(s[m])
    BY <1>2, <2>2
  <2>4. PICK S : S = s[m]
    OBVIOUS
  <2>5. S \in SUBSET (1 .. n) /\ S \subseteq Layer(S) /\ m <= Cardinality(S) /\ Cardinality(S) \in Nat /\ IsFiniteSet(S)
    BY <2>1, <2>4
  <2>6. Layer(S) \in SUBSET (1 .. n) /\ Layer(S) \subseteq Layer(Layer(S))
    BY <2>5 DEF Layer
  <2>7. IsFiniteSet(Layer(S)) /\ Cardinality(Layer(S)) \in Nat
    BY <1>4, <2>6
  <2>8. m + 1 <= Cardinality(Layer(S))
    <3>1. CASE S = 1 .. n
      <4>1. Layer(S) = 1 .. n
        BY <2>5, <2>6, <3>1
      <4> QED BY <1>3, <4>1
    <3>2. CASE S # 1 .. n
      <4>1. PICK j \in Layer(S) : j \notin S
        BY <2>5, <3>2, ComputesMore
      <4>2. Cardinality(S \cup {j}) = Cardinality(S) + 1
        BY <2>5, <4>1, FS_AddElement
      <4>3. S \cup {j} \in SUBSET Layer(S)
        BY <2>5, <4>1
      <4>4. Cardinality(S \cup {j}) <= Cardinality(Layer(S))
        BY <2>7, <4>3, FS_Subset
      <4>5. PICK a, b, c : a = Cardinality(S) /\ b = Cardinality(S \cup {j}) /\ c = Cardinality(Layer(S))
        OBVIOUS
      <4>6. a \in Nat /\ c \in Nat /\ b = a + 1 /\ b <= c /\ m <= a
        BY <2>5, <2>7, <4>2, <4>4, <4>5
      <4>7. m + 1 <= c
        BY <4>6
      <4> QED BY <4>5, <4>7
    <3> QED BY <3>1, <3>2
  <2> QED BY <2>3, <2>4, <2>6, <2>7, <2>8
<1> HIDE DEF T
<1>7. n \in T
  BY <1>5, <1>6, Induction
<1>8. More(n, s[n])
  BY <1>7 DEF T
<1>9. s[n] = 1 .. n
  <2>1. PICK S : S = s[n]
    OBVIOUS
  <2>2. S \in SUBSET (1 .. n) /\ n <= Cardinality(S) /\ Cardinality(S) \in Nat
    BY <1>8, <2>1
  <2>3. Cardinality(S) <= Cardinality(1 .. n) /\ (Cardinality(1 .. n) = Cardinality(S) => 1 .. n = S)
    BY <1>3, <2>2, FS_Subset
  <2>4. Cardinality(S) = n
    BY <1>3, <2>2, <2>3
  <2> QED BY <1>3, <2>1, <2>3, <2>4
<1> QED BY <1>1, <1>9 DEF Acyclic

(* An instruction of the program reads none of the program that stands behind. *)
LEMMA MisplacedIsBuilt ==
  ASSUME program \in Programs, NEW W, Right(program, code, W), NEW lev \in [Nat -> Nat], Arranged(code, lev),
         \A i \in 1 .. Len(program.code) : lev[i] = i,
         NEW j \in 1 .. Len(program.code), NEW i \in ReadBy(j)
  PROVE  i < j \/ i > Len(program.code)
<1>1. PICK l, n : l = Len(program.code) /\ n = Len(code)
  OBVIOUS
<1>2. n \in Nat /\ l \in Nat /\ l \in 1 .. n
  BY <1>1, LastIn
<1>3. j \in 1 .. l /\ j \in 1 .. n
  BY <1>1, <1>2
<1>4. PICK k \in DOMAIN code[j].args : code[j].args[k].kind = "inst" /\ code[j].args[k].of = i
  BY DEF ReadBy
<1>5. i \in 1 .. n /\ k \in 1 .. Len(code[j].args)
  BY <1>1, <1>3, <1>4, ReadsInstruction
<1>6. lev[i] < lev[j] \/ (lev[i] = lev[j] /\ i < j)
  BY <1>1, <1>3, <1>4, <1>5 DEF Arranged
<1>7. lev[j] = j
  BY <1>1, <1>3
<1>8. SUFFICES ASSUME ~(i > l) PROVE i < j
  BY <1>1
<1>9. i \in 1 .. l
  BY <1>2, <1>5, <1>8
<1>10. lev[i] = i
  BY <1>1, <1>9
<1> QED BY <1>6, <1>7, <1>10

(* Whatever the two passes made of the block, no instruction is computed from
   itself, its data flow is that of the program, and what is read too early is
   what extractBest built behind the return, nothing else; where nothing is,
   executing the block in its order returns what the program returns.  Where an
   e-graph was built this is for programs in which the rules are exact, if no
   class lost its constant to a merge of rebuild.                             *)
THEOREM ResultStays == PassesSpec => []SameResult
<1>1. PassesInit => Arranging
  BY ArrangingAtFirst DEF PassesInit
<1>2. FollowingInTurn /\ Arranging => SameResult
  <2> DEFINE last == Len(program.code)
             Returns(values) ==
               \A e \in Envs : ReducesExactly(program, e) =>
                 values[last][e] = ValueOf(program, program.code[last].args[1])[e]
  <2> SUFFICES ASSUME FollowingInTurn, Arranging, pass = "end", roots # <<>> => Exact(program) /\ ConstantsListed
               PROVE  /\ Acyclic /\ Returns(Evaluated(Len(code)))
                      /\ \A j \in 1 .. last : \A i \in ReadBy(j) : i < j \/ i > last
                      /\ InPlace(last) => Returns(Executed(last))
    BY DEF SameResult
  <2>1. program \in Programs
    BY DEF FollowingInTurn, Following, Agreeing
  <2>2. PICK W : Right(program, code, W)
    BY DEF FollowingInTurn, Following
  <2>3. PICK lev \in [Nat -> Nat] : Arranged(code, lev) /\ \A i \in 1 .. Len(program.code) : lev[i] = i
    BY DEF FollowingInTurn, Arranging
  <2>4. PICK n : n = Len(code)
    OBVIOUS
  <2>5. n \in Nat
    BY <2>2, <2>4, LenProperties DEF Right
  <2>6. \A j \in 1 .. n : DOMAIN code[j].args = 1 .. Len(code[j].args)
    <3> DEFINE U == Usable(program, code)
    <3>1. \A j \in 1 .. n : code[j].args \in Seq(U)
      BY <2>2, <2>4 DEF Right
    <3> HIDE DEF U
    <3> QED BY <3>1, LenProperties
  <2>7. Acyclic
    BY <2>3, <2>4, <2>5, <2>6, ArrangedAcyclic
  <2>8. Returns(Evaluated(Len(code)))
    BY <2>1, <2>2, <2>7, ReturnsSame
  <2>9. \A j \in 1 .. last : \A i \in ReadBy(j) : i < j \/ i > last
    BY <2>1, <2>2, <2>3, MisplacedIsBuilt
  <2>10. InPlace(last) => Returns(Executed(last))
    BY <2>1, <2>2, ReturnsInOrder
  <2> HIDE DEF last, Returns
  <2> QED BY <2>7, <2>8, <2>9, <2>10
<1> QED BY <1>1, <1>2, FollowingInTurnAtFirst, FollowingInTurnInductive, ArrangingInTurn, PTL DEF PassesSpec
=============================================================================
