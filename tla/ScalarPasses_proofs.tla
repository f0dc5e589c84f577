------------------------ MODULE ScalarPasses_proofs ------------------------
(***************************************************************************)
(* Proofs about the scalar passes, for every number of blocks, every set   *)
(* of values and operations and all functions: every pass leaves a         *)
(* function, what SCCP finds to be constant is, phis match the edges, and  *)
(* no operand of code that can be executed is lost; what is held alive is  *)
(* what a path needs, and ranges of structured functions cover it.         *)
(***************************************************************************)
EXTENDS LiveRanges, CFG_proofs, TLAPS

-----------------------------------------------------------------------------
(* Values and instructions. *)
LEMMA ValueCases ==
  ASSUME NEW v \in Values, v \notin Instrs
  PROVE  \/ \E d \in Data : v = Const(d)
         \/ v = Arg \/ v = Null
BY DEF Values

LEMMA ConstValue ==
  ASSUME NEW v \in Values, v \notin Instrs, v[1] = "const"
  PROVE  v[2] \in Data
BY ValueCases DEF Const, Arg, Null

LEMMA OpInstr == \A c \in Blocks : <<"op", c>> \in Instrs /\ <<"phi", c>> \in Instrs
BY DEF Instrs

LEMMA FunctionType ==
  ASSUME NEW f \in Function
  PROVE  /\ f.body \in [Blocks -> Seq(Blocks)] /\ f.phis \in SUBSET Blocks
         /\ f.inc \in [Blocks -> [Blocks -> Values \cup {Absent}]]
         /\ f.op \in [Blocks -> Op] /\ f.term \in [Blocks -> Term]
BY DEF Function

(* A function is made of its five parts, whichever of them EXCEPT changes. *)
LEMMA WithInc ==
  ASSUME NEW f \in Function, NEW inc \in [Blocks -> [Blocks -> Values \cup {Absent}]]
  PROVE  [f EXCEPT !.inc = inc] \in Function
BY DEF Function

LEMMA WithOp ==
  ASSUME NEW f \in Function, NEW op \in [Blocks -> Op]
  PROVE  [f EXCEPT !.op = op] \in Function
BY DEF Function

LEMMA WithTerm ==
  ASSUME NEW f \in Function, NEW term \in [Blocks -> Term]
  PROVE  [f EXCEPT !.term = term] \in Function
BY DEF Function

(* The helpers of the passes leave functions. *)
LEMMA ReplaceType ==
  ASSUME NEW f \in Function, NEW S \in SUBSET Instrs, NEW s \in [S -> Values]
  PROVE  Replace(f, s) \in Function
<1> DEFINE inc == [b \in Blocks |-> [p \in Blocks |-> Image(s, f.inc[b][p])]]
           op == [b \in Blocks |-> [f.op[b] EXCEPT !.x = Image(s, @), !.y = Image(s, @)]]
           term == [b \in Blocks |-> [f.term[b] EXCEPT !.x = Image(s, @)]]
<1>1. \A v \in Values \cup {Absent} : Image(s, v) \in Values \cup {Absent}
  BY DEF Image
<1>2. \A v \in Values : Image(s, v) \in Values
  BY DEF Image
<1>3. inc \in [Blocks -> [Blocks -> Values \cup {Absent}]]
  BY <1>1, FunctionType
<1>4. op \in [Blocks -> Op]
  <2> SUFFICES ASSUME NEW b \in Blocks PROVE op[b] \in Op
    OBVIOUS
  <2>1. f.op[b] \in Op
    BY FunctionType
  <2> QED BY <2>1, <1>2 DEF Op
<1>5. term \in [Blocks -> Term]
  <2> SUFFICES ASSUME NEW b \in Blocks PROVE term[b] \in Term
    OBVIOUS
  <2>1. f.term[b] \in Term
    BY FunctionType
  <2> QED BY <2>1, <1>2 DEF Term
<1>6. Replace(f, s) = [f EXCEPT !.inc = inc, !.op = op, !.term = term]
  BY DEF Replace
<1> HIDE DEF inc, op, term
<1> QED BY <1>3, <1>4, <1>5, <1>6 DEF Function

LEMMA EraseOpsType ==
  ASSUME NEW f \in Function, NEW C
  PROVE  EraseOps(f, C) \in Function
<1> DEFINE op == [c \in Blocks |-> IF c \in C THEN [f.op[c] EXCEPT !.code = "none", !.x = Null, !.y = Null]
                                   ELSE f.op[c]]
<1>1. op \in [Blocks -> Op]
  <2> SUFFICES ASSUME NEW b \in Blocks PROVE op[b] \in Op
    OBVIOUS
  <2>1. f.op[b] \in Op
    BY FunctionType
  <2>2. Null \in Values
    BY DEF Values
  <2> QED BY <2>1, <2>2 DEF Op
<1> QED BY <1>1, WithOp DEF EraseOps

LEMMA ErasePhisType ==
  ASSUME NEW f \in Function, NEW B
  PROVE  ErasePhis(f, B) \in Function
<1> DEFINE inc == [b \in Blocks |-> IF b \in B THEN [p \in Blocks |-> Absent] ELSE f.inc[b]]
<1>1. inc \in [Blocks -> [Blocks -> Values \cup {Absent}]]
  BY FunctionType
<1>2. f.phis \ B \in SUBSET Blocks
  BY FunctionType
<1>3. ErasePhis(f, B) = [f EXCEPT !.phis = f.phis \ B, !.inc = inc]
  BY DEF ErasePhis
<1> HIDE DEF inc
<1> QED BY <1>1, <1>2, <1>3 DEF Function

LEMMA RemoveIncomingType ==
  ASSUME NEW f \in Function, NEW Left
  PROVE  RemoveIncoming(f, Left) \in Function
<1> DEFINE inc == [s \in Blocks |-> [p \in Blocks |->
                     IF <<p, s>> \in Left THEN Absent ELSE f.inc[s][p]]]
<1>1. inc \in [Blocks -> [Blocks -> Values \cup {Absent}]]
  BY FunctionType
<1> QED BY <1>1, WithInc DEF RemoveIncoming

LEMMA StraightenType ==
  ASSUME NEW f \in Function
  PROVE  Straighten(f) \in Function
<1> DEFINE term == [b \in Blocks |-> IF b \in Decided(f) THEN Jump(Kept(f.term[b])) ELSE f.term[b]]
<1>1. term \in [Blocks -> Term]
  <2> SUFFICES ASSUME NEW b \in Blocks PROVE term[b] \in Term
    OBVIOUS
  <2>1. f.term[b] \in Term
    BY FunctionType
  <2>2. Null \in Values
    BY DEF Values
  <2> QED BY <2>1, <2>2 DEF Term, Jump, Kept
<1> QED BY <1>1, WithTerm DEF Straighten

LEMMA EraseBlocksType ==
  ASSUME NEW f \in Function, NEW B
  PROVE  EraseBlocks(f, B) \in Function
<1> DEFINE body == [b \in Blocks |-> IF b \in B THEN <<>> ELSE f.body[b]]
           term == [b \in Blocks |-> IF b \in B THEN NoTerm ELSE f.term[b]]
<1>1. body \in [Blocks -> Seq(Blocks)]
  BY FunctionType
<1>2. NoTerm \in Term
  BY EntryFirst DEF NoTerm, Term, Values
<1>3. term \in [Blocks -> Term]
  BY <1>2, FunctionType
<1>4. EraseBlocks(f, B) = [f EXCEPT !.body = body, !.term = term]
  BY DEF EraseBlocks
<1> HIDE DEF body, term
<1> QED BY <1>1, <1>3, <1>4 DEF Function

-----------------------------------------------------------------------------
(* The passes leave functions. *)
LEMMA ReplaceConstantsType ==
  ASSUME NEW f \in Function
  PROVE  ReplaceConstants(f) \in Function
<1> DEFINE S == {"op"} \X Known(f)
           s == [i \in S |-> Const(CHOOSE d \in Data : d \in lat[i])]
<1>1. S \in SUBSET Instrs
  BY DEF Known, Pieces, Instrs
<1>2. s \in [S -> Values]
  <2> SUFFICES ASSUME NEW i \in S PROVE s[i] \in Values
    OBVIOUS
  <2>1. PICK c \in Known(f) : i = <<"op", c>>
    OBVIOUS
  <2>2. \E d \in Data : d \in lat[i]
    BY <2>1 DEF Known
  <2>3. (CHOOSE d \in Data : d \in lat[i]) \in Data
    BY <2>2
  <2> QED BY <2>3 DEF Values
<1> HIDE DEF s, S
<1>3. Replace(f, s) \in Function
  BY <1>1, <1>2, ReplaceType
<1> QED BY <1>3, EraseOpsType DEF ReplaceConstants, s, S

LEMMA EliminateCopiesType ==
  ASSUME NEW f \in Function
  PROVE  EliminateCopies(f) \in Function
<1> DEFINE copies == Copies(f)
           IsCopy(v) == v[1] = "op" /\ v[2] \in copies
           copied == {v \in {f.op[c].x : c \in copies} : ~IsCopy(v)}
           source[n \in 0 .. N] == [c \in Blocks |->
             LET v == IF n = 0 THEN f.op[c].x ELSE source[n - 1][c]
             IN  IF n > 0 /\ IsCopy(v) THEN f.op[v[2]].x ELSE v]
           S == {"op"} \X copies
           s == [i \in S |-> IF source[N][i[2]] \in copied THEN source[N][i[2]] ELSE Null]
<1>1. copies \in SUBSET Blocks
  BY DEF Copies, Pieces
<1>2. S \in SUBSET Instrs
  BY <1>1 DEF Instrs
<1>3. \A c \in Blocks : f.op[c].x \in Values
  BY FunctionType DEF Op
<1>4. copied \in SUBSET Values
  BY <1>1, <1>3
<1>5. Null \in Values
  BY DEF Values
<1>6. EliminateCopies(f) = EraseOps(Replace(f, s), copies)
  BY DEF EliminateCopies
<1> HIDE DEF source, copied, copies
<1>7. s \in [S -> Values]
  BY <1>4, <1>5
<1> HIDE DEF s, S
<1>8. Replace(f, s) \in Function
  BY <1>2, <1>7, ReplaceType
<1> QED BY <1>6, <1>8, EraseOpsType

LEMMA FoldBranchesType ==
  ASSUME NEW f \in Function
  PROVE  FoldBranches(f) \in Function
BY StraightenType, RemoveIncomingType DEF FoldBranches

LEMMA SimplifyPhiType ==
  ASSUME NEW f \in Function, NEW b \in Blocks
  PROVE  SimplifyPhi(f, b) \in Function
<1> DEFINE p == CHOOSE q \in Blocks : Preds(Succ(f), b) = {q}
           v == IF f.inc[b][p] = <<"phi", b>> THEN Null ELSE f.inc[b][p]
           S == {<<"phi", b>>}
           s == [i \in S |-> v]
<1>1. CASE b \in f.phis /\ \E q \in Blocks : Preds(Succ(f), b) = {q} /\ f.inc[b][q] \notin {Absent, Null}
  <2>1. PICK q \in Blocks : Preds(Succ(f), b) = {q} /\ f.inc[b][q] \notin {Absent, Null}
    BY <1>1
  <2>2. p = q
    BY <2>1
  <2>3. v \in Values
    <3>1. f.inc[b][q] \in Values \cup {Absent}
      BY FunctionType
    <3>2. Null \in Values
      BY DEF Values
    <3> QED BY <2>1, <2>2, <3>1, <3>2
  <2>4. S \in SUBSET Instrs /\ s \in [S -> Values]
    BY <2>3, OpInstr
  <2>5. SimplifyPhi(f, b) = ErasePhis(Replace(f, s), {b})
    BY <1>1 DEF SimplifyPhi
  <2> HIDE DEF s, S
  <2>6. Replace(f, s) \in Function
    BY <2>4, ReplaceType
  <2> QED BY <2>5, <2>6, ErasePhisType
<1>2. CASE ~(b \in f.phis /\ \E q \in Blocks : Preds(Succ(f), b) = {q} /\ f.inc[b][q] \notin {Absent, Null})
  <2>1. SimplifyPhi(f, b) = f
    BY <1>2 DEF SimplifyPhi
  <2> QED BY <2>1
<1> QED BY <1>1, <1>2

LEMMA RemoveUnreachableType ==
  ASSUME NEW f \in Function
  PROVE  RemoveUnreachable(f) \in Function
<1> DEFINE gone == Unreachable(f)
           left == {e \in gone \X Blocks : e[2] \in Succ(f)[e[1]]}
           S == ({"phi"} \X gone) \cup ({"op"} \X Pieces(f, gone))
           s == [i \in S |-> Null]
<1>1. S \in SUBSET Instrs
  BY DEF Unreachable, Live, Pieces, Instrs
<1>2. s \in [S -> Values]
  BY DEF Values
<1>3. RemoveUnreachable(f) =
        EraseBlocks(ErasePhis(EraseOps(Replace(RemoveIncoming(f, left), s), Pieces(f, gone)), gone), gone)
  BY DEF RemoveUnreachable
<1> HIDE DEF s, S, left, gone
<1>4. RemoveIncoming(f, left) \in Function
  BY RemoveIncomingType
<1>5. Replace(RemoveIncoming(f, left), s) \in Function
  BY <1>1, <1>2, <1>4, ReplaceType
<1> QED BY <1>3, <1>5, EraseOpsType, ErasePhisType, EraseBlocksType

LEMMA MergeBlocksType ==
  ASSUME NEW f \in Function, NEW b \in Blocks
  PROVE  MergeBlocks(f, b) \in Function
<1> DEFINE s == f.term[b].t
           inc == [x \in Blocks |->
                     [p \in Blocks |-> IF p = b /\ f.inc[x][s] # Absent THEN f.inc[x][s]
                                       ELSE IF p = s THEN Absent ELSE f.inc[x][p]]]
           body == [f.body EXCEPT ![b] = f.body[b] \o f.body[s]]
           term == [f.term EXCEPT ![b] = f.term[s]]
           g == [f EXCEPT !.body = body, !.term = term, !.inc = inc]
<1>1. s \in Blocks
  BY FunctionType DEF Term
<1>2. inc \in [Blocks -> [Blocks -> Values \cup {Absent}]]
  BY <1>1, FunctionType
<1>3. body \in [Blocks -> Seq(Blocks)] /\ term \in [Blocks -> Term]
  BY <1>1, FunctionType
<1>4. MergeBlocks(f, b) = EraseBlocks(g, {s})
  BY DEF MergeBlocks, Function
<1> HIDE DEF inc, body, term, s
<1>5. g \in Function
  BY <1>2, <1>3 DEF Function
<1> HIDE DEF g
<1> QED BY <1>4, <1>5, EraseBlocksType

LEMMA EliminateDeadType ==
  ASSUME NEW f \in Function
  PROVE  EliminateDead(f) \in Function
BY EraseOpsType, ErasePhisType DEF EliminateDead

-----------------------------------------------------------------------------
(* Execution. *)
LEMMA EvalType ==
  ASSUME NEW env \in [Instrs -> Data \cup {Undef}], NEW arg \in Data, NEW v \in Values
  PROVE  Eval(env, arg, v) \in Data \cup {Undef}
BY ConstValue DEF Eval

LEMMA BootType == ASSUME NEW d \in Data PROVE Boot(d) \in Machine
BY EntryFirst DEF Boot, Machine

LEMMA MachineType ==
  ASSUME NEW m \in Machine
  PROVE  /\ m.at \in Blocks \cup {0} /\ m.k \in Nat /\ m.arg \in Data
         /\ m.env \in [Instrs -> Data \cup {Undef}] /\ m.out \in Data \cup {Undef}
BY DEF Machine

LEMMA EndType ==
  ASSUME NEW m \in Machine, NEW out \in Data \cup {Undef}
  PROVE  End(m, out) \in Machine
BY DEF End, Machine

LEMMA YieldType ==
  ASSUME NEW f \in Function, NEW m \in Machine, NEW c \in Blocks, NEW r \in Data
  PROVE  Yield(f, m, c, r) \in Data \cup {Undef}
<1> DEFINE o == f.op[c]
           x == Eval(m.env, m.arg, o.x)
           y == Eval(m.env, m.arg, o.y)
<1>1. o \in Op
  BY FunctionType
<1>2. o.x \in Values /\ o.y \in Values /\ o.fun \in DOMAIN Apply
  BY <1>1 DEF Op
<1>3. x \in Data \cup {Undef} /\ y \in Data \cup {Undef}
  BY <1>2, EvalType, MachineType
<1> HIDE DEF x, y
<1>4. x # Undef /\ y # Undef => Apply[o.fun][<<x, y>>] \in Data \cup {Undef}
  BY <1>2, <1>3, SCCPAssumption
<1>5. Yield(f, m, c, r) \in {Undef, x, r} \/
      (x # Undef /\ y # Undef /\ Yield(f, m, c, r) = Apply[o.fun][<<x, y>>])
  BY DEF Yield, x, y
<1> QED BY <1>3, <1>4, <1>5

LEMMA EnterType ==
  ASSUME NEW f \in Function, NEW m \in Machine, m.at \in Blocks, NEW s \in Blocks
  PROVE  Enter(f, m, s) \in Machine
<1> DEFINE v == f.inc[s][m.at]
           d == IF v = Absent THEN Undef ELSE Eval(m.env, m.arg, v)
           env == [m.env EXCEPT ![<<"phi", s>>] = d]
<1>1. v \in Values \cup {Absent}
  BY FunctionType
<1>2. d \in Data \cup {Undef}
  BY <1>1, EvalType, MachineType
<1>3. Enter(f, m, s) = [m EXCEPT !.at = s, !.k = 1, !.env = env]
  BY DEF Enter
<1> HIDE DEF d
<1>4. env \in [Instrs -> Data \cup {Undef}]
  BY <1>2, OpInstr, MachineType
<1> HIDE DEF env, v
<1>5. [m EXCEPT !.at = s, !.k = 1, !.env = env] \in Machine
  BY <1>4 DEF Machine
<1> QED BY <1>3, <1>5

LEMMA ExecuteType ==
  ASSUME NEW f \in Function, NEW m \in Machine, InBlock(f, m), NEW r \in Data
  PROVE  Execute(f, m, r) \in Machine
<1> DEFINE c == f.body[m.at][m.k]
           n == [m EXCEPT !.env[<<"op", c>>] = Yield(f, m, c, r)]
           t == f.term[n.at]
           x == Eval(n.env, n.arg, t.x)
<1>1. m.at \in Blocks /\ c \in Blocks
  BY FunctionType DEF InBlock
<1>2. Yield(f, m, c, r) \in Data \cup {Undef}
  BY <1>1, YieldType
<1>3. n \in Machine /\ n.at \in Blocks
  BY <1>1, <1>2, OpInstr DEF Machine
<1>4. t \in Term
  BY <1>3, FunctionType
<1>5. t.x \in Values /\ t.t \in Blocks /\ t.f \in Blocks
  BY <1>4 DEF Term
<1>6. x \in Data \cup {Undef}
  BY <1>3, <1>5, EvalType, MachineType
<1>7. Leave(f, n) \in {End(n, x), End(n, Undef), Enter(f, n, t.t), Enter(f, n, t.f)}
  BY DEF Leave
<1>8. Leave(f, n) \in Machine
  BY <1>3, <1>5, <1>6, <1>7, EndType, EnterType
<1>9. Execute(f, m, r) \in {End(m, Undef), [n EXCEPT !.k = @ + 1], Leave(f, n)}
  BY DEF Execute
<1>10. [n EXCEPT !.k = @ + 1] \in Machine
  <2>1. n.k + 1 \in Nat
    BY <1>3, MachineType
  <2> HIDE DEF n
  <2> QED BY <1>3, <2>1 DEF Machine
<1> QED BY <1>8, <1>9, <1>10, EndType

-----------------------------------------------------------------------------
(* The lattice. *)
LEMMA WidenType ==
  ASSUME NEW S \in SUBSET Data
  PROVE  Widen(S) \in Lattice /\ S \subseteq Widen(S)
<1>1. CASE \E d, e \in S : d # e
  BY <1>1 DEF Widen, Lattice
<1>2. CASE ~\E d, e \in S : d # e
  <2>1. CASE S = {}
    BY <1>2, <2>1 DEF Widen, Lattice
  <2>2. CASE S # {}
    <3>1. PICK d \in S : S = {d}
      BY <1>2, <2>2
    <3> QED BY <1>2, <3>1 DEF Widen, Lattice
  <2> QED BY <2>1, <2>2
<1> QED BY <1>1, <1>2

LEMMA LatType ==
  ASSUME lat \in [Instrs -> Lattice], NEW v \in Values
  PROVE  Lat(v) \in SUBSET Data
<1>1. \A S \in Lattice : S \in SUBSET Data
  BY DEF Lattice
<1>2. CASE v \in Instrs
  BY <1>1, <1>2 DEF Lat
<1>3. CASE v \notin Instrs
  BY <1>3, ConstValue DEF Lat
<1> QED BY <1>2, <1>3

LEMMA FoldedType ==
  ASSUME lat \in [Instrs -> Lattice], before \in Function, NEW i \in Instrs
  PROVE  Folded(i) \in SUBSET Data
<1>1. PICK b \in Blocks : i = <<"phi", b>> \/ i = <<"op", b>>
  BY DEF Instrs
<1>2. CASE i = <<"phi", b>>
  <2>1. Folded(i) = FoldPhi(b)
    BY <1>2 DEF Folded
  <2>2. Arriving(b) \in SUBSET Values
    <3>1. \A p \in Blocks : before.inc[b][p] \in Values \cup {Absent}
      BY FunctionType
    <3> QED BY <3>1 DEF Arriving
  <2> QED BY <2>1, <2>2, LatType DEF FoldPhi
<1>3. CASE i = <<"op", b>>
  <2> DEFINE o == before.op[b]
  <2>1. Folded(i) = FoldOp(o)
    BY <1>3 DEF Folded
  <2>2. o \in Op
    BY FunctionType
  <2>3. o.x \in Values /\ o.y \in Values /\ o.fun \in DOMAIN Apply
    BY <2>2 DEF Op
  <2>4. Lat(o.x) \in SUBSET Data /\ Lat(o.y) \in SUBSET Data
    BY <2>3, LatType
  <2>5. \A d, e \in Data : Fold(o.fun, d, e) \in SUBSET Data
    BY <2>3, SCCPAssumption DEF Fold
  <2> HIDE DEF o
  <2>6. UNION {Fold(o.fun, d, e) : d \in Lat(o.x), e \in Lat(o.y)} \in SUBSET Data
    BY <2>4, <2>5
  <2>7. FoldOp(o) \in {{}, Lat(o.x), Data, UNION {Fold(o.fun, d, e) : d \in Lat(o.x), e \in Lat(o.y)}}
    BY DEF FoldOp
  <2> QED BY <2>1, <2>4, <2>6, <2>7
<1> QED BY <1>1, <1>2, <1>3

LEMMA RaiseType ==
  ASSUME lat \in [Instrs -> Lattice], before \in Function, NEW i \in Instrs,
         NEW waiting \in SUBSET ({"phi", "op", "term"} \X Blocks), Raise(i, waiting)
  PROVE  /\ lat' \in [Instrs -> Lattice]
         /\ instrs' \in SUBSET ({"phi", "op", "term"} \X Blocks)
         /\ \A j \in Instrs \ {i} : lat'[j] = lat[j]
         /\ lat[i] \subseteq lat'[i] /\ Folded(i) \subseteq lat'[i]
         /\ lat' = lat \/ instrs' = waiting \cup Users(i)
         /\ waiting \subseteq instrs'
<1> DEFINE new == Widen(lat[i] \cup Folded(i))
<1>1. lat[i] \cup Folded(i) \in SUBSET Data
  BY FoldedType DEF Lattice
<1>2. new \in Lattice /\ lat[i] \cup Folded(i) \subseteq new
  BY <1>1, WidenType
<1>3. lat' = [lat EXCEPT ![i] = new] /\ instrs' = IF new = lat[i] THEN waiting ELSE waiting \cup Users(i)
  BY DEF Raise
<1>4. Users(i) \in SUBSET ({"phi", "op", "term"} \X Blocks)
  BY DEF Users
<1> HIDE DEF new
<1> QED BY <1>2, <1>3, <1>4

LEMMA FollowType ==
  ASSUME before \in Function, NEW b \in Blocks, Follow(b),
         edges \in SUBSET (Blocks \X Blocks), blocks \in SUBSET Blocks
  PROVE  /\ edges' \in SUBSET (Blocks \X Blocks) /\ blocks' \in SUBSET Blocks
         /\ Taken(before.term[b]) \in SUBSET Blocks
<1>1. before.term[b] \in Term
  BY FunctionType
<1>2. Taken(before.term[b]) \in SUBSET Blocks
  BY <1>1 DEF Taken, Term
<1> QED BY <1>2 DEF Follow

-----------------------------------------------------------------------------
(* Type correctness. *)
Sites == {"phi", "op", "term"} \X Blocks

(* The analysis visits instructions of a block it has reached. *)
Visiting == phase = "analyse" /\ cur # 0 => cur \in reached /\ next \in 0 .. Last(cur)

LEMMA InstrAtSite ==
  ASSUME before \in Function, NEW b \in Blocks, NEW k \in 0 .. Last(b)
  PROVE  /\ InstrAt(b, k) \in Sites
         /\ k = 0 => InstrAt(b, k) = <<"phi", b>>
         /\ k = Last(b) => InstrAt(b, k) = <<"term", b>>
         /\ (k # 0 /\ k # Last(b)) => /\ k \in 1 .. Len(before.body[b])
                                     /\ InstrAt(b, k) = <<"op", before.body[b][k]>>
<1>1. before.body[b] \in Seq(Blocks)
  BY FunctionType
<1>2. Len(before.body[b]) \in Nat /\ Last(b) = Len(before.body[b]) + 1
  BY <1>1 DEF Last
<1>3. CASE k = 0
  BY <1>2, <1>3 DEF InstrAt, Sites
<1>4. CASE k = Last(b)
  BY <1>2, <1>4 DEF InstrAt, Sites
<1>5. CASE k # 0 /\ k # Last(b)
  <2>1. k \in 1 .. Len(before.body[b])
    BY <1>2, <1>5
  <2>2. before.body[b][k] \in Blocks
    BY <1>1, <2>1
  <2> QED BY <1>5, <2>1, <2>2 DEF InstrAt, Sites
<1> QED BY <1>3, <1>4, <1>5

LEMMA VisitType ==
  ASSUME TypeOK, NEW i \in Sites, NEW waiting \in SUBSET Sites, Visit(i, waiting)
  PROVE  /\ lat' \in [Instrs -> Lattice] /\ instrs' \in SUBSET Sites
         /\ edges' \in SUBSET (Blocks \X Blocks) /\ blocks' \in SUBSET Blocks
         /\ i \in Instrs => Raise(i, waiting) /\ edges' = edges /\ blocks' = blocks
         /\ i \notin Instrs => /\ i[2] \in Blocks /\ Follow(i[2]) /\ lat' = lat
                              /\ instrs' = waiting /\ i = <<"term", i[2]>>
<1>1. CASE i[1] = "term"
  <2>1. i[2] \in Blocks /\ i \notin Instrs /\ i = <<"term", i[2]>>
    BY <1>1 DEF Sites, Instrs
  <2>2. Follow(i[2]) /\ instrs' = waiting /\ lat' = lat
    BY <1>1 DEF Visit
  <2> QED BY <2>1, <2>2, FollowType DEF TypeOK
<1>2. CASE i[1] # "term"
  <2>1. i \in Instrs
    BY <1>2 DEF Sites, Instrs
  <2>2. Raise(i, waiting) /\ edges' = edges /\ blocks' = blocks
    BY <1>2 DEF Visit
  <2> QED BY <2>1, <2>2, RaiseType DEF TypeOK, Sites
<1> QED BY <1>1, <1>2

LEMMA AnalyseType ==
  ASSUME TypeOK, Visiting, Analyse, UNCHANGED <<fn, round, numbering, machines>>
  PROVE  TypeOK' /\ Visiting'
<1> USE DEF machines, numbering
<1>1. ASSUME NEW b \in Blocks, PopBlock(b) PROVE TypeOK' /\ Visiting'
  <2>1. Last(b)' = Last(b) /\ Last(b) \in Nat
    BY <1>1, FunctionType DEF PopBlock, Last, TypeOK
  <2>2. TypeOK'
    BY <1>1 DEF PopBlock, TypeOK
  <2> QED BY <1>1, <2>1, <2>2 DEF PopBlock, Visiting
<1>2. ASSUME NEW b \in Blocks, PopAgain(b) PROVE TypeOK' /\ Visiting'
  <2>1. lat' \in [Instrs -> Lattice] /\ instrs' \in SUBSET Sites
    BY <1>2, OpInstr, RaiseType DEF PopAgain, TypeOK, Sites
  <2> QED BY <1>2, <2>1 DEF PopAgain, TypeOK, Visiting, Sites
<1>3. CASE VisitNext
  <2>1. cur \in Blocks /\ next \in 0 .. Last(cur) /\ phase = "analyse"
    BY <1>3 DEF VisitNext, TypeOK, Visiting
  <2>2. InstrAt(cur, next) \in Sites
    BY <2>1, InstrAtSite DEF TypeOK
  <2>3. /\ lat' \in [Instrs -> Lattice] /\ instrs' \in SUBSET Sites
        /\ edges' \in SUBSET (Blocks \X Blocks) /\ blocks' \in SUBSET Blocks
    BY <1>3, <2>2, VisitType DEF VisitNext, TypeOK, Sites
  <2>4. Last(cur) \in Nat
    BY <2>1, FunctionType DEF Last, TypeOK
  <2>5. cur' \in Blocks \cup {0} /\ next' \in Nat /\ (cur' # 0 => cur' = cur /\ next' \in 0 .. Last(cur))
    BY <1>3, <2>1, <2>4 DEF VisitNext
  <2>6. TypeOK'
    BY <1>3, <2>3, <2>5 DEF VisitNext, TypeOK, Sites
  <2>7. Last(cur)' = Last(cur') /\ (before' = before)
    BY <1>3 DEF VisitNext, Last
  <2>8. cur' # 0 => cur' \in reached' /\ next' \in 0 .. Last(cur)'
    BY <1>3, <2>1, <2>5, <2>7 DEF VisitNext, Visiting, Last
  <2> QED BY <2>6, <2>8 DEF Visiting
<1>4. ASSUME NEW i \in instrs, VisitUser(i) PROVE TypeOK' /\ Visiting'
  <2>1. i \in Sites /\ instrs \ {i} \in SUBSET Sites
    BY DEF TypeOK, Sites
  <2>2. CASE Visit(i, instrs \ {i})
    BY <1>4, <2>1, <2>2, VisitType DEF VisitUser, TypeOK, Visiting, Sites
  <2>3. CASE instrs' = instrs \ {i} /\ UNCHANGED <<lat, edges, blocks>>
    BY <1>4, <2>1, <2>3 DEF VisitUser, TypeOK, Visiting, Sites
  <2> QED BY <1>4, <2>2, <2>3 DEF VisitUser
<1>5. CASE EndAnalysis
  BY <1>5 DEF EndAnalysis, analysis, TypeOK, Visiting, Phases
<1> QED BY <1>1, <1>2, <1>3, <1>4, <1>5 DEF Analyse

(* A pass replaces fn by a function and goes on to another phase. *)
LEMMA PassType ==
  ASSUME TypeOK, Visiting, NEW from, NEW g \in Function, NEW to \in Phases \ {"analyse"},
         Pass(from, g, to)
  PROVE  TypeOK' /\ Visiting'
BY DEF Pass, TypeOK, Visiting, analysis, numbering, machines

(* GVN and InstCombinePass replace one instruction by a value, or change it. *)
LEMMA ReplaceOneType ==
  ASSUME NEW f \in Function, NEW c \in Blocks, NEW v \in Values
  PROVE  ReplaceOne(f, c, v) \in Function /\ ReplaceOne(f, c, v).body = f.body
<1> DEFINE S == {<<"op", c>>}
           s == [i \in S |-> IF v = i THEN Null ELSE v]
           g == Replace(f, s)
<1>1. S \in SUBSET Instrs /\ s \in [S -> Values]
  BY OpInstr DEF Values
<1> HIDE DEF S, s
<1>2. g \in Function
  BY <1>1, ReplaceType
<1>3. g.body = f.body
  BY DEF Replace, Function
<1> HIDE DEF g
<1>4. EraseOps(g, {c}) \in Function
  BY <1>2, EraseOpsType
<1>5. EraseOps(g, {c}).body = g.body
  BY <1>2 DEF EraseOps, Function
<1> QED BY <1>3, <1>4, <1>5 DEF ReplaceOne, g, s, S

LEMMA RedundantType ==
  ASSUME NEW f \in Function, NEW c \in Blocks, NEW seen, NEW b
  PROVE  Redundant(f, seen, b, c) \in SUBSET Values
<1> DEFINE o == f.op[c]
<1>1. o.x \in Values
  BY FunctionType DEF Op
<1> HIDE DEF o
<1>2. ByCopy(c, o) \in SUBSET Values
  BY <1>1 DEF ByCopy
<1>3. ByFolding(o) \in SUBSET Values
  BY DEF ByFolding
<1>4. ByIdentity(NumberingIdentities, o) \in SUBSET Values
  BY DEF ByIdentity
<1>5. \A e \in Pieces(f, DomSetOf(Succ(f), b)) : <<"op", e>> \in Values
  BY OpInstr DEF Pieces, Values
<1>6. Originals(f, seen, b, o) \in SUBSET Values
  BY <1>5 DEF Originals
<1> QED BY <1>2, <1>3, <1>4, <1>6 DEF Redundant, o

LEMMA ReassociatedType ==
  ASSUME NEW f \in Function, NEW c \in Blocks
  PROVE  Reassociated(f, f.op[c]) \in SUBSET Op
<1> DEFINE o == f.op[c]
<1>1. o \in Op
  BY FunctionType
<1> HIDE DEF o
<1>2. ASSUME NEW b \in Blocks, NEW d \in Data, NEW e \in Data, o.fun \in Associating
      PROVE  [o EXCEPT !.x = f.op[b].x, !.y = Const(Apply[o.fun][<<d, e>>])] \in Op
  <2>1. f.op[b].x \in Values
    BY FunctionType DEF Op
  <2>2. Apply[o.fun][<<d, e>>] \in Data
    BY <1>2, SimplificationAssumption
  <2>3. Const(Apply[o.fun][<<d, e>>]) \in Values
    BY <2>2 DEF Values
  <2> QED BY <1>1, <2>1, <2>3 DEF Op
<1>3. ASSUME NEW q \in Reassociated(f, o) PROVE q \in Op
  <2>1. PICK u \in Blocks \X Data \X Data :
          /\ o.fun \in Associating
          /\ q = [o EXCEPT !.x = f.op[u[1]].x, !.y = Const(Apply[o.fun][<<u[2], u[3]>>])]
    BY DEF Reassociated
  <2>2. u[1] \in Blocks /\ u[2] \in Data /\ u[3] \in Data
    OBVIOUS
  <2> QED BY <1>2, <2>1, <2>2
<1> QED BY <1>3 DEF o

LEMMA CombineCases ==
  ASSUME NEW f \in Function, NEW c \in Blocks, NEW g \in Combine(f, c)
  PROVE  \/ g = f
         \/ \E v \in Values : g = ReplaceOne(f, c, v)
         \/ \E q \in Op : g = [f EXCEPT !.op[c] = q]
<1> DEFINE same == ByIdentity(CombineIdentities, f.op[c])
           joined == Reassociated(f, f.op[c])
<1>1. same \in SUBSET Values
  BY DEF ByIdentity
<1>2. joined \in SUBSET Op
  BY ReassociatedType
<1>3. \A q \in Op : q.x \in Values
  BY DEF Op
<1>4. g \in IF same # {} THEN {ReplaceOne(f, c, v) : v \in same}
            ELSE IF joined = {} THEN {f}
            ELSE {IF q.y # Const(Zero) THEN [f EXCEPT !.op[c] = q]
                  ELSE IF q.x = Null THEN f ELSE ReplaceOne(f, c, q.x) : q \in joined}
  BY DEF Combine
<1> HIDE DEF same, joined
<1> QED BY <1>1, <1>2, <1>3, <1>4

LEMMA CombineType ==
  ASSUME NEW f \in Function, NEW c \in Blocks, NEW g \in Combine(f, c)
  PROVE  g \in Function
<1>1. CASE g = f
  BY <1>1
<1>2. CASE \E v \in Values : g = ReplaceOne(f, c, v)
  BY <1>2, ReplaceOneType
<1>3. CASE \E q \in Op : g = [f EXCEPT !.op[c] = q]
  <2>1. PICK q \in Op : g = [f EXCEPT !.op[c] = q]
    BY <1>3
  <2>2. [f.op EXCEPT ![c] = q] \in [Blocks -> Op]
    BY FunctionType
  <2>3. g = [f EXCEPT !.op = [f.op EXCEPT ![c] = q]]
    BY <2>1
  <2> QED BY <2>2, <2>3, WithOp
<1> QED BY <1>1, <1>2, <1>3, CombineCases

(* Where the passes are: GVN at an instruction of the block it has entered,
   and InstCombinePass where another round is to follow. *)
Standing ==
  /\ phase \in {"constants", "copies"} => cur = 0
  /\ phase = "numbers" /\ cur # 0 => next \in 1 .. Len(fn.body[cur])
  /\ phase \in {"combine", "combined"} => round < Rounds

LEMMA NumberNextSteps ==
  ASSUME TypeOK, Standing, NumberNext
  PROVE  /\ fn.body[cur][next] \in Blocks
         /\ \E v \in Values : fn' = fn \/ fn' = ReplaceOne(fn, fn.body[cur][next], v)
<1>1. cur \in Blocks /\ next \in 1 .. Len(fn.body[cur]) /\ fn \in Function
  BY DEF NumberNext, TypeOK, Standing
<1>2. fn.body[cur][next] \in Blocks
  BY <1>1, FunctionType
<1> DEFINE c == fn.body[cur][next]
           same == Redundant(fn, table, cur, c)
<1>3. same \in SUBSET Values
  BY <1>1, <1>2, RedundantType
<1>4. Null \in Values
  BY DEF Values
<1>5. fn' \in {ReplaceOne(fn, c, v) : v \in same} \/ fn' = fn
  BY DEF NumberNext
<1> HIDE DEF same, c
<1>6. \E v \in Values : fn' = fn \/ fn' = ReplaceOne(fn, c, v)
  BY <1>3, <1>4, <1>5
<1> QED BY <1>2, <1>6 DEF c

LEMMA NumberNextType ==
  ASSUME TypeOK, Standing, NumberNext
  PROVE  TypeOK' /\ Visiting' /\ Standing'
<1> DEFINE c == fn.body[cur][next]
<1>1. cur \in Blocks /\ next \in 1 .. Len(fn.body[cur]) /\ fn \in Function
  BY DEF NumberNext, TypeOK, Standing
<1>2. c \in Blocks /\ fn.op[c] \in Op
  BY <1>1, NumberNextSteps, FunctionType
<1>3. fn' \in Function /\ fn'.body = fn.body
  BY <1>1, NumberNextSteps, ReplaceOneType
<1>4. table' \in SUBSET (Blocks \X Op) /\ changed' \in BOOLEAN
  <2>1. {t \in {<<c, fn.op[c]>>} : t[2].code = "pure"} \in SUBSET (Blocks \X Op)
    BY <1>2
  <2>2. table' = table \/ table' = table \cup {t \in {<<c, fn.op[c]>>} : t[2].code = "pure"}
    BY DEF NumberNext
  <2>3. changed' = changed \/ changed' = TRUE
    BY DEF NumberNext
  <2> QED BY <2>1, <2>2, <2>3 DEF TypeOK
<1>5. /\ cur' \in Blocks \cup {0} /\ next' \in Nat
      /\ cur' # 0 => cur' = cur /\ next' \in 1 .. Len(fn.body[cur])
  <2>1. Len(fn.body[cur]) \in Nat
    BY <1>1, FunctionType
  <2>2. \/ next < Len(fn.body[cur]) /\ next' = next + 1 /\ cur' = cur
        \/ cur' = 0 /\ next' = 0
    BY DEF NumberNext
  <2> QED BY <1>1, <2>1, <2>2
<1>6. phase = "numbers" /\ phase' = phase
      /\ UNCHANGED <<before, round, lat, edges, reached, blocks, instrs, visited, turns, combined, machines>>
  BY DEF NumberNext
<1> HIDE DEF c
<1>7. TypeOK'
  BY <1>3, <1>4, <1>5, <1>6 DEF TypeOK, machines
<1> QED BY <1>3, <1>5, <1>6, <1>7 DEF Visiting, Standing

LEMMA CombineNextSteps ==
  ASSUME TypeOK, CombineNext
  PROVE  \E c \in Blocks : fn' \in Combine(fn, c)
<1>1. cur \in Blocks /\ next \in Nat /\ next < Len(fn.body[cur]) /\ fn \in Function
  BY DEF CombineNext, BlockLength, TypeOK
<1>2. fn.body[cur] \in Seq(Blocks)
  BY <1>1, FunctionType
<1>3. fn.body[cur][next + 1] \in Blocks
  BY <1>1, <1>2
<1> QED BY <1>3 DEF CombineNext

LEMMA CombineNextType ==
  ASSUME TypeOK, CombineNext
  PROVE  TypeOK' /\ Visiting'
<1>1. fn' \in Function
  BY CombineNextSteps, CombineType DEF TypeOK
<1>2. combined' \in BOOLEAN
  BY DEF CombineNext, TypeOK
<1>3. next' \in Nat
  BY DEF CombineNext, TypeOK
<1>4. phase = "combine" /\ UNCHANGED <<before, phase, round, lat, edges, reached, blocks, instrs, cur>>
      /\ UNCHANGED <<table, visited, turns, changed, machines>>
  BY DEF CombineNext
<1> QED BY <1>1, <1>2, <1>3, <1>4 DEF TypeOK, Visiting, machines

LEMMA StandingStep ==
  ASSUME TypeOK, Standing, [Next]_vars
  PROVE  Standing'
<1>1. CASE Analyse /\ UNCHANGED <<fn, round, numbering, machines>>
  BY <1>1 DEF Analyse, PopBlock, PopAgain, VisitNext, VisitUser, EndAnalysis, Standing, analysis, Phases
<1>2. CASE RunConstants
  BY <1>2 DEF RunConstants, Pass, Standing, analysis
<1>3. CASE RunCopies
  BY <1>3 DEF RunCopies, Pass, Standing, analysis
<1>4. CASE RunBranches \/ RunBlocks \/ RunMerge \/ EndMerge \/ RunDeadBlocks
  BY <1>4 DEF RunBranches, RunBlocks, RunMerge, EndMerge, RunDeadBlocks, Pass, Standing
<1>5. CASE RunDead
  BY <1>5 DEF RunDead, Pass, Standing
<1>6. CASE RunPhis \/ EndPhis
  BY <1>6 DEF RunPhis, EndPhis, Standing
<1>7. ASSUME NEW b \in Blocks, EnterBlock(b) PROVE Standing'
  <2>1. fn.body[b] \in Seq(Blocks) /\ fn.body[b] # <<>>
    BY <1>7, FunctionType DEF EnterBlock, TypeOK, Live
  <2>2. 1 \in 1 .. Len(fn.body[b])
    BY <2>1
  <2> QED BY <1>7, <2>2 DEF EnterBlock, Standing
<1>8. CASE NumberNext
  BY <1>8, NumberNextType
<1>9. CASE EndTurn
  BY <1>9 DEF EndTurn, Standing, analysis
<1>10. CASE CombineBlock \/ CombineNext
  BY <1>10 DEF CombineBlock, CombineNext, Standing
<1>11. CASE NextRound
  BY <1>11 DEF NextRound, Standing
<1>12. CASE StartRun \/ Run
  BY <1>12 DEF StartRun, Run, Standing
<1>13. CASE UNCHANGED vars
  BY <1>13 DEF vars, analysis, Standing
<1> QED BY <1>1, <1>2, <1>3, <1>4, <1>5, <1>6, <1>7, <1>8, <1>9, <1>10, <1>11, <1>12, <1>13
        DEF Next, Passes

LEMMA TypeStep == TypeOK /\ Visiting /\ Standing /\ [Next]_vars => TypeOK' /\ Visiting'
<1> SUFFICES ASSUME TypeOK, Visiting, Standing, [Next]_vars PROVE TypeOK' /\ Visiting'
  OBVIOUS
<1> USE DEF Phases
<1>0. fn \in Function /\ before \in Function
  BY DEF TypeOK
<1>1. CASE Analyse /\ UNCHANGED <<fn, round, numbering, machines>>
  BY <1>1, AnalyseType
<1>2. CASE RunConstants
  BY <1>0, <1>2, ReplaceConstantsType, PassType DEF RunConstants
<1>3. CASE RunCopies
  BY <1>0, <1>3, EliminateCopiesType, PassType DEF RunCopies
<1>4. CASE RunBranches
  BY <1>0, <1>4, FoldBranchesType, PassType DEF RunBranches
<1>5. CASE RunPhis
  <2>a. cur < N /\ fn' = SimplifyPhi(fn, cur + 1)
    BY <1>5 DEF RunPhis
  <2>b. cur \in Blocks \cup {0}
    BY DEF TypeOK
  <2>1. cur + 1 \in Blocks
    BY <2>a, <2>b, BlocksAssumption DEF Blocks
  <2>2. fn' \in Function
    BY <1>0, <2>a, <2>1, SimplifyPhiType
  <2> QED BY <1>5, <2>1, <2>2 DEF RunPhis, TypeOK, Visiting, numbering, machines
<1>6. CASE EndPhis
  BY <1>6 DEF EndPhis, TypeOK, Visiting, numbering, machines
<1>7. CASE RunBlocks
  BY <1>0, <1>7, RemoveUnreachableType, PassType DEF RunBlocks
<1>8. CASE RunMerge
  BY <1>0, <1>8, MergeBlocksType, PassType DEF RunMerge
<1>9. CASE EndMerge
  BY <1>0, <1>9, PassType DEF EndMerge
<1>10. CASE RunDeadBlocks
  BY <1>0, <1>10, RemoveUnreachableType, PassType DEF RunDeadBlocks
<1>11. CASE RunDead
  <2>1. PICK to \in {"done", "dead blocks", "combine"} : Pass("dead", EliminateDead(fn), to)
    BY <1>11 DEF RunDead
  <2> QED BY <1>0, <2>1, EliminateDeadType, PassType
<1>12. CASE NextRound
  <2>1. lat' \in [Instrs -> Lattice]
    BY <1>12 DEF NextRound, RestartAnalysis, Lattice
  <2>2. round' \in 1 .. Rounds
    BY <1>12, RoundsAssumption DEF NextRound, TypeOK, Standing
  <2> QED BY <1>12, <2>1, <2>2, EntryFirst
          DEF NextRound, RestartAnalysis, TypeOK, Visiting, numbering, machines
<1>13. CASE StartRun
  <2>1. PICK d \in Data : here' = Boot(d) /\ there' = Boot(d)
    BY <1>13 DEF StartRun
  <2>2. here' \in Machine /\ there' \in Machine
    BY <2>1, BootType
  <2> QED BY <1>13, <2>2 DEF StartRun, TypeOK, Visiting, analysis, numbering
<1>14. CASE Run
  <2>1. here' \in Machine /\ there' \in Machine
    BY <1>0, <1>14, ExecuteType DEF Run, TypeOK
  <2> QED BY <1>14, <2>1 DEF Run, TypeOK, Visiting, analysis, numbering
<1>15. CASE UNCHANGED vars
  BY <1>15 DEF vars, analysis, numbering, machines, TypeOK, Visiting, Last
<1>16. ASSUME NEW b \in Blocks, EnterBlock(b) PROVE TypeOK' /\ Visiting'
  BY <1>16 DEF EnterBlock, TypeOK, Visiting, machines
<1>17. CASE NumberNext
  BY <1>17, NumberNextType
<1>18. CASE EndTurn
  <2>1. turns' \in 0 .. MaxTurns
    BY <1>18 DEF EndTurn, TypeOK, MaxTurns
  <2> QED BY <1>18, <2>1 DEF EndTurn, TypeOK, Visiting, analysis, machines
<1>19. CASE CombineBlock
  <2>1. cur' \in Blocks \cup {0}
    BY <1>19, BlocksAssumption DEF CombineBlock, TypeOK, Blocks
  <2>2. combined' \in BOOLEAN /\ next' \in Nat /\ phase' \in Phases /\ phase' # "analyse"
    BY <1>19 DEF CombineBlock, TypeOK
  <2> QED BY <1>19, <2>1, <2>2 DEF CombineBlock, TypeOK, Visiting, machines
<1>20. CASE CombineNext
  BY <1>20, CombineNextType
<1> QED BY <1>1, <1>2, <1>3, <1>4, <1>5, <1>6, <1>7, <1>8, <1>9, <1>10, <1>11, <1>12,
           <1>13, <1>14, <1>15, <1>16, <1>17, <1>18, <1>19, <1>20 DEF Next, Passes

LEMMA TypeInit == Init => TypeOK /\ Visiting /\ Standing
<1> SUFFICES ASSUME Init PROVE TypeOK /\ Visiting /\ Standing
  OBVIOUS
<1>1. before \in Function
  BY SCCPAssumption DEF Init, WellFormed
<1>2. Boot(Zero) \in Machine
  BY SCCPAssumption, BootType
<1>3. lat \in [Instrs -> Lattice]
  BY DEF Init, StartAnalysis, Lattice
<1>4. /\ phase = "analyse" /\ phase \in Phases /\ round = 1 /\ round \in 1 .. Rounds
      /\ cur = 0 /\ next = 0 /\ fn = before
  BY RoundsAssumption DEF Init, StartAnalysis, Phases
<1>5. /\ table \in SUBSET (Blocks \X Op) /\ visited \in SUBSET Blocks
      /\ changed \in BOOLEAN /\ combined \in BOOLEAN
  BY ZenonT(30) DEF Init
<1>8. turns \in 0 .. MaxTurns
  BY DEF Init, MaxTurns
<1>6. /\ edges \in SUBSET (Blocks \X Blocks) /\ reached \in SUBSET Blocks /\ blocks \in SUBSET Blocks
      /\ instrs \in SUBSET ({"phi", "op", "term"} \X Blocks)
  BY EntryFirst DEF Init, StartAnalysis
<1>7. here \in Machine /\ there \in Machine
  BY <1>2 DEF Init
<1> QED BY <1>1, <1>3, <1>4, <1>5, <1>6, <1>7, <1>8 DEF TypeOK, Visiting, Standing

(* Whatever the functions and the executions are, the passes leave functions
   in SSA form over the same blocks, values and operations. *)
THEOREM TypeCorrect == Spec => []TypeOK
<1>1. Init => TypeOK /\ Visiting /\ Standing
  BY TypeInit
<1>2. TypeOK /\ Visiting /\ Standing /\ [Next]_vars => TypeOK' /\ Visiting' /\ Standing'
  BY TypeStep, StandingStep
<1> QED BY <1>1, <1>2, PTL DEF Spec

-----------------------------------------------------------------------------
(* The analysis is a fixpoint in the end.  Until then, what it does not yet
   agree with is on a worklist, or is still to come in the block that is
   visited. *)
Agrees(j) ==
  IF j[1] = "term" THEN \A s \in Taken(before.term[j[2]]) : <<j[2], s>> \in edges
  ELSE Folded(j) \subseteq lat[j]

Handled(j) == Agrees(j) \/ j \in instrs \/ j \in {"phi"} \X blocks

ToCome(b, k) == phase = "analyse" /\ cur = b /\ k >= next

Fixpoint ==
  /\ Entry \in reached \cup blocks
  /\ \A e \in edges : e[2] \in reached \cup blocks
  /\ \A b \in reached : \A k \in 0 .. Last(b) : Handled(InstrAt(b, k)) \/ ToCome(b, k)
  /\ phase # "analyse" => blocks = {} /\ instrs = {}

(* While the lattice does not change, neither does what is folded from it. *)
LEMMA FoldFrame ==
  ASSUME UNCHANGED lat
  PROVE  /\ \A v : Lat(v)' = Lat(v)
         /\ \A t : Taken(t)' = Taken(t)
         /\ \A o : FoldOp(o)' = FoldOp(o)
<1>1. \A v : Lat(v)' = Lat(v)
  BY DEF Lat
<1>2. \A t : Taken(t)' = Taken(t)
  BY <1>1 DEF Taken
<1>3. \A o : FoldOp(o)' = FoldOp(o)
  BY <1>1 DEF FoldOp
<1> QED BY <1>1, <1>2, <1>3

LEMMA FoldedFrame ==
  ASSUME UNCHANGED <<before, lat, edges>>, NEW j
  PROVE  Folded(j)' = Folded(j)
<1>1. Arriving(j[2])' = Arriving(j[2])
  BY DEF Arriving
<1>2. FoldPhi(j[2])' = FoldPhi(j[2])
  BY <1>1, FoldFrame DEF FoldPhi
<1>3. FoldOp(before.op[j[2]])' = FoldOp(before.op[j[2]])
  BY FoldFrame
<1> QED BY <1>2, <1>3 DEF Folded

(* Only the users of a value that changed can cease to agree. *)
LEMMA AgreesFrame ==
  ASSUME TypeOK, NEW i \in Instrs, NEW j \in Sites, Agrees(j),
         \A k \in Instrs \ {i} : lat'[k] = lat[k], lat[i] \subseteq lat'[i],
         lat' = lat \/ j \notin Users(i), UNCHANGED <<before, edges>>
  PROVE  Agrees(j)'
<1>1. CASE lat' = lat
  <2>1. Folded(j)' = Folded(j) /\ \A t : Taken(t)' = Taken(t)
    BY <1>1, FoldFrame, FoldedFrame
  <2> QED BY <1>1, <2>1 DEF Agrees
<1>2. CASE j \notin Users(i)
  <2>1. i \notin Reads(j)
    BY <1>2 DEF Users, Sites
  <2>2. \A v : v # i => Lat(v)' = Lat(v)
    BY DEF Lat
  <2>3. j[2] \in Blocks
    BY DEF Sites
  <2>4. CASE j[1] = "term"
    <3> DEFINE t == before.term[j[2]]
    <3>1. t.code # "jmp" => t.x # i
      BY <2>1, <2>4 DEF Reads, TermReads
    <3>2. before.term[j[2]]' = t
      OBVIOUS
    <3>3. Taken(t)' = Taken(t)
      BY <2>2, <3>1 DEF Taken
    <3> QED BY <2>4, <3>2, <3>3 DEF Agrees
  <2>5. CASE j[1] = "phi"
    <3>1. Arriving(j[2])' = Arriving(j[2])
      BY DEF Arriving
    <3>2. i \notin Arriving(j[2])
      BY <2>1, <2>5 DEF Reads, Arriving, PhiReads
    <3>3. \A v \in Arriving(j[2]) : Lat(v)' = Lat(v)
      BY <2>2, <3>2
    <3>4. FoldPhi(j[2])' = FoldPhi(j[2])
      BY <3>1, <3>3 DEF FoldPhi
    <3>5. Folded(j)' = Folded(j)
      BY <2>5, <3>4 DEF Folded
    <3>6. j \in Instrs
      BY <2>5 DEF Sites, Instrs
    <3> QED BY <2>5, <3>5, <3>6 DEF Agrees
  <2>6. CASE j[1] = "op"
    <3> DEFINE o == before.op[j[2]]
    <3>1. o.code # "none" => o.x # i
      BY <2>1, <2>6 DEF Reads, OpReads
    <3>2. o.code = "pure" => o.y # i
      BY <2>1, <2>6 DEF Reads, OpReads
    <3>3. FoldOp(o)' = FoldOp(o)
      BY <2>2, <3>1, <3>2 DEF FoldOp
    <3>4. Folded(j)' = Folded(j)
      BY <2>6, <3>3 DEF Folded
    <3>6. j \in Instrs
      BY <2>6 DEF Sites, Instrs
    <3> QED BY <2>6, <3>4, <3>6 DEF Agrees
  <2> QED BY <2>4, <2>5, <2>6 DEF Sites
<1> QED BY <1>1, <1>2

(* setLatticeValue leaves the value in agreement and its users waiting. *)
LEMMA RaiseHandles ==
  ASSUME TypeOK, NEW i \in Instrs, NEW waiting \in SUBSET Sites, Raise(i, waiting),
         UNCHANGED <<before, edges>>
  PROVE  /\ waiting \subseteq instrs'
         /\ Agrees(i)' \/ i \in instrs'
         /\ \A j \in Sites : Agrees(j) => Agrees(j)' \/ j \in instrs'
<1>1. /\ \A j \in Instrs \ {i} : lat'[j] = lat[j]
      /\ lat[i] \subseteq lat'[i] /\ Folded(i) \subseteq lat'[i]
      /\ lat' = lat \/ instrs' = waiting \cup Users(i)
      /\ waiting \subseteq instrs'
  BY RaiseType DEF TypeOK, Sites
<1>2. \A j \in Sites : Agrees(j) => Agrees(j)' \/ j \in instrs'
  BY <1>1, AgreesFrame
<1>3. i \in Sites /\ i[1] # "term"
  BY DEF Sites, Instrs
<1>4. CASE lat' = lat
  <2>1. Folded(i)' = Folded(i)
    BY <1>4, FoldedFrame
  <2> QED BY <1>1, <1>2, <1>3, <2>1 DEF Agrees
<1>5. CASE i \in Users(i)
  BY <1>1, <1>2, <1>4, <1>5
<1>6. CASE i \notin Users(i)
  <2>1. i \notin Reads(i)
    BY <1>3, <1>6 DEF Users, Sites
  <2>2. \A v : v # i => Lat(v)' = Lat(v)
    BY <1>1 DEF Lat
  <2>3. Folded(i)' = Folded(i)
    <3>1. CASE i[1] = "phi"
      <4>1. Arriving(i[2])' = Arriving(i[2]) /\ i \notin Arriving(i[2])
        BY <2>1, <3>1 DEF Arriving, Reads, PhiReads
      <4>2. FoldPhi(i[2])' = FoldPhi(i[2])
        BY <2>2, <4>1 DEF FoldPhi
      <4> QED BY <3>1, <4>2 DEF Folded
    <3>2. CASE i[1] = "op"
      <4> DEFINE o == before.op[i[2]]
      <4>1. (o.code # "none" => o.x # i) /\ (o.code = "pure" => o.y # i)
        BY <2>1, <3>2 DEF Reads, OpReads
      <4>2. FoldOp(o)' = FoldOp(o)
        BY <2>2, <4>1 DEF FoldOp
      <4> QED BY <3>2, <4>2 DEF Folded
    <3> QED BY <3>1, <3>2 DEF Instrs
  <2> QED BY <1>1, <1>2, <1>3, <2>3 DEF Agrees
<1> QED BY <1>1, <1>2, <1>4, <1>5, <1>6

(* visitTerminator leaves the terminator in agreement and the targets of new
   edges waiting, so that their phis are visited. *)
LEMMA FollowHandles ==
  ASSUME TypeOK, NEW b \in Blocks, Follow(b), UNCHANGED <<before, lat>>
  PROVE  /\ Agrees(<<"term", b>>)'
         /\ \A e \in edges' : e \in edges \/ e[2] \in blocks'
         /\ blocks \subseteq blocks'
         /\ \A j \in Sites : Agrees(j) => Agrees(j)' \/ j \in {"phi"} \X blocks'
<1> DEFINE taken == Taken(before.term[b])
<1>1. /\ edges' = edges \cup {<<b, s>> : s \in taken}
      /\ blocks' = blocks \cup {s \in taken : <<b, s>> \notin edges}
  BY DEF Follow
<1>2. \A t : Taken(t)' = Taken(t)
  BY FoldFrame
<1>3. taken' = taken
  BY <1>2
<1>4. Agrees(<<"term", b>>)'
  BY <1>1, <1>3 DEF Agrees
<1> HIDE DEF taken
<1>5. \A e \in edges' : e \in edges \/ e[2] \in blocks'
  BY <1>1
<1>6. ASSUME NEW j \in Sites, Agrees(j) PROVE Agrees(j)' \/ j \in {"phi"} \X blocks'
  <2>1. j[2] \in Blocks
    BY DEF Sites
  <2>2. CASE j[1] = "term"
    <3> DEFINE t == before.term[j[2]]
    <3>1. \A s \in Taken(t) : <<j[2], s>> \in edges
      BY <1>6, <2>2 DEF Agrees
    <3>2. Taken(t)' = Taken(t)
      BY <1>2
    <3>3. edges \subseteq edges'
      BY <1>1
    <3>4. \A s \in Taken(t)' : <<j[2], s>> \in edges'
      BY <3>1, <3>2, <3>3
    <3> QED BY <2>2, <3>4 DEF Agrees
  <2>3. CASE j[1] = "op"
    <3>1. FoldOp(before.op[j[2]])' = FoldOp(before.op[j[2]])
      BY FoldFrame
    <3> QED BY <1>6, <2>3, <3>1 DEF Agrees, Folded
  <2>4. CASE j[1] = "phi"
    <3>1. CASE j[2] \in blocks'
      BY <2>4, <3>1 DEF Sites
    <3>2. CASE j[2] \notin blocks'
      <4>1. \A q \in Blocks : <<q, j[2]>> \in edges' <=> <<q, j[2]>> \in edges
        BY <1>1, <1>5, <3>2
      <4>2. Arriving(j[2])' = Arriving(j[2])
        BY <4>1 DEF Arriving
      <4>3. FoldPhi(j[2])' = FoldPhi(j[2])
        BY <4>2, FoldFrame DEF FoldPhi
      <4> QED BY <1>6, <2>4, <4>3 DEF Agrees, Folded
    <3> QED BY <3>1, <3>2
  <2> QED BY <2>2, <2>3, <2>4 DEF Sites
<1> QED BY <1>1, <1>4, <1>5, <1>6

(* A visit hands what it visits, and all that was handled, on. *)
LEMMA VisitHandles ==
  ASSUME TypeOK, NEW i \in Sites, NEW waiting \in SUBSET Sites, Visit(i, waiting),
         UNCHANGED before
  PROVE  /\ Handled(i)'
         /\ \A e \in edges' : e \in edges \/ e[2] \in blocks'
         /\ blocks \subseteq blocks'
         /\ \A j \in Sites : j \in waiting \/ j \in {"phi"} \X blocks \/ Agrees(j) => Handled(j)'
<1>1. CASE i \in Instrs
  <2>1. Raise(i, waiting) /\ edges' = edges /\ blocks' = blocks
    BY <1>1, VisitType
  <2> QED BY <1>1, <2>1, RaiseHandles DEF Handled
<1>2. CASE i \notin Instrs
  <2>1. i[2] \in Blocks /\ Follow(i[2]) /\ lat' = lat /\ instrs' = waiting /\ i = <<"term", i[2]>>
    BY <1>2, VisitType
  <2>2. /\ Agrees(<<"term", i[2]>>)'
        /\ \A e \in edges' : e \in edges \/ e[2] \in blocks'
        /\ blocks \subseteq blocks'
        /\ \A j \in Sites : Agrees(j) => Agrees(j)' \/ j \in {"phi"} \X blocks'
    BY <2>1, FollowHandles
  <2>3. Agrees(i)'
    BY <2>1, <2>2
  <2> QED BY <2>1, <2>2, <2>3 DEF Handled
<1> QED BY <1>1, <1>2

(* A visit of i keeps the analysis a fixpoint if it leaves all but i waiting
   or to come. *)
LEMMA VisitFixpoint ==
  ASSUME TypeOK, Fixpoint, phase = "analyse",
         NEW i \in Sites, NEW waiting \in SUBSET Sites, Visit(i, waiting),
         instrs \subseteq waiting \cup {i},
         \A b \in reached : \A k \in 0 .. Last(b) :
           ToCome(b, k) => ToCome(b, k)' \/ InstrAt(b, k) = i,
         UNCHANGED <<before, phase, reached>>
  PROVE  Fixpoint'
<1>1. /\ Handled(i)'
      /\ \A e \in edges' : e \in edges \/ e[2] \in blocks'
      /\ blocks \subseteq blocks'
      /\ \A j \in Sites : j \in waiting \/ j \in {"phi"} \X blocks \/ Agrees(j) => Handled(j)'
  BY VisitHandles
<1>2. ASSUME NEW b \in reached, NEW k \in 0 .. Last(b)
      PROVE  Handled(InstrAt(b, k))' \/ ToCome(b, k)'
  <2> DEFINE j == InstrAt(b, k)
  <2>1. b \in Blocks /\ before \in Function
    BY DEF TypeOK
  <2>2. j \in Sites
    BY <2>1, InstrAtSite
  <2>3. j' = j
    BY DEF InstrAt, Last
  <2>4. Handled(j) \/ ToCome(b, k)
    BY DEF Fixpoint
  <2>5. j = i => Handled(j)'
    BY <1>1, <2>3
  <2>6. j # i /\ Handled(j) => Handled(j)'
    <3> HIDE DEF j
    <3> SUFFICES ASSUME j # i, Handled(j) PROVE Handled(j)'
      OBVIOUS
    <3>1. j \in waiting \/ j \in {"phi"} \X blocks \/ Agrees(j)
      BY DEF Handled
    <3> QED BY <1>1, <2>2, <2>3, <3>1
  <2> QED BY <2>4, <2>5, <2>6
<1>3. \A c : Last(c)' = Last(c)
  BY DEF Last
<1>4. /\ (Entry \in reached \cup blocks)' /\ (\A e \in edges : e[2] \in reached \cup blocks)'
      /\ (phase # "analyse" => blocks = {} /\ instrs = {})'
  BY <1>1 DEF Fixpoint
<1> QED BY <1>2, <1>3, <1>4 DEF Fixpoint

(* The steps of the analysis keep it a fixpoint but for what is waiting. *)
LEMMA FixpointAnalyse ==
  ASSUME TypeOK, Visiting, Fixpoint, Analyse
  PROVE  Fixpoint'
<1>0. /\ before \in Function /\ reached \in SUBSET Blocks /\ blocks \in SUBSET Blocks
      /\ instrs \in SUBSET Sites
  BY DEF TypeOK, Sites
<1>1. ASSUME NEW b \in Blocks, PopBlock(b) PROVE Fixpoint'
  <2>1. /\ phase = "analyse" /\ cur = 0 /\ b \in blocks
        /\ blocks' = blocks \ {b} /\ reached' = reached \cup {b} /\ cur' = b /\ next' = 0
        /\ UNCHANGED <<before, phase, lat, edges, instrs>>
    BY <1>1 DEF PopBlock
  <2>2. ASSUME NEW c \in reached', NEW k \in 0 .. Last(c)
        PROVE  Handled(InstrAt(c, k))' \/ ToCome(c, k)'
    <3>1. CASE c = b
      BY <2>1, <3>1 DEF ToCome
    <3>2. CASE c # b
      <4>1. c \in reached /\ c \in Blocks
        BY <1>0, <2>1, <3>2
      <4>2. Handled(InstrAt(c, k))
        BY <1>0, <2>1, <4>1, EntryFirst DEF Fixpoint, ToCome
      <4>3. InstrAt(c, k)[1] = "phi" => InstrAt(c, k)[2] = c
        BY <1>0, <4>1, InstrAtSite DEF InstrAt
      <4>4. \A j : Agrees(j)' <=> Agrees(j)
        BY <2>1, FoldFrame, FoldedFrame DEF Agrees
      <4>5. InstrAt(c, k)' = InstrAt(c, k)
        BY <2>1 DEF InstrAt, Last
      <4> QED BY <2>1, <3>2, <4>2, <4>3, <4>4, <4>5 DEF Handled
    <3> QED BY <3>1, <3>2
  <2>3. \A c : Last(c)' = Last(c)
    BY <2>1 DEF Last
  <2> QED BY <2>1, <2>2, <2>3 DEF Fixpoint
<1>2. ASSUME NEW b \in Blocks, PopAgain(b) PROVE Fixpoint'
  <2>1. /\ phase = "analyse" /\ cur = 0 /\ b \in reached
        /\ blocks' = blocks \ {b} /\ Raise(<<"phi", b>>, instrs)
        /\ UNCHANGED <<before, phase, edges, reached, cur, next>>
    BY <1>2 DEF PopAgain
  <2>2. /\ instrs \subseteq instrs'
        /\ Agrees(<<"phi", b>>)' \/ <<"phi", b>> \in instrs'
        /\ \A j \in Sites : Agrees(j) => Agrees(j)' \/ j \in instrs'
    BY <1>0, <2>1, OpInstr, RaiseHandles
  <2>3. \A j \in Sites : Handled(j) => Handled(j)'
    <3> SUFFICES ASSUME NEW j \in Sites, Handled(j) PROVE Handled(j)'
      OBVIOUS
    <3>1. CASE j = <<"phi", b>>
      BY <2>2, <3>1 DEF Handled
    <3>2. CASE j # <<"phi", b>> /\ j \in {"phi"} \X blocks
      BY <2>1, <3>2 DEF Handled
    <3>3. CASE Agrees(j) \/ j \in instrs
      BY <2>2, <3>3 DEF Handled
    <3> QED BY <3>1, <3>2, <3>3 DEF Handled
  <2>4. ASSUME NEW c \in reached, NEW k \in 0 .. Last(c)
        PROVE  Handled(InstrAt(c, k))'
    <3>1. Handled(InstrAt(c, k)) /\ InstrAt(c, k) \in Sites
      BY <1>0, <2>1, EntryFirst, InstrAtSite DEF Fixpoint, ToCome
    <3>2. InstrAt(c, k)' = InstrAt(c, k)
      BY <2>1 DEF InstrAt, Last
    <3> QED BY <2>3, <3>1, <3>2
  <2>5. \A c : Last(c)' = Last(c)
    BY <2>1 DEF Last
  <2> QED BY <2>1, <2>4, <2>5 DEF Fixpoint
<1>3. CASE VisitNext
  <2>1. /\ phase = "analyse" /\ cur # 0 /\ Visit(InstrAt(cur, next), instrs)
        /\ IF next = Last(cur) THEN cur' = 0 /\ next' = 0 ELSE next' = next + 1 /\ cur' = cur
        /\ UNCHANGED <<before, phase, reached>>
    BY <1>3 DEF VisitNext
  <2>2. cur \in Blocks /\ next \in 0 .. Last(cur)
    BY <2>1 DEF Visiting, TypeOK
  <2>3. InstrAt(cur, next) \in Sites
    BY <1>0, <2>2, InstrAtSite
  <2>4. ASSUME NEW b \in reached, NEW k \in 0 .. Last(b), ToCome(b, k)
        PROVE  ToCome(b, k)' \/ InstrAt(b, k) = InstrAt(cur, next)
    <3>1. b = cur /\ k >= next
      BY <2>4 DEF ToCome
    <3>2. CASE k = next
      BY <3>1, <3>2
    <3>3. CASE k # next
      BY <2>1, <2>2, <3>1, <3>3 DEF ToCome
    <3> QED BY <3>2, <3>3
  <2> QED BY <1>0, <2>1, <2>3, <2>4, VisitFixpoint
<1>4. ASSUME NEW i \in instrs, VisitUser(i) PROVE Fixpoint'
  <2>1. /\ phase = "analyse" /\ cur = 0 /\ blocks = {}
        /\ UNCHANGED <<before, phase, reached, cur, next>>
    BY <1>4 DEF VisitUser
  <2>2. CASE Visit(i, instrs \ {i})
    <3>1. \A b \in reached : \A k \in 0 .. Last(b) : ~ToCome(b, k)
      BY <1>0, <2>1, EntryFirst DEF ToCome
    <3> QED BY <1>0, <2>1, <2>2, <3>1, VisitFixpoint
  <2>3. CASE /\ ~\E b \in reached : i \in InstrsOf(b)
             /\ instrs' = instrs \ {i} /\ UNCHANGED <<lat, edges, blocks>>
    <3>1. \A j : Agrees(j)' <=> Agrees(j)
      BY <2>1, <2>3, FoldFrame, FoldedFrame DEF Agrees
    <3>2. ASSUME NEW c \in reached, NEW k \in 0 .. Last(c)
          PROVE  Handled(InstrAt(c, k))'
      <4>1. Handled(InstrAt(c, k))
        BY <1>0, <2>1, EntryFirst DEF Fixpoint, ToCome
      <4>2. InstrAt(c, k) # i
        BY <2>3 DEF InstrsOf
      <4>3. InstrAt(c, k)' = InstrAt(c, k)
        BY <2>1 DEF InstrAt, Last
      <4> QED BY <2>3, <3>1, <4>1, <4>2, <4>3 DEF Handled
    <3>3. \A c : Last(c)' = Last(c)
      BY <2>1 DEF Last
    <3> QED BY <2>1, <2>3, <3>2, <3>3 DEF Fixpoint
  <2> QED BY <1>4, <2>2, <2>3 DEF VisitUser
<1>5. CASE EndAnalysis
  <2>1. /\ phase = "analyse" /\ cur = 0 /\ blocks = {} /\ instrs = {}
        /\ UNCHANGED <<before, lat, edges, reached, blocks, instrs>>
    BY <1>5 DEF EndAnalysis, analysis
  <2>2. \A j : Agrees(j)' <=> Agrees(j)
    BY <2>1, FoldFrame, FoldedFrame DEF Agrees
  <2>3. ASSUME NEW c \in reached, NEW k \in 0 .. Last(c)
        PROVE  Handled(InstrAt(c, k))'
    <3>1. Handled(InstrAt(c, k))
      BY <1>0, <2>1, EntryFirst DEF Fixpoint, ToCome
    <3>2. InstrAt(c, k)' = InstrAt(c, k)
      BY <2>1 DEF InstrAt, Last
    <3> QED BY <2>1, <2>2, <3>1, <3>2 DEF Handled
  <2>4. \A c : Last(c)' = Last(c)
    BY <2>1 DEF Last
  <2> QED BY <2>1, <2>3, <2>4 DEF Fixpoint
<1> QED BY <1>1, <1>2, <1>3, <1>4, <1>5 DEF Analyse

(* Outside the analysis nothing it found changes, until it starts again. *)
LEMMA FixpointFrame ==
  ASSUME TypeOK, Fixpoint, phase # "analyse", phase' # "analyse",
         UNCHANGED <<before, lat, edges, reached, blocks, instrs>>
  PROVE  Fixpoint'
<1>1. \A j : Agrees(j)' <=> Agrees(j)
  BY FoldFrame, FoldedFrame DEF Agrees
<1>2. ASSUME NEW c \in reached, NEW k \in 0 .. Last(c)
      PROVE  Handled(InstrAt(c, k))'
  <2>1. Handled(InstrAt(c, k))
    BY DEF Fixpoint, ToCome
  <2>2. InstrAt(c, k)' = InstrAt(c, k)
    BY DEF InstrAt, Last
  <2> QED BY <1>1, <2>1, <2>2 DEF Handled
<1>3. \A c : Last(c)' = Last(c)
  BY DEF Last
<1> QED BY <1>2, <1>3 DEF Fixpoint

LEMMA FixpointStep ==
  ASSUME TypeOK, Visiting, Fixpoint, [Next]_vars
  PROVE  Fixpoint'
<1>1. CASE Analyse /\ UNCHANGED <<fn, round, numbering, machines>>
  BY <1>1, FixpointAnalyse
<1>2. ASSUME NEW from \in Phases \ {"analyse"}, NEW g, NEW to \in Phases \ {"analyse"}, Pass(from, g, to)
      PROVE  Fixpoint'
  BY <1>2, FixpointFrame DEF Pass, analysis
<1>3. CASE RunConstants \/ RunCopies \/ RunBranches \/ RunBlocks \/ RunMerge \/ EndMerge \/ RunDeadBlocks
  BY <1>2, <1>3
     DEF RunConstants, RunCopies, RunBranches, RunBlocks, RunMerge, EndMerge, RunDeadBlocks, Phases
<1>4. CASE RunDead
  BY <1>2, <1>4 DEF RunDead, Phases
<1>5. CASE RunPhis \/ EndPhis
  BY <1>5, FixpointFrame DEF RunPhis, EndPhis
<1>6. CASE StartRun \/ Run
  BY <1>6, FixpointFrame DEF StartRun, Run, analysis
<1>7. CASE NextRound
  BY <1>7 DEF NextRound, RestartAnalysis, Fixpoint
<1>8. CASE UNCHANGED vars
  <2>1. UNCHANGED <<before, phase, lat, edges, reached, blocks, instrs, cur, next>>
    BY <1>8 DEF vars, analysis
  <2>2. \A j : Agrees(j)' <=> Agrees(j)
    BY <2>1, FoldFrame, FoldedFrame DEF Agrees
  <2>3. \A b, k : InstrAt(b, k)' = InstrAt(b, k) /\ Last(b)' = Last(b) /\ (ToCome(b, k)' <=> ToCome(b, k))
    BY <2>1 DEF InstrAt, Last, ToCome
  <2>4. ASSUME NEW b \in reached, NEW k \in 0 .. Last(b)
        PROVE  Handled(InstrAt(b, k))' \/ ToCome(b, k)'
    BY <2>1, <2>2, <2>3 DEF Handled, Fixpoint
  <2> QED BY <2>1, <2>3, <2>4 DEF Fixpoint
<1>9. ASSUME NEW b \in Blocks, EnterBlock(b) PROVE Fixpoint'
  BY <1>9, FixpointFrame DEF EnterBlock
<1>10. CASE NumberNext \/ EndTurn
  BY <1>10, FixpointFrame DEF NumberNext, EndTurn, analysis
<1>11. CASE CombineBlock \/ CombineNext
  BY <1>11, FixpointFrame DEF CombineBlock, CombineNext
<1> QED BY <1>1, <1>3, <1>4, <1>5, <1>6, <1>7, <1>8, <1>9, <1>10, <1>11 DEF Next, Passes

-----------------------------------------------------------------------------
(* The execution stays within what a finished analysis allows. *)
LEMMA AllAgrees ==
  ASSUME TypeOK, Fixpoint, phase # "analyse"
  PROVE  /\ Entry \in reached
         /\ \A e \in edges : e[2] \in reached
         /\ \A b \in reached : /\ Agrees(<<"phi", b>>) /\ Agrees(<<"term", b>>)
                               /\ \A k \in 1 .. Len(before.body[b]) : Agrees(<<"op", before.body[b][k]>>)
<1>1. blocks = {} /\ instrs = {}
  BY DEF Fixpoint
<1>2. ASSUME NEW b \in reached, NEW k \in 0 .. Last(b) PROVE Agrees(InstrAt(b, k))
  BY <1>1, <1>2 DEF Fixpoint, Handled, ToCome
<1>3. ASSUME NEW b \in reached
      PROVE  /\ Agrees(<<"phi", b>>) /\ Agrees(<<"term", b>>)
             /\ \A k \in 1 .. Len(before.body[b]) : Agrees(<<"op", before.body[b][k]>>)
  <2>1. b \in Blocks /\ before \in Function
    BY DEF TypeOK
  <2>2. Len(before.body[b]) \in Nat /\ Last(b) = Len(before.body[b]) + 1
    BY <2>1, FunctionType DEF Last
  <2>3. 0 \in 0 .. Last(b) /\ Last(b) \in 0 .. Last(b)
    BY <2>2
  <2>4. Agrees(<<"phi", b>>) /\ Agrees(<<"term", b>>)
    BY <1>2, <2>1, <2>3, InstrAtSite
  <2>5. ASSUME NEW k \in 1 .. Len(before.body[b]) PROVE Agrees(<<"op", before.body[b][k]>>)
    <3>1. k \in 0 .. Last(b) /\ k # 0 /\ k # Last(b)
      BY <2>2
    <3> QED BY <1>2, <2>1, <3>1, InstrAtSite
  <2> QED BY <2>4, <2>5
<1> QED BY <1>1, <1>3 DEF Fixpoint

(* The values that an execution holds are those that the lattice allows. *)
Allowed(env) == \A i \in Instrs : env[i] \in lat[i] \cup {Undef}

LEMMA EvalAllowed ==
  ASSUME NEW env, Allowed(env), NEW arg \in Data, NEW v \in Values
  PROVE  Eval(env, arg, v) \in Lat(v) \cup {Undef}
<1>1. CASE v \in Instrs
  BY <1>1 DEF Eval, Lat, Allowed
<1>2. CASE v \notin Instrs
  BY <1>2 DEF Eval, Lat
<1> QED BY <1>1, <1>2

LEMMA YieldAllowed ==
  ASSUME TypeOK, NEW m \in Machine, NEW c \in Blocks, NEW r \in Data,
         Agrees(<<"op", c>>), Allowed(m.env)
  PROVE  Yield(before, m, c, r) \in lat[<<"op", c>>] \cup {Undef}
<1> DEFINE o == before.op[c]
           x == Eval(m.env, m.arg, o.x)
           y == Eval(m.env, m.arg, o.y)
<1>1. FoldOp(o) \subseteq lat[<<"op", c>>]
  BY DEF Agrees, Folded
<1>2. o \in Op
  BY FunctionType DEF TypeOK
<1>3. o.x \in Values /\ o.y \in Values /\ o.fun \in DOMAIN Apply
      /\ o.code \in {"none", "pure", "copy", "call", "load"}
  BY <1>2 DEF Op
<1>4. x \in Lat(o.x) \cup {Undef} /\ y \in Lat(o.y) \cup {Undef}
  BY <1>3, EvalAllowed, MachineType
<1>5. Lat(o.x) \in SUBSET Data /\ Lat(o.y) \in SUBSET Data
  BY <1>3, LatType DEF TypeOK
<1> HIDE DEF x, y
<1>6. Yield(before, m, c, r) \in FoldOp(o) \cup {Undef}
  <2>1. CASE o.code = "none"
    BY <2>1 DEF Yield
  <2>2. CASE o.code = "copy"
    <3>1. Yield(before, m, c, r) = x
      BY <2>2 DEF Yield, x
    <3>2. FoldOp(o) = Lat(o.x)
      BY <2>2 DEF FoldOp
    <3> QED BY <1>4, <3>1, <3>2
  <2>3. CASE o.code \in {"call", "load"}
    <3>1. Yield(before, m, c, r) = r
      BY <2>3 DEF Yield
    <3>2. FoldOp(o) = Data
      BY <2>3 DEF FoldOp
    <3> QED BY <3>1, <3>2
  <2>4. CASE o.code = "pure"
    <3> DEFINE d == Apply[o.fun][<<x, y>>]
    <3>1. Yield(before, m, c, r) = IF x = Undef \/ y = Undef THEN Undef ELSE d
      BY <2>4 DEF Yield, x, y
    <3>2. CASE x = Undef \/ y = Undef \/ d = Undef
      BY <3>1, <3>2
    <3>3. CASE x # Undef /\ y # Undef /\ d # Undef
      <4>1. x \in Lat(o.x) /\ y \in Lat(o.y)
        BY <1>4, <3>3
      <4>2. x \in Data /\ y \in Data
        BY <1>5, <4>1
      <4>3. d \in Data
        BY <1>3, <3>3, <4>2, SCCPAssumption
      <4>4. Fold(o.fun, x, y) = {d}
        BY <3>3 DEF Fold
      <4>5. FoldOp(o) = IF Lat(o.x) = Data \/ Lat(o.y) = Data THEN Data
                        ELSE UNION {Fold(o.fun, p, q) : p \in Lat(o.x), q \in Lat(o.y)}
        BY <2>4 DEF FoldOp
      <4> HIDE DEF d, o
      <4>6. d \in UNION {Fold(o.fun, p, q) : p \in Lat(o.x), q \in Lat(o.y)}
        BY <4>1, <4>4
      <4> QED BY <3>1, <3>3, <4>3, <4>5, <4>6
    <3> QED BY <3>2, <3>3
  <2> QED BY <1>3, <2>1, <2>2, <2>3, <2>4
<1> QED BY <1>1, <1>6

LEMMA EnterAllowed ==
  ASSUME TypeOK, NEW m \in Machine, m.at \in Blocks, Allowed(m.env),
         NEW s \in Blocks, <<m.at, s>> \in edges, Agrees(<<"phi", s>>)
  PROVE  Enter(before, m, s).at = s /\ Allowed(Enter(before, m, s).env)
<1> DEFINE v == before.inc[s][m.at]
           d == IF v = Absent THEN Undef ELSE Eval(m.env, m.arg, v)
           env == [m.env EXCEPT ![<<"phi", s>>] = d]
<1>1. v \in Values \cup {Absent}
  BY FunctionType DEF TypeOK
<1>2. FoldPhi(s) \subseteq lat[<<"phi", s>>]
  BY DEF Agrees, Folded
<1>3. d \in FoldPhi(s) \cup {Undef}
  <2>1. CASE v \in {Absent, Null}
    BY <2>1 DEF Eval, Null, Instrs, Arg
  <2>2. CASE v \notin {Absent, Null}
    <3>1. v \in Arriving(s)
      BY <2>2 DEF Arriving
    <3>2. d \in Lat(v) \cup {Undef}
      BY <1>1, <2>2, EvalAllowed, MachineType
    <3> HIDE DEF v, d
    <3> QED BY <3>1, <3>2 DEF FoldPhi
  <2> QED BY <2>1, <2>2
<1>4. Enter(before, m, s) = [m EXCEPT !.at = s, !.k = 1, !.env = env]
  BY DEF Enter
<1> HIDE DEF d
<1>5. Allowed(env)
  BY <1>2, <1>3, OpInstr, MachineType DEF Allowed
<1> HIDE DEF env
<1>6. [m EXCEPT !.at = s, !.k = 1, !.env = env].at = s
  BY DEF Machine
<1>7. [m EXCEPT !.at = s, !.k = 1, !.env = env].env = env
  BY DEF Machine
<1> QED BY <1>4, <1>5, <1>6, <1>7

LEMMA LeaveAllowed ==
  ASSUME TypeOK, Fixpoint, phase # "analyse",
         NEW m \in Machine, m.at \in reached, Allowed(m.env)
  PROVE  Leave(before, m).at \in reached \cup {0} /\ Allowed(Leave(before, m).env)
<1> DEFINE t == before.term[m.at]
           x == Eval(m.env, m.arg, t.x)
<1>1. m.at \in Blocks /\ before \in Function
  BY DEF TypeOK
<1>2. t \in Term
  BY <1>1, FunctionType
<1>3. t.x \in Values /\ t.t \in Blocks /\ t.f \in Blocks /\ t.code \in {"ret", "jmp", "jnz"}
  BY <1>2 DEF Term
<1>4. \A s \in Taken(t) : <<m.at, s>> \in edges
  BY AllAgrees DEF Agrees
<1>5. x \in Lat(t.x) \cup {Undef}
  BY <1>3, EvalAllowed, MachineType
<1>6. \A out : End(m, out).at = 0 /\ End(m, out).env = m.env
  BY DEF End, Machine
<1>7. ASSUME NEW s \in Taken(t), s \in Blocks
      PROVE  Enter(before, m, s).at \in reached /\ Allowed(Enter(before, m, s).env)
  <2>1. <<m.at, s>> \in edges /\ s \in reached
    BY <1>4, AllAgrees
  <2> QED BY <1>1, <1>7, <2>1, AllAgrees, EnterAllowed
<1> HIDE DEF x
<1>8. CASE t.code = "ret"
  BY <1>6, <1>8 DEF Leave
<1>9. CASE t.code = "jmp"
  <2>1. t.t \in Taken(t)
    BY <1>9 DEF Taken
  <2>2. Leave(before, m) = Enter(before, m, t.t)
    BY <1>9 DEF Leave
  <2> QED BY <1>3, <1>7, <2>1, <2>2
<1>10. CASE t.code = "jnz"
  <2>1. Leave(before, m) = IF x = Undef THEN End(m, Undef)
                           ELSE IF x = Zero THEN Enter(before, m, t.f) ELSE Enter(before, m, t.t)
    BY <1>10 DEF Leave, x
  <2>2. CASE x = Undef
    BY <1>6, <2>1, <2>2
  <2>3. CASE x # Undef
    <3>1. x \in Lat(t.x)
      BY <1>5, <2>3
    <3>2. (IF x = Zero THEN t.f ELSE t.t) \in Taken(t)
      BY <1>10, <3>1 DEF Taken
    <3> QED BY <1>3, <1>7, <2>1, <2>3, <3>2
  <2> QED BY <2>2, <2>3
<1> QED BY <1>3, <1>8, <1>9, <1>10

LEMMA ExecuteAllowed ==
  ASSUME TypeOK, Fixpoint, phase # "analyse",
         NEW m \in Machine, m.at \in reached, InBlock(before, m), Allowed(m.env), NEW r \in Data
  PROVE  Execute(before, m, r).at \in reached \cup {0} /\ Allowed(Execute(before, m, r).env)
<1> DEFINE c == before.body[m.at][m.k]
           y == Yield(before, m, c, r)
           env == [m.env EXCEPT ![<<"op", c>>] = y]
           n == [m EXCEPT !.env = env]
<1>1. c \in Blocks /\ Agrees(<<"op", c>>)
  <2>1. m.k \in 1 .. Len(before.body[m.at]) /\ before.body[m.at] \in Seq(Blocks)
    BY FunctionType DEF InBlock, TypeOK
  <2>2. before.body[m.at][m.k] \in Blocks
    BY <2>1
  <2>3. \A k \in 1 .. Len(before.body[m.at]) : Agrees(<<"op", before.body[m.at][k]>>)
    BY AllAgrees
  <2> QED BY <2>1, <2>2, <2>3
<1>2. y \in lat[<<"op", c>>] \cup {Undef} /\ y \in Data \cup {Undef}
  BY <1>1, YieldAllowed, YieldType DEF TypeOK
<1> HIDE DEF y, c
<1>3. Allowed(env) /\ env \in [Instrs -> Data \cup {Undef}]
  BY <1>1, <1>2, OpInstr, MachineType DEF Allowed
<1> HIDE DEF env
<1>4. n \in Machine /\ n.at = m.at /\ n.env = env
  BY <1>3 DEF Machine
<1>5. Execute(before, m, r) \in {End(m, Undef), [n EXCEPT !.k = @ + 1], Leave(before, n)}
  BY DEF Execute, env, y, c
<1>6. End(m, Undef).at = 0 /\ End(m, Undef).env = m.env
  BY DEF End, Machine
<1> HIDE DEF n
<1>7. [n EXCEPT !.k = @ + 1].at = m.at /\ [n EXCEPT !.k = @ + 1].env = env
  BY <1>4 DEF Machine
<1>8. Leave(before, n).at \in reached \cup {0} /\ Allowed(Leave(before, n).env)
  BY <1>3, <1>4, LeaveAllowed
<1> QED BY <1>3, <1>5, <1>6, <1>7, <1>8

LEMMA ConstantsStep ==
  ASSUME TypeOK, Fixpoint, ConstantsHold, [Next]_vars
  PROVE  ConstantsHold'
<1>1. CASE Run
  <2>1. PICK r \in Data : here' = Execute(before, here, r)
    BY <1>1 DEF Run
  <2>2. phase = "run" /\ InBlock(before, here) /\ UNCHANGED <<lat, reached>>
    BY <1>1 DEF Run, analysis
  <2>3. here \in Machine /\ here.at \in reached /\ Allowed(here.env)
    BY <2>2, EntryFirst DEF TypeOK, ConstantsHold, Allowed, InBlock
  <2>4. here'.at \in reached \cup {0} /\ Allowed(here'.env)
    BY <2>1, <2>2, <2>3, ExecuteAllowed
  <2> QED BY <2>2, <2>4 DEF ConstantsHold, Allowed
<1>2. CASE StartRun
  <2>1. PICK d \in Data : here' = Boot(d)
    BY <1>2 DEF StartRun
  <2>2. phase # "analyse" /\ UNCHANGED <<lat, reached>>
    BY <1>2 DEF StartRun, analysis
  <2>3. here'.at = Entry /\ \A i \in Instrs : here'.env[i] = Undef
    BY <2>1 DEF Boot
  <2>4. Entry \in reached
    BY <2>2, AllAgrees
  <2> QED BY <2>2, <2>3, <2>4 DEF ConstantsHold
<1>3. CASE Passes
  <2>1. phase' # "run"
    BY <1>3 DEF Passes, Analyse, PopBlock, PopAgain, VisitNext, VisitUser, EndAnalysis, Pass,
                RunConstants, RunCopies, RunBranches, RunBlocks, RunMerge, EndMerge, RunDeadBlocks,
                RunDead, RunPhis, EndPhis, NextRound, EnterBlock, NumberNext, EndTurn,
                CombineBlock, CombineNext
  <2> QED BY <2>1 DEF ConstantsHold
<1>4. CASE UNCHANGED vars
  BY <1>4 DEF vars, analysis, machines, ConstantsHold
<1> QED BY <1>1, <1>2, <1>3, <1>4 DEF Next

(* Whatever the function, the argument and the results of loads and calls
   are, an execution of the function that was analysed computes no value that
   differs from the constant SCCP found for it and enters no block that SCCP
   holds unreachable: replacing values by constants and removing branches
   relies on nothing else. *)
THEOREM ConstantsHoldAlways == Spec => []ConstantsHold
<1>1. Init => Fixpoint /\ ConstantsHold
  BY DEF Init, StartAnalysis, Fixpoint, ConstantsHold
<1>2. TypeOK /\ Visiting /\ Fixpoint /\ ConstantsHold /\ [Next]_vars => Fixpoint' /\ ConstantsHold'
  BY FixpointStep, ConstantsStep
<1>3. Init => TypeOK /\ Visiting /\ Standing
  BY TypeInit
<1>4. TypeOK /\ Visiting /\ Standing /\ [Next]_vars => TypeOK' /\ Visiting' /\ Standing'
  BY TypeStep, StandingStep
<1> QED BY <1>1, <1>2, <1>3, <1>4, PTL DEF Spec

-----------------------------------------------------------------------------
(* Between two passes: a phi has a value for exactly the predecessors of its
   block, a block that is erased leads nowhere, and a branch has two targets.
   The last two keep the first while branches are folded and blocks merged. *)
Arrives(f, b, p) == f.inc[b][p] # Absent

Matching(f) ==
  /\ \A b, p \in Blocks : Arrives(f, b, p) => b \in f.phis /\ b \in Succ(f)[p]
  /\ \A b, p \in Blocks : b \in f.phis /\ b \in Live(f) /\ b \in Succ(f)[p] => Arrives(f, b, p)
  /\ \A b \in Blocks : f.body[b] = <<>> => f.term[b].code = "ret"
  /\ \A b \in Blocks : f.term[b].code = "jnz" => f.term[b].t # f.term[b].f

LEMMA SuccOf ==
  ASSUME NEW f, NEW b \in Blocks
  PROVE  Succ(f)[b] = IF f.body[b] = <<>> THEN {} ELSE Targets(f.term[b])
BY DEF Succ

LEMMA SameTargets ==
  ASSUME NEW t, NEW u, t.code = u.code, t.t = u.t, t.f = u.f
  PROVE  Targets(t) = Targets(u)
BY DEF Targets

(* What of a function the phis depend on. *)
LEMMA MatchingFrame ==
  ASSUME NEW f, NEW g, Matching(f),
         g.body = f.body, g.phis = f.phis,
         \A b, p \in Blocks : Arrives(g, b, p) <=> Arrives(f, b, p),
         \A b \in Blocks : /\ g.term[b].code = f.term[b].code
                           /\ g.term[b].t = f.term[b].t /\ g.term[b].f = f.term[b].f
  PROVE  Matching(g)
<1>1. \A b \in Blocks : Succ(g)[b] = Succ(f)[b]
  <2> SUFFICES ASSUME NEW b \in Blocks PROVE Succ(g)[b] = Succ(f)[b]
    OBVIOUS
  <2>1. Targets(g.term[b]) = Targets(f.term[b])
    BY SameTargets
  <2> QED BY <2>1, SuccOf
<1>2. Live(g) = Live(f)
  BY DEF Live
<1> QED BY <1>1, <1>2 DEF Matching

LEMMA ReplaceMatching ==
  ASSUME NEW f \in Function, Matching(f), NEW S \in SUBSET Instrs, NEW s \in [S -> Values]
  PROVE  Matching(Replace(f, s))
<1> DEFINE g == Replace(f, s)
<1>1. \A v \in Values \cup {Absent} : Image(s, v) # Absent <=> v # Absent
  BY SCCPAssumption DEF Image, Values
<1>2. \A b, p \in Blocks : g.inc[b][p] = Image(s, f.inc[b][p])
  BY DEF Replace, Function
<1>3. \A b, p \in Blocks : Arrives(g, b, p) <=> Arrives(f, b, p)
  BY <1>1, <1>2, FunctionType DEF Arrives
<1>4. g.body = f.body /\ g.phis = f.phis
  BY DEF Replace, Function
<1>5. \A b \in Blocks : g.term[b] = [f.term[b] EXCEPT !.x = Image(s, @)]
  BY DEF Replace, Function
<1>6. \A b \in Blocks : /\ g.term[b].code = f.term[b].code
                        /\ g.term[b].t = f.term[b].t /\ g.term[b].f = f.term[b].f
  <2> SUFFICES ASSUME NEW b \in Blocks
               PROVE  /\ g.term[b].code = f.term[b].code
                      /\ g.term[b].t = f.term[b].t /\ g.term[b].f = f.term[b].f
    OBVIOUS
  <2>1. f.term[b] \in Term
    BY FunctionType
  <2> QED BY <1>5, <2>1 DEF Term
<1> HIDE DEF g
<1>7. Matching(g)
  BY <1>3, <1>4, <1>6, MatchingFrame
<1> QED BY <1>7 DEF g

LEMMA EraseOpsMatching ==
  ASSUME NEW f \in Function, Matching(f), NEW C
  PROVE  Matching(EraseOps(f, C))
<1> DEFINE g == EraseOps(f, C)
<1>1. g.body = f.body /\ g.phis = f.phis /\ g.inc = f.inc /\ g.term = f.term
  BY DEF EraseOps, Function
<1> HIDE DEF g
<1>2. \A b, p \in Blocks : Arrives(g, b, p) <=> Arrives(f, b, p)
  BY <1>1 DEF Arrives
<1>3. Matching(g)
  BY <1>1, <1>2, MatchingFrame
<1> QED BY <1>3 DEF g

LEMMA ErasePhisParts ==
  ASSUME NEW f \in Function, NEW B, NEW g, g = ErasePhis(f, B)
  PROVE  /\ g.body = f.body /\ g.term = f.term /\ g.phis = f.phis \ B
         /\ \A b, p \in Blocks : Arrives(g, b, p) <=> b \notin B /\ Arrives(f, b, p)
BY DEF ErasePhis, Function, Arrives

LEMMA ErasePhisMatching ==
  ASSUME NEW f \in Function, Matching(f), NEW B
  PROVE  Matching(ErasePhis(f, B))
<1> DEFINE g == ErasePhis(f, B)
<1>1. /\ g.body = f.body /\ g.term = f.term /\ g.phis = f.phis \ B
      /\ \A b, p \in Blocks : Arrives(g, b, p) <=> b \notin B /\ Arrives(f, b, p)
  BY ErasePhisParts
<1> HIDE DEF g
<1>2. Succ(g) = Succ(f) /\ Live(g) = Live(f)
  BY <1>1 DEF Succ, Live
<1>3. Matching(g)
  BY <1>1, <1>2 DEF Matching
<1> QED BY <1>3 DEF g

LEMMA RemoveIncomingParts ==
  ASSUME NEW f \in Function, NEW Left, NEW g, g = RemoveIncoming(f, Left)
  PROVE  /\ g.body = f.body /\ g.term = f.term /\ g.phis = f.phis
         /\ \A b, p \in Blocks : Arrives(g, b, p) <=> <<p, b>> \notin Left /\ Arrives(f, b, p)
BY DEF RemoveIncoming, Function, Arrives

-----------------------------------------------------------------------------
(* The passes. *)
LEMMA ReplaceConstantsMatching ==
  ASSUME NEW f \in Function, Matching(f)
  PROVE  Matching(ReplaceConstants(f))
<1> DEFINE S == {"op"} \X Known(f)
           s == [i \in S |-> Const(CHOOSE d \in Data : d \in lat[i])]
<1>1. S \in SUBSET Instrs
  BY DEF Known, Pieces, Instrs
<1>2. s \in [S -> Values]
  <2> SUFFICES ASSUME NEW i \in S PROVE s[i] \in Values
    OBVIOUS
  <2>1. PICK c \in Known(f) : i = <<"op", c>>
    OBVIOUS
  <2>2. \E d \in Data : d \in lat[i]
    BY <2>1 DEF Known
  <2>3. (CHOOSE d \in Data : d \in lat[i]) \in Data
    BY <2>2
  <2> QED BY <2>3 DEF Values
<1> HIDE DEF s, S
<1>3. Replace(f, s) \in Function /\ Matching(Replace(f, s))
  BY <1>1, <1>2, ReplaceType, ReplaceMatching
<1> QED BY <1>3, EraseOpsMatching DEF ReplaceConstants, s, S

LEMMA EliminateCopiesMatching ==
  ASSUME NEW f \in Function, Matching(f)
  PROVE  Matching(EliminateCopies(f))
<1> DEFINE copies == Copies(f)
           IsCopy(v) == v[1] = "op" /\ v[2] \in copies
           copied == {v \in {f.op[c].x : c \in copies} : ~IsCopy(v)}
           source[n \in 0 .. N] == [c \in Blocks |->
             LET v == IF n = 0 THEN f.op[c].x ELSE source[n - 1][c]
             IN  IF n > 0 /\ IsCopy(v) THEN f.op[v[2]].x ELSE v]
           S == {"op"} \X copies
           s == [i \in S |-> IF source[N][i[2]] \in copied THEN source[N][i[2]] ELSE Null]
<1>1. copies \in SUBSET Blocks
  BY DEF Copies, Pieces
<1>2. S \in SUBSET Instrs
  BY <1>1 DEF Instrs
<1>3. \A c \in Blocks : f.op[c].x \in Values
  BY FunctionType DEF Op
<1>4. copied \in SUBSET Values
  BY <1>1, <1>3
<1>5. Null \in Values
  BY DEF Values
<1>6. EliminateCopies(f) = EraseOps(Replace(f, s), copies)
  BY DEF EliminateCopies
<1> HIDE DEF source, copied, copies
<1>7. s \in [S -> Values]
  BY <1>4, <1>5
<1> HIDE DEF s, S
<1>8. Replace(f, s) \in Function /\ Matching(Replace(f, s))
  BY <1>2, <1>7, ReplaceType, ReplaceMatching
<1> QED BY <1>6, <1>8, EraseOpsMatching

LEMMA FoldBranchesMatching ==
  ASSUME NEW f \in Function, Matching(f)
  PROVE  Matching(FoldBranches(f))
<1> DEFINE h == Straighten(f)
           Left == {<<b, Other(f.term[b])>> : b \in Decided(f)}
           g == RemoveIncoming(h, Left)
<1>1. h \in Function
  BY StraightenType
<1>2. /\ h.body = f.body /\ h.phis = f.phis /\ h.inc = f.inc
      /\ \A b \in Blocks : h.term[b] = IF b \in Decided(f) THEN Jump(Kept(f.term[b])) ELSE f.term[b]
  BY DEF Straighten, Function
<1> HIDE DEF h, Left
<1>3. /\ g.body = h.body /\ g.term = h.term /\ g.phis = h.phis
      /\ \A b, p \in Blocks : Arrives(g, b, p) <=> <<p, b>> \notin Left /\ Arrives(h, b, p)
  BY <1>1, RemoveIncomingParts
<1>4. \A b \in Decided(f) :
        /\ b \in Blocks /\ f.term[b].code = "jnz" /\ f.body[b] # <<>>
        /\ Kept(f.term[b]) # Other(f.term[b])
        /\ {Kept(f.term[b]), Other(f.term[b])} = {f.term[b].t, f.term[b].f}
  BY DEF Decided, Live, Kept, Other, Matching
<1>5. \A b \in Blocks \ Decided(f) : \A x : <<b, x>> \notin Left
  BY DEF Left
<1>6. \A b \in Decided(f) : \A x : <<b, x>> \in Left <=> x = Other(f.term[b])
  BY DEF Left
<1> HIDE DEF g
<1>7. \A b \in Blocks \ Decided(f) : g.term[b] = f.term[b] /\ Succ(g)[b] = Succ(f)[b]
  BY <1>2, <1>3, SuccOf
<1>8. \A b \in Decided(f) : /\ g.term[b].code = "jmp" /\ Succ(g)[b] = {Kept(f.term[b])}
                            /\ Succ(f)[b] = {Kept(f.term[b]), Other(f.term[b])}
  <2> SUFFICES ASSUME NEW b \in Decided(f)
               PROVE  /\ g.term[b].code = "jmp" /\ Succ(g)[b] = {Kept(f.term[b])}
                      /\ Succ(f)[b] = {Kept(f.term[b]), Other(f.term[b])}
    OBVIOUS
  <2>1. b \in Blocks /\ g.term[b] = Jump(Kept(f.term[b])) /\ g.body[b] # <<>>
    BY <1>2, <1>3, <1>4
  <2>2. /\ Jump(Kept(f.term[b])).code = "jmp"
        /\ Targets(Jump(Kept(f.term[b]))) = {Kept(f.term[b])}
    BY DEF Jump, Targets
  <2>3. Targets(f.term[b]) = {f.term[b].t, f.term[b].f}
    BY <1>4 DEF Targets
  <2>4. Succ(g)[b] = Targets(g.term[b]) /\ Succ(f)[b] = Targets(f.term[b])
    BY <1>4, <2>1, SuccOf
  <2> QED BY <1>4, <2>1, <2>2, <2>3, <2>4
<1>9. \A p, b \in Blocks : b \in Succ(g)[p] <=> b \in Succ(f)[p] /\ <<p, b>> \notin Left
  <2> SUFFICES ASSUME NEW p \in Blocks, NEW b \in Blocks
               PROVE  b \in Succ(g)[p] <=> b \in Succ(f)[p] /\ <<p, b>> \notin Left
    OBVIOUS
  <2>1. CASE p \in Decided(f)
    <3>1. Succ(g)[p] = {Kept(f.term[p])} /\ Succ(f)[p] = {Kept(f.term[p]), Other(f.term[p])}
      BY <1>8, <2>1
    <3>2. Kept(f.term[p]) # Other(f.term[p])
      BY <1>4, <2>1
    <3>3. <<p, b>> \in Left <=> b = Other(f.term[p])
      BY <1>6, <2>1
    <3> QED BY <3>1, <3>2, <3>3
  <2>2. CASE p \notin Decided(f)
    BY <1>5, <1>7, <2>2
  <2> QED BY <2>1, <2>2
<1>10. \A b, p \in Blocks : Arrives(g, b, p) <=> <<p, b>> \notin Left /\ Arrives(f, b, p)
  BY <1>2, <1>3 DEF Arrives
<1>11. Live(g) = Live(f)
  BY <1>2, <1>3 DEF Live
<1>12. \A b \in Blocks : g.body[b] = <<>> => g.term[b].code = "ret"
  BY <1>2, <1>3, <1>4, <1>7 DEF Matching
<1>13. \A b \in Blocks : g.term[b].code = "jnz" => g.term[b].t # g.term[b].f
  BY <1>7, <1>8 DEF Matching
<1>14. g.phis = f.phis
  BY <1>2, <1>3
<1>15. Matching(g)
  BY <1>9, <1>10, <1>11, <1>12, <1>13, <1>14 DEF Matching
<1> QED BY <1>15 DEF FoldBranches, g, h, Left

LEMMA SimplifyPhiMatching ==
  ASSUME NEW f \in Function, Matching(f), NEW b \in Blocks
  PROVE  Matching(SimplifyPhi(f, b))
<1> DEFINE p == CHOOSE q \in Blocks : Preds(Succ(f), b) = {q}
           v == IF f.inc[b][p] = <<"phi", b>> THEN Null ELSE f.inc[b][p]
           S == {<<"phi", b>>}
           s == [i \in S |-> v]
<1>1. CASE b \in f.phis /\ \E q \in Blocks : Preds(Succ(f), b) = {q} /\ f.inc[b][q] \notin {Absent, Null}
  <2>1. PICK q \in Blocks : Preds(Succ(f), b) = {q} /\ f.inc[b][q] \notin {Absent, Null}
    BY <1>1
  <2>2. p = q
    BY <2>1
  <2>3. f.inc[b][q] \in Values \cup {Absent} /\ Null \in Values
    BY FunctionType DEF Values
  <2>4. v \in Values
    BY <2>1, <2>2, <2>3
  <2>5. S \in SUBSET Instrs /\ s \in [S -> Values]
    BY <2>4, OpInstr
  <2>6. SimplifyPhi(f, b) = ErasePhis(Replace(f, s), {b})
    BY <1>1 DEF SimplifyPhi
  <2> HIDE DEF s, S
  <2>7. Replace(f, s) \in Function /\ Matching(Replace(f, s))
    BY <2>5, ReplaceType, ReplaceMatching
  <2> QED BY <2>6, <2>7, ErasePhisMatching
<1>2. CASE ~(b \in f.phis /\ \E q \in Blocks : Preds(Succ(f), b) = {q} /\ f.inc[b][q] \notin {Absent, Null})
  <2>1. SimplifyPhi(f, b) = f
    BY <1>2 DEF SimplifyPhi
  <2> QED BY <2>1
<1> QED BY <1>1, <1>2

LEMMA EraseBlocksParts ==
  ASSUME NEW f \in Function, NEW B, NEW g, g = EraseBlocks(f, B)
  PROVE  /\ g.phis = f.phis /\ g.inc = f.inc
         /\ \A b \in Blocks : /\ g.body[b] = IF b \in B THEN <<>> ELSE f.body[b]
                              /\ g.term[b] = IF b \in B THEN NoTerm ELSE f.term[b]
BY DEF EraseBlocks, Function

(* Blocks are erased with their phis and their edges; that they cannot be
   reached does not matter here. *)
LEMMA RemoveUnreachableMatching ==
  ASSUME NEW f \in Function, Matching(f)
  PROVE  Matching(RemoveUnreachable(f))
<1> DEFINE gone == Unreachable(f)
           left == {e \in gone \X Blocks : e[2] \in Succ(f)[e[1]]}
           S == ({"phi"} \X gone) \cup ({"op"} \X Pieces(f, gone))
           s == [i \in S |-> Null]
           f1 == RemoveIncoming(f, left)
           f2 == Replace(f1, s)
           f3 == EraseOps(f2, Pieces(f, gone))
           f4 == ErasePhis(f3, gone)
           g == EraseBlocks(f4, gone)
<1>1. S \in SUBSET Instrs /\ gone \in SUBSET Blocks
  BY DEF Unreachable, Live, Pieces, Instrs
<1>2. s \in [S -> Values]
  BY DEF Values
<1>3. RemoveUnreachable(f) = g
  BY DEF RemoveUnreachable
<1>4. \A p, b \in Blocks : <<p, b>> \in left <=> p \in gone /\ b \in Succ(f)[p]
  OBVIOUS
<1> HIDE DEF s, S, left, gone
<1>5. /\ f1 \in Function /\ f1.body = f.body /\ f1.term = f.term /\ f1.phis = f.phis
      /\ \A b, p \in Blocks : Arrives(f1, b, p) <=> <<p, b>> \notin left /\ Arrives(f, b, p)
  BY RemoveIncomingType, RemoveIncomingParts
<1> HIDE DEF f1
<1>6. f2 \in Function
  BY <1>1, <1>2, <1>5, ReplaceType
<1>7. \A v \in Values \cup {Absent} : Image(s, v) # Absent <=> v # Absent
  BY <1>1, <1>2, SCCPAssumption DEF Image, Values
<1>8. /\ f2.body = f1.body /\ f2.phis = f1.phis
      /\ \A b, p \in Blocks : f2.inc[b][p] = Image(s, f1.inc[b][p])
      /\ \A b \in Blocks : f2.term[b] = [f1.term[b] EXCEPT !.x = Image(s, @)]
  BY <1>5 DEF Replace, Function
<1>9. \A b, p \in Blocks : Arrives(f2, b, p) <=> Arrives(f1, b, p)
  BY <1>5, <1>7, <1>8, FunctionType DEF Arrives
<1>10. \A b \in Blocks : /\ f2.term[b].code = f.term[b].code
                         /\ f2.term[b].t = f.term[b].t /\ f2.term[b].f = f.term[b].f
  <2> SUFFICES ASSUME NEW b \in Blocks
               PROVE  /\ f2.term[b].code = f.term[b].code
                      /\ f2.term[b].t = f.term[b].t /\ f2.term[b].f = f.term[b].f
    OBVIOUS
  <2>1. f1.term[b] \in Term
    BY <1>5, FunctionType
  <2> QED BY <1>5, <1>8, <2>1 DEF Term
<1> HIDE DEF f2
<1>a. f3 \in Function
  BY <1>6, EraseOpsType
<1>11. /\ f3 \in Function /\ f3.body = f2.body /\ f3.phis = f2.phis
       /\ f3.inc = f2.inc /\ f3.term = f2.term
  BY <1>6, <1>a DEF EraseOps, Function
<1> HIDE DEF f3
<1>12. /\ f4 \in Function /\ f4.body = f3.body /\ f4.term = f3.term /\ f4.phis = f3.phis \ gone
       /\ \A b, p \in Blocks : Arrives(f4, b, p) <=> b \notin gone /\ Arrives(f3, b, p)
  BY <1>11, ErasePhisType, ErasePhisParts
<1> HIDE DEF f4
<1>13. /\ g.phis = f4.phis /\ g.inc = f4.inc
       /\ \A b \in Blocks : /\ g.body[b] = IF b \in gone THEN <<>> ELSE f4.body[b]
                            /\ g.term[b] = IF b \in gone THEN NoTerm ELSE f4.term[b]
  BY <1>12, EraseBlocksParts
<1> HIDE DEF g
<1>14. \A b, p \in Blocks : Arrives(g, b, p) <=>
         b \notin gone /\ Arrives(f, b, p) /\ ~(p \in gone /\ b \in Succ(f)[p])
  <2>1. \A b, p \in Blocks : Arrives(g, b, p) <=> b \notin gone /\ Arrives(f2, b, p)
    BY <1>11, <1>12, <1>13 DEF Arrives
  <2> QED BY <1>4, <1>5, <1>9, <2>1
<1>15. g.phis = f.phis \ gone
  BY <1>5, <1>8, <1>11, <1>12, <1>13
<1>16. \A b \in Blocks : g.body[b] = IF b \in gone THEN <<>> ELSE f.body[b]
  BY <1>5, <1>8, <1>11, <1>12, <1>13
<1>17. \A b \in Blocks \ gone : /\ g.term[b].code = f.term[b].code
                                /\ g.term[b].t = f.term[b].t /\ g.term[b].f = f.term[b].f
  BY <1>10, <1>11, <1>12, <1>13
<1>18. \A b \in Blocks \cap gone : g.term[b].code = "ret"
  BY <1>13 DEF NoTerm
<1>19. \A b \in Blocks : Succ(g)[b] = IF b \in gone THEN {} ELSE Succ(f)[b]
  <2> SUFFICES ASSUME NEW b \in Blocks
               PROVE  Succ(g)[b] = IF b \in gone THEN {} ELSE Succ(f)[b]
    OBVIOUS
  <2>1. CASE b \in gone
    BY <1>16, <2>1, SuccOf
  <2>2. CASE b \notin gone
    <3>1. Targets(g.term[b]) = Targets(f.term[b]) /\ g.body[b] = f.body[b]
      BY <1>16, <1>17, <2>2, SameTargets
    <3> QED BY <2>2, <3>1, SuccOf
  <2> QED BY <2>1, <2>2
<1>20. \A b \in Blocks : b \in Live(g) <=> b \in Live(f) /\ b \notin gone
  BY <1>16 DEF Live
<1>21. Matching(g)
  BY <1>14, <1>15, <1>16, <1>17, <1>18, <1>19, <1>20 DEF Matching
<1> QED BY <1>3, <1>21

(* The successor has no phi and no other predecessor, so what arrives from it
   arrives from the merged block. *)
LEMMA MergeBlocksMatching ==
  ASSUME NEW f \in Function, Matching(f), NEW b \in Blocks, CanMerge(f, b)
  PROVE  Matching(MergeBlocks(f, b))
<1> DEFINE s == f.term[b].t
           inc == [x \in Blocks |->
                     [p \in Blocks |-> IF p = b /\ f.inc[x][s] # Absent THEN f.inc[x][s]
                                       ELSE IF p = s THEN Absent ELSE f.inc[x][p]]]
           body == [f.body EXCEPT ![b] = f.body[b] \o f.body[s]]
           term == [f.term EXCEPT ![b] = f.term[s]]
           h == [f EXCEPT !.body = body, !.term = term, !.inc = inc]
           g == EraseBlocks(h, {s})
<1>1. s \in Blocks
  BY FunctionType DEF Term
<1>2. inc \in [Blocks -> [Blocks -> Values \cup {Absent}]]
  BY <1>1, FunctionType
<1>3. body \in [Blocks -> Seq(Blocks)] /\ term \in [Blocks -> Term]
  BY <1>1, FunctionType
<1>4. MergeBlocks(f, b) = g
  BY DEF MergeBlocks, Function
<1>5. /\ f.body[b] # <<>> /\ f.term[b].code = "jmp" /\ s # b /\ s \notin f.phis
      /\ Preds(Succ(f), s) = {b}
  BY DEF CanMerge, Live
<1>6. Succ(f)[b] = {s}
  BY <1>5, SuccOf DEF Targets
<1>7. \A x, p \in Blocks : inc[x][p] # Absent <=>
        \/ p = b /\ (f.inc[x][s] # Absent \/ f.inc[x][b] # Absent)
        \/ p # b /\ p # s /\ f.inc[x][p] # Absent
  BY <1>5
<1>8. f.body[b] \o f.body[s] # <<>>
  <2>1. f.body[b] \in Seq(Blocks) /\ f.body[s] \in Seq(Blocks)
    BY <1>1, FunctionType
  <2> HIDE DEF s
  <2> QED BY <1>5, <2>1
<1>9. /\ body[b] # <<>> /\ term[b] = f.term[s]
      /\ \A p \in Blocks \ {b} : body[p] = f.body[p] /\ term[p] = f.term[p]
  BY <1>8, FunctionType
<1> HIDE DEF inc, body, term, s
<1>10. h \in Function /\ h.phis = f.phis /\ h.inc = inc /\ h.body = body /\ h.term = term
  BY <1>2, <1>3 DEF Function
<1> HIDE DEF h
<1>11. /\ g.phis = h.phis /\ g.inc = h.inc
       /\ \A p \in Blocks : /\ g.body[p] = IF p \in {s} THEN <<>> ELSE h.body[p]
                            /\ g.term[p] = IF p \in {s} THEN NoTerm ELSE h.term[p]
  BY <1>10, EraseBlocksParts
<1> HIDE DEF g
<1>12. \A p \in Blocks \ {b, s} : g.body[p] = f.body[p] /\ g.term[p] = f.term[p]
  BY <1>9, <1>10, <1>11
<1>13. g.body[b] # <<>> /\ g.term[b] = f.term[s] /\ g.body[s] = <<>> /\ g.term[s].code = "ret"
  BY <1>1, <1>5, <1>9, <1>10, <1>11 DEF NoTerm
<1>14. f.body[s] = <<>> => Targets(f.term[s]) = {}
  BY <1>1 DEF Matching, Targets
<1>15. Succ(g)[b] = Succ(f)[s]
  BY <1>1, <1>13, <1>14, SuccOf
<1>16. Succ(g)[s] = {} /\ \A p \in Blocks \ {b, s} : Succ(g)[p] = Succ(f)[p]
  BY <1>1, <1>12, <1>13, SuccOf
<1>17. \A p \in Blocks : p \in Live(g) => p # s /\ p \in Live(f)
  BY <1>5, <1>12, <1>13 DEF Live
<1>18. \A x \in Blocks : ~Arrives(f, s, x)
  BY <1>1, <1>5 DEF Matching
<1>19. \A x \in Blocks : ~Arrives(f, x, b)
  BY <1>6, <1>18 DEF Matching
<1>20. \A x, p \in Blocks : Arrives(g, x, p) <=>
         \/ p = b /\ Arrives(f, x, s)
         \/ p # b /\ p # s /\ Arrives(f, x, p)
  BY <1>7, <1>10, <1>11, <1>19 DEF Arrives
<1>21. g.phis = f.phis
  BY <1>10, <1>11
<1>22. \A x, p \in Blocks : Arrives(g, x, p) => x \in g.phis /\ x \in Succ(g)[p]
  BY <1>1, <1>15, <1>16, <1>20, <1>21 DEF Matching
<1>23. \A x, p \in Blocks : x \in g.phis /\ x \in Live(g) /\ x \in Succ(g)[p] => Arrives(g, x, p)
  BY <1>1, <1>15, <1>16, <1>17, <1>20, <1>21 DEF Matching
<1>24. \A p \in Blocks : g.body[p] = <<>> => g.term[p].code = "ret"
  BY <1>12, <1>13 DEF Matching
<1>25. \A p \in Blocks : g.term[p].code = "jnz" => g.term[p].t # g.term[p].f
  BY <1>1, <1>12, <1>13 DEF Matching
<1>26. Matching(g)
  BY <1>22, <1>23, <1>24, <1>25 DEF Matching
<1> QED BY <1>4, <1>26

LEMMA EliminateDeadMatching ==
  ASSUME NEW f \in Function, Matching(f)
  PROVE  Matching(EliminateDead(f))
BY ErasePhisType, ErasePhisMatching, EraseOpsMatching DEF EliminateDead

LEMMA ReplaceOneMatching ==
  ASSUME NEW f \in Function, Matching(f), NEW c \in Blocks, NEW v \in Values
  PROVE  Matching(ReplaceOne(f, c, v))
<1> DEFINE S == {<<"op", c>>}
           s == [i \in S |-> IF v = i THEN Null ELSE v]
<1>1. S \in SUBSET Instrs /\ s \in [S -> Values]
  BY OpInstr DEF Values
<1> HIDE DEF S, s
<1>2. Replace(f, s) \in Function /\ Matching(Replace(f, s))
  BY <1>1, ReplaceType, ReplaceMatching
<1>3. Matching(EraseOps(Replace(f, s), {c}))
  BY <1>2, EraseOpsMatching
<1> QED BY <1>3 DEF ReplaceOne, s, S

LEMMA CombineMatching ==
  ASSUME NEW f \in Function, Matching(f), NEW c \in Blocks, NEW g \in Combine(f, c)
  PROVE  Matching(g)
<1>1. CASE g = f
  BY <1>1
<1>2. CASE \E v \in Values : g = ReplaceOne(f, c, v)
  BY <1>2, ReplaceOneMatching
<1>3. CASE \E q \in Op : g = [f EXCEPT !.op[c] = q]
  <2>1. g.body = f.body /\ g.phis = f.phis /\ g.inc = f.inc /\ g.term = f.term
    BY <1>3 DEF Function
  <2>2. \A b, p \in Blocks : Arrives(g, b, p) <=> Arrives(f, b, p)
    BY <2>1 DEF Arrives
  <2> QED BY <2>1, <2>2, MatchingFrame
<1> QED BY <1>1, <1>2, <1>3, CombineCases

-----------------------------------------------------------------------------
LEMMA MatchingInit == Init => Matching(fn)
<1> SUFFICES ASSUME Init PROVE Matching(fn)
  OBVIOUS
<1>1. WellFormed(fn)
  BY SCCPAssumption DEF Init
<1>2. /\ \A b \in Blocks : fn.body[b] = <<b>>
      /\ \A b \in Blocks : fn.term[b].code = "jnz" => fn.term[b].t # fn.term[b].f
      /\ \A b, p \in Blocks : (fn.inc[b][p] # Absent) <=> (b \in fn.phis /\ b \in Succ(fn)[p])
  BY <1>1 DEF WellFormed
<1>3. \A b \in Blocks : fn.body[b] # <<>>
  BY <1>2
<1> QED BY <1>2, <1>3 DEF Matching, Arrives

LEMMA MatchingStep ==
  ASSUME TypeOK, Standing, Matching(fn), [Next]_vars
  PROVE  Matching(fn')
<1>0. fn \in Function
  BY DEF TypeOK
<1>1. CASE RunConstants
  BY <1>0, <1>1, ReplaceConstantsMatching DEF RunConstants, Pass
<1>2. CASE RunCopies
  BY <1>0, <1>2, EliminateCopiesMatching DEF RunCopies, Pass
<1>3. CASE RunBranches
  BY <1>0, <1>3, FoldBranchesMatching DEF RunBranches, Pass
<1>4. CASE RunPhis
  <2>1. cur < N /\ fn' = SimplifyPhi(fn, cur + 1)
    BY <1>4 DEF RunPhis
  <2>2. cur + 1 \in Blocks
    BY <2>1, BlocksAssumption DEF TypeOK, Blocks
  <2> QED BY <1>0, <2>1, <2>2, SimplifyPhiMatching
<1>5. CASE RunBlocks \/ RunDeadBlocks
  BY <1>0, <1>5, RemoveUnreachableMatching DEF RunBlocks, RunDeadBlocks, Pass
<1>6. CASE RunMerge
  BY <1>0, <1>6, MergeBlocksMatching DEF RunMerge, Pass
<1>7. CASE RunDead
  BY <1>0, <1>7, EliminateDeadMatching DEF RunDead, Pass
<1>8. CASE EndMerge
  BY <1>8 DEF EndMerge, Pass
<1>9. CASE (Analyse /\ UNCHANGED <<fn, round, numbering, machines>>)
            \/ EndPhis \/ NextRound \/ StartRun \/ Run
  BY <1>9 DEF EndPhis, NextRound, StartRun, Run
<1>11. CASE (\E b \in Blocks : EnterBlock(b)) \/ EndTurn \/ CombineBlock
  BY <1>11 DEF EnterBlock, EndTurn, CombineBlock
<1>12. CASE NumberNext
  <2>1. PICK c \in Blocks, v \in Values : fn' = fn \/ fn' = ReplaceOne(fn, c, v)
    BY <1>12, NumberNextSteps
  <2> QED BY <1>0, <2>1, ReplaceOneMatching
<1>13. CASE CombineNext
  <2>1. PICK c \in Blocks : fn' \in Combine(fn, c)
    BY <1>13, CombineNextSteps
  <2> QED BY <1>0, <2>1, CombineMatching
<1>10. CASE UNCHANGED vars
  BY <1>10 DEF vars
<1> QED BY <1>1, <1>2, <1>3, <1>4, <1>5, <1>6, <1>7, <1>8, <1>9, <1>10, <1>11, <1>12, <1>13
        DEF Next, Passes

(* Whatever branches are folded, blocks erased and merged, and however often
   the passes are repeated, no phi keeps a value for an edge that is gone and
   none lacks a value for one that is there. *)
THEOREM PhisMatchAlways == Spec => []PhisMatchPreds
<1>1. Init => TypeOK /\ Visiting /\ Standing /\ Matching(fn)
  BY TypeInit, MatchingInit
<1>2. TypeOK /\ Visiting /\ Standing /\ Matching(fn) /\ [Next]_vars
        => TypeOK' /\ Visiting' /\ Standing' /\ Matching(fn)'
  BY TypeStep, StandingStep, MatchingStep
<1>3. Matching(fn) => PhisMatchPreds
  BY DEF Matching, Arrives, PhisMatchPreds, Preds, Live
<1> QED BY <1>1, <1>2, <1>3, PTL DEF Spec

-----------------------------------------------------------------------------
(* What holds between any two steps: every value is there where it is read.
   At place k of block b, the end of which is EndOf(f, b), a phi is available
   if its block dominates b, an instruction if it stands before that. *)
Available(f, v, b, k) ==
  \/ v \in {Const(d) : d \in Data} \cup {Arg}
  \/ \E s \in f.phis \cap Live(f) : v = <<"phi", s>> /\ Dominates(Succ(f), s, b)
  \/ \E s \in Blocks : \E j \in 1 .. Len(f.body[s]) :
       /\ v = <<"op", f.body[s][j]>> /\ f.op[f.body[s][j]].code # "none"
       /\ Dominates(Succ(f), s, b) /\ (s = b => j < k)

(* What is read there; phis read at the end of their predecessors. *)
Wanted(f, b, k, v) ==
  \/ k \in 1 .. Len(f.body[b]) /\ v \in OpReads(f.op[f.body[b][k]])
  \/ k = EndOf(f, b) /\ v \in TermReads(f.term[b])
  \/ k = EndOf(f, b) /\ \E s \in Reachable(Succ(f)) : Arrives(f, s, b) /\ v = f.inc[s][b]

(* An instruction stands in one place. *)
Laid(f) ==
  \A b, c \in Blocks : \A j \in 1 .. Len(f.body[b]), k \in 1 .. Len(f.body[c]) :
    f.body[b][j] = f.body[c][k] => b = c /\ j = k

Strict(f) ==
  /\ Laid(f) /\ Reachable(Succ(f)) \subseteq Live(f) /\ Entry \notin f.phis
  /\ \A b \in Reachable(Succ(f)) : \A k \in 1 .. EndOf(f, b) : \A v :
       Wanted(f, b, k, v) => Available(f, v, b, k)

LEMMA SuccType ==
  ASSUME NEW f \in Function
  PROVE  /\ Succ(f) \in [Blocks -> SUBSET Blocks] /\ {Entry} \in SUBSET Blocks
         /\ Reachable(Succ(f)) \subseteq Blocks
<1>1. ASSUME NEW b \in Blocks PROVE Succ(f)[b] \subseteq Blocks
  <2>1. f.term[b] \in Term
    BY FunctionType
  <2>2. f.term[b].t \in Blocks /\ f.term[b].f \in Blocks
    BY <2>1 DEF Term
  <2>3. Targets(f.term[b]) \subseteq Blocks
    BY <2>2 DEF Targets
  <2> QED BY <2>3, SuccOf
<1>2. {Entry} \in SUBSET Blocks
  BY EntryFirst
<1>3. Succ(f) \in [Blocks -> SUBSET Blocks]
  BY <1>1 DEF Succ
<1> QED BY <1>2, <1>3, ReachClosed DEF Reachable

(* The body of a block is a sequence of blocks. *)
LEMMA BodyType ==
  ASSUME NEW f \in Function, NEW b \in Blocks
  PROVE  /\ f.body[b] \in Seq(Blocks) /\ Len(f.body[b]) \in Nat /\ EndOf(f, b) = Len(f.body[b]) + 1
         /\ \A k \in 1 .. Len(f.body[b]) : f.body[b][k] \in Blocks
BY FunctionType DEF EndOf

LEMMA DominatesReflexive ==
  ASSUME NEW f \in Function, NEW b
  PROVE  Dominates(Succ(f), b, b)
BY SuccType, ReachClosed DEF Dominates

LEMMA DominatesTransitive ==
  ASSUME NEW f \in Function, NEW a, NEW b, NEW c,
         Dominates(Succ(f), a, b), Dominates(Succ(f), b, c)
  PROVE  Dominates(Succ(f), a, c)
BY SuccType, DomTransitive DEF Dominates, DomFrom

LEMMA DominatesBack ==
  ASSUME NEW f \in Function, NEW a, NEW b \in Reachable(Succ(f)),
         Dominates(Succ(f), a, b), Dominates(Succ(f), b, a)
  PROVE  a = b
BY SuccType, DomAntisymmetric DEF Dominates, DomFrom, Reachable

(* What is available somewhere is so at every place that comes after. *)
LEMMA AvailableLater ==
  ASSUME NEW f \in Function, NEW v, NEW s \in Blocks, NEW b \in Reachable(Succ(f)),
         NEW j \in Nat, NEW k \in Nat, Available(f, v, s, j),
         Dominates(Succ(f), s, b), s = b => j <= k
  PROVE  Available(f, v, b, k)
<1>1. CASE v \in {Const(d) : d \in Data} \cup {Arg}
  BY <1>1 DEF Available
<1>2. CASE \E t \in f.phis \cap Live(f) : v = <<"phi", t>> /\ Dominates(Succ(f), t, s)
  BY <1>2, DominatesTransitive DEF Available
<1>3. CASE \E t \in Blocks : \E i \in 1 .. Len(f.body[t]) :
             /\ v = <<"op", f.body[t][i]>> /\ f.op[f.body[t][i]].code # "none"
             /\ Dominates(Succ(f), t, s) /\ (t = s => i < j)
  <2>1. PICK t \in Blocks : \E i \in 1 .. Len(f.body[t]) :
             /\ v = <<"op", f.body[t][i]>> /\ f.op[f.body[t][i]].code # "none"
             /\ Dominates(Succ(f), t, s) /\ (t = s => i < j)
    BY <1>3
  <2>2. PICK i \in 1 .. Len(f.body[t]) :
             /\ v = <<"op", f.body[t][i]>> /\ f.op[f.body[t][i]].code # "none"
             /\ Dominates(Succ(f), t, s) /\ (t = s => i < j)
    BY <2>1
  <2>3. Dominates(Succ(f), t, b)
    BY <2>2, DominatesTransitive
  <2>4. t = b => s = b
    BY <2>2, DominatesBack
  <2>5. t = b => i < k
    BY <2>2, <2>4, BodyType
  <2> QED BY <2>2, <2>3, <2>5 DEF Available
<1> QED BY <1>1, <1>2, <1>3 DEF Available

(* An instruction is available behind its place, and only there. *)
LEMMA OpAvailable ==
  ASSUME NEW f \in Function, Laid(f), NEW s \in Blocks, NEW j \in 1 .. Len(f.body[s]),
         NEW b, NEW k
  PROVE  Available(f, <<"op", f.body[s][j]>>, b, k) <=>
           /\ f.op[f.body[s][j]].code # "none"
           /\ Dominates(Succ(f), s, b) /\ (s = b => j < k)
<1>1. <<"op", f.body[s][j]>> \notin {Const(d) : d \in Data} \cup {Arg}
  BY DEF Const, Arg
<1> QED BY <1>1 DEF Available, Laid

LEMMA PhiAvailable ==
  ASSUME NEW f \in Function, NEW s, NEW b, NEW k
  PROVE  Available(f, <<"phi", s>>, b, k) <=>
           s \in f.phis \cap Live(f) /\ Dominates(Succ(f), s, b)
<1>1. <<"phi", s>> \notin {Const(d) : d \in Data} \cup {Arg}
  BY DEF Const, Arg
<1> QED BY <1>1 DEF Available

(* A function whose blocks stay, but for what erases E. *)
LEMMA StrictFrame ==
  ASSUME NEW f \in Function, NEW g \in Function, Strict(f), NEW E,
         g.body = f.body, Succ(g) = Succ(f), g.phis \subseteq f.phis,
         \A s \in f.phis : <<"phi", s>> \notin E => s \in g.phis,
         \A c \in Blocks : <<"op", c>> \notin E /\ f.op[c].code # "none" => g.op[c].code # "none",
         \A b \in Reachable(Succ(f)) : \A k \in 1 .. EndOf(f, b) : \A v :
           Wanted(g, b, k, v) => Available(f, v, b, k) /\ v \notin E
  PROVE  Strict(g)
<1>1. Live(g) = Live(f) /\ Laid(g) /\ Entry \notin g.phis
  BY DEF Live, Strict, Laid
<1>2. \A b \in Blocks : EndOf(g, b) = EndOf(f, b)
  BY DEF EndOf
<1>3. ASSUME NEW b \in Reachable(Succ(f)), NEW k \in 1 .. EndOf(f, b), NEW v, Wanted(g, b, k, v)
      PROVE  Available(g, v, b, k)
  <2>1. Available(f, v, b, k) /\ v \notin E
    BY <1>3
  <2>2. \A c \in Blocks : \A i \in 1 .. Len(f.body[c]) : f.body[c][i] \in Blocks
    BY BodyType
  <2> QED BY <1>1, <2>1, <2>2 DEF Available
<1>4. Reachable(Succ(f)) \subseteq Blocks
  BY SuccType
<1> QED BY <1>1, <1>2, <1>3, <1>4 DEF Strict

Unwanted(f, S) ==
  \A b \in Reachable(Succ(f)) : \A k \in 1 .. EndOf(f, b) : \A v \in S : ~Wanted(f, b, k, v)

-----------------------------------------------------------------------------
(* The edits that keep blocks and edges. *)
LEMMA ImageReads ==
  ASSUME NEW f \in Function, NEW s, NEW g, g = Replace(f, s)
  PROVE  /\ g.body = f.body /\ g.phis = f.phis /\ Succ(g) = Succ(f)
         /\ \A c \in Blocks : /\ g.op[c].code = f.op[c].code
                              /\ \A v \in OpReads(g.op[c]) : \E w \in OpReads(f.op[c]) : v = Image(s, w)
         /\ \A b \in Blocks : \A v \in TermReads(g.term[b]) : \E w \in TermReads(f.term[b]) : v = Image(s, w)
         /\ \A b, p \in Blocks : g.inc[b][p] = Image(s, f.inc[b][p])
<1>1. g.body = f.body /\ g.phis = f.phis
  BY DEF Replace, Function
<1>2. \A b \in Blocks : g.term[b] = [f.term[b] EXCEPT !.x = Image(s, @)]
  BY DEF Replace, Function
<1>3. \A b \in Blocks : g.op[b] = [f.op[b] EXCEPT !.x = Image(s, @), !.y = Image(s, @)]
  BY DEF Replace, Function
<1>4. \A b, p \in Blocks : g.inc[b][p] = Image(s, f.inc[b][p])
  BY DEF Replace, Function
<1>5. ASSUME NEW b \in Blocks
      PROVE  /\ g.term[b].code = f.term[b].code /\ g.term[b].x = Image(s, f.term[b].x)
             /\ g.term[b].t = f.term[b].t /\ g.term[b].f = f.term[b].f
  <2>1. f.term[b] \in Term
    BY FunctionType
  <2> QED BY <1>2, <2>1 DEF Term
<1>6. ASSUME NEW b \in Blocks
      PROVE  /\ g.op[b].code = f.op[b].code
             /\ g.op[b].x = Image(s, f.op[b].x) /\ g.op[b].y = Image(s, f.op[b].y)
  <2>1. f.op[b] \in Op
    BY FunctionType
  <2> QED BY <1>3, <2>1 DEF Op
<1>7. \A b \in Blocks : Succ(g)[b] = Succ(f)[b]
  BY <1>1, <1>5, SameTargets, SuccOf
<1>8. Succ(g) = Succ(f)
  BY <1>7 DEF Succ
<1>9. \A c \in Blocks : \A v \in OpReads(g.op[c]) : \E w \in OpReads(f.op[c]) : v = Image(s, w)
  BY <1>6 DEF OpReads
<1>10. \A b \in Blocks : \A v \in TermReads(g.term[b]) : \E w \in TermReads(f.term[b]) : v = Image(s, w)
  BY <1>5 DEF TermReads
<1> QED BY <1>1, <1>4, <1>6, <1>8, <1>9, <1>10

LEMMA ReplaceWanted ==
  ASSUME NEW f \in Function, NEW s, Absent \notin DOMAIN s,
         NEW b \in Blocks, NEW k, NEW v, Wanted(Replace(f, s), b, k, v)
  PROVE  \E w : Wanted(f, b, k, w) /\ v = Image(s, w)
<1>1. PICK g : g = Replace(f, s)
  OBVIOUS
<1>2. /\ g.body = f.body /\ g.phis = f.phis /\ Succ(g) = Succ(f)
      /\ \A c \in Blocks : \A u \in OpReads(g.op[c]) : \E w \in OpReads(f.op[c]) : u = Image(s, w)
      /\ \A c \in Blocks : \A u \in TermReads(g.term[c]) : \E w \in TermReads(f.term[c]) : u = Image(s, w)
      /\ \A c, p \in Blocks : g.inc[c][p] = Image(s, f.inc[c][p])
  <2>1. g.body = f.body /\ g.phis = f.phis /\ Succ(g) = Succ(f)
    BY <1>1, ImageReads
  <2>2. \A c \in Blocks : \A u \in OpReads(g.op[c]) : \E w \in OpReads(f.op[c]) : u = Image(s, w)
    BY <1>1, ImageReads
  <2>3. \A c \in Blocks : \A u \in TermReads(g.term[c]) : \E w \in TermReads(f.term[c]) : u = Image(s, w)
    BY <1>1, ImageReads
  <2>4. \A c, p \in Blocks : g.inc[c][p] = Image(s, f.inc[c][p])
    BY <1>1, ImageReads
  <2> QED BY <2>1, <2>2, <2>3, <2>4
<1>3. EndOf(g, b) = EndOf(f, b)
  BY <1>2 DEF EndOf
<1>4. CASE k \in 1 .. Len(g.body[b]) /\ v \in OpReads(g.op[g.body[b][k]])
  <2>1. PICK c \in Blocks : c = f.body[b][k]
    BY <1>2, <1>4, BodyType
  <2>2. \E w \in OpReads(f.op[c]) : v = Image(s, w)
    BY <1>2, <1>4, <2>1
  <2> QED BY <1>2, <1>4, <2>1, <2>2 DEF Wanted
<1>5. CASE k = EndOf(g, b) /\ v \in TermReads(g.term[b])
  BY <1>2, <1>3, <1>5 DEF Wanted
<1>6. CASE k = EndOf(g, b) /\ \E x \in Reachable(Succ(g)) : Arrives(g, x, b) /\ v = g.inc[x][b]
  <2>1. PICK x \in Reachable(Succ(f)) : Arrives(g, x, b) /\ v = g.inc[x][b]
    BY <1>2, <1>6
  <2>2. x \in Blocks
    BY SuccType
  <2>3. v = Image(s, f.inc[x][b])
    BY <1>2, <2>1, <2>2
  <2>4. f.inc[x][b] # Absent
    BY <2>1, <2>2, <1>2 DEF Arrives, Image
  <2> QED BY <1>3, <1>6, <2>3, <2>4 DEF Wanted, Arrives
<1> QED BY <1>1, <1>4, <1>5, <1>6 DEF Wanted

(* Values are replaced with what is available wherever they are. *)
LEMMA ReplaceStrict ==
  ASSUME NEW f \in Function, Strict(f), NEW S \in SUBSET Instrs, NEW s \in [S -> Values],
         \A b \in Reachable(Succ(f)) : \A k \in 1 .. EndOf(f, b) : \A w \in S :
           Available(f, w, b, k) => Available(f, s[w], b, k) /\ s[w] \notin S
  PROVE  Strict(Replace(f, s)) /\ Unwanted(Replace(f, s), S)
<1>1. PICK g : g = Replace(f, s)
  OBVIOUS
<1>2. /\ g.body = f.body /\ g.phis = f.phis /\ Succ(g) = Succ(f)
      /\ \A c \in Blocks : g.op[c].code = f.op[c].code
  BY <1>1, ImageReads
<1>3. g \in Function
  BY <1>1, ReplaceType
<1>4. \A b \in Blocks : EndOf(g, b) = EndOf(f, b)
  BY <1>2 DEF EndOf
<1>0. Absent \notin DOMAIN s
  BY SCCPAssumption DEF Values
<1>5. ASSUME NEW b \in Reachable(Succ(f)), NEW k \in 1 .. EndOf(f, b), NEW v, Wanted(g, b, k, v)
      PROVE  Available(f, v, b, k) /\ v \notin S
  <2>1. b \in Blocks
    BY SuccType
  <2>2. PICK w : Wanted(f, b, k, w) /\ v = Image(s, w)
    BY <1>0, <1>1, <1>5, <2>1, ReplaceWanted
  <2>3. Available(f, w, b, k)
    BY <2>2 DEF Strict
  <2> QED BY <2>2, <2>3 DEF Image
<1>6. Strict(g)
  BY <1>2, <1>3, <1>5, StrictFrame
<1>7. Unwanted(g, S)
  BY <1>2, <1>4, <1>5, SuccType DEF Unwanted
<1> QED BY <1>1, <1>6, <1>7

(* What is erased with what it reads. *)
LEMMA EraseOpsWanted ==
  ASSUME NEW f \in Function, NEW C, NEW g, g = EraseOps(f, C)
  PROVE  /\ g \in Function /\ g.body = f.body /\ g.phis = f.phis /\ g.inc = f.inc /\ g.term = f.term
         /\ Succ(g) = Succ(f)
         /\ \A c \in Blocks : c \notin C => g.op[c] = f.op[c]
         /\ \A c \in Blocks \cap C : OpReads(g.op[c]) = {} /\ g.op[c].code = "none"
         /\ \A b \in Blocks : \A k, v : Wanted(g, b, k, v) => Wanted(f, b, k, v)
<1>1. g \in Function
  BY EraseOpsType
<1>2. g.body = f.body /\ g.phis = f.phis /\ g.inc = f.inc /\ g.term = f.term
  BY DEF EraseOps, Function
<1>3. Succ(g) = Succ(f)
  BY <1>2 DEF Succ
<1>4. \A c \in Blocks : c \notin C => g.op[c] = f.op[c]
  BY DEF EraseOps, Function
<1>5. ASSUME NEW c \in Blocks \cap C PROVE g.op[c].code = "none"
  <2>1. g.op[c] = [f.op[c] EXCEPT !.code = "none", !.x = Null, !.y = Null]
    BY DEF EraseOps, Function
  <2>2. f.op[c] \in Op
    BY FunctionType
  <2> QED BY <2>1, <2>2 DEF Op
<1>6. \A c \in Blocks \cap C : OpReads(g.op[c]) = {}
  BY <1>5 DEF OpReads
<1>7. \A b \in Blocks : EndOf(g, b) = EndOf(f, b)
  BY <1>2 DEF EndOf
<1>8. \A c \in Blocks : OpReads(g.op[c]) \subseteq OpReads(f.op[c])
  BY <1>4, <1>6
<1>9. \A b, k : b \in Blocks /\ k \in 1 .. Len(f.body[b]) => f.body[b][k] \in Blocks
  BY BodyType
<1>10. \A b \in Blocks : \A k, v : Wanted(g, b, k, v) => Wanted(f, b, k, v)
  BY <1>2, <1>3, <1>7, <1>8, <1>9 DEF Wanted, Arrives
<1> QED BY <1>1, <1>2, <1>3, <1>4, <1>5, <1>6, <1>10

LEMMA EraseOpsStrict ==
  ASSUME NEW f \in Function, Strict(f), NEW C, NEW g, g = EraseOps(f, C),
         Unwanted(g, {"op"} \X C)
  PROVE  Strict(g)
<1>1. /\ g \in Function /\ g.body = f.body /\ g.phis = f.phis /\ Succ(g) = Succ(f)
      /\ \A c \in Blocks : c \notin C => g.op[c] = f.op[c]
      /\ \A b \in Blocks : \A k, v : Wanted(g, b, k, v) => Wanted(f, b, k, v)
  BY EraseOpsWanted
<1>2. \A b \in Blocks : EndOf(g, b) = EndOf(f, b)
  BY <1>1 DEF EndOf
<1>3. \A b \in Reachable(Succ(f)) : \A k \in 1 .. EndOf(f, b) : \A v :
        Wanted(g, b, k, v) => Available(f, v, b, k) /\ v \notin {"op"} \X C
  BY <1>1, <1>2, SuccType DEF Unwanted, Strict
<1>4. \A c \in Blocks : <<"op", c>> \notin {"op"} \X C /\ f.op[c].code # "none" => g.op[c].code # "none"
  BY <1>1
<1>5. \A s \in f.phis : <<"phi", s>> \notin {"op"} \X C => s \in g.phis
  BY <1>1
<1> QED BY <1>1, <1>3, <1>4, <1>5, StrictFrame

LEMMA ErasePhisWanted ==
  ASSUME NEW f \in Function, NEW B, NEW g, g = ErasePhis(f, B)
  PROVE  /\ g \in Function /\ g.body = f.body /\ g.phis = f.phis \ B /\ g.op = f.op /\ g.term = f.term
         /\ Succ(g) = Succ(f)
         /\ \A b, p \in Blocks : Arrives(g, b, p) <=> b \notin B /\ Arrives(f, b, p)
         /\ \A b, p \in Blocks : b \notin B => g.inc[b][p] = f.inc[b][p]
         /\ \A b \in Blocks : \A k, v : Wanted(g, b, k, v) => Wanted(f, b, k, v)
<1>1. /\ g.body = f.body /\ g.term = f.term /\ g.phis = f.phis \ B
      /\ \A b, p \in Blocks : Arrives(g, b, p) <=> b \notin B /\ Arrives(f, b, p)
  BY ErasePhisParts
<1>2. g.op = f.op /\ g \in Function
  BY ErasePhisType DEF ErasePhis, Function
<1>3. Succ(g) = Succ(f)
  BY <1>1 DEF Succ
<1>4. \A b, p \in Blocks : b \notin B => g.inc[b][p] = f.inc[b][p]
  BY DEF ErasePhis, Function
<1>5. \A b \in Blocks : EndOf(g, b) = EndOf(f, b)
  BY <1>1 DEF EndOf
<1>6. Reachable(Succ(f)) \subseteq Blocks
  BY SuccType
<1>7. \A b \in Blocks : \A k, v : Wanted(g, b, k, v) => Wanted(f, b, k, v)
  BY <1>1, <1>2, <1>3, <1>4, <1>5, <1>6 DEF Wanted
<1> QED BY <1>1, <1>2, <1>3, <1>4, <1>7

LEMMA ErasePhisStrict ==
  ASSUME NEW f \in Function, Strict(f), NEW B, NEW g, g = ErasePhis(f, B),
         Unwanted(g, {"phi"} \X B)
  PROVE  Strict(g)
<1>1. /\ g \in Function /\ g.body = f.body /\ g.phis = f.phis \ B /\ Succ(g) = Succ(f) /\ g.op = f.op
      /\ \A b \in Blocks : \A k, v : Wanted(g, b, k, v) => Wanted(f, b, k, v)
  BY ErasePhisWanted
<1>2. \A b \in Blocks : EndOf(g, b) = EndOf(f, b)
  BY <1>1 DEF EndOf
<1>3. \A b \in Reachable(Succ(f)) : \A k \in 1 .. EndOf(f, b) : \A v :
        Wanted(g, b, k, v) => Available(f, v, b, k) /\ v \notin {"phi"} \X B
  BY <1>1, <1>2, SuccType DEF Unwanted, Strict
<1>4. \A c \in Blocks : <<"op", c>> \notin {"phi"} \X B /\ f.op[c].code # "none" => g.op[c].code # "none"
  BY <1>1
<1>5. \A s \in f.phis : <<"phi", s>> \notin {"phi"} \X B => s \in g.phis
  BY <1>1
<1> QED BY <1>1, <1>3, <1>4, <1>5, StrictFrame

(* What was not wanted is not wanted when less is. *)
LEMMA UnwantedFrame ==
  ASSUME NEW f \in Function, NEW g, NEW S, Unwanted(f, S), g.body = f.body, Succ(g) = Succ(f),
         \A b \in Blocks : \A k, v : Wanted(g, b, k, v) => Wanted(f, b, k, v)
  PROVE  Unwanted(g, S)
<1>1. \A b \in Blocks : EndOf(g, b) = EndOf(f, b)
  BY DEF EndOf
<1> QED BY <1>1, SuccType DEF Unwanted

LEMMA ReplaceConstantsStrict ==
  ASSUME NEW f \in Function, Strict(f)
  PROVE  Strict(ReplaceConstants(f))
<1> DEFINE S == {"op"} \X Known(f)
           s == [i \in S |-> Const(CHOOSE d \in Data : d \in lat[i])]
<1>1. S \in SUBSET Instrs
  BY DEF Known, Pieces, Instrs
<1>2. ASSUME NEW i \in S PROVE s[i] \in {Const(d) : d \in Data}
  <2>1. PICK c \in Known(f) : i = <<"op", c>>
    OBVIOUS
  <2>2. \E d \in Data : d \in lat[i]
    BY <2>1 DEF Known
  <2>3. (CHOOSE d \in Data : d \in lat[i]) \in Data
    BY <2>2
  <2> QED BY <2>3
<1>3. s \in [S -> Values]
  BY <1>2 DEF Values
<1>4. \A i \in S : s[i] \notin S
  <2>1. \A d \in Data : Const(d) \notin S
    BY DEF Const
  <2> QED BY <1>2, <2>1
<1>5. ReplaceConstants(f) = EraseOps(Replace(f, s), Known(f))
  BY DEF ReplaceConstants
<1> HIDE DEF s
<1>6. \A b \in Reachable(Succ(f)) : \A k \in 1 .. EndOf(f, b) : \A w \in S :
        Available(f, w, b, k) => Available(f, s[w], b, k) /\ s[w] \notin S
  BY <1>2, <1>4 DEF Available
<1> HIDE DEF S
<1>7. PICK g : g = Replace(f, s)
  OBVIOUS
<1>8. g \in Function /\ Strict(g) /\ Unwanted(g, S)
  BY <1>1, <1>3, <1>6, <1>7, ReplaceType, ReplaceStrict
<1>9. PICK h : h = EraseOps(g, Known(f))
  OBVIOUS
<1>10. Unwanted(h, S)
  BY <1>8, <1>9, EraseOpsWanted, UnwantedFrame
<1>11. Strict(h)
  BY <1>8, <1>9, <1>10, EraseOpsStrict DEF S
<1> QED BY <1>5, <1>7, <1>9, <1>11

(* One instruction is replaced with what is available in its place. *)
LEMMA ReplaceAtPlace ==
  ASSUME NEW f \in Function, Strict(f), NEW s \in Blocks, NEW j \in 1 .. Len(f.body[s]),
         NEW v \in Values, s \in Reachable(Succ(f)) => Available(f, v, s, j)
  PROVE  Strict(ReplaceOne(f, f.body[s][j], v))
<1>1. PICK c \in Blocks : c = f.body[s][j]
  BY BodyType
<1> DEFINE S == {<<"op", c>>}
           r == [i \in S |-> IF v = i THEN Null ELSE v]
<1>2. S \in SUBSET Instrs /\ r \in [S -> Values] /\ S = {"op"} \X {c}
  <2>1. S \in SUBSET Instrs /\ r \in [S -> Values]
    BY OpInstr DEF Values
  <2>2. \A i : i \in S <=> i \in {"op"} \X {c}
    OBVIOUS
  <2> QED BY <2>1, <2>2
<1>3. ASSUME NEW b \in Reachable(Succ(f)), NEW k \in 1 .. EndOf(f, b), Available(f, <<"op", c>>, b, k)
      PROVE  Available(f, v, b, k) /\ v # <<"op", c>>
  <2>1. Laid(f)
    BY DEF Strict
  <2>2. b \in Blocks /\ k \in Nat /\ j \in Nat
    BY SuccType, BodyType
  <2>3. Dominates(Succ(f), s, b) /\ (s = b => j < k)
    BY <1>1, <1>3, <2>1, OpAvailable
  <2>4. s \in Reachable(Succ(f))
    BY <2>3, SuccType, DominatorReached
  <2>5. Available(f, v, s, j)
    BY <2>4
  <2>6. Available(f, v, b, k)
    BY <2>2, <2>3, <2>5, AvailableLater
  <2>7. ~Available(f, <<"op", c>>, s, j)
    BY <1>1, <2>1, <2>2, OpAvailable
  <2> QED BY <2>5, <2>6, <2>7
<1>4. \A i \in S : r[i] = IF v = i THEN Null ELSE v
  OBVIOUS
<1>5. ReplaceOne(f, c, v) = EraseOps(Replace(f, r), {c})
  BY DEF ReplaceOne
<1> HIDE DEF r
<1>6. \A b \in Reachable(Succ(f)) : \A k \in 1 .. EndOf(f, b) : \A w \in S :
        Available(f, w, b, k) => Available(f, r[w], b, k) /\ r[w] \notin S
  BY <1>3, <1>4
<1> HIDE DEF S
<1>7. PICK g : g = Replace(f, r)
  OBVIOUS
<1>8. g \in Function /\ Strict(g) /\ Unwanted(g, S)
  BY <1>2, <1>6, <1>7, ReplaceType, ReplaceStrict
<1>9. PICK h : h = EraseOps(g, {c})
  OBVIOUS
<1>10. Unwanted(h, S)
  BY <1>8, <1>9, EraseOpsWanted, UnwantedFrame
<1>11. Strict(h)
  BY <1>2, <1>8, <1>9, <1>10, EraseOpsStrict
<1> QED BY <1>1, <1>5, <1>7, <1>9, <1>11

(* An operand of an instruction that is reached is available in its place. *)
LEMMA ReadAvailable ==
  ASSUME NEW f \in Function, Strict(f), NEW s \in Reachable(Succ(f)), NEW j \in 1 .. Len(f.body[s]),
         NEW v \in OpReads(f.op[f.body[s][j]])
  PROVE  Available(f, v, s, j)
<1>1. j \in 1 .. EndOf(f, s)
  BY SuccType, BodyType
<1> QED BY <1>1 DEF Strict, Wanted

LEMMA IdentityAvailable ==
  ASSUME NEW f \in Function, NEW s, NEW j, NEW o,
         o.code = "pure" => \A v \in {o.x, o.y} : Available(f, v, s, j),
         NEW ids \in SUBSET Identity, NEW w \in ByIdentity(ids, o)
  PROVE  Available(f, w, s, j)
<1>1. o.code = "pure"
  BY DEF ByIdentity
<1>2. PICK i \in ids, v \in {o.x, o.y} : w = Instance(i.is, v)
  BY DEF ByIdentity
<1>3. i.is = Any \/ i.is \in {Const(d) : d \in Data}
  BY DEF Identity, Pattern
<1>4. w = v \/ w \in {Const(d) : d \in Data}
  BY <1>2, <1>3 DEF Instance
<1> QED BY <1>1, <1>2, <1>4 DEF Available

(* What GVN replaces an instruction with, when the table holds instructions
   that stand before it or elsewhere. *)
LEMMA RedundantAvailable ==
  ASSUME NEW f \in Function, Strict(f), NEW s \in Reachable(Succ(f)), NEW j \in 1 .. Len(f.body[s]),
         NEW T \in SUBSET (Blocks \X Op),
         \A t \in T : /\ f.op[t[1]].code # "none"
                      /\ \E b \in Blocks : \E i \in 1 .. Len(f.body[b]) :
                           f.body[b][i] = t[1] /\ (b = s => i < j),
         NEW v \in Redundant(f, T, s, f.body[s][j])
  PROVE  Available(f, v, s, j)
<1>1. PICK c \in Blocks : c = f.body[s][j]
  BY SuccType, BodyType
<1>2. PICK o \in Op : o = f.op[c]
  BY FunctionType
<1>3. \A w \in OpReads(o) : Available(f, w, s, j)
  BY <1>1, <1>2, ReadAvailable
<1>4. v \in IF ByCopy(c, o) # {} THEN ByCopy(c, o)
            ELSE IF ByFolding(o) # {} THEN ByFolding(o)
            ELSE IF ByIdentity(NumberingIdentities, o) # {} THEN ByIdentity(NumberingIdentities, o)
            ELSE Originals(f, T, s, o)
  BY <1>1, <1>2 DEF Redundant
<1>5. CASE v \in ByCopy(c, o)
  <2>1. o.code = "copy" /\ v = o.x
    BY <1>5 DEF ByCopy
  <2> QED BY <1>3, <2>1 DEF OpReads
<1>6. CASE v \in ByFolding(o)
  <2>1. PICK d \in Data, e \in Data : /\ Apply[o.fun][<<d, e>>] # Undef
                                      /\ v = Const(Apply[o.fun][<<d, e>>])
    BY <1>6 DEF ByFolding
  <2>2. o.fun \in DOMAIN Apply
    BY DEF Op
  <2>3. Apply[o.fun] \in [Data \X Data -> Data \cup {Undef}]
    BY <2>2, SCCPAssumption
  <2>4. Apply[o.fun][<<d, e>>] \in Data
    BY <2>1, <2>3
  <2> QED BY <2>1, <2>4 DEF Available
<1>7. CASE v \in ByIdentity(NumberingIdentities, o)
  <2>1. NumberingIdentities \in SUBSET Identity
    BY SimplificationAssumption
  <2>2. o.code = "pure" => \A w \in {o.x, o.y} : Available(f, w, s, j)
    BY <1>3 DEF OpReads
  <2> QED BY <1>7, <2>1, <2>2, IdentityAvailable
<1>8. CASE v \in Originals(f, T, s, o)
  <2>1. PICK t \in T : v = <<"op", t[1]>> /\ t[1] \in Pieces(f, DomSetOf(Succ(f), s))
    BY <1>8 DEF Originals
  <2>0. PICK b \in DomSetOf(Succ(f), s) : \E i \in 1 .. Len(f.body[b]) : t[1] = f.body[b][i]
    BY <2>1 DEF Pieces
  <2>2. PICK i \in 1 .. Len(f.body[b]) : t[1] = f.body[b][i]
    BY <2>0
  <2>3. b \in Blocks
    BY DEF DomSetOf
  <2>4. Dominates(Succ(f), b, s)
    <3>1. PICK R : R = ReachAvoiding(Succ(f), Roots(Succ(f)), {b})
      OBVIOUS
    <3>2. Roots(Succ(f)) \in SUBSET Blocks /\ {Entry} \subseteq Roots(Succ(f))
      BY EntryFirst DEF Roots
    <3>3. Roots(Succ(f)) \ {b} \subseteq R /\ \A x \in R : Succ(f)[x] \ {b} \subseteq R
      BY <3>1, <3>2, SuccType, ReachClosed
    <3>4. {Entry} \ {b} \subseteq R
      BY <3>2, <3>3
    <3>5. ReachAvoiding(Succ(f), {Entry}, {b}) \subseteq R
      BY <3>3, <3>4, ReachLeast
    <3>6. s \notin R
      BY <3>1 DEF DomSetOf
    <3> QED BY <3>5, <3>6 DEF Dominates
  <2>a. PICK a \in Blocks : \E k \in 1 .. Len(f.body[a]) : f.body[a][k] = t[1] /\ (a = s => k < j)
    OBVIOUS
  <2>5. PICK k \in 1 .. Len(f.body[a]) : f.body[a][k] = t[1] /\ (a = s => k < j)
    BY <2>a
  <2>6. a = b /\ k = i
    BY <2>2, <2>3, <2>5 DEF Strict, Laid
  <2>7. f.op[f.body[b][i]].code # "none" /\ v = <<"op", f.body[b][i]>>
    BY <2>1, <2>2
  <2> QED BY <2>2, <2>3, <2>4, <2>5, <2>6, <2>7 DEF Available
<1> QED BY <1>4, <1>5, <1>6, <1>7, <1>8

(* An operation is given other operands, that are available in its place. *)
LEMMA OperandsChanged ==
  ASSUME NEW f \in Function, Strict(f), NEW s \in Blocks, NEW j \in 1 .. Len(f.body[s]),
         NEW q \in Op, q.code # "none",
         s \in Reachable(Succ(f)) => \A v \in OpReads(q) : Available(f, v, s, j)
  PROVE  Strict([f EXCEPT !.op[f.body[s][j]] = q])
<1>1. PICK c \in Blocks : c = f.body[s][j]
  BY BodyType
<1>2. PICK g : g = [f EXCEPT !.op[c] = q]
  OBVIOUS
<1>3. /\ g.body = f.body /\ g.phis = f.phis /\ g.inc = f.inc /\ g.term = f.term
      /\ g.op = [f.op EXCEPT ![c] = q]
  BY <1>2 DEF Function
<1>4. g \in Function
  <2>1. [f.op EXCEPT ![c] = q] \in [Blocks -> Op]
    BY FunctionType
  <2>2. g = [f EXCEPT !.op = [f.op EXCEPT ![c] = q]]
    BY <1>2
  <2> QED BY <2>1, <2>2, WithOp
<1>5. Succ(g) = Succ(f)
  BY <1>3 DEF Succ
<1>6. g.op[c] = q /\ \A d \in Blocks : d # c => g.op[d] = f.op[d]
  BY <1>3, FunctionType
<1>7. ASSUME NEW b \in Reachable(Succ(f)), NEW k \in 1 .. EndOf(f, b), NEW v, Wanted(g, b, k, v)
      PROVE  Available(f, v, b, k)
  <2>1. b \in Blocks
    BY SuccType
  <2>2. EndOf(g, b) = EndOf(f, b)
    BY <1>3 DEF EndOf
  <2>3. CASE k \in 1 .. Len(f.body[b]) /\ v \in OpReads(g.op[f.body[b][k]])
    <3>1. CASE f.body[b][k] = c
      <4>1. b = s /\ k = j
        BY <1>1, <2>1, <2>3, <3>1 DEF Strict, Laid
      <4> QED BY <1>6, <2>3, <3>1, <4>1
    <3>2. CASE f.body[b][k] # c
      <4>1. f.body[b][k] \in Blocks
        BY <2>1, <2>3, BodyType
      <4>2. Wanted(f, b, k, v)
        BY <1>6, <2>3, <3>2, <4>1 DEF Wanted
      <4> QED BY <4>2 DEF Strict
    <3> QED BY <3>1, <3>2
  <2>4. CASE ~(k \in 1 .. Len(f.body[b]) /\ v \in OpReads(g.op[f.body[b][k]]))
    <3>1. Wanted(f, b, k, v)
      BY <1>3, <1>5, <1>7, <2>2, <2>4 DEF Wanted, Arrives
    <3> QED BY <3>1 DEF Strict
  <2> QED BY <2>3, <2>4
<1>8. PICK E : E = {}
  OBVIOUS
<1>9. /\ \A x \in f.phis : <<"phi", x>> \notin E => x \in g.phis
      /\ \A x \in Blocks : <<"op", x>> \notin E /\ f.op[x].code # "none" => g.op[x].code # "none"
      /\ \A b \in Reachable(Succ(f)) : \A k \in 1 .. EndOf(f, b) : \A v :
           Wanted(g, b, k, v) => Available(f, v, b, k) /\ v \notin E
  BY <1>3, <1>6, <1>7, <1>8
<1>10. Strict(g)
  BY <1>3, <1>4, <1>5, <1>9, StrictFrame
<1> QED BY <1>1, <1>2, <1>10

(* The operation that an operand was computed with is read in its place. *)
LEMMA ReassociatedAvailable ==
  ASSUME NEW f \in Function, Strict(f), NEW s \in Blocks, NEW j \in 1 .. Len(f.body[s]),
         NEW q \in Reassociated(f, f.op[f.body[s][j]])
  PROVE  /\ q \in Op /\ q.code = "pure" /\ q.x \in Values
         /\ s \in Reachable(Succ(f)) => \A v \in OpReads(q) : Available(f, v, s, j)
<1>1. PICK c \in Blocks : c = f.body[s][j]
  BY BodyType
<1>2. PICK o \in Op : o = f.op[c]
  BY FunctionType
<1>3. PICK t \in Blocks, d \in Data, e \in Data :
        /\ o.code = "pure" /\ o.fun \in Associating
        /\ o.x = <<"op", t>>
        /\ f.op[t].code = "pure"
        /\ q = [o EXCEPT !.x = f.op[t].x, !.y = Const(Apply[o.fun][<<d, e>>])]
  <2>1. PICK u \in Blocks \X Data \X Data :
          /\ o.code = "pure" /\ o.fun \in Associating
          /\ o.x = <<"op", u[1]>>
          /\ f.op[u[1]].code = "pure"
          /\ q = [o EXCEPT !.x = f.op[u[1]].x, !.y = Const(Apply[o.fun][<<u[2], u[3]>>])]
    BY <1>1, <1>2 DEF Reassociated
  <2>2. u[1] \in Blocks /\ u[2] \in Data /\ u[3] \in Data
    OBVIOUS
  <2> QED BY <2>1, <2>2
<1>4. q \in Op
  BY <1>1, <1>2, ReassociatedType
<1>5. q.code = "pure" /\ q.x = f.op[t].x /\ q.y = Const(Apply[o.fun][<<d, e>>])
  BY <1>3 DEF Op
<1>6. q.x \in Values
  BY <1>4 DEF Op
<1>7. Apply[o.fun][<<d, e>>] \in Data
  BY <1>3, SimplificationAssumption
<1>8. ASSUME s \in Reachable(Succ(f)) PROVE Available(f, q.x, s, j)
  <2>1. Available(f, <<"op", t>>, s, j)
    <3>1. o.x \in OpReads(o)
      BY <1>3 DEF OpReads
    <3> QED BY <1>1, <1>2, <1>3, <1>8, <3>1, ReadAvailable
  <2>2. <<"op", t>> \notin {Const(x) : x \in Data} \cup {Arg}
    BY DEF Const, Arg
  <2>3. PICK b \in Blocks : \E i \in 1 .. Len(f.body[b]) :
          t = f.body[b][i] /\ Dominates(Succ(f), b, s) /\ (b = s => i < j)
    BY <2>1, <2>2 DEF Available
  <2>4. PICK i \in 1 .. Len(f.body[b]) :
          t = f.body[b][i] /\ Dominates(Succ(f), b, s) /\ (b = s => i < j)
    BY <2>3
  <2>5. b \in Reachable(Succ(f))
    BY <1>8, <2>4, SuccType, DominatorReached
  <2>6. Available(f, q.x, b, i)
    <3>1. f.op[t].x \in OpReads(f.op[t])
      BY <1>3 DEF OpReads
    <3> QED BY <1>5, <2>4, <2>5, <3>1, ReadAvailable
  <2>7. i \in Nat /\ j \in Nat
    BY BodyType
  <2> QED BY <1>8, <2>4, <2>6, <2>7, AvailableLater
<1>9. Available(f, q.y, s, j)
  BY <1>5, <1>7 DEF Available
<1>10. OpReads(q) = {q.x, q.y}
  BY <1>5 DEF OpReads
<1> QED BY <1>4, <1>5, <1>6, <1>8, <1>9, <1>10

LEMMA CombineStrict ==
  ASSUME NEW f \in Function, Strict(f), NEW s \in Blocks, NEW j \in 1 .. Len(f.body[s]),
         NEW g \in Combine(f, f.body[s][j])
  PROVE  Strict(g)
<1>1. PICK c \in Blocks : c = f.body[s][j]
  BY BodyType
<1>2. PICK o \in Op : o = f.op[c]
  BY FunctionType
<1>3. PICK same, joined : same = ByIdentity(CombineIdentities, o) /\ joined = Reassociated(f, o)
  OBVIOUS
<1>4. g \in IF same # {} THEN {ReplaceOne(f, c, v) : v \in same}
            ELSE IF joined = {} THEN {f}
            ELSE {IF q.y # Const(Zero) THEN [f EXCEPT !.op[c] = q]
                  ELSE IF q.x = Null THEN f ELSE ReplaceOne(f, c, q.x) : q \in joined}
  BY <1>1, <1>2, <1>3 DEF Combine
<1>5. CASE \E v \in same : g = ReplaceOne(f, c, v)
  <2>1. PICK v \in same : g = ReplaceOne(f, c, v)
    BY <1>5
  <2>2. CombineIdentities \in SUBSET Identity
    BY SimplificationAssumption
  <2>3. ASSUME s \in Reachable(Succ(f)) PROVE Available(f, v, s, j)
    <3>1. o.code = "pure" => \A w \in {o.x, o.y} : Available(f, w, s, j)
      BY <1>1, <1>2, <2>3, ReadAvailable DEF OpReads
    <3> QED BY <1>3, <2>2, <3>1, IdentityAvailable
  <2>4. v \in Values
    BY <1>3 DEF ByIdentity
  <2> QED BY <1>1, <2>1, <2>3, <2>4, ReplaceAtPlace
<1>6. CASE g = f
  BY <1>6
<1>7. CASE \E q \in joined : g = [f EXCEPT !.op[c] = q]
  <2>1. PICK q \in joined : g = [f EXCEPT !.op[c] = q]
    BY <1>7
  <2>2. /\ q \in Op /\ q.code = "pure"
        /\ s \in Reachable(Succ(f)) => \A v \in OpReads(q) : Available(f, v, s, j)
    BY <1>1, <1>2, <1>3, ReassociatedAvailable
  <2> QED BY <1>1, <2>1, <2>2, OperandsChanged
<1>8. CASE \E q \in joined : g = ReplaceOne(f, c, q.x)
  <2>1. PICK q \in joined : g = ReplaceOne(f, c, q.x)
    BY <1>8
  <2>2. /\ q.code = "pure" /\ q.x \in Values
        /\ s \in Reachable(Succ(f)) => \A v \in OpReads(q) : Available(f, v, s, j)
    BY <1>1, <1>2, <1>3, ReassociatedAvailable
  <2>3. s \in Reachable(Succ(f)) => Available(f, q.x, s, j)
    BY <2>2 DEF OpReads
  <2> QED BY <1>1, <2>1, <2>2, <2>3, ReplaceAtPlace
<1> QED BY <1>4, <1>5, <1>6, <1>7, <1>8

-----------------------------------------------------------------------------
(* CopyElimination follows the copies of copies. *)
IsCopyOf(f, v) == v[1] = "op" /\ v[2] \in Copies(f)

Copied(f) == {v \in {f.op[c].x : c \in Copies(f)} : ~IsCopyOf(f, v)}

Followed(f, r) ==
  /\ r[0] = [c \in Blocks |-> f.op[c].x]
  /\ \A n \in Nat : n < N =>
       r[n + 1] = [c \in Blocks |-> IF IsCopyOf(f, r[n][c]) THEN f.op[r[n][c][2]].x ELSE r[n][c]]

LEMMA CopiesFollowed ==
  ASSUME NEW f \in Function
  PROVE  \E r \in [0 .. N -> [Blocks -> Values]] :
           /\ Followed(f, r)
           /\ EliminateCopies(f) =
                EraseOps(Replace(f, [i \in {"op"} \X Copies(f) |->
                  IF r[N][i[2]] \in Copied(f) THEN r[N][i[2]] ELSE Null]), Copies(f))
<1> DEFINE body(g, n) == [c \in Blocks |->
             LET v == IF n = 0 THEN f.op[c].x ELSE g[n - 1][c]
             IN  IF n > 0 /\ IsCopyOf(f, v) THEN f.op[v[2]].x ELSE v]
           source == CHOOSE g : g = [n \in 0 .. N |-> body(g, n)]
           D == [Blocks -> Values]
           F == [q \in D |-> [c \in Blocks |-> IF IsCopyOf(f, q[c]) THEN f.op[q[c][2]].x ELSE q[c]]]
           a == [c \in Blocks |-> f.op[c].x]
<1>1. \A c \in Blocks : f.op[c].x \in Values
  BY FunctionType DEF Op
<1>2. a \in D
  BY <1>1
<1>3. F \in [D -> D]
  <2> SUFFICES ASSUME NEW q \in D, NEW c \in Blocks
               PROVE  (IF IsCopyOf(f, q[c]) THEN f.op[q[c][2]].x ELSE q[c]) \in Values
    OBVIOUS
  <2>1. IsCopyOf(f, q[c]) => q[c][2] \in Blocks
    BY DEF IsCopyOf, Copies, Pieces
  <2> QED BY <1>1, <2>1
<1>4. \A q \in D : F[q] = [c \in Blocks |-> IF IsCopyOf(f, q[c]) THEN f.op[q[c][2]].x ELSE q[c]]
  OBVIOUS
<1> HIDE DEF F, a, D
<1>5. PICK r \in [0 .. N -> D] : r[0] = a /\ \A n \in Nat : n < N => r[n + 1] = F[r[n]]
  <2>1. \A x \in D : F[x] \in D
    BY <1>3
  <2>2. \E g : Iteration(D, F, a, N, g)
    BY <1>2, <2>1, Iterates, BlocksAssumption
  <2> QED BY <2>2 DEF Iteration
<1>6. ASSUME NEW n \in 0 .. N PROVE r[n] = body(r, n)
  <2>1. CASE n = 0
    BY <1>5, <2>1 DEF a
  <2>2. CASE n # 0
    <3>1. n - 1 \in Nat /\ n - 1 < N /\ (n - 1) + 1 = n /\ n - 1 \in 0 .. N /\ n > 0
      BY <2>2, BlocksAssumption
    <3>2. r[n] = F[r[n - 1]] /\ r[n - 1] \in D
      BY <1>5, <3>1
    <3>3. r[n] = [c \in Blocks |-> IF IsCopyOf(f, r[n - 1][c]) THEN f.op[r[n - 1][c][2]].x ELSE r[n - 1][c]]
      BY <1>4, <3>2
    <3> QED BY <2>2, <3>1, <3>3
  <2> QED BY <2>1, <2>2
<1>7. r = [n \in 0 .. N |-> body(r, n)]
  BY <1>6
<1>8. source = [n \in 0 .. N |-> body(source, n)]
  BY <1>7
<1>9. EliminateCopies(f) =
        EraseOps(Replace(f, [i \in {"op"} \X Copies(f) |->
          IF source[N][i[2]] \in Copied(f) THEN source[N][i[2]] ELSE Null]), Copies(f))
  BY DEF EliminateCopies, Copied, IsCopyOf
<1> HIDE DEF source
<1>10. source[0] = a /\ source[0] \in D
  BY <1>2, <1>8, BlocksAssumption DEF a
<1>11. ASSUME NEW n \in Nat, n < N
       PROVE  source[n + 1] = [c \in Blocks |-> IF IsCopyOf(f, source[n][c])
                                               THEN f.op[source[n][c][2]].x ELSE source[n][c]]
  <2>1. n + 1 \in 0 .. N /\ n + 1 # 0 /\ n + 1 > 0 /\ (n + 1) - 1 = n
    BY <1>11, BlocksAssumption
  <2>2. source[n + 1] = body(source, n + 1)
    BY <1>8, <2>1
  <2> QED BY <2>1, <2>2
<1> DEFINE T == {n \in Nat : n <= N => source[n] \in D}
<1>12. 0 \in T
  BY <1>10
<1>13. ASSUME NEW n \in Nat, n \in T PROVE n + 1 \in T
  <2> SUFFICES ASSUME n + 1 <= N PROVE source[n + 1] \in D
    OBVIOUS
  <2>1. n < N /\ source[n] \in D
    BY <1>13, BlocksAssumption
  <2>2. F[source[n]] \in D /\ F[source[n]] = source[n + 1]
    BY <1>3, <1>4, <1>11, <2>1
  <2> QED BY <2>2
<1> HIDE DEF T
<1>14. \A n \in Nat : n \in T
  BY <1>12, <1>13, Induction
<1>15. \A n \in 0 .. N : source[n] \in D
  BY <1>14 DEF T
<1>16. source \in [0 .. N -> D]
  BY <1>8, <1>15
<1>17. Followed(f, source)
  BY <1>10, <1>11 DEF Followed, a
<1> QED BY <1>9, <1>16, <1>17 DEF D

(* The results that are there at place k of block b. *)
Ready(f, b, k) == {d \in Blocks : Available(f, <<"op", d>>, b, k)}

LEMMA ReadySize ==
  ASSUME NEW f, NEW b, NEW k
  PROVE  /\ IsFiniteSet(Ready(f, b, k)) /\ Cardinality(Ready(f, b, k)) \in Nat
         /\ Cardinality(Ready(f, b, k)) <= N
<1>1. IsFiniteSet(Blocks) /\ Cardinality(Blocks) = N
  BY FS_Interval, BlocksAssumption DEF Blocks
<1>2. Ready(f, b, k) \subseteq Blocks
  BY DEF Ready
<1>3. IsFiniteSet(Ready(f, b, k)) /\ Cardinality(Ready(f, b, k)) <= Cardinality(Blocks)
  BY <1>1, <1>2, FS_Subset
<1> QED BY <1>1, <1>3, FS_CardinalityType

(* Fewer results are there in the place of one of them. *)
LEMMA ReadyFewer ==
  ASSUME NEW f \in Function, Laid(f), NEW s \in Reachable(Succ(f)), NEW j \in Nat,
         NEW t \in Blocks, NEW i \in 1 .. Len(f.body[t]), Available(f, <<"op", f.body[t][i]>>, s, j)
  PROVE  Cardinality(Ready(f, t, i)) < Cardinality(Ready(f, s, j))
<1>1. PICK d \in Blocks : d = f.body[t][i]
  BY BodyType
<1>2. i \in Nat /\ Dominates(Succ(f), t, s) /\ (t = s => i < j)
  BY OpAvailable, BodyType
<1>3. ~Available(f, <<"op", d>>, t, i)
  BY <1>1, <1>2, OpAvailable
<1>4. d \in Ready(f, s, j) /\ d \notin Ready(f, t, i)
  BY <1>1, <1>3 DEF Ready
<1>5. Ready(f, t, i) \subseteq Ready(f, s, j)
  <2> SUFFICES ASSUME NEW e \in Blocks, Available(f, <<"op", e>>, t, i)
               PROVE  Available(f, <<"op", e>>, s, j)
    BY DEF Ready
  <2>1. t = s => i <= j
    BY <1>2
  <2> QED BY <1>2, <2>1, AvailableLater
<1>6. IsFiniteSet(Ready(f, s, j)) /\ IsFiniteSet(Ready(f, t, i))
  BY ReadySize
<1>7. Cardinality(Ready(f, t, i)) < Cardinality(Ready(f, s, j))
  BY <1>4, <1>5, <1>6, FS_Subset, ReadySize
<1> QED BY <1>7

(* A copy reads what is there; when that is a copy, it stands before it. *)
LEMMA CopyReads ==
  ASSUME NEW f \in Function, Strict(f), NEW s \in Reachable(Succ(f)), NEW j \in 1 .. Len(f.body[s]),
         NEW c, c = f.body[s][j], c \in Copies(f)
  PROVE  /\ Available(f, f.op[c].x, s, j)
         /\ IsCopyOf(f, f.op[c].x) =>
              \E t \in Reachable(Succ(f)) : \E i \in 1 .. Len(f.body[t]) :
                /\ f.body[t][i] = f.op[c].x[2] /\ Dominates(Succ(f), t, s) /\ (t = s => i < j)
                /\ Cardinality(Ready(f, t, i)) < Cardinality(Ready(f, s, j))
<1>1. PICK x : x = f.op[c].x
  OBVIOUS
<1>2. x \in OpReads(f.op[c])
  BY <1>1 DEF Copies, OpReads
<1>3. Available(f, x, s, j)
  BY <1>2, ReadAvailable
<1>4. ASSUME IsCopyOf(f, x)
      PROVE  \E t \in Reachable(Succ(f)) : \E i \in 1 .. Len(f.body[t]) :
                /\ f.body[t][i] = x[2] /\ Dominates(Succ(f), t, s) /\ (t = s => i < j)
                /\ Cardinality(Ready(f, t, i)) < Cardinality(Ready(f, s, j))
  <2>1. x \notin {Const(d) : d \in Data} \cup {Arg} /\ \A t : x # <<"phi", t>>
    BY <1>4 DEF IsCopyOf, Const, Arg
  <2>2. PICK t \in Blocks : \E i \in 1 .. Len(f.body[t]) :
               /\ x = <<"op", f.body[t][i]>> /\ f.op[f.body[t][i]].code # "none"
               /\ Dominates(Succ(f), t, s) /\ (t = s => i < j)
    BY <1>3, <2>1 DEF Available
  <2>3. PICK i \in 1 .. Len(f.body[t]) :
               /\ x = <<"op", f.body[t][i]>>
               /\ Dominates(Succ(f), t, s) /\ (t = s => i < j)
    BY <2>2
  <2>4. t \in Reachable(Succ(f))
    BY <2>3, SuccType, DominatorReached
  <2>5. Laid(f) /\ j \in Nat
    BY DEF Strict
  <2>6. Cardinality(Ready(f, t, i)) < Cardinality(Ready(f, s, j))
    BY <1>3, <2>3, <2>5, ReadyFewer
  <2>7. f.body[t][i] = x[2]
    BY <2>3
  <2> QED BY <2>3, <2>4, <2>6, <2>7
<1> QED BY <1>1, <1>3, <1>4

(* After n links of a chain of copies: what is found is there where the chain
   begins, and at least n results fewer are there where it stands. *)
Linked(f, r, n) ==
  \A s \in Reachable(Succ(f)) : \A j \in 1 .. Len(f.body[s]) : \A c \in Copies(f) : c = f.body[s][j] =>
    /\ Available(f, r[n][c], s, j) /\ \E d \in Copies(f) : r[n][c] = f.op[d].x
    /\ IsCopyOf(f, r[n][c]) =>
         \E t \in Reachable(Succ(f)) : \E i \in 1 .. Len(f.body[t]) :
           /\ f.body[t][i] = r[n][c][2] /\ Dominates(Succ(f), t, s) /\ (t = s => i < j)
           /\ Cardinality(Ready(f, t, i)) + n < Cardinality(Ready(f, s, j))

LEMMA LinkedStart ==
  ASSUME NEW f \in Function, Strict(f), NEW r, Followed(f, r)
  PROVE  Linked(f, r, 0)
<1> SUFFICES ASSUME NEW s \in Reachable(Succ(f)), NEW j \in 1 .. Len(f.body[s]),
                    NEW c \in Copies(f), c = f.body[s][j]
             PROVE  /\ Available(f, r[0][c], s, j) /\ \E d \in Copies(f) : r[0][c] = f.op[d].x
                    /\ IsCopyOf(f, r[0][c]) =>
                         \E t \in Reachable(Succ(f)) : \E i \in 1 .. Len(f.body[t]) :
                           /\ f.body[t][i] = r[0][c][2] /\ Dominates(Succ(f), t, s) /\ (t = s => i < j)
                           /\ Cardinality(Ready(f, t, i)) + 0 < Cardinality(Ready(f, s, j))
  BY DEF Linked
<1>1. c \in Blocks
  BY DEF Copies, Pieces
<1>2. r[0][c] = f.op[c].x
  BY <1>1 DEF Followed
<1>3. \A t, i : Cardinality(Ready(f, t, i)) + 0 = Cardinality(Ready(f, t, i))
  BY ReadySize
<1> QED BY <1>2, <1>3, CopyReads

LEMMA LinkedNext ==
  ASSUME NEW f \in Function, Strict(f), NEW r, Followed(f, r),
         NEW n \in Nat, n < N, Linked(f, r, n)
  PROVE  Linked(f, r, n + 1)
<1>0. PICK R : R = Reachable(Succ(f))
  OBVIOUS
<1> SUFFICES ASSUME NEW s \in Reachable(Succ(f)), NEW j \in 1 .. Len(f.body[s]),
                    NEW c \in Copies(f), c = f.body[s][j]
             PROVE  /\ Available(f, r[n + 1][c], s, j) /\ \E d \in Copies(f) : r[n + 1][c] = f.op[d].x
                    /\ IsCopyOf(f, r[n + 1][c]) =>
                         \E t \in Reachable(Succ(f)) : \E i \in 1 .. Len(f.body[t]) :
                           /\ f.body[t][i] = r[n + 1][c][2] /\ Dominates(Succ(f), t, s) /\ (t = s => i < j)
                           /\ Cardinality(Ready(f, t, i)) + (n + 1) < Cardinality(Ready(f, s, j))
  BY DEF Linked
<1>1. c \in Blocks /\ s \in Blocks /\ j \in Nat
  BY SuccType DEF Copies, Pieces
<1>2. PICK v : v = r[n][c]
  OBVIOUS
<1>3. PICK w : w = r[n + 1][c]
  OBVIOUS
<1>4. w = IF IsCopyOf(f, v) THEN f.op[v[2]].x ELSE v
  <2>1. r[n + 1] = [e \in Blocks |-> IF IsCopyOf(f, r[n][e]) THEN f.op[r[n][e][2]].x ELSE r[n][e]]
    BY DEF Followed
  <2>2. r[n + 1][c] = IF IsCopyOf(f, r[n][c]) THEN f.op[r[n][c][2]].x ELSE r[n][c]
    BY <1>1, <2>1
  <2> QED BY <1>2, <1>3, <2>2
<1>5. /\ Available(f, v, s, j) /\ \E d \in Copies(f) : v = f.op[d].x
      /\ IsCopyOf(f, v) =>
           \E t \in Reachable(Succ(f)) : \E i \in 1 .. Len(f.body[t]) :
             /\ f.body[t][i] = v[2] /\ Dominates(Succ(f), t, s) /\ (t = s => i < j)
             /\ Cardinality(Ready(f, t, i)) + n < Cardinality(Ready(f, s, j))
  BY <1>2 DEF Linked
<1>6. CASE ~IsCopyOf(f, v)
  BY <1>3, <1>4, <1>5, <1>6
<1>7. CASE IsCopyOf(f, v)
  <2>1. PICK t \in Reachable(Succ(f)) : \E i \in 1 .. Len(f.body[t]) :
             /\ f.body[t][i] = v[2] /\ Dominates(Succ(f), t, s) /\ (t = s => i < j)
             /\ Cardinality(Ready(f, t, i)) + n < Cardinality(Ready(f, s, j))
    BY <1>5, <1>7
  <2>2. PICK i \in 1 .. Len(f.body[t]) :
             /\ f.body[t][i] = v[2] /\ Dominates(Succ(f), t, s) /\ (t = s => i < j)
             /\ Cardinality(Ready(f, t, i)) + n < Cardinality(Ready(f, s, j))
    BY <2>1
  <2>3. PICK d : d = v[2]
    OBVIOUS
  <2>4. d \in Copies(f) /\ d = f.body[t][i] /\ w = f.op[d].x /\ t \in Blocks /\ i \in Nat
    BY <1>4, <1>7, <2>2, <2>3, SuccType DEF IsCopyOf
  <2>5. Available(f, w, t, i)
    BY <2>4, CopyReads
  <2>6. Available(f, w, s, j)
    <3>1. t = s => i <= j
      BY <1>1, <2>2, <2>4
    <3> QED BY <1>1, <2>2, <2>4, <2>5, <3>1, AvailableLater
  <2>7. ASSUME IsCopyOf(f, w)
        PROVE  \E u \in Reachable(Succ(f)) : \E l \in 1 .. Len(f.body[u]) :
                 /\ f.body[u][l] = w[2] /\ Dominates(Succ(f), u, s) /\ (u = s => l < j)
                 /\ Cardinality(Ready(f, u, l)) + (n + 1) < Cardinality(Ready(f, s, j))
    <3>1. \E u \in Reachable(Succ(f)) : \E l \in 1 .. Len(f.body[u]) :
             /\ f.body[u][l] = w[2] /\ Dominates(Succ(f), u, t) /\ (u = t => l < i)
             /\ Cardinality(Ready(f, u, l)) < Cardinality(Ready(f, t, i))
      BY <2>4, <2>7, CopyReads
    <3>2. PICK u \in Reachable(Succ(f)) : \E l \in 1 .. Len(f.body[u]) :
             /\ f.body[u][l] = w[2] /\ Dominates(Succ(f), u, t) /\ (u = t => l < i)
             /\ Cardinality(Ready(f, u, l)) < Cardinality(Ready(f, t, i))
      BY <3>1
    <3>3. PICK l \in 1 .. Len(f.body[u]) :
             /\ f.body[u][l] = w[2] /\ Dominates(Succ(f), u, t) /\ (u = t => l < i)
             /\ Cardinality(Ready(f, u, l)) < Cardinality(Ready(f, t, i))
      BY <3>2
    <3>4. Dominates(Succ(f), u, s)
      BY <2>2, <3>3, DominatesTransitive
    <3>5. u = s => l < j
      <4> SUFFICES ASSUME u = s PROVE l < j
        OBVIOUS
      <4>1. t = s
        BY <2>2, <3>3, DominatesBack
      <4>2. l \in Nat /\ l < i /\ i < j
        BY <2>2, <3>3, <4>1
      <4> QED BY <1>1, <2>4, <4>2
    <3>6. Cardinality(Ready(f, u, l)) + (n + 1) < Cardinality(Ready(f, s, j))
      <4>1. /\ Cardinality(Ready(f, u, l)) \in Nat /\ Cardinality(Ready(f, t, i)) \in Nat
            /\ Cardinality(Ready(f, s, j)) \in Nat
        BY ReadySize
      <4> QED BY <2>2, <3>3, <4>1
    <3> QED BY <3>3, <3>4, <3>5, <3>6
  <2> QED BY <1>3, <2>4, <2>6, <2>7
<1> QED BY <1>6, <1>7

(* CopyElimination replaces a copy with what is there in its place. *)
LEMMA EliminateCopiesStrict ==
  ASSUME NEW f \in Function, Strict(f)
  PROVE  Strict(EliminateCopies(f))
<1>1. PICK r \in [0 .. N -> [Blocks -> Values]] :
           /\ Followed(f, r)
           /\ EliminateCopies(f) =
                EraseOps(Replace(f, [i \in {"op"} \X Copies(f) |->
                  IF r[N][i[2]] \in Copied(f) THEN r[N][i[2]] ELSE Null]), Copies(f))
  BY CopiesFollowed
<1> DEFINE I == {n \in Nat : n <= N => Linked(f, r, n)}
<1>2. 0 \in I
  BY <1>1, LinkedStart
<1>3. ASSUME NEW n \in Nat, n \in I PROVE n + 1 \in I
  <2> SUFFICES ASSUME n + 1 <= N PROVE Linked(f, r, n + 1)
    OBVIOUS
  <2>1. n < N /\ Linked(f, r, n)
    BY <1>3, BlocksAssumption
  <2> QED BY <1>1, <2>1, LinkedNext
<1> HIDE DEF I
<1>4. \A n \in Nat : n \in I
  BY <1>2, <1>3, Induction
<1>5. Linked(f, r, N)
  BY <1>4, BlocksAssumption DEF I
<1> DEFINE S == {"op"} \X Copies(f)
           q == [i \in S |-> IF r[N][i[2]] \in Copied(f) THEN r[N][i[2]] ELSE Null]
<1>6. S \in SUBSET Instrs
  BY DEF Copies, Pieces, Instrs
<1>7. q \in [S -> Values]
  <2>1. Copied(f) \subseteq Values
    BY FunctionType DEF Copied, Copies, Pieces, Op
  <2> QED BY <2>1 DEF Values
<1>8. ASSUME NEW b \in Reachable(Succ(f)), NEW k \in 1 .. EndOf(f, b), NEW w \in S, Available(f, w, b, k)
      PROVE  Available(f, q[w], b, k) /\ q[w] \notin S
  <2>1. PICK c \in Copies(f) : w = <<"op", c>>
    OBVIOUS
  <2>2. PICK s \in Blocks : \E j \in 1 .. Len(f.body[s]) : c = f.body[s][j]
    BY <2>1 DEF Copies, Pieces
  <2>3. PICK j \in 1 .. Len(f.body[s]) : c = f.body[s][j]
    BY <2>2
  <2>4. Laid(f) /\ b \in Blocks /\ k \in Nat /\ j \in Nat
    BY SuccType, BodyType DEF Strict
  <2>5. Dominates(Succ(f), s, b) /\ (s = b => j < k)
    BY <1>8, <2>1, <2>3, <2>4, OpAvailable
  <2>6. s \in Reachable(Succ(f))
    BY <2>5, SuccType, DominatorReached
  <2>7. PICK v : v = r[N][c]
    OBVIOUS
  <2>8. /\ Available(f, v, s, j) /\ \E d \in Copies(f) : v = f.op[d].x
        /\ IsCopyOf(f, v) =>
             \E t \in Reachable(Succ(f)) : \E i \in 1 .. Len(f.body[t]) :
               Cardinality(Ready(f, t, i)) + N < Cardinality(Ready(f, s, j))
    BY <1>5, <2>3, <2>6, <2>7 DEF Linked
  <2>9. ~IsCopyOf(f, v)
    <3>1. \A t, i : ~(Cardinality(Ready(f, t, i)) + N < Cardinality(Ready(f, s, j)))
      <4> SUFFICES ASSUME NEW t, NEW i
                   PROVE  ~(Cardinality(Ready(f, t, i)) + N < Cardinality(Ready(f, s, j)))
        OBVIOUS
      <4>1. /\ Cardinality(Ready(f, t, i)) \in Nat /\ Cardinality(Ready(f, s, j)) \in Nat
            /\ Cardinality(Ready(f, s, j)) <= N
        BY ReadySize
      <4> QED BY <4>1, BlocksAssumption
    <3> QED BY <2>8, <3>1
  <2>10. v \in Copied(f)
    BY <2>8, <2>9 DEF Copied
  <2>11. q[w] = v
    BY <2>1, <2>7, <2>10
  <2>12. v \notin S
    BY <2>9 DEF IsCopyOf
  <2>13. Available(f, v, b, k)
    <3>1. s = b => j <= k
      BY <2>4, <2>5
    <3> QED BY <2>4, <2>5, <2>8, <3>1, AvailableLater
  <2> QED BY <2>11, <2>12, <2>13
<1>9. EliminateCopies(f) = EraseOps(Replace(f, q), Copies(f))
  BY <1>1
<1> HIDE DEF q
<1>10. PICK g : g = Replace(f, q)
  OBVIOUS
<1>11. g \in Function /\ Strict(g) /\ Unwanted(g, S)
  <2> HIDE DEF S
  <2>1. Strict(g) /\ Unwanted(g, S)
    BY <1>6, <1>7, <1>8, <1>10, ReplaceStrict
  <2> QED BY <1>6, <1>7, <1>10, <2>1, ReplaceType
<1>12. PICK h : h = EraseOps(g, Copies(f))
  OBVIOUS
<1>13. Unwanted(h, S)
  <2> HIDE DEF S
  <2> QED BY <1>11, <1>12, EraseOpsWanted, UnwantedFrame
<1>14. Strict(h)
  BY <1>11, <1>12, <1>13, EraseOpsStrict
<1> QED BY <1>9, <1>10, <1>12, <1>14

(* The only predecessor of a block that is reached is on every path to it. *)
LEMMA OnlyPred ==
  ASSUME NEW succ \in [Blocks -> SUBSET Blocks], NEW b \in Reachable(succ), b # Entry,
         NEW p \in Blocks, Preds(succ, b) = {p}
  PROVE  p \in Reachable(succ) /\ Dominates(succ, p, b) /\ p # b
<1>0. {Entry} \in SUBSET Blocks
  BY EntryFirst
<1> DEFINE R == Reachable(succ)
           T == R \ {b}
<1>1. R \subseteq Blocks /\ {Entry} \subseteq R /\ \A x \in R : succ[x] \subseteq R
  <2>1. ReachAvoiding(succ, {Entry}, {}) = R
    BY DEF Reachable
  <2> HIDE DEF R
  <2> QED BY <1>0, <2>1, ReachClosed
<1>2. \A x \in Blocks : b \in succ[x] => x = p
  BY DEF Preds
<1>3. p \in T
  <2> SUFFICES ASSUME p \notin T PROVE FALSE
    OBVIOUS
  <2>1. {Entry} \ {} \subseteq T /\ \A x \in T : succ[x] \ {} \subseteq T
    BY <1>1, <1>2
  <2>2. b \notin T
    OBVIOUS
  <2> HIDE DEF T
  <2>3. ReachAvoiding(succ, {Entry}, {}) \subseteq T
    BY <2>1, ReachLeast
  <2> QED BY <2>2, <2>3 DEF Reachable
<1>4. Dominates(succ, p, b)
  <2>1. b \in Blocks \ {Entry}
    BY <1>1
  <2>2. \A q \in Preds(succ, b) : DomFrom(succ, {Entry}, p, q)
    BY <1>0, DomReflexive
  <2> QED BY <1>0, <2>1, <2>2, DomFromPreds DEF Dominates, DomFrom
<1> QED BY <1>3, <1>4

(* What arrives from the only predecessor is there wherever the phi is. *)
LEMMA SimplifyPhiStrict ==
  ASSUME NEW f \in Function, Strict(f), NEW b \in Blocks
  PROVE  Strict(SimplifyPhi(f, b))
<1> DEFINE p == CHOOSE q \in Blocks : Preds(Succ(f), b) = {q}
           v == IF f.inc[b][p] = <<"phi", b>> THEN Null ELSE f.inc[b][p]
           S == {<<"phi", b>>}
           s == [i \in S |-> v]
<1>1. CASE b \in f.phis /\ \E q \in Blocks : Preds(Succ(f), b) = {q} /\ f.inc[b][q] \notin {Absent, Null}
  <2>1. PICK q \in Blocks : Preds(Succ(f), b) = {q} /\ f.inc[b][q] \notin {Absent, Null}
    BY <1>1
  <2>2. p = q
    BY <2>1
  <2>3. SimplifyPhi(f, b) = ErasePhis(Replace(f, s), {b})
    BY <1>1 DEF SimplifyPhi
  <2>4. PICK w : w = f.inc[b][q]
    OBVIOUS
  <2>5. PICK u \in Values : u = v /\ (w # <<"phi", b>> => u = w)
    <3>1. w \in Values /\ Null \in Values
      BY <2>1, <2>4, FunctionType DEF Values
    <3>2. v = IF w = <<"phi", b>> THEN Null ELSE w
      <4> HIDE DEF p
      <4> QED BY <2>2, <2>4
    <3> HIDE DEF v
    <3> QED BY <3>1, <3>2
  <2>6. s \in [S -> Values] /\ S \in SUBSET Instrs /\ s[<<"phi", b>>] = u
    BY <2>5, OpInstr
  <2>7. ASSUME NEW y \in Reachable(Succ(f)), NEW k \in 1 .. EndOf(f, y), Available(f, <<"phi", b>>, y, k)
        PROVE  Available(f, u, y, k) /\ u # <<"phi", b>>
    <3>1. Dominates(Succ(f), b, y)
      BY <2>7, PhiAvailable
    <3>2. b \in Reachable(Succ(f)) /\ b # Entry
      BY <1>1, <3>1, SuccType, DominatorReached DEF Strict
    <3>3. q \in Reachable(Succ(f)) /\ Dominates(Succ(f), q, b) /\ q # b
      BY <2>1, <3>2, SuccType, OnlyPred
    <3>4. PICK e : e = EndOf(f, q) /\ e \in Nat /\ e \in 1 .. EndOf(f, q)
      BY BodyType
    <3>5. Wanted(f, q, e, w)
      BY <2>1, <2>4, <3>2, <3>4 DEF Wanted, Arrives
    <3>6. Available(f, w, q, e)
      BY <3>3, <3>4, <3>5 DEF Strict
    <3>7. w # <<"phi", b>>
      <4> SUFFICES ASSUME w = <<"phi", b>> PROVE FALSE
        OBVIOUS
      <4>1. Dominates(Succ(f), b, q)
        BY <3>6, PhiAvailable
      <4> QED BY <3>2, <3>3, <4>1, DominatesBack
    <3>8. Dominates(Succ(f), q, y)
      BY <3>1, <3>3, DominatesTransitive
    <3>9. q # y
      BY <3>1, <3>2, <3>3, DominatesBack
    <3>10. k \in Nat
      BY SuccType, BodyType
    <3>11. Available(f, w, y, k)
      BY <3>4, <3>6, <3>8, <3>9, <3>10, AvailableLater
    <3> QED BY <2>5, <3>7, <3>11
  <2>8. \A y \in Reachable(Succ(f)) : \A k \in 1 .. EndOf(f, y) : \A x \in S :
          Available(f, x, y, k) => Available(f, s[x], y, k) /\ s[x] \notin S
    BY <2>6, <2>7
  <2> HIDE DEF s
  <2>9. PICK g : g = Replace(f, s)
    OBVIOUS
  <2>10. g \in Function /\ Strict(g) /\ Unwanted(g, S)
    <3> HIDE DEF S
    <3>1. Strict(g) /\ Unwanted(g, S)
      BY <2>6, <2>8, <2>9, ReplaceStrict
    <3> QED BY <2>6, <2>9, <3>1, ReplaceType
  <2>11. PICK h : h = ErasePhis(g, {b})
    OBVIOUS
  <2>12. Unwanted(h, S)
    <3> HIDE DEF S
    <3> QED BY <2>10, <2>11, ErasePhisWanted, UnwantedFrame
  <2>13. Unwanted(h, {"phi"} \X {b})
    BY <2>12 DEF Unwanted
  <2>14. Strict(h)
    BY <2>10, <2>11, <2>13, ErasePhisStrict
  <2> QED BY <2>3, <2>9, <2>11, <2>14
<1>2. CASE ~(b \in f.phis /\ \E q \in Blocks : Preds(Succ(f), b) = {q} /\ f.inc[b][q] \notin {Absent, Null})
  BY <1>2 DEF SimplifyPhi
<1> QED BY <1>1, <1>2

-----------------------------------------------------------------------------
LEMMA Thinned ==
  ASSUME NEW f \in Function, NEW g \in Function, Strict(f),
         \A b \in Blocks : Succ(g)[b] \subseteq Succ(f)[b],
         \A b \in Blocks : g.body[b] = f.body[b] \/ g.body[b] = <<>>,
         \A b \in Reachable(Succ(g)) : g.body[b] = f.body[b] /\ (b \in f.phis => b \in g.phis),
         g.phis \subseteq f.phis,
         \A c \in Pieces(f, Reachable(Succ(g))) : f.op[c].code # "none" => g.op[c].code # "none",
         \A b \in Reachable(Succ(g)) : \A k \in 1 .. EndOf(f, b) : \A v :
           Wanted(g, b, k, v) => Available(f, v, b, k)
  PROVE  Strict(g)
<1> DEFINE R == Reachable(Succ(g))
<1>1. R \subseteq Reachable(Succ(f)) /\ R \subseteq Blocks
  BY SuccType, ThinnerReach DEF Reachable
<1>2. \A d, b : Dominates(Succ(f), d, b) => Dominates(Succ(g), d, b)
  BY SuccType, ThinnerReach DEF Dominates
<1>3. Laid(g)
  <2> SUFFICES ASSUME NEW b \in Blocks, NEW c \in Blocks,
                      NEW j \in 1 .. Len(g.body[b]), NEW k \in 1 .. Len(g.body[c]),
                      g.body[b][j] = g.body[c][k]
               PROVE  b = c /\ j = k
    BY DEF Laid
  <2>1. g.body[b] = f.body[b] /\ g.body[c] = f.body[c]
    OBVIOUS
  <2> QED BY <2>1 DEF Strict, Laid
<1>4. R \subseteq Live(g)
  BY <1>1 DEF Strict, Live
<1>5. ASSUME NEW b \in R, NEW k \in 1 .. EndOf(g, b), NEW v, Wanted(g, b, k, v)
      PROVE  Available(g, v, b, k)
  <2>1. EndOf(g, b) = EndOf(f, b) /\ b \in Blocks
    BY <1>1 DEF EndOf
  <2>2. Available(f, v, b, k)
    BY <1>5, <2>1
  <2>3. \A d : Dominates(Succ(g), d, b) => d \in R
    BY SuccType, DominatorReached
  <2>4. CASE v \in {Const(d) : d \in Data} \cup {Arg}
    BY <2>4 DEF Available
  <2>5. CASE \E s \in f.phis \cap Live(f) : v = <<"phi", s>> /\ Dominates(Succ(f), s, b)
    BY <1>2, <1>4, <2>3, <2>5 DEF Available
  <2>6. CASE \E s \in Blocks : \E j \in 1 .. Len(f.body[s]) :
               /\ v = <<"op", f.body[s][j]>> /\ f.op[f.body[s][j]].code # "none"
               /\ Dominates(Succ(f), s, b) /\ (s = b => j < k)
    <3>1. PICK s \in Blocks : \E j \in 1 .. Len(f.body[s]) :
               /\ v = <<"op", f.body[s][j]>> /\ f.op[f.body[s][j]].code # "none"
               /\ Dominates(Succ(f), s, b) /\ (s = b => j < k)
      BY <2>6
    <3>2. PICK j \in 1 .. Len(f.body[s]) :
               /\ v = <<"op", f.body[s][j]>> /\ f.op[f.body[s][j]].code # "none"
               /\ Dominates(Succ(f), s, b) /\ (s = b => j < k)
      BY <3>1
    <3>3. Dominates(Succ(g), s, b) /\ s \in R
      BY <1>2, <2>3, <3>2
    <3>4. PICK c \in Blocks : c = f.body[s][j]
      BY BodyType
    <3>5. g.op[c].code # "none"
      BY <3>2, <3>3, <3>4 DEF Pieces
    <3>6. g.body[s] = f.body[s]
      BY <3>3
    <3> QED BY <3>2, <3>3, <3>4, <3>5, <3>6 DEF Available
  <2> QED BY <2>2, <2>4, <2>5, <2>6 DEF Available
<1>6. Entry \notin g.phis
  BY DEF Strict
<1> QED BY <1>3, <1>4, <1>5, <1>6 DEF Strict

LEMMA RemoveIncomingWanted ==
  ASSUME NEW f \in Function, NEW Left, NEW g, g = RemoveIncoming(f, Left)
  PROVE  /\ g \in Function /\ g.body = f.body /\ g.phis = f.phis /\ g.op = f.op /\ g.term = f.term
         /\ Succ(g) = Succ(f)
         /\ \A b \in Blocks : \A k, v : Wanted(g, b, k, v) => Wanted(f, b, k, v)
<1>1. /\ g.body = f.body /\ g.term = f.term /\ g.phis = f.phis
      /\ \A b, p \in Blocks : Arrives(g, b, p) <=> <<p, b>> \notin Left /\ Arrives(f, b, p)
  BY RemoveIncomingParts
<1>2. g.op = f.op
  BY DEF RemoveIncoming, Function
<1>8. g \in Function
  BY RemoveIncomingType
<1>3. Succ(g) = Succ(f)
  BY <1>1 DEF Succ
<1>4. \A b, p \in Blocks : <<p, b>> \notin Left => g.inc[b][p] = f.inc[b][p]
  BY DEF RemoveIncoming, Function
<1>5. \A b \in Blocks : EndOf(g, b) = EndOf(f, b)
  BY <1>1 DEF EndOf
<1>6. Reachable(Succ(f)) \subseteq Blocks
  BY SuccType
<1>7. \A b \in Blocks : \A k, v : Wanted(g, b, k, v) => Wanted(f, b, k, v)
  BY <1>1, <1>2, <1>3, <1>4, <1>5, <1>6 DEF Wanted
<1> QED BY <1>1, <1>2, <1>3, <1>7, <1>8

LEMMA FoldBranchesStrict ==
  ASSUME NEW f \in Function, Strict(f)
  PROVE  Strict(FoldBranches(f))
<1> DEFINE Left == {<<b, Other(f.term[b])>> : b \in Decided(f)}
<1>1. PICK h : h = Straighten(f)
  OBVIOUS
<1>2. h \in Function
  BY <1>1, StraightenType
<1>3. /\ h.body = f.body /\ h.phis = f.phis /\ h.inc = f.inc /\ h.op = f.op
      /\ \A b \in Blocks : h.term[b] = IF b \in Decided(f) THEN Jump(Kept(f.term[b])) ELSE f.term[b]
  BY <1>1 DEF Straighten, Function
<1>4. ASSUME NEW b \in Blocks PROVE Targets(h.term[b]) \subseteq Targets(f.term[b])
  <2>1. CASE b \in Decided(f)
    <3>1. PICK x : x = Kept(f.term[b])
      OBVIOUS
    <3>2. Targets(h.term[b]) = {x}
      <4>1. h.term[b] = Jump(x)
        BY <1>3, <2>1, <3>1
      <4>2. Jump(x).code = "jmp" /\ Jump(x).t = x
        BY DEF Jump
      <4> QED BY <4>1, <4>2 DEF Targets
    <3>3. Targets(f.term[b]) = {f.term[b].t, f.term[b].f} /\ x \in {f.term[b].t, f.term[b].f}
      BY <2>1, <3>1 DEF Decided, Kept, Targets
    <3> QED BY <3>2, <3>3
  <2> QED BY <1>3, <2>1
<1>5. \A b \in Blocks : Succ(h)[b] \subseteq Succ(f)[b]
  BY <1>3, <1>4, SuccOf
<1>6. Reachable(Succ(h)) \subseteq Reachable(Succ(f)) /\ Reachable(Succ(h)) \subseteq Blocks
  BY <1>2, <1>5, SuccType, ThinnerReach DEF Reachable
<1>7. ASSUME NEW b \in Blocks PROVE TermReads(h.term[b]) \subseteq TermReads(f.term[b])
  <2>1. CASE b \in Decided(f)
    <3>1. TermReads(h.term[b]) = {}
      <4>1. h.term[b] = Jump(Kept(f.term[b]))
        BY <1>3, <2>1
      <4>2. \A x : Jump(x).code = "jmp"
        BY DEF Jump
      <4> QED BY <4>1, <4>2 DEF TermReads
    <3> QED BY <3>1
  <2> QED BY <1>3, <2>1
<1>8. \A b \in Blocks : EndOf(h, b) = EndOf(f, b)
  BY <1>3 DEF EndOf
<1>9. \A b \in Blocks : \A k, v : Wanted(h, b, k, v) => Wanted(f, b, k, v)
  BY <1>3, <1>6, <1>7, <1>8 DEF Wanted, Arrives
<1>10. \A b \in Reachable(Succ(h)) : \A k \in 1 .. EndOf(f, b) : \A v :
           Wanted(h, b, k, v) => Available(f, v, b, k)
  BY <1>6, <1>9 DEF Strict
<1>11. Strict(h)
  BY <1>2, <1>3, <1>5, <1>10, Thinned
<1>12. PICK g : g = RemoveIncoming(h, Left)
  OBVIOUS
<1>13. g = FoldBranches(f)
  BY <1>1, <1>12 DEF FoldBranches
<1> HIDE DEF Left
<1>14. /\ g \in Function /\ g.body = h.body /\ g.phis = h.phis /\ g.op = h.op
       /\ Succ(g) = Succ(h)
       /\ \A b \in Blocks : \A k, v : Wanted(g, b, k, v) => Wanted(h, b, k, v)
  BY <1>2, <1>12, RemoveIncomingWanted
<1>15. \A b \in Reachable(Succ(g)) : \A k \in 1 .. EndOf(h, b) : \A v :
           Wanted(g, b, k, v) => Available(h, v, b, k)
  BY <1>6, <1>11, <1>14 DEF Strict
<1>16. Strict(g)
  BY <1>2, <1>11, <1>14, <1>15, Thinned
<1> QED BY <1>13, <1>16

LEMMA EraseBlocksWanted ==
  ASSUME NEW f \in Function, NEW B, NEW g, g = EraseBlocks(f, B)
  PROVE  /\ g \in Function /\ g.phis = f.phis /\ g.inc = f.inc /\ g.op = f.op
         /\ \A b \in Blocks : g.body[b] = IF b \in B THEN <<>> ELSE f.body[b]
         /\ \A b \in Blocks : Succ(g)[b] \subseteq Succ(f)[b]
         /\ \A b \in Blocks \ B : \A k, v : Wanted(g, b, k, v) => Wanted(f, b, k, v)
<1>1. /\ g.phis = f.phis /\ g.inc = f.inc
      /\ \A b \in Blocks : /\ g.body[b] = IF b \in B THEN <<>> ELSE f.body[b]
                           /\ g.term[b] = IF b \in B THEN NoTerm ELSE f.term[b]
  BY EraseBlocksParts
<1>2. g.op = f.op
  BY DEF EraseBlocks, Function
<1>3. g \in Function
  BY EraseBlocksType
<1>4. \A b \in Blocks : Succ(g)[b] \subseteq Succ(f)[b]
  BY <1>1, SuccOf
<1>5. Reachable(Succ(g)) \subseteq Reachable(Succ(f)) /\ Reachable(Succ(f)) \subseteq Blocks
  BY <1>3, <1>4, SuccType, ThinnerReach DEF Reachable
<1>6. ASSUME NEW b \in Blocks \ B, NEW k, NEW v, Wanted(g, b, k, v)
      PROVE  Wanted(f, b, k, v)
  <2>1. g.body[b] = f.body[b] /\ g.term[b] = f.term[b] /\ EndOf(g, b) = EndOf(f, b)
    BY <1>1 DEF EndOf
  <2> QED BY <1>1, <1>2, <1>5, <1>6, <2>1 DEF Wanted, Arrives
<1> QED BY <1>1, <1>2, <1>3, <1>4, <1>6

(* Nothing that is reached reads what cannot be. *)
LEMMA RemoveUnreachableStrict ==
  ASSUME NEW f \in Function, Strict(f)
  PROVE  Strict(RemoveUnreachable(f))
<1> DEFINE gone == Unreachable(f)
           left == {e \in gone \X Blocks : e[2] \in Succ(f)[e[1]]}
           C == Pieces(f, gone)
           S == ({"phi"} \X gone) \cup ({"op"} \X C)
           s == [i \in S |-> Null]
<1>0. gone \in SUBSET Blocks /\ gone \cap Reachable(Succ(f)) = {} /\ C \in SUBSET Blocks
  BY DEF Unreachable, Live, Pieces
<1>1. S \in SUBSET Instrs /\ s \in [S -> Values]
  BY <1>0 DEF Instrs, Values
<1>2. PICK f1 : f1 = RemoveIncoming(f, left)
  OBVIOUS
<1>3. PICK f2 : f2 = Replace(f1, s)
  OBVIOUS
<1>4. PICK f3 : f3 = EraseOps(f2, C)
  OBVIOUS
<1>5. PICK f4 : f4 = ErasePhis(f3, gone)
  OBVIOUS
<1>6. PICK g : g = EraseBlocks(f4, gone)
  OBVIOUS
<1>7. RemoveUnreachable(f) = g
  BY <1>2, <1>3, <1>4, <1>5, <1>6 DEF RemoveUnreachable
<1>8. \A w : w \in S => (\E x \in gone : w = <<"phi", x>>) \/ (\E c \in C : w = <<"op", c>>)
  OBVIOUS
<1>9. \A w : Image(s, w) = IF w \in S THEN Null ELSE w
  BY DEF Image
<1> HIDE DEF left, s
<1>10. /\ f1 \in Function /\ f1.body = f.body /\ f1.phis = f.phis /\ f1.op = f.op
       /\ Succ(f1) = Succ(f)
       /\ \A b \in Blocks : \A k, v : Wanted(f1, b, k, v) => Wanted(f, b, k, v)
  BY <1>2, RemoveIncomingWanted
<1>11. f2 \in Function
  BY <1>1, <1>3, <1>10, ReplaceType
<1>12. /\ f2.body = f1.body /\ f2.phis = f1.phis /\ Succ(f2) = Succ(f1)
       /\ \A c \in Blocks : f2.op[c].code = f1.op[c].code
  BY <1>3, <1>10, ImageReads
<1>13. \A b \in Blocks : \A k, v : Wanted(f2, b, k, v) => \E w : Wanted(f1, b, k, w) /\ v = Image(s, w)
  <2>1. Absent \notin DOMAIN s
    BY <1>1, SCCPAssumption DEF Values
  <2> QED BY <1>3, <1>10, <2>1, ReplaceWanted
<1>14. /\ f3 \in Function /\ f3.body = f2.body /\ f3.phis = f2.phis /\ Succ(f3) = Succ(f2)
       /\ \A c \in Blocks : c \notin C => f3.op[c] = f2.op[c]
       /\ \A b \in Blocks : \A k, v : Wanted(f3, b, k, v) => Wanted(f2, b, k, v)
  BY <1>4, <1>11, EraseOpsWanted
<1>15. /\ f4 \in Function /\ f4.body = f3.body /\ f4.phis = f3.phis \ gone /\ f4.op = f3.op
       /\ Succ(f4) = Succ(f3)
       /\ \A b \in Blocks : \A k, v : Wanted(f4, b, k, v) => Wanted(f3, b, k, v)
  BY <1>5, <1>14, ErasePhisWanted
<1>16. /\ g \in Function /\ g.phis = f4.phis /\ g.op = f4.op
       /\ \A b \in Blocks : g.body[b] = IF b \in gone THEN <<>> ELSE f4.body[b]
       /\ \A b \in Blocks : Succ(g)[b] \subseteq Succ(f4)[b]
       /\ \A b \in Blocks \ gone : \A k, v : Wanted(g, b, k, v) => Wanted(f4, b, k, v)
  BY <1>6, <1>15, EraseBlocksWanted
<1>17. \A b \in Blocks : Succ(g)[b] \subseteq Succ(f)[b]
  BY <1>10, <1>12, <1>14, <1>15, <1>16
<1>18. Reachable(Succ(g)) \subseteq Reachable(Succ(f)) /\ Reachable(Succ(f)) \subseteq Blocks
  BY <1>16, <1>17, SuccType, ThinnerReach DEF Reachable
<1>19. \A b \in Blocks : g.body[b] = IF b \in gone THEN <<>> ELSE f.body[b]
  BY <1>10, <1>12, <1>14, <1>15, <1>16
<1>20. g.phis = f.phis \ gone
  BY <1>10, <1>12, <1>14, <1>15, <1>16
<1>21. ASSUME NEW c \in Pieces(f, Reachable(Succ(g))), f.op[c].code # "none"
       PROVE  g.op[c].code # "none"
  <2>1. PICK b \in Reachable(Succ(g)) : \E k \in 1 .. Len(f.body[b]) : c = f.body[b][k]
    BY DEF Pieces
  <2>2. b \in Blocks /\ b \notin gone /\ c \in Blocks
    BY <1>0, <1>18 DEF Pieces
  <2>3. c \notin C
    BY <1>0, <2>1, <2>2 DEF Pieces, Strict, Laid
  <2>4. g.op[c].code = f.op[c].code
    BY <1>10, <1>12, <1>14, <1>15, <1>16, <2>2, <2>3
  <2> QED BY <1>21, <2>4
<1>22. ASSUME NEW b \in Reachable(Succ(g)), NEW k \in 1 .. EndOf(f, b), NEW v, Wanted(g, b, k, v)
       PROVE  Available(f, v, b, k)
  <2>1. b \in Blocks /\ b \notin gone /\ b \in Reachable(Succ(f))
    BY <1>0, <1>18
  <2>2. Wanted(f2, b, k, v)
    BY <1>14, <1>15, <1>16, <1>22, <2>1
  <2>3. PICK w : Wanted(f, b, k, w) /\ v = Image(s, w)
    BY <1>10, <1>13, <2>1, <2>2
  <2>4. Available(f, w, b, k)
    BY <2>1, <2>3 DEF Strict
  <2>5. \A x \in gone : ~Dominates(Succ(f), x, b)
    BY <1>0, <2>1, SuccType, DominatorReached
  <2>6. \A x \in gone : w # <<"phi", x>>
    BY <2>4, <2>5, PhiAvailable
  <2>7. ASSUME NEW c \in C, w = <<"op", c>> PROVE FALSE
    <3>1. PICK x \in gone : \E i \in 1 .. Len(f.body[x]) : c = f.body[x][i]
      BY DEF Pieces
    <3>2. PICK i \in 1 .. Len(f.body[x]) : c = f.body[x][i]
      BY <3>1
    <3>3. x \in Blocks /\ Laid(f)
      BY <1>0 DEF Strict
    <3>4. Dominates(Succ(f), x, b)
      BY <2>4, <2>7, <3>2, <3>3, OpAvailable
    <3> QED BY <2>5, <3>4
  <2>8. w \notin S
    BY <1>8, <2>6, <2>7
  <2> QED BY <1>9, <2>3, <2>4, <2>8
<1>23. \A b \in Reachable(Succ(g)) : g.body[b] = f.body[b] /\ (b \in f.phis => b \in g.phis)
  BY <1>0, <1>18, <1>19, <1>20
<1>24. \A b \in Blocks : g.body[b] = f.body[b] \/ g.body[b] = <<>>
  BY <1>19
<1>25. \A c \in Pieces(f, Reachable(Succ(g))) : f.op[c].code # "none" => g.op[c].code # "none"
  BY <1>21
<1>26. \A b \in Reachable(Succ(g)) : \A k \in 1 .. EndOf(f, b) : \A v :
           Wanted(g, b, k, v) => Available(f, v, b, k)
  BY <1>22
<1> HIDE DEF S, C, gone
<1>27. g \in Function /\ g.phis \subseteq f.phis
  BY <1>16, <1>20
<1>28. Strict(g)
  BY <1>17, <1>23, <1>24, <1>25, <1>26, <1>27, Thinned
<1> QED BY <1>7, <1>28

(* Block s, the only successor of b, goes into b. *)
Joined(f, b, s, g) ==
  /\ b \in Blocks /\ s \in Blocks \ {b, Entry} /\ s \notin f.phis
  /\ Preds(Succ(f), s) = {b} /\ Succ(f)[b] = {s}
  /\ g.phis = f.phis /\ g.op = f.op
  /\ g.body[b] = f.body[b] \o f.body[s] /\ g.body[s] = <<>> /\ g.term[b] = f.term[s]
  /\ \A p \in Blocks \ {b, s} : g.body[p] = f.body[p] /\ g.term[p] = f.term[p]
  /\ Succ(g)[b] = Succ(f)[s] /\ Succ(g)[s] = {}
  /\ \A p \in Blocks \ {b, s} : Succ(g)[p] = Succ(f)[p]
  /\ \A x \in Blocks : /\ Arrives(g, x, b) => Arrives(f, x, s) /\ g.inc[x][b] = f.inc[x][s]
                       /\ \A p \in Blocks \ {b, s} : g.inc[x][p] = f.inc[x][p]

LEMMA MergedParts ==
  ASSUME NEW f \in Function, Matching(f), NEW b \in Blocks, CanMerge(f, b)
  PROVE  Joined(f, b, f.term[b].t, MergeBlocks(f, b))
<1> DEFINE s == f.term[b].t
           inc == [x \in Blocks |->
                     [p \in Blocks |-> IF p = b /\ f.inc[x][s] # Absent THEN f.inc[x][s]
                                       ELSE IF p = s THEN Absent ELSE f.inc[x][p]]]
           body == [f.body EXCEPT ![b] = f.body[b] \o f.body[s]]
           term == [f.term EXCEPT ![b] = f.term[s]]
           h == [f EXCEPT !.body = body, !.term = term, !.inc = inc]
           g == EraseBlocks(h, {s})
<1>1. s \in Blocks
  BY FunctionType DEF Term
<1>2. inc \in [Blocks -> [Blocks -> Values \cup {Absent}]]
  BY <1>1, FunctionType
<1>3. body \in [Blocks -> Seq(Blocks)] /\ term \in [Blocks -> Term]
  BY <1>1, FunctionType
<1>4. MergeBlocks(f, b) = g
  BY DEF MergeBlocks, Function
<1>5. /\ f.body[b] # <<>> /\ f.term[b].code = "jmp" /\ s # b /\ s # Entry /\ s \notin f.phis
      /\ Preds(Succ(f), s) = {b}
  BY DEF CanMerge, Live
<1>6. Succ(f)[b] = {s}
  BY <1>5, SuccOf DEF Targets
<1>7. \A x, p \in Blocks : inc[x][p] = IF p = b /\ f.inc[x][s] # Absent THEN f.inc[x][s]
                                       ELSE IF p = s THEN Absent ELSE f.inc[x][p]
  OBVIOUS
<1>9. /\ body[b] = f.body[b] \o f.body[s] /\ term[b] = f.term[s]
      /\ \A p \in Blocks \ {b} : body[p] = f.body[p] /\ term[p] = f.term[p]
  BY FunctionType
<1> HIDE DEF inc, body, term, s
<1>10. h \in Function /\ h.phis = f.phis /\ h.inc = inc /\ h.body = body /\ h.term = term /\ h.op = f.op
  BY <1>2, <1>3 DEF Function
<1> HIDE DEF h
<1>11. /\ g.phis = h.phis /\ g.inc = h.inc
       /\ \A p \in Blocks : /\ g.body[p] = IF p \in {s} THEN <<>> ELSE h.body[p]
                            /\ g.term[p] = IF p \in {s} THEN NoTerm ELSE h.term[p]
  BY <1>10, EraseBlocksParts
<1>12. g.op = h.op
  BY <1>10, EraseBlocksWanted
<1> HIDE DEF g
<1>13. \A p \in Blocks \ {b, s} : g.body[p] = f.body[p] /\ g.term[p] = f.term[p]
  BY <1>9, <1>10, <1>11
<1>14. g.body[b] = f.body[b] \o f.body[s] /\ g.term[b] = f.term[s] /\ g.body[s] = <<>>
  BY <1>1, <1>5, <1>9, <1>10, <1>11
<1>15. g.body[b] # <<>>
  <2>1. f.body[b] \in Seq(Blocks) /\ f.body[s] \in Seq(Blocks)
    BY <1>1, FunctionType
  <2> QED BY <1>5, <1>14, <2>1
<1>16. Succ(g)[b] = Succ(f)[s]
  <2>1. f.body[s] = <<>> => Targets(f.term[s]) = {}
    BY <1>1 DEF Matching, Targets
  <2> QED BY <1>1, <1>14, <1>15, <2>1, SuccOf
<1>17. Succ(g)[s] = {} /\ \A p \in Blocks \ {b, s} : Succ(g)[p] = Succ(f)[p]
  BY <1>1, <1>13, <1>14, SuccOf
<1>18. \A x \in Blocks : ~Arrives(f, x, b)
  BY <1>5, <1>6 DEF Matching
<1>19. ASSUME NEW x \in Blocks
       PROVE  /\ Arrives(g, x, b) => Arrives(f, x, s) /\ g.inc[x][b] = f.inc[x][s]
              /\ \A p \in Blocks \ {b, s} : g.inc[x][p] = f.inc[x][p]
  <2>1. \A p \in Blocks : g.inc[x][p] = IF p = b /\ f.inc[x][s] # Absent THEN f.inc[x][s]
                                        ELSE IF p = s THEN Absent ELSE f.inc[x][p]
    BY <1>7, <1>10, <1>11
  <2> QED BY <1>18, <2>1 DEF Arrives
<1>20. g.phis = f.phis /\ g.op = f.op
  BY <1>10, <1>11, <1>12
<1>21. Joined(f, b, s, g)
  BY <1>1, <1>5, <1>6, <1>13, <1>14, <1>16, <1>17, <1>19, <1>20 DEF Joined
<1> QED BY <1>4, <1>21 DEF s

LEMMA JoinedEdges ==
  ASSUME NEW f \in Function, NEW b, NEW s, NEW g \in Function, Joined(f, b, s, g)
  PROVE  Appended(Succ(f), Succ(g), b, s)
BY DEF Joined, Preds, Appended

LEMMA JoinedDominates ==
  ASSUME NEW f \in Function, NEW b, NEW s, NEW g \in Function, Joined(f, b, s, g),
         NEW d, NEW y, Dominates(Succ(f), d, y)
  PROVE  Dominates(Succ(g), Host(b, s, d), Host(b, s, y))
BY SuccType, JoinedEdges, AppendedDominates

LEMMA JoinedReach ==
  ASSUME NEW f \in Function, NEW b, NEW s, NEW g \in Function, Joined(f, b, s, g)
  PROVE  /\ Reachable(Succ(g)) \subseteq Reachable(Succ(f)) \ {s}
         /\ b \in Reachable(Succ(f)) => s \in Reachable(Succ(f))
BY SuccType, JoinedEdges, AppendedReach

LEMMA JoinedLengths ==
  ASSUME NEW f \in Function, NEW b, NEW s, NEW g \in Function, Joined(f, b, s, g)
  PROVE  /\ Len(f.body[b]) \in Nat /\ Len(f.body[s]) \in Nat
         /\ Len(g.body[b]) = Len(f.body[b]) + Len(f.body[s])
<1>1. f.body[b] \in Seq(Blocks) /\ f.body[s] \in Seq(Blocks)
  BY FunctionType DEF Joined
<1>2. g.body[b] = f.body[b] \o f.body[s]
  BY DEF Joined
<1> QED BY <1>1, <1>2

LEMMA JoinedPlaces ==
  ASSUME NEW f \in Function, NEW b, NEW s, NEW g \in Function, Joined(f, b, s, g)
  PROVE  /\ \A j \in 1 .. Len(f.body[b]) : g.body[b][j] = f.body[b][j]
         /\ \A j \in 1 .. Len(f.body[s]) : g.body[b][Len(f.body[b]) + j] = f.body[s][j]
<1>1. PICK p, q : p = f.body[b] /\ q = f.body[s]
  OBVIOUS
<1>2. p \in Seq(Blocks) /\ q \in Seq(Blocks) /\ g.body[b] = p \o q
  BY <1>1, FunctionType DEF Joined
<1>3. /\ \A j \in 1 .. Len(p) : (p \o q)[j] = p[j]
      /\ \A j \in 1 .. Len(q) : (p \o q)[Len(p) + j] = q[j]
  BY <1>2
<1> QED BY <1>1, <1>2, <1>3

(* Place k of block y afterwards, L instructions standing before those of s. *)
Moved(s, L, y, k) == IF y = s THEN L + k ELSE k

LEMMA JoinedLaid ==
  ASSUME NEW f \in Function, Laid(f), NEW b, NEW s, NEW g \in Function, Joined(f, b, s, g)
  PROVE  Laid(g)
<1>0. b \in Blocks /\ s \in Blocks /\ s # b
  BY DEF Joined
<1>1. PICK L : L = Len(f.body[b])
  OBVIOUS
<1>4. /\ L \in Nat /\ Len(f.body[s]) \in Nat /\ Len(g.body[b]) = L + Len(f.body[s])
      /\ Len(g.body[s]) = 0
  <2>1. /\ Len(f.body[b]) \in Nat /\ Len(f.body[s]) \in Nat
        /\ Len(g.body[b]) = Len(f.body[b]) + Len(f.body[s])
    BY JoinedLengths
  <2>2. Len(g.body[s]) = 0
    <3>1. g.body[s] = <<>>
      BY DEF Joined
    <3> QED BY <3>1
  <2> QED BY <1>1, <2>1, <2>2
<1>5. \A i \in 1 .. L : g.body[b][i] = f.body[b][i]
  BY <1>1, JoinedPlaces
<1>6. \A i \in 1 .. Len(f.body[s]) : g.body[b][L + i] = f.body[s][i]
  BY <1>1, JoinedPlaces
<1>2. ASSUME NEW y \in Blocks, NEW j \in 1 .. Len(g.body[y])
      PROVE  \E z \in Blocks : \E i \in 1 .. Len(f.body[z]) :
               /\ g.body[y][j] = f.body[z][i] /\ y = Host(b, s, z) /\ j = Moved(s, L, z, i)
               /\ z = b => i <= L
  <2>1. CASE y = b /\ j <= L
    <3>1. j \in 1 .. L
      BY <1>4, <2>1
    <3>2. g.body[b][j] = f.body[b][j]
      BY <1>5, <3>1
    <3> QED BY <1>0, <1>1, <2>1, <3>1, <3>2 DEF Host, Moved
  <2>2. CASE y = b /\ ~(j <= L)
    <3>3. j - L \in 1 .. Len(f.body[s]) /\ L + (j - L) = j
      BY <1>4, <2>2
    <3>4. PICK i \in 1 .. Len(f.body[s]) : L + i = j
      BY <3>3
    <3>5. g.body[b][L + i] = f.body[s][i]
      BY <1>6
    <3> QED BY <1>0, <2>2, <3>4, <3>5 DEF Host, Moved
  <2>3. CASE y # b
    <3>1. y # s
      BY <1>4
    <3>2. g.body[y] = f.body[y]
      BY <2>3, <3>1 DEF Joined
    <3> QED BY <2>3, <3>1, <3>2 DEF Host, Moved
  <2> QED BY <2>1, <2>2, <2>3
<1>3. ASSUME NEW x \in Blocks, NEW y \in Blocks,
             NEW j \in 1 .. Len(g.body[x]), NEW k \in 1 .. Len(g.body[y]),
             g.body[x][j] = g.body[y][k]
      PROVE  x = y /\ j = k
  <2>1. PICK z \in Blocks : \E i \in 1 .. Len(f.body[z]) :
               /\ g.body[x][j] = f.body[z][i] /\ x = Host(b, s, z) /\ j = Moved(s, L, z, i)
    <3>1. \E z \in Blocks : \E i \in 1 .. Len(f.body[z]) :
               /\ g.body[x][j] = f.body[z][i] /\ x = Host(b, s, z) /\ j = Moved(s, L, z, i)
               /\ z = b => i <= L
      BY <1>2
    <3> QED BY <3>1
  <2>2. PICK i \in 1 .. Len(f.body[z]) :
               /\ g.body[x][j] = f.body[z][i] /\ x = Host(b, s, z) /\ j = Moved(s, L, z, i)
    BY <2>1
  <2>3. PICK w \in Blocks : \E l \in 1 .. Len(f.body[w]) :
               /\ g.body[y][k] = f.body[w][l] /\ y = Host(b, s, w) /\ k = Moved(s, L, w, l)
    <3>1. \E w \in Blocks : \E l \in 1 .. Len(f.body[w]) :
               /\ g.body[y][k] = f.body[w][l] /\ y = Host(b, s, w) /\ k = Moved(s, L, w, l)
               /\ w = b => l <= L
      BY <1>2
    <3> QED BY <3>1
  <2>4. PICK l \in 1 .. Len(f.body[w]) :
               /\ g.body[y][k] = f.body[w][l] /\ y = Host(b, s, w) /\ k = Moved(s, L, w, l)
    BY <2>3
  <2>5. z = w /\ i = l
    <3>1. f.body[z][i] = f.body[w][l]
      BY <1>3, <2>2, <2>4
    <3> QED BY <3>1 DEF Laid
  <2> QED BY <2>2, <2>4, <2>5
<1> QED BY <1>3 DEF Laid

LEMMA JoinedAvailable ==
  ASSUME NEW f \in Function, NEW b, NEW s, NEW g \in Function, Joined(f, b, s, g),
         NEW y \in Reachable(Succ(f)), NEW k \in Nat, k >= 1, NEW v, Available(f, v, y, k)
  PROVE  Available(g, v, Host(b, s, y), Moved(s, Len(f.body[b]), y, k))
<1>0. /\ b \in Blocks /\ s \in Blocks \ {b, Entry} /\ s \notin f.phis
      /\ Preds(Succ(f), s) = {b} /\ g.phis = f.phis /\ g.op = f.op
  BY DEF Joined
<1>1. PICK L : L = Len(f.body[b])
  OBVIOUS
<1>6. L \in Nat /\ Len(f.body[s]) \in Nat /\ Len(g.body[b]) = L + Len(f.body[s])
  <2>1. /\ Len(f.body[b]) \in Nat /\ Len(f.body[s]) \in Nat
        /\ Len(g.body[b]) = Len(f.body[b]) + Len(f.body[s])
    BY JoinedLengths
  <2> QED BY <1>1, <2>1
<1>2. L \in Nat
  BY <1>6
<1>3. CASE v \in {Const(d) : d \in Data} \cup {Arg}
  BY <1>3 DEF Available
<1>4. CASE \E x \in f.phis \cap Live(f) : v = <<"phi", x>> /\ Dominates(Succ(f), x, y)
  <2>1. PICK x \in f.phis \cap Live(f) : v = <<"phi", x>> /\ Dominates(Succ(f), x, y)
    BY <1>4
  <2>2. Host(b, s, x) = x /\ x # s /\ x \in Blocks
    BY <1>0, <2>1 DEF Host, Live
  <2>3. Dominates(Succ(g), x, Host(b, s, y))
    BY <2>1, <2>2, JoinedDominates
  <2>4. x \in Live(g)
    <3>1. CASE x = b
      <4>1. f.body[b] \in Seq(Blocks) /\ f.body[s] \in Seq(Blocks) /\ f.body[b] # <<>>
        BY <1>0, <2>1, <3>1, FunctionType DEF Live
      <4>2. g.body[b] = f.body[b] \o f.body[s]
        BY DEF Joined
      <4>3. f.body[b] \o f.body[s] # <<>>
        BY <4>1
      <4> QED BY <2>2, <3>1, <4>2, <4>3 DEF Live
    <3>2. CASE x # b
      BY <2>1, <2>2, <3>2 DEF Joined, Live
    <3> QED BY <3>1, <3>2
  <2> QED BY <1>0, <2>1, <2>3, <2>4 DEF Available
<1>5. CASE \E t \in Blocks : \E i \in 1 .. Len(f.body[t]) :
             /\ v = <<"op", f.body[t][i]>> /\ f.op[f.body[t][i]].code # "none"
             /\ Dominates(Succ(f), t, y) /\ (t = y => i < k)
  <2>1. PICK t \in Blocks : \E i \in 1 .. Len(f.body[t]) :
             /\ v = <<"op", f.body[t][i]>> /\ f.op[f.body[t][i]].code # "none"
             /\ Dominates(Succ(f), t, y) /\ (t = y => i < k)
    BY <1>5
  <2>2. PICK i \in 1 .. Len(f.body[t]) :
             /\ v = <<"op", f.body[t][i]>> /\ f.op[f.body[t][i]].code # "none"
             /\ Dominates(Succ(f), t, y) /\ (t = y => i < k)
    BY <2>1
  <2>3. PICK ht, i2 : ht = Host(b, s, t) /\ i2 = Moved(s, L, t, i)
    OBVIOUS
  <2>4. PICK hy, k2 : hy = Host(b, s, y) /\ k2 = Moved(s, L, y, k)
    OBVIOUS
  <2>5. Dominates(Succ(g), ht, hy)
    BY <2>2, <2>3, <2>4, JoinedDominates
  <2>6. ht \in Blocks /\ i2 \in 1 .. Len(g.body[ht]) /\ g.body[ht][i2] = f.body[t][i]
    <3>0. Len(f.body[s]) \in Nat /\ Len(g.body[b]) = L + Len(f.body[s])
      BY <1>6
    <3>1. CASE t = s
      <4>1. ht = b /\ i2 = L + i /\ i \in 1 .. Len(f.body[s])
        BY <2>3, <3>1 DEF Host, Moved
      <4>2. g.body[b][L + i] = f.body[s][i]
        BY <1>1, <4>1, JoinedPlaces
      <4>3. L + i \in 1 .. Len(g.body[b])
        BY <1>2, <3>0, <4>1
      <4> QED BY <1>0, <3>1, <4>1, <4>2, <4>3
    <3>2. CASE t = b
      <4>1. ht = b /\ i2 = i /\ i \in 1 .. L
        BY <1>0, <1>1, <2>3, <3>2 DEF Host, Moved
      <4>2. g.body[b][i] = f.body[b][i]
        BY <1>1, <4>1, JoinedPlaces
      <4>3. i \in 1 .. Len(g.body[b])
        BY <1>2, <3>0, <4>1
      <4> QED BY <1>0, <3>2, <4>1, <4>2, <4>3
    <3>3. CASE t # b /\ t # s
      <4>1. ht = t /\ i2 = i /\ g.body[t] = f.body[t]
        BY <2>3, <3>3 DEF Host, Moved, Joined
      <4> QED BY <4>1
    <3> QED BY <3>1, <3>2, <3>3
  <2>7. ASSUME ht = hy PROVE i2 < k2
    <3>0. i \in Nat /\ (t = b => i <= L)
      BY <1>1, <1>2, BodyType
    <3>1. CASE t = y
      BY <1>2, <2>2, <2>3, <2>4, <3>0, <3>1 DEF Moved
    <3>2. CASE t = b /\ y = s
      BY <1>0, <1>2, <2>3, <2>4, <3>0, <3>2 DEF Moved
    <3>3. CASE t = s /\ y = b
      <4>1. s \in Reachable(Succ(f))
        BY <3>3, JoinedReach
      <4>2. Dominates(Succ(f), b, s)
        BY <1>0, <4>1, SuccType, OnlyPred
      <4>3. Dominates(Succ(f), s, b)
        BY <2>2, <3>3
      <4> QED BY <1>0, <4>1, <4>2, <4>3, DominatesBack
    <3> QED BY <2>3, <2>4, <2>7, <3>1, <3>2, <3>3 DEF Host
  <2>8. g.op[g.body[ht][i2]].code # "none"
    BY <1>0, <2>2, <2>6
  <2>9. Available(g, v, hy, k2)
    BY <2>2, <2>5, <2>6, <2>7, <2>8 DEF Available
  <2> QED BY <1>1, <2>4, <2>9
<1> QED BY <1>3, <1>4, <1>5 DEF Available

LEMMA JoinedWanted ==
  ASSUME NEW f \in Function, NEW b, NEW s, NEW g \in Function, Joined(f, b, s, g),
         NEW y \in Reachable(Succ(g)), NEW k \in 1 .. EndOf(g, y), NEW v, Wanted(g, y, k, v)
  PROVE  \E z \in Reachable(Succ(f)) : \E l \in 1 .. EndOf(f, z) :
           /\ Wanted(f, z, l, v) /\ y = Host(b, s, z) /\ k = Moved(s, Len(f.body[b]), z, l)
<1>0. /\ b \in Blocks /\ s \in Blocks /\ s # b
      /\ g.phis = f.phis /\ g.op = f.op /\ g.term[b] = f.term[s]
  BY DEF Joined
<1>1. /\ y \in Reachable(Succ(f)) /\ y # s /\ y \in Blocks
      /\ Reachable(Succ(g)) \subseteq Reachable(Succ(f)) /\ Reachable(Succ(g)) \subseteq Blocks
  BY JoinedReach, SuccType
<1>2. CASE y # b
  <2>1. g.body[y] = f.body[y] /\ g.term[y] = f.term[y] /\ EndOf(g, y) = EndOf(f, y)
    BY <1>1, <1>2 DEF Joined, EndOf
  <2>2. \A x \in Blocks : g.inc[x][y] = f.inc[x][y]
    BY <1>1, <1>2 DEF Joined
  <2>3. Wanted(f, y, k, v)
    BY <1>0, <1>1, <2>1, <2>2 DEF Wanted, Arrives
  <2>4. y = Host(b, s, y) /\ k = Moved(s, Len(f.body[b]), y, k)
    BY <1>1 DEF Host, Moved
  <2> QED BY <1>1, <2>1, <2>3, <2>4
<1>3. CASE y = b
  <2>1. PICK L, M : L = Len(f.body[b]) /\ M = Len(f.body[s])
    OBVIOUS
  <2>2. /\ L \in Nat /\ M \in Nat /\ Len(g.body[b]) = L + M
        /\ EndOf(g, b) = L + M + 1 /\ EndOf(f, b) = L + 1 /\ EndOf(f, s) = M + 1
    <3>1. /\ Len(f.body[b]) \in Nat /\ Len(f.body[s]) \in Nat
          /\ Len(g.body[b]) = Len(f.body[b]) + Len(f.body[s])
      BY JoinedLengths
    <3> QED BY <2>1, <3>1 DEF EndOf
  <2>3. s \in Reachable(Succ(f))
    BY <1>1, <1>3, JoinedReach
  <2>4. b = Host(b, s, b) /\ b = Host(b, s, s) /\ \A i : Moved(s, L, b, i) = i /\ Moved(s, L, s, i) = L + i
    BY <1>0 DEF Host, Moved
  <2>5. CASE k \in 1 .. L
    <3>1. g.body[b][k] = f.body[b][k]
      BY <2>1, <2>5, JoinedPlaces
    <3>2. k # EndOf(g, b)
      BY <2>2, <2>5
    <3>3. Wanted(f, b, k, v)
      BY <1>0, <1>3, <2>1, <2>5, <3>1, <3>2 DEF Wanted
    <3>4. k \in 1 .. EndOf(f, b)
      BY <2>2, <2>5
    <3> QED BY <1>1, <1>3, <2>1, <2>4, <3>3, <3>4
  <2>6. CASE k \in L + 1 .. L + M
    <3>2. k # EndOf(g, b) /\ k - L \in 1 .. M /\ k - L \in 1 .. EndOf(f, s) /\ L + (k - L) = k
      BY <2>2, <2>6
    <3>3. PICK l \in 1 .. EndOf(f, s) : L + l = k /\ l \in 1 .. M
      BY <3>2
    <3>1. g.body[b][L + l] = f.body[s][l]
      BY <2>1, <3>3, JoinedPlaces
    <3>4. Wanted(f, s, l, v)
      BY <1>0, <1>3, <2>1, <3>1, <3>2, <3>3 DEF Wanted
    <3> QED BY <1>3, <2>1, <2>3, <2>4, <3>3, <3>4
  <2>7. CASE k = L + M + 1
    <3>1. ~(k \in 1 .. Len(g.body[b]))
      BY <2>2, <2>7
    <3>2. \A x \in Blocks : Arrives(g, x, b) => Arrives(f, x, s) /\ g.inc[x][b] = f.inc[x][s]
      BY DEF Joined
    <3>3. PICK l \in 1 .. EndOf(f, s) : l = EndOf(f, s) /\ L + l = k
      BY <2>2, <2>7
    <3>4. Wanted(f, s, l, v)
      BY <1>0, <1>1, <1>3, <3>1, <3>2, <3>3 DEF Wanted
    <3> QED BY <1>3, <2>1, <2>3, <2>4, <3>3, <3>4
  <2>8. k \in 1 .. L + M + 1
    BY <1>3, <2>2
  <2> QED BY <2>2, <2>5, <2>6, <2>7, <2>8
<1> QED BY <1>2, <1>3

LEMMA MergeBlocksStrict ==
  ASSUME NEW f \in Function, Strict(f), Matching(f), NEW b \in Blocks, CanMerge(f, b)
  PROVE  Strict(MergeBlocks(f, b))
<1>1. PICK s, g : s = f.term[b].t /\ g = MergeBlocks(f, b)
  OBVIOUS
<1>2. Joined(f, b, s, g) /\ g \in Function
  BY <1>1, MergedParts, MergeBlocksType
<1>3. Laid(g)
  BY <1>2, JoinedLaid DEF Strict
<1>4. Reachable(Succ(g)) \subseteq Reachable(Succ(f)) \ {s} /\ Reachable(Succ(f)) \subseteq Blocks
  BY <1>2, JoinedReach, SuccType
<1>5. Reachable(Succ(g)) \subseteq Live(g)
  <2> SUFFICES ASSUME NEW y \in Reachable(Succ(g)) PROVE g.body[y] # <<>>
    BY <1>4 DEF Live
  <2>1. f.body[y] # <<>> /\ y \in Blocks /\ y # s
    BY <1>4 DEF Strict, Live
  <2>2. CASE y = b
    <3>1. f.body[b] \in Seq(Blocks) /\ f.body[s] \in Seq(Blocks) /\ g.body[b] = f.body[b] \o f.body[s]
      BY <1>2, FunctionType DEF Joined
    <3> QED BY <2>1, <2>2, <3>1
  <2>3. CASE y # b
    BY <1>2, <2>1, <2>3 DEF Joined
  <2> QED BY <2>2, <2>3
<1>6. Entry \notin g.phis
  BY <1>2 DEF Strict, Joined
<1>7. ASSUME NEW y \in Reachable(Succ(g)), NEW k \in 1 .. EndOf(g, y), NEW v, Wanted(g, y, k, v)
      PROVE  Available(g, v, y, k)
  <2>1. PICK z \in Reachable(Succ(f)) : \E l \in 1 .. EndOf(f, z) :
           /\ Wanted(f, z, l, v) /\ y = Host(b, s, z) /\ k = Moved(s, Len(f.body[b]), z, l)
    BY <1>2, <1>7, JoinedWanted
  <2>2. PICK l \in 1 .. EndOf(f, z) :
           /\ Wanted(f, z, l, v) /\ y = Host(b, s, z) /\ k = Moved(s, Len(f.body[b]), z, l)
    BY <2>1
  <2>3. Available(f, v, z, l) /\ l \in Nat /\ l >= 1
    BY <2>2, SuccType, BodyType DEF Strict
  <2> QED BY <1>2, <2>2, <2>3, JoinedAvailable
<1>8. Strict(g)
  BY <1>3, <1>5, <1>6, <1>7 DEF Strict
<1> QED BY <1>1, <1>8

(* DeadInstructionElimination: what the rest begins with, and what an
   instruction that is needed needs. *)
Demands(f) ==
  UNION ({TermReads(f.term[b]) : b \in Live(f)} \cup
         {OpReads(f.op[c]) : c \in {d \in Pieces(f, Blocks) : f.op[d].code = "call"}})

Asks(f, i) == IF i[1] = "phi" THEN PhiReads(f, i[2]) ELSE OpReads(f.op[i[2]])

More(f, S) == (Demands(f) \cup UNION {Asks(f, i) : i \in S}) \cap Instrs

Marking(f, r) ==
  /\ r[0] = Demands(f) \cap Instrs
  /\ \A n \in Nat : n < 2 * N => r[n + 1] = More(f, r[n])

LEMMA NeededUnfolds ==
  ASSUME NEW f
  PROVE  \E r : Marking(f, r) /\ Needed(f) = r[2 * N]
<1> DEFINE body(g, n) == IF n = 0 THEN Demands(f) \cap Instrs ELSE More(f, g[n - 1])
           needed == CHOOSE g : g = [n \in 0 .. 2 * N |-> body(g, n)]
           D == SUBSET Instrs
           F == [S \in D |-> More(f, S)]
           a == Demands(f) \cap Instrs
<1>0. 2 * N \in Nat
  BY BlocksAssumption
<1>1. a \in D /\ \A S \in D : F[S] \in D /\ F[S] = More(f, S)
  BY DEF More
<1> HIDE DEF F, a, D
<1>2. \E g : Iteration(D, F, a, 2 * N, g)
  <2>1. \A S \in D : F[S] \in D
    BY <1>1
  <2> QED BY <1>0, <1>1, <2>1, Iterates
<1>3. PICK r \in [0 .. 2 * N -> D] : r[0] = a /\ \A n \in Nat : n < 2 * N => r[n + 1] = F[r[n]]
  BY <1>2 DEF Iteration
<1>4. ASSUME NEW n \in 0 .. 2 * N PROVE r[n] = body(r, n)
  <2>1. CASE n = 0
    BY <1>3, <2>1 DEF a
  <2>2. CASE n # 0
    <3>1. n - 1 \in Nat /\ n - 1 < 2 * N /\ (n - 1) + 1 = n /\ n - 1 \in 0 .. 2 * N
      BY <1>0, <2>2
    <3>2. r[n] = F[r[n - 1]] /\ r[n - 1] \in D
      BY <1>3, <3>1
    <3>3. r[n] = More(f, r[n - 1])
      BY <1>1, <3>2
    <3> QED BY <2>2, <3>3
  <2> QED BY <2>1, <2>2
<1>5. r = [n \in 0 .. 2 * N |-> body(r, n)]
  BY <1>4
<1>6. needed = [n \in 0 .. 2 * N |-> body(needed, n)]
  BY <1>5
<1>7. Needed(f) = needed[2 * N]
  BY DEF Needed, Demands, Asks, More
<1> HIDE DEF needed
<1>8. needed[0] = Demands(f) \cap Instrs
  <2>1. 0 \in 0 .. 2 * N
    BY <1>0
  <2> QED BY <1>6, <2>1
<1>9. ASSUME NEW n \in Nat, n < 2 * N PROVE needed[n + 1] = More(f, needed[n])
  <2>1. n + 1 \in 0 .. 2 * N /\ n + 1 # 0 /\ (n + 1) - 1 = n
    BY <1>0, <1>9
  <2> QED BY <1>6, <2>1
<1> QED BY <1>7, <1>8, <1>9 DEF Marking

LEMMA InstrsFinite == IsFiniteSet(Instrs) /\ Cardinality(Instrs) = 2 * N
<1>1. IsFiniteSet(Blocks) /\ Cardinality(Blocks) = N
  BY FS_Interval, BlocksAssumption DEF Blocks
<1>2. IsFiniteSet({"phi"}) /\ Cardinality({"phi"}) = 1
  BY FS_Singleton
<1>3. {"phi", "op"} = {"phi"} \cup {"op"}
  OBVIOUS
<1>4. IsFiniteSet({"phi", "op"}) /\ Cardinality({"phi", "op"}) = 2
  <2>1. PICK S : S = {"phi"}
    OBVIOUS
  <2>2. "op" \notin S
    BY <2>1
  <2>3. IsFiniteSet(S \cup {"op"}) /\ Cardinality(S \cup {"op"}) = Cardinality(S) + 1
    BY <1>2, <2>1, <2>2, FS_AddElement
  <2> QED BY <1>2, <1>3, <2>1, <2>3
<1> QED BY <1>1, <1>4, FS_Product DEF Instrs

(* Everything is marked that something marked needs. *)
LEMMA NeededClosed ==
  ASSUME NEW f
  PROVE  /\ Demands(f) \cap Instrs \subseteq Needed(f)
         /\ \A i \in Needed(f) : Asks(f, i) \cap Instrs \subseteq Needed(f)
<1>1. PICK r : Marking(f, r) /\ Needed(f) = r[2 * N]
  BY NeededUnfolds
<1>2. PICK M \in Nat : M = 2 * N
  BY BlocksAssumption
<1>3. r[0] = Demands(f) \cap Instrs /\ \A n \in Nat : n < M => r[n + 1] = More(f, r[n])
  BY <1>1, <1>2 DEF Marking
<1>4. \A S : More(f, S) \subseteq Instrs /\ Demands(f) \cap Instrs \subseteq More(f, S)
  BY DEF More
<1>5. \A S, T : S \subseteq T => More(f, S) \subseteq More(f, T)
  BY DEF More
<1>6. IsFiniteSet(Instrs) /\ Cardinality(Instrs) = M
  BY <1>2, InstrsFinite
<1> DEFINE I == {n \in Nat : n <= M =>
                   /\ r[n] \subseteq Instrs /\ r[n] \subseteq More(f, r[n])
                   /\ r[n] = More(f, r[n]) \/ Cardinality(r[n]) >= n}
<1>7. 0 \in I
  <2>1. IsFiniteSet(r[0])
    BY <1>3, <1>6, FS_Subset
  <2>2. Cardinality(r[0]) >= 0
    BY <2>1, FS_CardinalityType
  <2> QED BY <1>3, <1>4, <2>2
<1>8. ASSUME NEW n \in Nat, n \in I PROVE n + 1 \in I
  <2> SUFFICES ASSUME n + 1 <= M
               PROVE  /\ r[n + 1] \subseteq Instrs /\ r[n + 1] \subseteq More(f, r[n + 1])
                      /\ r[n + 1] = More(f, r[n + 1]) \/ Cardinality(r[n + 1]) >= n + 1
    OBVIOUS
  <2>1. n < M /\ n <= M
    OBVIOUS
  <2>2. r[n + 1] = More(f, r[n])
    BY <1>3, <2>1
  <2>3. /\ r[n] \subseteq Instrs /\ r[n] \subseteq More(f, r[n])
        /\ r[n] = More(f, r[n]) \/ Cardinality(r[n]) >= n
    BY <1>8, <2>1
  <2> HIDE DEF I
  <2>4. r[n + 1] \subseteq Instrs
    BY <1>4, <2>2
  <2>5. r[n + 1] \subseteq More(f, r[n + 1])
    BY <1>5, <2>2, <2>3
  <2>6. ASSUME r[n + 1] # More(f, r[n + 1]) PROVE Cardinality(r[n + 1]) >= n + 1
    <3>1. r[n] # r[n + 1] /\ r[n] # More(f, r[n]) /\ r[n] \subseteq r[n + 1]
      BY <2>2, <2>3, <2>6
    <3>2. IsFiniteSet(r[n + 1])
      BY <1>6, <2>4, FS_Subset
    <3>3. /\ IsFiniteSet(r[n]) /\ Cardinality(r[n]) < Cardinality(r[n + 1])
          /\ Cardinality(r[n]) \in Nat /\ Cardinality(r[n + 1]) \in Nat
      BY <3>1, <3>2, FS_Subset, FS_CardinalityType
    <3>4. Cardinality(r[n]) >= n
      BY <2>3, <3>1
    <3> QED BY <3>3, <3>4
  <2> QED BY <2>4, <2>5, <2>6
<1> HIDE DEF I
<1>9. M \in I
  BY <1>7, <1>8, Induction
<1>10. /\ r[M] \subseteq Instrs /\ r[M] \subseteq More(f, r[M])
       /\ r[M] = More(f, r[M]) \/ Cardinality(r[M]) >= M
  BY <1>9 DEF I
<1>11. r[M] = More(f, r[M])
  <2>1. CASE Cardinality(r[M]) >= M
    <3>1. Cardinality(r[M]) <= M /\ Cardinality(r[M]) \in Nat
      BY <1>6, <1>10, FS_Subset, FS_CardinalityType
    <3>2. r[M] = Instrs
      BY <1>6, <1>10, <2>1, <3>1, FS_Subset
    <3> QED BY <1>4, <1>10, <3>2
  <2> QED BY <1>10, <2>1
<1>12. Needed(f) = More(f, Needed(f))
  BY <1>1, <1>2, <1>11
<1> HIDE DEF Needed
<1> QED BY <1>12 DEF More

(* What is read is needed, and so is what reads it, or it is never executed. *)
LEMMA EliminateDeadStrict ==
  ASSUME NEW f \in Function, Strict(f), Matching(f)
  PROVE  Strict(EliminateDead(f))
<1>1. PICK needed : needed = Needed(f)
  OBVIOUS
<1>2. PICK B : B = {b \in f.phis : <<"phi", b>> \notin needed}
  OBVIOUS
<1>3. PICK C : C = {c \in Blocks : f.op[c].code # "call" /\ <<"op", c>> \notin needed}
  OBVIOUS
<1>4. PICK h : h = ErasePhis(f, B)
  OBVIOUS
<1>5. PICK g : g = EraseOps(h, C)
  OBVIOUS
<1>6. EliminateDead(f) = g
  BY <1>1, <1>2, <1>3, <1>4, <1>5 DEF EliminateDead
<1>7. /\ h \in Function /\ h.body = f.body /\ h.phis = f.phis \ B /\ h.op = f.op /\ h.term = f.term
      /\ Succ(h) = Succ(f)
      /\ \A b, p \in Blocks : Arrives(h, b, p) <=> b \notin B /\ Arrives(f, b, p)
      /\ \A b, p \in Blocks : b \notin B => h.inc[b][p] = f.inc[b][p]
      /\ \A b \in Blocks : \A k, v : Wanted(h, b, k, v) => Wanted(f, b, k, v)
  BY <1>4, ErasePhisWanted
<1>8. /\ g \in Function /\ g.body = h.body /\ g.phis = h.phis /\ g.inc = h.inc /\ g.term = h.term
      /\ Succ(g) = Succ(h)
      /\ \A c \in Blocks : c \notin C => g.op[c] = h.op[c]
      /\ \A c \in Blocks \cap C : OpReads(g.op[c]) = {} /\ g.op[c].code = "none"
      /\ \A b \in Blocks : \A k, v : Wanted(g, b, k, v) => Wanted(h, b, k, v)
  BY <1>5, <1>7, EraseOpsWanted
<1>9. PICK E : E = ({"phi"} \X B) \cup ({"op"} \X C)
  OBVIOUS
<1>10. \A v : v \in E => v \in Instrs /\ v \notin needed
  <2>1. B \subseteq Blocks /\ C \subseteq Blocks
    BY <1>2, <1>3, FunctionType
  <2> QED BY <1>2, <1>3, <1>9, <2>1 DEF Instrs
<1>11. /\ Demands(f) \cap Instrs \subseteq needed
       /\ \A i \in needed : Asks(f, i) \cap Instrs \subseteq needed
  BY <1>1, NeededClosed
<1>12. Reachable(Succ(f)) \subseteq Blocks /\ Reachable(Succ(f)) \subseteq Live(f)
  BY SuccType DEF Strict
<1>13. ASSUME NEW b \in Reachable(Succ(f)), NEW k \in 1 .. EndOf(f, b), NEW v, Wanted(g, b, k, v), v \in E
       PROVE  FALSE
  <2>1. v \in Instrs /\ v \notin needed /\ b \in Blocks /\ b \in Live(f)
    BY <1>10, <1>12, <1>13
  <2>2. CASE k \in 1 .. Len(g.body[b]) /\ v \in OpReads(g.op[g.body[b][k]])
    <3>1. PICK c \in Blocks : c = f.body[b][k]
      BY <1>7, <1>8, <2>1, <2>2, BodyType
    <3>2. c \notin C /\ v \in OpReads(f.op[c])
      <4>1. v \in OpReads(g.op[c])
        BY <1>7, <1>8, <2>2, <3>1
      <4>2. c \notin C
        BY <1>8, <4>1
      <4>3. g.op[c] = f.op[c]
        BY <1>7, <1>8, <4>2
      <4> QED BY <4>1, <4>2, <4>3
    <3>3. c \in Pieces(f, Blocks)
      BY <1>7, <1>8, <2>1, <2>2, <3>1 DEF Pieces
    <3>4. CASE f.op[c].code = "call"
      <4>1. v \in Demands(f)
        BY <3>2, <3>3, <3>4 DEF Demands
      <4> QED BY <1>11, <2>1, <4>1
    <3>5. CASE <<"op", c>> \in needed
      <4>1. Asks(f, <<"op", c>>) = OpReads(f.op[c])
        BY DEF Asks
      <4> QED BY <1>11, <2>1, <3>2, <3>5, <4>1
    <3> QED BY <1>3, <3>2, <3>4, <3>5
  <2>3. CASE v \in TermReads(g.term[b])
    <3>1. v \in Demands(f)
      BY <1>7, <1>8, <2>1, <2>3 DEF Demands
    <3> QED BY <1>11, <2>1, <3>1
  <2>4. CASE \E s \in Reachable(Succ(g)) : Arrives(g, s, b) /\ v = g.inc[s][b]
    <3>1. PICK s \in Reachable(Succ(g)) : Arrives(g, s, b) /\ v = g.inc[s][b]
      BY <2>4
    <3>2. s \in Blocks /\ Arrives(h, s, b) /\ v = h.inc[s][b]
      BY <1>7, <1>8, <1>12, <3>1 DEF Arrives
    <3>3. s \notin B /\ Arrives(f, s, b) /\ v = f.inc[s][b]
      BY <1>7, <2>1, <3>2
    <3>4. s \in f.phis
      BY <2>1, <3>2, <3>3 DEF Matching
    <3>5. <<"phi", s>> \in needed
      BY <1>2, <3>3, <3>4
    <3>6. v \in Asks(f, <<"phi", s>>)
      <4>1. v \in PhiReads(f, s)
        BY <2>1, <3>3 DEF PhiReads, Arrives
      <4> QED BY <4>1 DEF Asks
    <3> QED BY <1>11, <2>1, <3>5, <3>6
  <2> QED BY <1>13, <2>2, <2>3, <2>4 DEF Wanted
<1>14. \A b \in Reachable(Succ(f)) : \A k \in 1 .. EndOf(f, b) : \A v :
         Wanted(g, b, k, v) => Available(f, v, b, k) /\ v \notin E
  BY <1>7, <1>8, <1>12, <1>13 DEF Strict
<1>15. \A s \in f.phis : <<"phi", s>> \notin E => s \in g.phis
  BY <1>7, <1>8, <1>9
<1>16. \A c \in Blocks : <<"op", c>> \notin E /\ f.op[c].code # "none" => g.op[c].code # "none"
  BY <1>7, <1>8, <1>9
<1>17. g.body = f.body /\ Succ(g) = Succ(f) /\ g.phis \subseteq f.phis /\ g \in Function
  BY <1>7, <1>8
<1>18. Strict(g)
  BY <1>14, <1>15, <1>16, <1>17, StrictFrame
<1> QED BY <1>6, <1>18

LEMMA StrictInit == Init => Strict(fn)
<1> SUFFICES ASSUME Init PROVE Strict(fn)
  OBVIOUS
<1>1. PICK f \in Programs : f = fn
  BY DEF Init
<1>2. WellFormed(f)
  BY SCCPAssumption
<1>3. PICK succ : succ = Succ(f)
  OBVIOUS
<1>4. /\ f \in Function /\ Entry \notin f.phis
      /\ \A b \in Blocks : f.body[b] = <<b>>
  BY <1>2 DEF WellFormed
<1> DEFINE AtEnd(v, b) == v \notin Instrs \/ (Dominates(succ, v[2], b) /\ v[2] \in
                             IF v[1] = "phi" THEN f.phis ELSE {c \in Blocks : f.op[c].code # "none"})
<1>5. /\ \A b, p \in Blocks : f.inc[b][p] # Absent => AtEnd(f.inc[b][p], p)
      /\ \A b \in Blocks : \A v \in OpReads(f.op[b]) : AtEnd(v, b) /\ v # <<"op", b>>
      /\ \A b \in Blocks : \A v \in TermReads(f.term[b]) : AtEnd(v, b)
  BY <1>2, <1>3 DEF WellFormed
<1>6. \A b \in Blocks : Len(f.body[b]) = 1 /\ f.body[b][1] = b /\ EndOf(f, b) = 2 /\ b \in Live(f)
  <2> SUFFICES ASSUME NEW b \in Blocks
               PROVE  Len(f.body[b]) = 1 /\ f.body[b][1] = b /\ EndOf(f, b) = 2 /\ b \in Live(f)
    OBVIOUS
  <2>1. f.body[b] = <<b>>
    BY <1>4
  <2>2. Len(f.body[b]) = 1 /\ f.body[b][1] = b /\ f.body[b] # <<>>
    BY <2>1
  <2>3. EndOf(f, b) = 2
    BY <2>2 DEF EndOf
  <2>4. b \in Live(f)
    BY <2>2 DEF Live
  <2> QED BY <2>2, <2>3, <2>4
<1>7. ASSUME NEW b \in Blocks, NEW k \in 1 .. 2, NEW v \in Values, v # Null, AtEnd(v, b),
             v = <<"op", b>> => k = 2
      PROVE  Available(f, v, b, k)
  <2>1. CASE v \notin Instrs
    BY <1>7, <2>1, ValueCases DEF Available
  <2>2. CASE v \in Instrs
    <3>1. PICK c \in Blocks : v = <<"phi", c>> \/ v = <<"op", c>>
      BY <2>2 DEF Instrs
    <3>2. Dominates(Succ(f), c, b)
          /\ c \in IF v[1] = "phi" THEN f.phis ELSE {d \in Blocks : f.op[d].code # "none"}
      BY <1>3, <1>7, <2>2, <3>1
    <3>3. CASE v = <<"phi", c>>
      BY <1>6, <3>2, <3>3 DEF Available
    <3>4. CASE v = <<"op", c>>
      <4>1. 1 \in 1 .. Len(f.body[c]) /\ f.body[c][1] = c
        BY <1>6
      <4>2. c = b => 1 < k
        BY <1>7, <3>4
      <4> QED BY <3>2, <3>4, <4>1, <4>2 DEF Available
    <3> QED BY <3>1, <3>3, <3>4
  <2> QED BY <2>1, <2>2
<1> HIDE DEF AtEnd
<1>8. \A b \in Blocks : /\ Null \notin OpReads(f.op[b]) /\ Null \notin TermReads(f.term[b])
                        /\ Null \notin PhiReads(f, b)
  BY OperandsAssumption
<1>9. Reachable(succ) \subseteq Blocks
  BY <1>3, <1>4, SuccType
<1>10. ASSUME NEW b \in Reachable(succ), NEW k \in 1 .. EndOf(f, b), NEW v, Wanted(f, b, k, v)
       PROVE  Available(f, v, b, k)
  <2>1. b \in Blocks /\ k \in 1 .. 2
    BY <1>6, <1>9
  <2>2. CASE k \in 1 .. Len(f.body[b]) /\ v \in OpReads(f.op[f.body[b][k]])
    <3>1. k = 1 /\ v \in OpReads(f.op[b])
      BY <1>6, <2>1, <2>2
    <3>2. f.op[b] \in Op
      BY <1>4, <2>1, FunctionType
    <3>3. v \in Values
      BY <3>1, <3>2 DEF OpReads, Op
    <3> QED BY <1>5, <1>7, <1>8, <2>1, <3>1, <3>3
  <2>3. CASE k = EndOf(f, b) /\ v \in TermReads(f.term[b])
    <3>1. k = 2 /\ f.term[b] \in Term
      BY <1>4, <1>6, <2>1, <2>3, FunctionType
    <3>2. v \in Values
      BY <2>3, <3>1 DEF TermReads, Term
    <3> QED BY <1>5, <1>7, <1>8, <2>1, <2>3, <3>1, <3>2
  <2>4. CASE k = EndOf(f, b) /\ \E s \in Reachable(Succ(f)) : Arrives(f, s, b) /\ v = f.inc[s][b]
    <3>1. PICK s \in Blocks : Arrives(f, s, b) /\ v = f.inc[s][b]
      BY <1>3, <1>9, <2>4
    <3>2. k = 2 /\ v \in Values /\ v # Absent
      BY <1>4, <1>6, <2>1, <2>4, <3>1, FunctionType DEF Arrives
    <3>3. v \in PhiReads(f, s)
      BY <2>1, <3>1, <3>2 DEF PhiReads
    <3> QED BY <1>5, <1>7, <1>8, <2>1, <3>1, <3>2, <3>3 DEF Arrives
  <2> QED BY <1>10, <2>2, <2>3, <2>4 DEF Wanted
<1>11. Laid(f)
  BY <1>6 DEF Laid
<1>12. Reachable(succ) \subseteq Live(f)
  BY <1>6, <1>9
<1> QED BY <1>1, <1>3, <1>4, <1>10, <1>11, <1>12 DEF Strict

(* What GVN's table holds stands in a block that it has been through, before
   the instruction it is at. *)
Tabled ==
  /\ phase = "numbers" /\ cur # 0 => cur \in visited
  /\ phase # "numbers" => table = {}
  /\ \A t \in table :
       /\ fn.op[t[1]].code # "none"
       /\ \E b \in visited : \E j \in 1 .. Len(fn.body[b]) :
            fn.body[b][j] = t[1] /\ (b = cur => j < next)

LEMMA TabledNumberNext ==
  ASSUME TypeOK, Standing, Tabled, Strict(fn), NumberNext
  PROVE  Tabled'
<1>0. fn \in Function /\ table \in SUBSET (Blocks \X Op) /\ visited \in SUBSET Blocks /\ 0 \notin Blocks
  BY EntryFirst DEF TypeOK
<1>1. /\ phase = "numbers" /\ cur # 0 /\ cur \in visited /\ cur \in Blocks
      /\ next \in 1 .. Len(fn.body[cur]) /\ next \in Nat
      /\ UNCHANGED <<phase, visited>>
      /\ (next' = next + 1 /\ cur' = cur) \/ (cur' = 0 /\ next' = 0)
  BY DEF NumberNext, Tabled, TypeOK, Standing
<1>2. PICK c \in Blocks : c = fn.body[cur][next]
  BY <1>0, <1>1, BodyType
<1>3. ASSUME NEW t \in table PROVE \E b \in visited : \E j \in 1 .. Len(fn.body[b]) :
             fn.body[b][j] = t[1] /\ (b = cur' => j < next') /\ t[1] # c /\ t[1] \in Blocks
  <2>1. PICK b \in visited : \E j \in 1 .. Len(fn.body[b]) : fn.body[b][j] = t[1] /\ (b = cur => j < next)
    BY DEF Tabled
  <2>2. PICK j \in 1 .. Len(fn.body[b]) : fn.body[b][j] = t[1] /\ (b = cur => j < next)
    BY <2>1
  <2>3. b \in Blocks /\ j \in Nat /\ Laid(fn)
    BY <1>0 DEF Strict
  <2>4. b = cur' => j < next'
    BY <1>0, <1>1, <2>2, <2>3
  <2>5. t[1] # c
    BY <1>1, <1>2, <2>2, <2>3 DEF Laid
  <2>6. t[1] \in Blocks
    BY <1>0, <2>2, <2>3, BodyType
  <2> QED BY <2>2, <2>4, <2>5, <2>6
<1>4. CASE \E v \in Values : fn' = ReplaceOne(fn, c, v) /\ table' = table
  <2>1. PICK v \in Values : fn' = ReplaceOne(fn, c, v) /\ table' = table
    BY <1>4
  <2>2. fn'.body = fn.body
    BY <1>0, <2>1, ReplaceOneType
  <2>3. \A d \in Blocks : d # c => fn'.op[d].code = fn.op[d].code
    <3> DEFINE S == {<<"op", c>>}
               s == [i \in S |-> IF v = i THEN Null ELSE v]
    <3>1. PICK g : g = Replace(fn, s)
      OBVIOUS
    <3>2. S \in SUBSET Instrs /\ s \in [S -> Values]
      BY OpInstr DEF Values
    <3>3. fn' = EraseOps(g, {c})
      BY <2>1, <3>1 DEF ReplaceOne
    <3> HIDE DEF S, s
    <3>4. g \in Function
      BY <1>0, <3>1, <3>2, ReplaceType
    <3>5. \A d \in Blocks : g.op[d].code = fn.op[d].code
      BY <1>0, <3>1, ImageReads
    <3>6. \A d \in Blocks : d \notin {c} => fn'.op[d] = g.op[d]
      BY <3>3, <3>4, EraseOpsWanted
    <3> QED BY <3>5, <3>6
  <2> QED BY <1>1, <1>3, <2>1, <2>2, <2>3 DEF Tabled
<1>5. CASE fn' = fn /\ table' = table \cup {t \in {<<c, fn.op[c]>>} : t[2].code = "pure"}
  <2>1. ASSUME NEW t \in table'
        PROVE  /\ fn.op[t[1]].code # "none"
               /\ \E b \in visited : \E j \in 1 .. Len(fn.body[b]) :
                    fn.body[b][j] = t[1] /\ (b = cur' => j < next')
    <3>1. CASE t \in table
      BY <1>3, <3>1 DEF Tabled
    <3>2. CASE t = <<c, fn.op[c]>> /\ t[2].code = "pure"
      <4>1. cur = cur' => next < next'
        BY <1>1
      <4> QED BY <1>1, <1>2, <3>2, <4>1
    <3> QED BY <1>5, <3>1, <3>2
  <2> QED BY <1>1, <1>5, <2>1 DEF Tabled
<1> DEFINE same == Redundant(fn, table, cur, c)
<1>6. \/ fn' \in {ReplaceOne(fn, c, v) : v \in same} /\ table' = table
      \/ fn' = fn /\ table' = table \cup {t \in {<<c, fn.op[c]>>} : t[2].code = "pure"}
  BY <1>2 DEF NumberNext
<1>7. same \in SUBSET Values
  BY <1>0, <1>2, RedundantType
<1> QED BY <1>4, <1>5, <1>6, <1>7

LEMMA TabledStep ==
  ASSUME TypeOK, Standing, Tabled, Strict(fn), [Next]_vars
  PROVE  Tabled'
<1>1. CASE NumberNext
  BY <1>1, TabledNumberNext
<1>2. CASE \E b \in Blocks : EnterBlock(b)
  <2>1. PICK b \in Blocks : EnterBlock(b)
    BY <1>2
  <2>2. /\ phase = "numbers" /\ cur' = b /\ b \notin visited /\ visited' = visited \cup {b}
        /\ UNCHANGED <<fn, phase, table>>
    BY <2>1 DEF EnterBlock
  <2>3. ASSUME NEW t \in table
        PROVE  /\ fn.op[t[1]].code # "none"
               /\ \E a \in visited' : \E j \in 1 .. Len(fn.body[a]) :
                    fn.body[a][j] = t[1] /\ (a = cur' => j < next')
    BY <2>2 DEF Tabled
  <2> QED BY <2>2, <2>3 DEF Tabled
<1>3. CASE EndTurn
  BY <1>3 DEF EndTurn, Tabled, analysis
<1>4. CASE RunCopies
  BY <1>4 DEF RunCopies, Pass, Tabled, Standing, analysis, numbering
<1>5. CASE UNCHANGED vars
  BY <1>5 DEF vars, Tabled, analysis, numbering
<1>6. ASSUME phase # "numbers", phase' # "numbers", UNCHANGED table PROVE Tabled'
  BY <1>6 DEF Tabled
<1>7. CASE RunConstants \/ RunBranches \/ RunBlocks \/ EndMerge \/ RunDeadBlocks \/ RunDead \/ RunMerge
  BY <1>6, <1>7 DEF RunConstants, RunBranches, RunBlocks, EndMerge, RunDeadBlocks, RunDead,
                    RunMerge, Pass, numbering
<1>8. CASE RunPhis \/ EndPhis \/ CombineBlock \/ CombineNext \/ NextRound \/ StartRun \/ Run
  BY <1>6, <1>8 DEF RunPhis, EndPhis, CombineBlock, CombineNext, NextRound, StartRun, Run, numbering
<1>9. CASE Analyse /\ UNCHANGED <<fn, round, numbering, machines>>
  <2>1. phase = "analyse" /\ phase' \in {"analyse", "constants"}
    BY <1>9 DEF Analyse, PopBlock, PopAgain, VisitNext, VisitUser, EndAnalysis
  <2> QED BY <1>6, <1>9, <2>1 DEF numbering
<1> QED BY <1>1, <1>2, <1>3, <1>4, <1>5, <1>7, <1>8, <1>9 DEF Next, Passes

LEMMA StrictNumberNext ==
  ASSUME TypeOK, Standing, Tabled, Strict(fn), NumberNext
  PROVE  Strict(fn')
<1>0. fn \in Function /\ table \in SUBSET (Blocks \X Op) /\ visited \in SUBSET Blocks
  BY DEF TypeOK
<1>1. cur \in Blocks /\ next \in 1 .. Len(fn.body[cur])
  BY DEF NumberNext, TypeOK, Standing
<1>2. PICK c \in Blocks : c = fn.body[cur][next]
  BY <1>0, <1>1, BodyType
<1> DEFINE same == Redundant(fn, table, cur, c)
<1>3. (\E v \in same : fn' = ReplaceOne(fn, c, v)) \/ fn' = fn
  BY <1>2 DEF NumberNext
<1>4. \A t \in table : /\ fn.op[t[1]].code # "none"
                       /\ \E b \in Blocks : \E i \in 1 .. Len(fn.body[b]) :
                            fn.body[b][i] = t[1] /\ (b = cur => i < next)
  BY <1>0 DEF Tabled
<1>5. ASSUME NEW v \in same, fn' = ReplaceOne(fn, c, v)
      PROVE  Strict(fn')
  <2>1. v \in Values
    BY <1>0, <1>2, RedundantType
  <2>2. cur \in Reachable(Succ(fn)) => Available(fn, v, cur, next)
    BY <1>0, <1>1, <1>2, <1>4, RedundantAvailable
  <2> QED BY <1>0, <1>1, <1>2, <1>5, <2>1, <2>2, ReplaceAtPlace
<1> QED BY <1>3, <1>5

LEMMA StrictStep ==
  ASSUME TypeOK, Standing, Tabled, Matching(fn), Strict(fn), [Next]_vars
  PROVE  Strict(fn')
<1>0. fn \in Function
  BY DEF TypeOK
<1>1. CASE RunConstants
  BY <1>0, <1>1, ReplaceConstantsStrict DEF RunConstants, Pass
<1>2. CASE RunCopies
  BY <1>0, <1>2, EliminateCopiesStrict DEF RunCopies, Pass
<1>3. CASE RunBranches
  BY <1>0, <1>3, FoldBranchesStrict DEF RunBranches, Pass
<1>4. CASE RunPhis
  <2>1. cur < N /\ fn' = SimplifyPhi(fn, cur + 1)
    BY <1>4 DEF RunPhis
  <2>2. cur + 1 \in Blocks
    BY <2>1, BlocksAssumption DEF TypeOK, Blocks
  <2> QED BY <1>0, <2>1, <2>2, SimplifyPhiStrict
<1>5. CASE RunBlocks \/ RunDeadBlocks
  BY <1>0, <1>5, RemoveUnreachableStrict DEF RunBlocks, RunDeadBlocks, Pass
<1>6. CASE RunMerge
  BY <1>0, <1>6, MergeBlocksStrict DEF RunMerge, Pass
<1>7. CASE RunDead
  BY <1>0, <1>7, EliminateDeadStrict DEF RunDead, Pass
<1>8. CASE EndMerge
  BY <1>8 DEF EndMerge, Pass
<1>9. CASE (Analyse /\ UNCHANGED <<fn, round, numbering, machines>>)
            \/ EndPhis \/ NextRound \/ StartRun \/ Run
  BY <1>9 DEF EndPhis, NextRound, StartRun, Run
<1>10. CASE UNCHANGED vars
  BY <1>10 DEF vars
<1>11. CASE (\E b \in Blocks : EnterBlock(b)) \/ EndTurn \/ CombineBlock
  BY <1>11 DEF EnterBlock, EndTurn, CombineBlock
<1>12. CASE NumberNext
  BY <1>12, StrictNumberNext
<1>13. CASE CombineNext
  <2>1. cur \in Blocks /\ next + 1 \in 1 .. Len(fn.body[cur]) /\ fn' \in Combine(fn, fn.body[cur][next + 1])
    <3>1. next < BlockLength /\ next \in Nat /\ cur \in Blocks \cup {0}
      BY <1>13 DEF CombineNext, TypeOK
    <3>2. cur # 0
      BY <3>1 DEF BlockLength
    <3>3. Len(fn.body[cur]) \in Nat /\ next < Len(fn.body[cur])
      BY <1>0, <3>1, <3>2, BodyType DEF BlockLength
    <3> QED BY <1>13, <3>1, <3>2, <3>3 DEF CombineNext
  <2> QED BY <1>0, <2>1, CombineStrict
<1> QED BY <1>1, <1>2, <1>3, <1>4, <1>5, <1>6, <1>7, <1>8, <1>9, <1>10, <1>11, <1>12, <1>13
        DEF Next, Passes

LEMMA StrictReads ==
  ASSUME NEW f \in Function, Strict(f), NEW b \in Reachable(Succ(f))
  PROVE  /\ \A v \in TermReads(f.term[b]) : Exists(f, v)
         /\ \A p \in Reachable(Succ(f)) : f.inc[b][p] # Absent => Exists(f, f.inc[b][p])
         /\ \A c \in Pieces(f, {b}) : \A v \in OpReads(f.op[c]) : Exists(f, v)
<1>1. \A s, k, v : Available(f, v, s, k) => Exists(f, v)
  <2> SUFFICES ASSUME NEW s, NEW k, NEW v, Available(f, v, s, k) PROVE Exists(f, v)
    OBVIOUS
  <2>1. \A t \in Blocks : \A j \in 1 .. Len(f.body[t]) : f.body[t][j] \in Pieces(f, Blocks)
    BY BodyType DEF Pieces
  <2> QED BY <2>1 DEF Available, Exists
<1>2. \A s \in Reachable(Succ(f)) : EndOf(f, s) \in 1 .. EndOf(f, s) /\ s \in Blocks
  BY SuccType, BodyType
<1>3. \A v \in TermReads(f.term[b]) : Exists(f, v)
  BY <1>1, <1>2 DEF Strict, Wanted
<1>4. \A p \in Reachable(Succ(f)) : f.inc[b][p] # Absent => Exists(f, f.inc[b][p])
  BY <1>1, <1>2 DEF Strict, Wanted, Arrives
<1>5. ASSUME NEW c \in Pieces(f, {b}), NEW v \in OpReads(f.op[c]) PROVE Exists(f, v)
  <2>1. PICK j \in 1 .. Len(f.body[b]) : c = f.body[b][j]
    BY DEF Pieces
  <2> QED BY <1>1, <2>1, ReadAvailable
<1> QED BY <1>3, <1>4, <1>5

(* However often the passes replace, fold, erase and merge: no instruction that
   can be executed reads a null or what was erased. *)
THEOREM OperandsExistAlways == Spec => []OperandsExist
<1>1. Init => TypeOK /\ Visiting /\ Standing /\ Matching(fn) /\ Strict(fn)
  BY TypeInit, MatchingInit, StrictInit
<1>2. Init => Tabled
  BY DEF Init, Tabled
<1>3. TypeOK /\ Visiting /\ Standing /\ Matching(fn) /\ Strict(fn) /\ Tabled /\ [Next]_vars
        => TypeOK' /\ Visiting' /\ Standing' /\ Matching(fn)' /\ Strict(fn)' /\ Tabled'
  BY TypeStep, StandingStep, MatchingStep, StrictStep, TabledStep
<1>4. TypeOK /\ Strict(fn) => OperandsExist
  BY StrictReads DEF OperandsExist, TypeOK
<1> QED BY <1>1, <1>2, <1>3, <1>4, PTL DEF Spec

-----------------------------------------------------------------------------
(* An instruction stands in one place, so that no block has more than N. *)
LEMMA BodyShort ==
  ASSUME NEW f \in Function, Laid(f), NEW b \in Blocks
  PROVE  Len(f.body[b]) <= N
<1>1. Len(f.body[b]) \in Nat /\ \A k \in 1 .. Len(f.body[b]) : f.body[b][k] \in Blocks
  BY BodyType
<1> DEFINE S == 1 .. Len(f.body[b])
           h == [k \in S |-> f.body[b][k]]
<1>2. h \in [S -> Blocks]
  BY <1>1
<1>3. \A j, k \in S : h[j] = h[k] => j = k
  BY DEF Laid
<1>4. h \in Injection(S, Blocks)
  BY <1>2, <1>3 DEF Injection, IsInjective
<1>5. IsFiniteSet(Blocks) /\ Cardinality(Blocks) = N
  BY FS_Interval, BlocksAssumption DEF Blocks
<1> HIDE DEF h
<1>6. Cardinality(S) <= N
  BY <1>4, <1>5, FS_Injection
<1>7. Cardinality(S) = Len(f.body[b])
  BY <1>1, FS_Interval
<1> QED BY <1>6, <1>7

-----------------------------------------------------------------------------
(* What a block makes, what its instructions read, and what it hands to the
   phis of its successors. *)
Makes(f, b) == {At(f, b, k) : k \in 0 .. Len(f.body[b])}
Uses(f, b)  == UNION {ReadBy(f, At(f, b, k)) : k \in 1 .. EndOf(f, b)}
Sends(f, b) == {f.inc[s][b] : s \in Succ(f)[b]}

LEMMA AtPlaces ==
  ASSUME NEW f \in Function, NEW b \in Blocks
  PROVE  /\ At(f, b, 0) = <<"phi", b>> /\ At(f, b, EndOf(f, b)) = <<"term", b>>
         /\ \A k \in 1 .. Len(f.body[b]) : At(f, b, k) = <<"op", f.body[b][k]>>
         /\ \A k : k \in 0 .. EndOf(f, b) <=> k = 0 \/ k = EndOf(f, b) \/ k \in 1 .. Len(f.body[b])
<1>1. Len(f.body[b]) \in Nat /\ EndOf(f, b) = Len(f.body[b]) + 1
  BY BodyType
<1> QED BY <1>1 DEF At

LEMMA ReadsAt ==
  ASSUME NEW f \in Function, NEW b \in Blocks
  PROVE  /\ ReadBy(f, At(f, b, EndOf(f, b))) = TermReads(f.term[b])
         /\ \A k \in 1 .. Len(f.body[b]) : ReadBy(f, At(f, b, k)) = OpReads(f.op[f.body[b][k]])
<1>1. At(f, b, EndOf(f, b)) = <<"term", b>>
  BY AtPlaces
<1>2. \A k \in 1 .. Len(f.body[b]) : At(f, b, k) = <<"op", f.body[b][k]>>
  BY AtPlaces
<1> QED BY <1>1, <1>2 DEF ReadBy

(* Nothing in a block reads what the block makes later. *)
LEMMA AliveBeforeIs ==
  ASSUME NEW f \in Function, Strict(f), NEW b \in Reachable(Succ(f)), NEW out, NEW v \in Carried
  PROVE  v \in AliveBefore(f, b, out) <=> v \notin Makes(f, b) /\ (v \in out \/ v \in Uses(f, b))
<1>1. b \in Blocks /\ Len(f.body[b]) \in Nat /\ EndOf(f, b) = Len(f.body[b]) + 1
  BY SuccType, BodyType
<1> DEFINE Before(k) == {At(f, b, j) : j \in 0 .. k - 1}
<1>2. v \in AliveBefore(f, b, out) <=>
        (v \in out /\ v \notin Makes(f, b)) \/
        \E k \in 1 .. EndOf(f, b) : v \in ReadBy(f, At(f, b, k)) /\ v \notin Before(k)
  <2> DEFINE Exposed(k) == ReadBy(f, At(f, b, k)) \ Before(k)
  <2>1. AliveBefore(f, b, out) =
          (out \ Makes(f, b)) \cup ((UNION {Exposed(k) : k \in 1 .. EndOf(f, b)}) \cap Carried)
    BY DEF AliveBefore, Makes
  <2>2. \A k : v \in Exposed(k) <=> v \in ReadBy(f, At(f, b, k)) /\ v \notin Before(k)
    OBVIOUS
  <2>3. v \in UNION {Exposed(k) : k \in 1 .. EndOf(f, b)} <=> \E k \in 1 .. EndOf(f, b) : v \in Exposed(k)
    OBVIOUS
  <2> HIDE DEF Exposed, Before
  <2>4. v \in AliveBefore(f, b, out) <=>
          (v \in out /\ v \notin Makes(f, b)) \/ \E k \in 1 .. EndOf(f, b) : v \in Exposed(k)
    <3>1. PICK X : X = UNION {Exposed(k) : k \in 1 .. EndOf(f, b)}
      OBVIOUS
    <3>2. v \in AliveBefore(f, b, out) <=> (v \in out /\ v \notin Makes(f, b)) \/ v \in X
      BY <2>1, <3>1
    <3> QED BY <2>3, <3>1, <3>2
  <2> QED BY <2>2, <2>4
<1>3. ASSUME NEW k \in 1 .. EndOf(f, b), v \in ReadBy(f, At(f, b, k)), v \notin Before(k)
      PROVE  v \notin Makes(f, b)
  <2> SUFFICES ASSUME NEW j \in 0 .. Len(f.body[b]), v = At(f, b, j) PROVE FALSE
    BY DEF Makes
  <2>1. k \in Nat /\ j >= k /\ j \in 1 .. Len(f.body[b])
    BY <1>1, <1>3
  <2>2. v = <<"op", f.body[b][j]>>
    BY <1>1, <2>1, AtPlaces
  <2>3. v \in OpReads(f.op[f.body[b][k]]) /\ k \in 1 .. Len(f.body[b])
    BY <1>1, <1>3, <2>1, ReadsAt
  <2>4. Available(f, v, b, k)
    BY <2>3 DEF Strict, Wanted
  <2>5. PICK s \in Blocks : \E i \in 1 .. Len(f.body[s]) :
          v = <<"op", f.body[s][i]>> /\ (s = b => i < k)
    BY <2>2, <2>4 DEF Available, Const, Arg
  <2>6. PICK i \in 1 .. Len(f.body[s]) : v = <<"op", f.body[s][i]>> /\ (s = b => i < k)
    BY <2>5
  <2>7. f.body[s][i] = f.body[b][j] /\ Laid(f)
    BY <2>2, <2>6 DEF Strict
  <2>8. s = b /\ i = j
    BY <1>1, <2>1, <2>7 DEF Laid
  <2> QED BY <2>1, <2>6, <2>8
<1>4. \A k \in 1 .. EndOf(f, b) : Before(k) \subseteq Makes(f, b)
  BY <1>1 DEF Makes
<1>5. v \in Uses(f, b) <=> \E k \in 1 .. EndOf(f, b) : v \in ReadBy(f, At(f, b, k))
  BY DEF Uses
<1> HIDE DEF Before
<1> QED BY <1>2, <1>3, <1>4, <1>5

(* An iteration of computePerInstructionCFGLiveness over all blocks. *)
Round(f, alive) ==
  [b \in Blocks |-> IF b \notin Live(f) THEN {} ELSE AliveBefore(f, b, AliveAtEnd(f, b, alive))]

AllDead == [b \in Blocks |-> {}]

LEMMA RoundType ==
  ASSUME NEW f, NEW alive \in [Blocks -> SUBSET Carried], NEW b \in Blocks
  PROVE  AliveAtEnd(f, b, alive) \in SUBSET Carried => Round(f, alive)[b] \in SUBSET Carried
<1>1. ASSUME NEW out PROVE AliveBefore(f, b, out) \subseteq out \cup Carried
  <2> DEFINE defs == {At(f, b, k) : k \in 0 .. Len(f.body[b])}
             Exposed(k) == ReadBy(f, At(f, b, k)) \ {At(f, b, j) : j \in 0 .. k - 1}
             read == UNION {Exposed(k) : k \in 1 .. EndOf(f, b)}
  <2>1. AliveBefore(f, b, out) = (out \ defs) \cup (read \cap Carried)
    BY DEF AliveBefore
  <2> HIDE DEF defs, read
  <2> QED BY <2>1
<1>2. Round(f, alive)[b] = IF b \notin Live(f) THEN {} ELSE AliveBefore(f, b, AliveAtEnd(f, b, alive))
  BY DEF Round
<1> QED BY <1>1, <1>2

LEMMA AliveUnfolds ==
  ASSUME NEW f \in Function
  PROVE  \E r \in [0 .. N -> [Blocks -> SUBSET Carried]] :
           /\ r[0] = AllDead
           /\ \A n \in Nat : n < N => r[n + 1] = Round(f, r[n])
           /\ LiveAfterMap(f) = [b \in Live(f) |-> AliveAtEnd(f, b, r[N])]
<1> DEFINE body(g, n) == [b \in Blocks |->
             IF n = 0 \/ b \notin Live(f) THEN {}
             ELSE AliveBefore(f, b, AliveAtEnd(f, b, g[n - 1]))]
           alive == CHOOSE g : g = [n \in 0 .. N |-> body(g, n)]
           D == [Blocks -> SUBSET Carried]
           F == [q \in D |-> Round(f, q)]
<1>1. AllDead \in D
  BY DEF AllDead
<1>2. \A q \in D : Round(f, q) \in D
  <2> SUFFICES ASSUME NEW q \in D, NEW b \in Blocks PROVE Round(f, q)[b] \in SUBSET Carried
    BY DEF Round
  <2>1. Succ(f)[b] \subseteq Blocks
    BY SuccType
  <2>2. AliveAtEnd(f, b, q) \subseteq Carried
    BY <2>1 DEF AliveAtEnd
  <2> QED BY <2>2, RoundType
<1>3. \A q \in D : F[q] = Round(f, q)
  OBVIOUS
<1> HIDE DEF F, D
<1>4. PICK r \in [0 .. N -> D] : r[0] = AllDead /\ \A n \in Nat : n < N => r[n + 1] = F[r[n]]
  <2>1. \A x \in D : F[x] \in D
    BY <1>2, <1>3
  <2>2. \E g : Iteration(D, F, AllDead, N, g)
    BY <1>1, <2>1, Iterates, BlocksAssumption
  <2> QED BY <2>2 DEF Iteration
<1>5. \A n \in Nat : n < N => r[n + 1] = Round(f, r[n])
  <2> SUFFICES ASSUME NEW n \in Nat, n < N PROVE r[n + 1] = Round(f, r[n])
    OBVIOUS
  <2>1. n \in 0 .. N
    BY BlocksAssumption
  <2> QED BY <1>3, <1>4, <2>1
<1>6. ASSUME NEW n \in 0 .. N PROVE r[n] = body(r, n)
  <2>1. CASE n = 0
    BY <1>4, <2>1 DEF AllDead
  <2>2. CASE n # 0
    <3>1. n - 1 \in Nat /\ n - 1 < N /\ (n - 1) + 1 = n
      BY <2>2, BlocksAssumption
    <3>2. r[n] = Round(f, r[n - 1])
      BY <1>5, <3>1
    <3> QED BY <2>2, <3>2 DEF Round
  <2> QED BY <2>1, <2>2
<1>7. r = [n \in 0 .. N |-> body(r, n)]
  BY <1>6
<1>8. alive = [n \in 0 .. N |-> body(alive, n)]
  BY <1>7
<1>9. LiveAfterMap(f) = [b \in Live(f) |-> AliveAtEnd(f, b, alive[N])]
  BY DEF LiveAfterMap
<1> HIDE DEF alive
<1>10. alive[0] = AllDead
  <2>1. alive[0] = body(alive, 0)
    BY <1>8, BlocksAssumption
  <2> QED BY <2>1 DEF AllDead
<1>11. ASSUME NEW n \in Nat, n < N PROVE alive[n + 1] = Round(f, alive[n])
  <2>1. n + 1 \in 0 .. N /\ n + 1 # 0 /\ (n + 1) - 1 = n
    BY <1>11, BlocksAssumption
  <2>2. alive[n + 1] = body(alive, n + 1)
    BY <1>8, <2>1
  <2> QED BY <2>1, <2>2 DEF Round
<1> DEFINE T == {n \in Nat : n <= N => alive[n] \in D}
<1>12. 0 \in T
  BY <1>1, <1>10
<1>13. ASSUME NEW n \in Nat, n \in T PROVE n + 1 \in T
  <2> SUFFICES ASSUME n + 1 <= N PROVE alive[n + 1] \in D
    OBVIOUS
  <2>1. n < N /\ alive[n] \in D
    BY <1>13, BlocksAssumption
  <2> QED BY <1>2, <1>11, <2>1
<1> HIDE DEF T
<1>14. \A n \in Nat : n \in T
  BY <1>12, <1>13, Induction
<1>15. \A n \in 0 .. N : alive[n] \in D
  BY <1>14 DEF T
<1>16. alive \in [0 .. N -> D]
  BY <1>8, <1>15
<1> QED BY <1>9, <1>10, <1>11, <1>16 DEF D

(* Functions that go on to allocation: no block is left that is not reached. *)
Trimmed(f) == f \in Function /\ Strict(f) /\ Matching(f) /\ Live(f) = Reachable(Succ(f))

(* The blocks before which v is alive when it is alive before those of S. *)
Wakes(f, v) ==
  [S \in SUBSET Blocks |-> {b \in Live(f) : v \notin Makes(f, b) /\
     (v \in Uses(f, b) \cup Sends(f, b) \/ Succ(f)[b] \cap S # {})}]

AliveIn(v, alive) == {b \in Blocks : v \in alive[b]}

LEMMA LiveBlocks ==
  ASSUME NEW f, Trimmed(f), NEW b \in Live(f)
  PROVE  /\ b \in Blocks /\ b \in Reachable(Succ(f)) /\ Succ(f)[b] \subseteq Live(f)
<1>1. /\ Succ(f) \in [Blocks -> SUBSET Blocks] /\ {Entry} \in SUBSET Blocks
      /\ b \in Reachable(Succ(f))
  BY SuccType DEF Trimmed
<1>2. Succ(f)[b] \ {} \subseteq Reachable(Succ(f))
  BY <1>1, ReachClosed DEF Reachable
<1> QED BY <1>1, <1>2 DEF Trimmed, Live

LEMMA RoundWakes ==
  ASSUME NEW f, Trimmed(f), NEW alive \in [Blocks -> SUBSET Carried], NEW v \in Carried,
         \A s \in Blocks : <<"phi", s>> \notin alive[s]
  PROVE  /\ AliveIn(v, Round(f, alive)) = Wakes(f, v)[AliveIn(v, alive)]
         /\ \A s \in Blocks : <<"phi", s>> \notin Round(f, alive)[s]
<1>0. f \in Function /\ Strict(f)
  BY DEF Trimmed
<1>1. ASSUME NEW b \in Live(f), NEW u \in Carried
      PROVE  u \in Round(f, alive)[b] <=>
               u \notin Makes(f, b) /\ (u \in AliveAtEnd(f, b, alive) \/ u \in Uses(f, b))
  <2>1. b \in Blocks /\ b \in Reachable(Succ(f))
    BY LiveBlocks
  <2>2. Round(f, alive)[b] = AliveBefore(f, b, AliveAtEnd(f, b, alive))
    BY <2>1 DEF Round
  <2> QED BY <1>0, <2>1, <2>2, AliveBeforeIs
<1>2. ASSUME NEW b \in Live(f)
      PROVE  v \in AliveAtEnd(f, b, alive) <=>
               v \in Sends(f, b) \/ \E s \in Succ(f)[b] : v \in alive[s]
  <2>1. Succ(f)[b] \subseteq Blocks
    BY <1>0, LiveBlocks, SuccType
  <2>2. \A s \in Succ(f)[b] : v \in alive[s] \ {<<"phi", s>>} <=> v \in alive[s]
    BY <2>1
  <2>3. v \in AliveAtEnd(f, b, alive) <=>
          \E s \in Succ(f)[b] : v \in alive[s] \ {<<"phi", s>>} \/ v \in {f.inc[s][b]} \cap Carried
    BY DEF AliveAtEnd
  <2> QED BY <2>2, <2>3 DEF Sends
<1>3. \A b \in Blocks \ Live(f) : Round(f, alive)[b] = {}
  BY DEF Round
<1>4. \A s \in Blocks : <<"phi", s>> \notin Round(f, alive)[s]
  <2> SUFFICES ASSUME NEW s \in Blocks, s \in Live(f) PROVE <<"phi", s>> \notin Round(f, alive)[s]
    BY <1>3
  <2>1. <<"phi", s>> \in Carried
    BY DEF Carried, Instrs
  <2>2. <<"phi", s>> \in Makes(f, s)
    <3>1. 0 \in 0 .. Len(f.body[s]) /\ At(f, s, 0) = <<"phi", s>>
      BY <1>0, AtPlaces, BodyType
    <3> QED BY <3>1 DEF Makes
  <2> QED BY <1>1, <2>1, <2>2
<1>5. AliveIn(v, alive) \in SUBSET Blocks /\ Live(f) \subseteq Blocks
  BY DEF AliveIn, Live
<1>6. ASSUME NEW b \in Blocks
      PROVE  b \in AliveIn(v, Round(f, alive)) <=> b \in Wakes(f, v)[AliveIn(v, alive)]
  <2>1. CASE b \notin Live(f)
    BY <1>3, <1>5, <2>1 DEF AliveIn, Wakes
  <2>2. CASE b \in Live(f)
    <3>1. Succ(f)[b] \subseteq Blocks
      BY <1>0, <2>2, SuccType
    <3>2. (\E s \in Succ(f)[b] : v \in alive[s]) <=> Succ(f)[b] \cap AliveIn(v, alive) # {}
      BY <3>1 DEF AliveIn
    <3>3. b \in AliveIn(v, Round(f, alive)) <=> v \in Round(f, alive)[b]
      BY DEF AliveIn
    <3>4. b \in Wakes(f, v)[AliveIn(v, alive)] <=> v \notin Makes(f, b) /\
            (v \in Uses(f, b) \cup Sends(f, b) \/ Succ(f)[b] \cap AliveIn(v, alive) # {})
      BY <1>5, <2>2 DEF Wakes
    <3> QED BY <1>1, <1>2, <2>2, <3>2, <3>3, <3>4
  <2> QED BY <2>1, <2>2
<1>7. /\ AliveIn(v, Round(f, alive)) \subseteq Blocks
      /\ Wakes(f, v)[AliveIn(v, alive)] \subseteq Blocks
  BY <1>5 DEF AliveIn, Wakes
<1> QED BY <1>4, <1>6, <1>7

(* The iteration has come to rest after N rounds. *)
LEMMA AliveSettles ==
  ASSUME NEW f, Trimmed(f)
  PROVE  \E alive \in [Blocks -> SUBSET Carried] :
           /\ LiveAfterMap(f) = [b \in Live(f) |-> AliveAtEnd(f, b, alive)]
           /\ \A s \in Blocks : <<"phi", s>> \notin alive[s]
           /\ \A v \in Carried : \E g :
                /\ g[0] = {} /\ \A n \in Nat : n < N => g[n + 1] = Wakes(f, v)[g[n]]
                /\ AliveIn(v, alive) = g[N]
<1>1. PICK r \in [0 .. N -> [Blocks -> SUBSET Carried]] :
        /\ r[0] = AllDead
        /\ \A n \in Nat : n < N => r[n + 1] = Round(f, r[n])
        /\ LiveAfterMap(f) = [b \in Live(f) |-> AliveAtEnd(f, b, r[N])]
  BY AliveUnfolds DEF Trimmed
<1> DEFINE I == {n \in Nat : n <= N => \A s \in Blocks : <<"phi", s>> \notin r[n][s]}
<1>2. 0 \in I
  BY <1>1 DEF AllDead
<1>3. ASSUME NEW n \in Nat, n \in I PROVE n + 1 \in I
  <2> SUFFICES ASSUME n + 1 <= N PROVE \A s \in Blocks : <<"phi", s>> \notin r[n + 1][s]
    OBVIOUS
  <2>1. n < N /\ n \in 0 .. N /\ \A s \in Blocks : <<"phi", s>> \notin r[n][s]
    BY <1>3, BlocksAssumption
  <2>2. r[n] \in [Blocks -> SUBSET Carried] /\ r[n + 1] = Round(f, r[n])
    BY <1>1, <2>1
  <2>3. PICK q \in [Blocks -> SUBSET Carried] : q = r[n]
    BY <2>2
  <2>4. Arg \in Carried
    BY DEF Carried
  <2>5. \A s \in Blocks : <<"phi", s>> \notin q[s]
    BY <2>1, <2>3
  <2>6. \A s \in Blocks : <<"phi", s>> \notin Round(f, q)[s]
    BY <2>4, <2>5, RoundWakes
  <2> QED BY <2>2, <2>3, <2>6
<1> HIDE DEF I
<1>4. \A n \in Nat : n \in I
  BY <1>2, <1>3, Induction
<1>5. \A n \in 0 .. N : \A s \in Blocks : <<"phi", s>> \notin r[n][s]
  <2>1. \A n \in 0 .. N : n \in Nat /\ n <= N
    BY BlocksAssumption
  <2> QED BY <1>4, <2>1 DEF I
<1>6. ASSUME NEW v \in Carried
      PROVE  \E g : /\ g[0] = {} /\ \A n \in Nat : n < N => g[n + 1] = Wakes(f, v)[g[n]]
                    /\ AliveIn(v, r[N]) = g[N]
  <2> DEFINE g == [n \in 0 .. N |-> AliveIn(v, r[n])]
  <2>1. g[0] = {}
    BY <1>1, BlocksAssumption DEF AliveIn, AllDead
  <2>2. ASSUME NEW n \in Nat, n < N PROVE g[n + 1] = Wakes(f, v)[g[n]]
    <3>1. n \in 0 .. N /\ n + 1 \in 0 .. N
      BY <2>2, BlocksAssumption
    <3>2. PICK q \in [Blocks -> SUBSET Carried] : q = r[n]
      BY <1>1, <3>1
    <3>3. \A s \in Blocks : <<"phi", s>> \notin q[s]
      BY <1>5, <3>1, <3>2
    <3>4. AliveIn(v, Round(f, q)) = Wakes(f, v)[AliveIn(v, q)]
      BY <3>3, RoundWakes
    <3>5. g[n + 1] = AliveIn(v, r[n + 1]) /\ g[n] = AliveIn(v, r[n])
      BY <3>1
    <3>6. r[n + 1] = Round(f, r[n])
      BY <1>1, <2>2
    <3> HIDE DEF g
    <3> QED BY <3>2, <3>4, <3>5, <3>6
  <2>3. AliveIn(v, r[N]) = g[N]
    BY BlocksAssumption
  <2> HIDE DEF g
  <2> QED BY <2>1, <2>2, <2>3
<1>7. r[N] \in [Blocks -> SUBSET Carried] /\ N \in 0 .. N
  BY <1>1, BlocksAssumption
<1> QED BY <1>1, <1>5, <1>6, <1>7

(* From b a path that avoids what makes v comes to a block that reads v. *)
Awaits(f, v, b) ==
  LET D == {c \in Blocks : v \in Makes(f, c)}
      U == {c \in Live(f) : v \in Uses(f, c) \cup Sends(f, c)}
  IN  b \notin D /\ ReachAvoiding(Succ(f), {b}, D) \cap U # {}

(* The iteration finds what paths say. *)
LEMMA AliveIsAwaited ==
  ASSUME NEW f, Trimmed(f), NEW v \in Carried,
         NEW g, g[0] = {}, \A n \in Nat : n < N => g[n + 1] = Wakes(f, v)[g[n]],
         NEW b \in Live(f)
  PROVE  b \in g[N] <=> Awaits(f, v, b)
<1> DEFINE D == {c \in Blocks : v \in Makes(f, c)}
           U == {c \in Live(f) : v \in Uses(f, c) \cup Sends(f, c)}
           F == Wakes(f, v)
<1>1. Live(f) \in SUBSET Blocks
  BY DEF Live
<1>2. PICK succ \in [Blocks -> SUBSET Blocks] : succ = Succ(f)
  BY SuccType DEF Trimmed
<1>3. \A c \in Live(f) : succ[c] \subseteq Live(f)
  BY <1>2, LiveBlocks
<1>4. F \in [SUBSET Blocks -> SUBSET Blocks]
  BY <1>1 DEF Wakes
<1>5. \A S \in SUBSET Blocks : F[S] = {c \in Live(f) : c \notin D /\ (c \in U \/ succ[c] \cap S # {})}
  BY <1>1, <1>2 DEF Wakes
<1>6. U \in SUBSET Live(f) /\ g[0] = {} /\ b \in Live(f)
  OBVIOUS
<1>8. \A n \in Nat : n < N => g[n + 1] = F[g[n]]
  OBVIOUS
<1> HIDE DEF D, U, F
<1>9. Backward(succ, Live(f), D, U, F, g)
  BY <1>1, <1>3, <1>4, <1>5, <1>6, <1>8 DEF Backward
<1>7. b \in g[N] <=> b \notin D /\ ReachAvoiding(succ, {b}, D) \cap U # {}
  BY <1>9, BackwardEnds
<1> QED BY <1>2, <1>7 DEF Awaits, D, U

(* The model's words for it: where v is made and where it is used. *)
LEMMA UsedAt ==
  ASSUME NEW f, Trimmed(f), NEW v \in Carried
  PROVE  {c \in Live(f) : v \in Uses(f, c) \cup Sends(f, c)} = UseBlocks(f, v)
<1>0. f \in Function /\ Laid(f) /\ Matching(f)
  BY DEF Trimmed, Strict
<1>1. ASSUME NEW c \in Live(f) PROVE v \in Uses(f, c) <=> \E q \in Readers(f, v) : q[2] # 0 /\ q[1] = c
  <2>1. c \in Blocks /\ Len(f.body[c]) \in Nat /\ EndOf(f, c) = Len(f.body[c]) + 1
    BY <1>0, BodyType DEF Live
  <2>2. EndOf(f, c) <= N + 1
    BY <1>0, <2>1, BodyShort, BlocksAssumption
  <2>3. \A k \in 1 .. EndOf(f, c) : <<c, k>> \in Places(f)
    BY <2>1, <2>2, BlocksAssumption DEF Places
  <2>4. ASSUME NEW q \in Places(f), q[2] # 0, q[1] = c PROVE q = <<c, q[2]>> /\ q[2] \in 1 .. EndOf(f, c)
    BY <2>1, <2>4, BlocksAssumption DEF Places
  <2>5. v \in Uses(f, c) <=> \E k \in 1 .. EndOf(f, c) : v \in ReadBy(f, At(f, c, k))
    BY DEF Uses
  <2>6. ASSUME NEW k \in 1 .. EndOf(f, c), v \in ReadBy(f, At(f, c, k))
        PROVE  \E q \in Readers(f, v) : q[2] # 0 /\ q[1] = c
    <3>1. <<c, k>> \in Readers(f, v)
      BY <2>3, <2>6 DEF Readers
    <3> QED BY <2>1, <3>1
  <2>7. ASSUME NEW q \in Readers(f, v), q[2] # 0, q[1] = c
        PROVE  \E k \in 1 .. EndOf(f, c) : v \in ReadBy(f, At(f, c, k))
    BY <2>4, <2>7 DEF Readers
  <2> QED BY <2>5, <2>6, <2>7
<1>2. ASSUME NEW c \in Live(f) PROVE v \in Sends(f, c) <=> \E s \in f.phis : f.inc[s][c] = v
  <2>1. c \in Blocks /\ Succ(f)[c] \subseteq Blocks /\ f.phis \subseteq Blocks
    BY <1>0, SuccType, FunctionType DEF Live
  <2>2. v # Absent
    BY SCCPAssumption DEF Carried, Values
  <2>3. \A s \in Blocks : f.inc[s][c] = v => s \in f.phis /\ s \in Succ(f)[c]
    BY <1>0, <2>1, <2>2 DEF Matching, Arrives
  <2> QED BY <2>1, <2>3 DEF Sends
<1>3. \A q \in Readers(f, v) : q[1] \in Live(f)
  BY DEF Readers, Places
<1>4. UseBlocks(f, v) \subseteq Live(f)
  BY <1>3 DEF UseBlocks
<1>5. \A c \in Live(f) : c \in UseBlocks(f, v) <=> v \in Uses(f, c) \/ v \in Sends(f, c)
  BY <1>1, <1>2 DEF UseBlocks
<1> QED BY <1>4, <1>5

LEMMA MadeAt ==
  ASSUME NEW f, Trimmed(f), NEW v \in Used(f)
  PROVE  /\ PlaceOf(f, v) \in Places(f) /\ At(f, PlaceOf(f, v)[1], PlaceOf(f, v)[2]) = v
         /\ Home(f, v) \in Blocks
         /\ PlaceOf(f, v)[2] \in 0 .. Len(f.body[Home(f, v)])
         /\ {c \in Blocks : v \in Makes(f, c)} = {Home(f, v)}
<1>0. f \in Function /\ Laid(f)
  BY DEF Trimmed, Strict
<1>1. v \in Instrs /\ \E p \in Places(f) : At(f, p[1], p[2]) = v
  BY DEF Used
<1>2. PlaceOf(f, v) \in Places(f) /\ At(f, PlaceOf(f, v)[1], PlaceOf(f, v)[2]) = v
  BY <1>1 DEF PlaceOf
<1>3. PICK p : p = PlaceOf(f, v)
  OBVIOUS
<1>4. /\ p[1] \in Blocks /\ p[2] \in Nat /\ p[2] <= EndOf(f, p[1]) /\ At(f, p[1], p[2]) = v
      /\ Home(f, v) = p[1]
  BY <1>2, <1>3, BlocksAssumption DEF Places, Live, Home
<1>5. Len(f.body[p[1]]) \in Nat /\ EndOf(f, p[1]) = Len(f.body[p[1]]) + 1
  BY <1>0, <1>4, BodyType
<1>6. p[2] # EndOf(f, p[1])
  <2>1. <<"term", p[1]>> # v
    BY <1>1 DEF Instrs
  <2> QED BY <1>0, <1>4, <2>1, AtPlaces
<1>7. p[2] \in 0 .. Len(f.body[p[1]])
  BY <1>4, <1>5, <1>6
<1>8. v \in Makes(f, p[1])
  BY <1>4, <1>7 DEF Makes
<1>9. ASSUME NEW c \in Blocks, v \in Makes(f, c) PROVE c = p[1]
  <2>1. PICK k \in 0 .. Len(f.body[c]) : v = At(f, c, k)
    BY <1>9 DEF Makes
  <2>2. Len(f.body[c]) \in Nat
    BY <1>0, BodyType
  <2>3. CASE k = 0
    <3>1. v = <<"phi", c>>
      BY <1>0, <2>1, <2>3, AtPlaces
    <3>2. p[2] = 0
      <4>1. \A j \in 1 .. Len(f.body[p[1]]) : At(f, p[1], j) = <<"op", f.body[p[1]][j]>>
        BY <1>0, <1>4, AtPlaces
      <4> QED BY <1>4, <1>5, <1>7, <3>1, <4>1
    <3>3. v = <<"phi", p[1]>>
      BY <1>0, <1>4, <3>2, AtPlaces
    <3> QED BY <3>1, <3>3
  <2>4. CASE k # 0
    <3>1. k \in 1 .. Len(f.body[c]) /\ v = <<"op", f.body[c][k]>>
      BY <1>0, <2>1, <2>2, <2>4, AtPlaces
    <3>2. p[2] # 0
      BY <1>0, <1>4, <3>1, AtPlaces
    <3>3. p[2] \in 1 .. Len(f.body[p[1]])
      BY <1>5, <1>7, <3>2
    <3>4. v = <<"op", f.body[p[1]][p[2]]>>
      BY <1>0, <1>4, <3>3, AtPlaces
    <3>5. f.body[c][k] = f.body[p[1]][p[2]]
      BY <3>1, <3>4
    <3> QED BY <1>0, <1>4, <3>1, <3>3, <3>5 DEF Laid
  <2> QED BY <2>3, <2>4
<1>10. {c \in Blocks : v \in Makes(f, c)} = {p[1]}
  BY <1>4, <1>8, <1>9
<1> QED BY <1>2, <1>3, <1>4, <1>7, <1>10

LEMMA ArgMadeNowhere ==
  ASSUME NEW f, Trimmed(f)
  PROVE  {c \in Blocks : Arg \in Makes(f, c)} = {}
<1> SUFFICES ASSUME NEW c \in Blocks, NEW k \in 0 .. Len(f.body[c]), Arg = At(f, c, k) PROVE FALSE
  BY DEF Makes
<1>1. f \in Function /\ Len(f.body[c]) \in Nat
  BY BodyType DEF Trimmed
<1>2. k = 0 \/ k \in 1 .. Len(f.body[c])
  BY <1>1
<1> QED BY <1>1, <1>2, AtPlaces DEF Arg

(* A result that is used in code that is reached is one of the function. *)
LEMMA UsedIsMade ==
  ASSUME NEW f, Trimmed(f), NEW v \in Instrs, UseBlocks(f, v) # {}
  PROVE  v \in Used(f)
<1>0. f \in Function /\ Strict(f) /\ Matching(f) /\ Laid(f)
  BY DEF Trimmed, Strict
<1>1. PICK c \in Live(f) : v \in Uses(f, c) \cup Sends(f, c)
  BY UsedAt DEF Carried
<1>2. /\ c \in Blocks /\ c \in Reachable(Succ(f)) /\ Succ(f)[c] \subseteq Live(f)
      /\ Len(f.body[c]) \in Nat /\ EndOf(f, c) = Len(f.body[c]) + 1
  BY <1>0, LiveBlocks, BodyType
<1>3. \A s \in Blocks : EndOf(f, s) <= N + 1 /\ Len(f.body[s]) <= N /\ Len(f.body[s]) \in Nat
  BY <1>0, BodyShort, BodyType, BlocksAssumption
<1>4. Live(f) \subseteq Blocks /\ Live(f) = Reachable(Succ(f))
  BY DEF Live, Trimmed
<1>5. \E k \in 1 .. EndOf(f, c) : Wanted(f, c, k, v)
  <2>1. CASE v \in Uses(f, c)
    <3>1. PICK k \in 1 .. EndOf(f, c) : v \in ReadBy(f, At(f, c, k))
      BY <2>1 DEF Uses
    <3>2. CASE k = EndOf(f, c)
      BY <1>0, <1>2, <3>1, <3>2, ReadsAt DEF Wanted
    <3>3. CASE k \in 1 .. Len(f.body[c])
      BY <1>0, <1>2, <3>1, <3>3, ReadsAt DEF Wanted
    <3> QED BY <1>2, <3>2, <3>3
  <2>2. CASE v \in Sends(f, c)
    <3>1. PICK s \in Succ(f)[c] : v = f.inc[s][c]
      BY <2>2 DEF Sends
    <3>2. v # Absent
      BY SCCPAssumption DEF Values
    <3>3. s \in Reachable(Succ(f)) /\ Arrives(f, s, c)
      BY <1>2, <1>4, <3>1, <3>2 DEF Arrives
    <3>4. EndOf(f, c) \in 1 .. EndOf(f, c)
      BY <1>2
    <3> QED BY <3>1, <3>3, <3>4 DEF Wanted
  <2> QED BY <1>1, <2>1, <2>2
<1>6. PICK k \in 1 .. EndOf(f, c) : Wanted(f, c, k, v)
  BY <1>5
<1>7. Available(f, v, c, k)
  BY <1>0, <1>2, <1>6 DEF Strict
<1>8. \E p \in Places(f) : At(f, p[1], p[2]) = v
  <2>1. CASE \E s \in f.phis \cap Live(f) : v = <<"phi", s>>
    <3>1. PICK s \in f.phis \cap Live(f) : v = <<"phi", s>>
      BY <2>1
    <3>2. s \in Blocks /\ At(f, s, 0) = v /\ 0 <= EndOf(f, s)
      BY <1>0, <1>3, <1>4, <3>1, AtPlaces DEF EndOf
    <3>3. <<s, 0>> \in Places(f)
      BY <3>1, <3>2, BlocksAssumption DEF Places
    <3> QED BY <3>2, <3>3
  <2>2. CASE \E s \in Blocks : \E j \in 1 .. Len(f.body[s]) : v = <<"op", f.body[s][j]>>
    <3>1. PICK s \in Blocks : \E j \in 1 .. Len(f.body[s]) : v = <<"op", f.body[s][j]>>
      BY <2>2
    <3>2. PICK j \in 1 .. Len(f.body[s]) : v = <<"op", f.body[s][j]>>
      BY <3>1
    <3>3. s \in Live(f)
      <4>1. f.body[s] # <<>>
        BY <1>3, <3>2
      <4> QED BY <4>1 DEF Live
    <3>4. j <= N /\ j <= EndOf(f, s) /\ j \in Nat
      BY <1>3, <3>2, BlocksAssumption DEF EndOf
    <3>5. At(f, s, j) = v
      BY <1>0, <3>2, AtPlaces
    <3>6. <<s, j>> \in Places(f)
      BY <3>3, <3>4, BlocksAssumption DEF Places
    <3> QED BY <3>5, <3>6
  <2>3. v \notin {Const(d) : d \in Data} \cup {Arg}
    BY DEF Instrs, Const, Arg
  <2> QED BY <1>7, <2>1, <2>2, <2>3 DEF Available
<1>9. Readers(f, v) # {}
  <2>1. CASE v \in Uses(f, c)
    <3>1. PICK j \in 1 .. EndOf(f, c) : v \in ReadBy(f, At(f, c, j))
      BY <2>1 DEF Uses
    <3>2. j <= N + 1 /\ j \in Nat /\ j <= EndOf(f, c)
      BY <1>2, <1>3, BlocksAssumption
    <3>3. <<c, j>> \in Places(f)
      BY <3>2, BlocksAssumption DEF Places
    <3> QED BY <3>1, <3>3 DEF Readers
  <2>2. CASE v \in Sends(f, c)
    <3>1. PICK s \in Succ(f)[c] : v = f.inc[s][c]
      BY <2>2 DEF Sends
    <3>2. v # Absent /\ s \in Live(f) /\ s \in Blocks
      BY <1>2, <1>4, <3>1, SCCPAssumption DEF Values
    <3>3. v \in PhiReads(f, s)
      BY <1>2, <3>1, <3>2 DEF PhiReads
    <3>4. At(f, s, 0) = <<"phi", s>>
      BY <1>0, <3>2, AtPlaces
    <3>5. v \in ReadBy(f, At(f, s, 0))
      BY <3>3, <3>4 DEF ReadBy
    <3>6. <<s, 0>> \in Places(f)
      BY <1>3, <3>2, BlocksAssumption DEF Places, EndOf
    <3> QED BY <3>5, <3>6 DEF Readers
  <2> QED BY <1>1, <2>1, <2>2
<1> QED BY <1>8, <1>9 DEF Used

LEMMA AwaitsIs ==
  ASSUME NEW f, Trimmed(f), NEW v \in Used(f) \cup {Arg}, NEW b \in Blocks
  PROVE  Awaits(f, v, b) <=> ArrivesAlive(f, v, b)
<1>1. v \in Carried
  BY DEF Used, Carried
<1>2. {c \in Live(f) : v \in Uses(f, c) \cup Sends(f, c)} = UseBlocks(f, v)
  BY <1>1, UsedAt
<1>3. {c \in Blocks : v \in Makes(f, c)} = IF v = Arg THEN {} ELSE {Home(f, v)}
  BY MadeAt, ArgMadeNowhere
<1> QED BY <1>2, <1>3 DEF Awaits, ArrivesAlive

LEMMA AwaitedIsUsed ==
  ASSUME NEW f, Trimmed(f), NEW v \in Carried, NEW b \in Blocks, Awaits(f, v, b)
  PROVE  v \in Used(f) \cup {Arg}
<1>1. {c \in Live(f) : v \in Uses(f, c) \cup Sends(f, c)} # {}
  BY DEF Awaits
<1>2. UseBlocks(f, v) # {}
  BY <1>1, UsedAt
<1> QED BY <1>2, UsedIsMade DEF Carried

LEMMA LivenessOf ==
  ASSUME NEW f, Trimmed(f), NEW b \in Live(f)
  PROVE  LiveAfterMap(f)[b] = {v \in Used(f) \cup {Arg} : LeavesAlive(f, v, b)}
<1>1. PICK alive \in [Blocks -> SUBSET Carried] :
        /\ LiveAfterMap(f) = [c \in Live(f) |-> AliveAtEnd(f, c, alive)]
        /\ \A s \in Blocks : <<"phi", s>> \notin alive[s]
        /\ \A v \in Carried : \E g :
             /\ g[0] = {} /\ \A n \in Nat : n < N => g[n + 1] = Wakes(f, v)[g[n]]
             /\ AliveIn(v, alive) = g[N]
  BY AliveSettles
<1>2. LiveAfterMap(f)[b] = AliveAtEnd(f, b, alive)
  BY <1>1
<1>3. b \in Blocks /\ Succ(f)[b] \subseteq Live(f) /\ Live(f) \subseteq Blocks
  BY LiveBlocks DEF Live
<1>4. ASSUME NEW v \in Carried, NEW s \in Live(f)
      PROVE  v \in alive[s] <=> Awaits(f, v, s)
  <2>1. PICK g : /\ g[0] = {} /\ \A n \in Nat : n < N => g[n + 1] = Wakes(f, v)[g[n]]
                 /\ AliveIn(v, alive) = g[N]
    BY <1>1
  <2>2. s \in g[N] <=> Awaits(f, v, s)
    BY <2>1, AliveIsAwaited
  <2> QED BY <1>3, <2>1, <2>2 DEF AliveIn
<1>5. ASSUME NEW v
      PROVE  v \in AliveAtEnd(f, b, alive) <=>
               v \in Carried /\ \E s \in Succ(f)[b] : f.inc[s][b] = v \/ v \in alive[s]
  <2>1. v \in AliveAtEnd(f, b, alive) <=>
          \E s \in Succ(f)[b] : v \in alive[s] \ {<<"phi", s>>} \/ v \in {f.inc[s][b]} \cap Carried
    BY DEF AliveAtEnd
  <2>2. \A s \in Succ(f)[b] : <<"phi", s>> \notin alive[s] /\ alive[s] \subseteq Carried
    BY <1>1, <1>3
  <2> QED BY <2>1, <2>2
<1>6. ASSUME NEW v \in Used(f) \cup {Arg}
      PROVE  v \in Carried /\ (v \in AliveAtEnd(f, b, alive) <=> LeavesAlive(f, v, b))
  <2>1. v \in Carried
    BY DEF Used, Carried
  <2>2. \A s \in Succ(f)[b] : v \in alive[s] <=> ArrivesAlive(f, v, s)
    BY <1>3, <1>4, <2>1, AwaitsIs
  <2> QED BY <1>5, <2>1, <2>2 DEF LeavesAlive
<1>7. ASSUME NEW v \in AliveAtEnd(f, b, alive) PROVE v \in Used(f) \cup {Arg}
  <2>1. v \in Carried
    BY <1>5, <1>7
  <2>2. PICK s \in Succ(f)[b] : f.inc[s][b] = v \/ v \in alive[s]
    BY <1>5, <1>7
  <2>3. CASE f.inc[s][b] = v
    <3>1. v \in Uses(f, b) \cup Sends(f, b)
      BY <2>3 DEF Sends
    <3>2. UseBlocks(f, v) # {}
      BY <2>1, <3>1, UsedAt
    <3> QED BY <2>1, <3>2, UsedIsMade DEF Carried
  <2>4. CASE v \in alive[s]
    BY <1>3, <1>4, <2>1, <2>4, AwaitedIsUsed
  <2> QED BY <2>2, <2>3, <2>4
<1> QED BY <1>2, <1>6, <1>7

(* A round begins with a function that the round before has left. *)
LEMMA SettledStep ==
  ASSUME Strict(fn), Matching(fn), Strict(before), Matching(before), [Next]_vars
  PROVE  Strict(before)' /\ Matching(before)'
<1>1. before' = before \/ before' = fn
  <2>1. CASE UNCHANGED vars
    BY <2>1 DEF vars
  <2>2. CASE Analyse
    BY <2>2 DEF Analyse, PopBlock, PopAgain, VisitNext, VisitUser, EndAnalysis
  <2>3. CASE RunConstants \/ RunCopies \/ RunBranches \/ RunBlocks \/ RunMerge \/ EndMerge
             \/ RunDeadBlocks \/ RunDead
    BY <2>3 DEF RunConstants, RunCopies, RunBranches, RunBlocks, RunMerge, EndMerge,
                RunDeadBlocks, RunDead, Pass
  <2>4. CASE (\E b \in Blocks : EnterBlock(b)) \/ NumberNext \/ EndTurn
    BY <2>4 DEF EnterBlock, NumberNext, EndTurn
  <2>5. CASE RunPhis \/ EndPhis \/ CombineBlock \/ CombineNext \/ NextRound
    BY <2>5 DEF RunPhis, EndPhis, CombineBlock, CombineNext, NextRound
  <2>6. CASE StartRun \/ Run
    BY <2>6 DEF StartRun, Run
  <2> QED BY <2>1, <2>2, <2>3, <2>4, <2>5, <2>6 DEF Next, Passes
<1>2. CASE before' = before
  BY <1>2
<1>3. CASE before' = fn
  BY <1>3
<1> QED BY <1>1, <1>2, <1>3

LEMMA SettledReads ==
  ASSUME TypeOK, Strict(fn), Matching(fn), Strict(before), Matching(before)
  PROVE  LivenessExact
<1>1. \A f \in Allocated : f \in Function /\ Strict(f) /\ Matching(f)
  BY DEF Allocated, TypeOK
<1>2. ASSUME NEW f \in Allocated, Live(f) \subseteq Reachable(Succ(f)) PROVE Trimmed(f)
  BY <1>1, <1>2 DEF Trimmed, Strict
<1>3. \A f \in Allocated : Live(f) \subseteq Reachable(Succ(f)) => \A b \in Live(f) :
        LiveAfterMap(f)[b] = {v \in Used(f) \cup {Arg} : LeavesAlive(f, v, b)}
  BY <1>2, LivenessOf
<1> QED BY <1>3 DEF LivenessExact

(* However the passes change a function, the values that the analysis holds alive
   at the end of a block are those that some path from there needs. *)
THEOREM LivenessExactAlways == Spec => []LivenessExact
<1>1. Init => /\ TypeOK /\ Visiting /\ Standing /\ Matching(fn) /\ Strict(fn) /\ Tabled
              /\ Matching(before) /\ Strict(before)
  BY TypeInit, MatchingInit, StrictInit DEF Init, Tabled
<1>2. TypeOK /\ Visiting /\ Standing /\ Matching(fn) /\ Strict(fn) /\ Tabled /\ [Next]_vars
        => TypeOK' /\ Visiting' /\ Standing' /\ Matching(fn)' /\ Strict(fn)' /\ Tabled'
  BY TypeStep, StandingStep, MatchingStep, StrictStep, TabledStep
<1>3. Matching(fn) /\ Strict(fn) /\ Matching(before) /\ Strict(before) /\ [Next]_vars
        => Matching(before)' /\ Strict(before)'
  BY SettledStep
<1>4. TypeOK /\ Matching(fn) /\ Strict(fn) /\ Matching(before) /\ Strict(before) => LivenessExact
  BY SettledReads
<1> QED BY <1>1, <1>2, <1>3, <1>4, PTL DEF Spec

-----------------------------------------------------------------------------
(* Live ranges.  What is read in a block that uses v is there, so that what
   makes v is on every path to the block. *)
LEMMA UseWanted ==
  ASSUME NEW f, Trimmed(f), NEW v \in Carried, NEW c \in UseBlocks(f, v)
  PROVE  \E k \in 1 .. EndOf(f, c) : Wanted(f, c, k, v)
<1>0. f \in Function /\ Strict(f)
  BY DEF Trimmed
<1>1. c \in Live(f) /\ v \in Uses(f, c) \cup Sends(f, c)
  BY UsedAt
<1>2. /\ c \in Blocks /\ Succ(f)[c] \subseteq Live(f)
      /\ Len(f.body[c]) \in Nat /\ EndOf(f, c) = Len(f.body[c]) + 1
  BY <1>0, <1>1, LiveBlocks, BodyType
<1>3. CASE v \in Uses(f, c)
  <2>1. PICK k \in 1 .. EndOf(f, c) : v \in ReadBy(f, At(f, c, k))
    BY <1>3 DEF Uses
  <2>2. CASE k = EndOf(f, c)
    BY <1>0, <1>2, <2>1, <2>2, ReadsAt DEF Wanted
  <2>3. CASE k \in 1 .. Len(f.body[c])
    BY <1>0, <1>2, <2>1, <2>3, ReadsAt DEF Wanted
  <2> QED BY <1>2, <2>2, <2>3
<1>4. CASE v \in Sends(f, c)
  <2>1. PICK s \in Succ(f)[c] : v = f.inc[s][c]
    BY <1>4 DEF Sends
  <2>2. v # Absent
    BY SCCPAssumption DEF Carried, Values
  <2>3. s \in Reachable(Succ(f)) /\ Arrives(f, s, c)
    BY <1>2, <2>1, <2>2 DEF Arrives, Trimmed
  <2>4. EndOf(f, c) \in 1 .. EndOf(f, c)
    BY <1>2
  <2> QED BY <2>1, <2>3, <2>4 DEF Wanted
<1> QED BY <1>1, <1>3, <1>4

LEMMA UseDominated ==
  ASSUME NEW f, Trimmed(f), NEW v \in Used(f), NEW c \in UseBlocks(f, v)
  PROVE  Dominates(Succ(f), Home(f, v), c)
<1>0. f \in Function /\ Strict(f)
  BY DEF Trimmed
<1>1. v \in Instrs /\ v \in Carried
  BY DEF Used, Carried
<1>2. c \in Live(f) /\ c \in Reachable(Succ(f))
  BY <1>1, UsedAt DEF Trimmed
<1>3. PICK k \in 1 .. EndOf(f, c) : Wanted(f, c, k, v)
  BY <1>1, UseWanted
<1>4. Available(f, v, c, k)
  BY <1>0, <1>2, <1>3 DEF Strict
<1>5. ASSUME NEW s \in Blocks, v \in Makes(f, s) PROVE s = Home(f, v)
  BY <1>5, MadeAt
<1>6. CASE \E s \in f.phis \cap Live(f) : v = <<"phi", s>> /\ Dominates(Succ(f), s, c)
  <2>1. PICK s \in f.phis \cap Live(f) : v = <<"phi", s>> /\ Dominates(Succ(f), s, c)
    BY <1>6
  <2>2. s \in Blocks /\ At(f, s, 0) = v /\ 0 \in 0 .. Len(f.body[s])
    BY <1>0, <2>1, AtPlaces, BodyType DEF Live
  <2>3. v \in Makes(f, s)
    BY <2>2 DEF Makes
  <2> QED BY <1>5, <2>1, <2>2, <2>3
<1>7. CASE \E s \in Blocks : \E j \in 1 .. Len(f.body[s]) :
             v = <<"op", f.body[s][j]>> /\ Dominates(Succ(f), s, c)
  <2>1. PICK s \in Blocks : \E j \in 1 .. Len(f.body[s]) :
          v = <<"op", f.body[s][j]>> /\ Dominates(Succ(f), s, c)
    BY <1>7
  <2>2. PICK j \in 1 .. Len(f.body[s]) : v = <<"op", f.body[s][j]>> /\ Dominates(Succ(f), s, c)
    BY <2>1
  <2>3. At(f, s, j) = v /\ j \in 0 .. Len(f.body[s])
    BY <1>0, <2>2, AtPlaces, BodyType
  <2>4. v \in Makes(f, s)
    BY <2>3 DEF Makes
  <2> QED BY <1>5, <2>2, <2>4
<1>8. v \notin {Const(d) : d \in Data} \cup {Arg}
  BY <1>1 DEF Instrs, Const, Arg
<1> QED BY <1>4, <1>6, <1>7, <1>8 DEF Available

(* Where v is alive, too. *)
LEMMA AliveDominated ==
  ASSUME NEW f, Trimmed(f), NEW v \in Used(f), NEW b \in Blocks, ArrivesAlive(f, v, b)
  PROVE  Dominates(Succ(f), Home(f, v), b) /\ b # Home(f, v)
<1>1. v # Arg
  BY DEF Used, Instrs, Arg
<1>2. PICK H : H = {Home(f, v)}
  OBVIOUS
<1>3. b \notin H /\ ReachAvoiding(Succ(f), {b}, H) \cap UseBlocks(f, v) # {}
  BY <1>1, <1>2 DEF ArrivesAlive
<1>4. PICK u \in UseBlocks(f, v) : u \in ReachAvoiding(Succ(f), {b}, H)
  BY <1>3
<1>5. PICK succ \in [Blocks -> SUBSET Blocks] : succ = Succ(f)
  BY SuccType DEF Trimmed
<1>6. {Entry} \in SUBSET Blocks
  BY EntryFirst
<1>7. PICK A : A = ReachAvoiding(succ, {Entry}, H)
  OBVIOUS
<1>8. \A x \in A : succ[x] \ H \subseteq A
  BY <1>6, <1>7, ReachClosed
<1>9. ASSUME b \in A PROVE FALSE
  <2>1. {b} \ H \subseteq A
    BY <1>9
  <2>2. ReachAvoiding(succ, {b}, H) \subseteq A
    BY <1>8, <2>1, ReachLeast
  <2>3. u \notin A
    BY <1>2, <1>5, <1>7, UseDominated DEF Dominates
  <2> QED BY <1>4, <1>5, <2>2, <2>3
<1> QED BY <1>2, <1>3, <1>5, <1>7, <1>9 DEF Dominates

LEMMA LeavesDominated ==
  ASSUME NEW f, Trimmed(f), NEW v \in Used(f), NEW b \in Live(f), LeavesAlive(f, v, b)
  PROVE  Dominates(Succ(f), Home(f, v), b)
<1>1. PICK s \in Succ(f)[b] : f.inc[s][b] = v \/ ArrivesAlive(f, v, s)
  BY DEF LeavesAlive
<1>2. /\ Succ(f) \in [Blocks -> SUBSET Blocks] /\ {Entry} \in SUBSET Blocks /\ b \in Blocks
      /\ s \in Blocks
  BY <1>1, SuccType DEF Trimmed, Live
<1>3. CASE f.inc[s][b] = v
  <2>1. v \in Carried /\ v \in Sends(f, b)
    BY <1>1, <1>3 DEF Used, Carried, Sends
  <2>2. b \in UseBlocks(f, v)
    BY <2>1, UsedAt
  <2> QED BY <2>2, UseDominated
<1>4. CASE ArrivesAlive(f, v, s)
  <2>1. Dominates(Succ(f), Home(f, v), s) /\ s # Home(f, v)
    BY <1>2, <1>4, AliveDominated
  <2>2. DomFrom(Succ(f), {Entry}, Home(f, v), s)
    BY <2>1 DEF Dominates, DomFrom
  <2>3. PICK succ \in [Blocks -> SUBSET Blocks], From \in SUBSET Blocks : succ = Succ(f) /\ From = {Entry}
    BY <1>2
  <2>4. DomFrom(succ, From, Home(f, v), b)
    BY <1>1, <1>2, <2>1, <2>2, <2>3, DomOfPred
  <2> QED BY <2>3, <2>4 DEF Dominates, DomFrom
<1> QED BY <1>1, <1>3, <1>4

(* Positions are ordered as the blocks are, and in a block as its instructions. *)
LEMMA NumberOrder ==
  ASSUME NEW b \in Nat, NEW c \in Nat, NEW j \in Nat, NEW k \in Nat
  PROVE  /\ Number(<<b, j>>) \in Nat
         /\ b < c /\ j <= N + 1 => Number(<<b, j>>) < Number(<<c, k>>)
         /\ b = c /\ j <= k => Number(<<b, j>>) <= Number(<<c, k>>)
<1>1. PICK w \in Nat : w = N + 2
  BY BlocksAssumption
<1>2. Number(<<b, j>>) = w * b + j /\ Number(<<c, k>>) = w * c + k
  BY <1>1 DEF Number
<1>3. w * b \in Nat /\ w * c \in Nat
  OBVIOUS
<1>4. CASE b < c
  <2>1. w * b + w <= w * c
    BY <1>4, Multiples
  <2> QED BY <1>1, <1>2, <1>3, <1>4, <2>1, BlocksAssumption
<1>5. CASE ~(b < c)
  BY <1>2, <1>3, <1>5
<1> QED BY <1>4, <1>5

LEMMA MaxOf ==
  ASSUME NEW S \in SUBSET Nat, S # {}, NEW m \in Nat, \A x \in S : x <= m
  PROVE  Max(S) \in S /\ \A x \in S : x <= Max(S)
<1>1. PICK n \in S : \A x \in S : x <= n
  BY GreatestElement
<1>2. \E x \in S : \A y \in S : x >= y
  BY <1>1
<1>3. Max(S) \in S /\ \A y \in S : Max(S) >= y
  BY <1>2 DEF Max
<1>4. \A y \in S : y \in Nat /\ Max(S) \in Nat
  BY <1>3
<1> QED BY <1>3, <1>4

LEMMA PlaceNumbers ==
  ASSUME NEW f, Trimmed(f)
  PROVE  /\ Live(f) \subseteq Blocks /\ Blocks \subseteq Nat
         /\ \A b \in Blocks : EndOf(f, b) \in Nat /\ EndOf(f, b) <= N + 1 /\ EndOf(f, b) > Len(f.body[b])
         /\ \A p \in Places(f) : /\ p = <<p[1], p[2]>> /\ p[1] \in Live(f) /\ p[2] \in Nat /\ p[2] <= N + 1
                                 /\ p[2] <= EndOf(f, p[1])
         /\ \A p \in Places(f) : Number(p) \in Nat /\ Number(p) <= Number(<<N, N + 1>>)
         /\ \A b \in Live(f) : <<b, EndOf(f, b)>> \in Places(f)
<1>0. f \in Function /\ Laid(f)
  BY DEF Trimmed, Strict
<1>1. Live(f) \subseteq Blocks /\ \A b \in Blocks : b \in Nat /\ b <= N
  BY BlocksAssumption DEF Live, Blocks
<1>2. ASSUME NEW b \in Blocks
      PROVE  EndOf(f, b) \in Nat /\ EndOf(f, b) <= N + 1 /\ EndOf(f, b) > Len(f.body[b])
  BY <1>0, BodyShort, BodyType, BlocksAssumption
<1>3. ASSUME NEW p \in Places(f)
      PROVE  /\ p = <<p[1], p[2]>> /\ p[1] \in Live(f) /\ p[2] \in Nat /\ p[2] <= N + 1
             /\ p[2] <= EndOf(f, p[1])
  BY BlocksAssumption DEF Places
<1>4. ASSUME NEW p \in Places(f) PROVE Number(p) \in Nat /\ Number(p) <= Number(<<N, N + 1>>)
  <2>1. PICK b, k : p = <<b, k>> /\ b = p[1] /\ k = p[2]
    BY <1>3
  <2>2. b \in Nat /\ b <= N /\ k \in Nat /\ k <= N + 1 /\ N \in Nat /\ N + 1 \in Nat
    BY <1>1, <1>3, <2>1, BlocksAssumption
  <2>3. /\ Number(<<b, k>>) \in Nat /\ Number(<<N, N + 1>>) \in Nat
        /\ b < N => Number(<<b, k>>) < Number(<<N, N + 1>>)
        /\ b = N => Number(<<b, k>>) <= Number(<<N, N + 1>>)
    BY <2>2, NumberOrder
  <2> QED BY <2>1, <2>2, <2>3
<1>5. ASSUME NEW b \in Live(f) PROVE <<b, EndOf(f, b)>> \in Places(f)
  BY <1>1, <1>2, BlocksAssumption DEF Places
<1>6. Blocks \subseteq Nat
  BY <1>1
<1> QED BY <1>1, <1>2, <1>3, <1>4, <1>5, <1>6

(* A loop ends at the last of its blocks that leads to the header. *)
LEMMA LatchAfter ==
  ASSUME NEW f, Trimmed(f), NEW e \in Live(f) \X Live(f), e[2] \in Succ(f)[e[1]], e[1] \in LoopBlocks(f, e),
         LoopBlocks(f, e) \subseteq Live(f)
  PROVE  /\ LatchNumber(f, e) \in Nat /\ LatchNumber(f, e) <= Number(<<N, N + 1>>)
         /\ LastNumber(f, e[1]) <= LatchNumber(f, e)
<1> DEFINE S == {LastNumber(f, b) : b \in {c \in LoopBlocks(f, e) : e[2] \in Succ(f)[c]}}
<1>1. \A b \in Live(f) : LastNumber(f, b) \in Nat /\ LastNumber(f, b) <= Number(<<N, N + 1>>)
  BY PlaceNumbers DEF LastNumber
<1>2. S \in SUBSET Nat /\ \A x \in S : x <= Number(<<N, N + 1>>)
  BY <1>1
<1>3. LastNumber(f, e[1]) \in S
  OBVIOUS
<1>4. Number(<<N, N + 1>>) \in Nat
  BY NumberOrder, BlocksAssumption
<1>5. LatchNumber(f, e) = Max(S)
  BY DEF LatchNumber
<1> HIDE DEF S
<1>6. Max(S) \in S /\ \A x \in S : x <= Max(S)
  BY <1>2, <1>3, <1>4, MaxOf
<1> QED BY <1>2, <1>3, <1>5, <1>6

(* The end of a range is behind all that it is made of. *)
LEMMA RangeEndAfter ==
  ASSUME NEW f, Trimmed(f), NEW v \in Used(f),
         \A e \in BackEdges(f) : e[1] \in LoopBlocks(f, e) /\ LoopBlocks(f, e) \subseteq Live(f)
  PROVE  /\ RangeEnd(f, v) \in Nat
         /\ \A q \in Readers(f, v) : q[2] # 0 => Number(q) <= RangeEnd(f, v)
         /\ \A b \in Live(f) : (\E s \in f.phis : f.inc[s][b] = v) => LastNumber(f, b) <= RangeEnd(f, v)
         /\ \A e \in BackEdges(f) :
              Home(f, v) \notin LoopBlocks(f, e) \ {e[2]} /\ (\E q \in Readers(f, v) : q[1] \in LoopBlocks(f, e))
                => LastNumber(f, e[1]) <= RangeEnd(f, v)
<1> DEFINE reads == {Number(p) : p \in {q \in Readers(f, v) : q[2] # 0}}
           sends == {LastNumber(f, p) : p \in {q \in Live(f) : \E s \in f.phis : f.inc[s][q] = v}}
           loops == {e \in BackEdges(f) :
                      /\ \E q \in Readers(f, v) : q[1] \in LoopBlocks(f, e)
                      /\ Home(f, v) \notin LoopBlocks(f, e) \ {e[2]}}
           latches == {LatchNumber(f, e) : e \in loops}
           S == {Number(PlaceOf(f, v))} \cup reads \cup sends \cup latches
           m == Number(<<N, N + 1>>)
<1>1. RangeEnd(f, v) = Max(S)
  BY DEF RangeEnd
<1>2. m \in Nat
  BY NumberOrder, BlocksAssumption
<1>3. PlaceOf(f, v) \in Places(f) /\ Readers(f, v) \subseteq Places(f)
  BY MadeAt DEF Readers
<1>4. \A p \in Places(f) : Number(p) \in Nat /\ Number(p) <= m
  BY PlaceNumbers
<1>5. \A b \in Live(f) : LastNumber(f, b) \in Nat /\ LastNumber(f, b) <= m
  BY PlaceNumbers DEF LastNumber
<1>6. ASSUME NEW e \in BackEdges(f)
      PROVE  /\ LatchNumber(f, e) \in Nat /\ LatchNumber(f, e) <= m
             /\ LastNumber(f, e[1]) <= LatchNumber(f, e) /\ LastNumber(f, e[1]) \in Nat
  <2>1. e \in Live(f) \X Live(f) /\ e[2] \in Succ(f)[e[1]]
    BY DEF BackEdges
  <2>2. e[1] \in LoopBlocks(f, e) /\ LoopBlocks(f, e) \subseteq Live(f)
    OBVIOUS
  <2> HIDE DEF m
  <2>3. /\ LatchNumber(f, e) \in Nat /\ LatchNumber(f, e) <= m
        /\ LastNumber(f, e[1]) <= LatchNumber(f, e)
    BY <2>1, <2>2, LatchAfter DEF m
  <2> QED BY <1>5, <2>1, <2>3
<1> HIDE DEF m
<1>7. \A x \in S : x \in Nat /\ x <= m
  BY <1>3, <1>4, <1>5, <1>6
<1>8. S \in SUBSET Nat /\ S # {}
  BY <1>7
<1>9. /\ \A q \in Readers(f, v) : q[2] # 0 => Number(q) \in S
      /\ \A b \in Live(f) : (\E s \in f.phis : f.inc[s][b] = v) => LastNumber(f, b) \in S
      /\ \A e \in loops : LatchNumber(f, e) \in S
  OBVIOUS
<1> HIDE DEF S
<1>10. Max(S) \in S /\ \A x \in S : x <= Max(S)
  BY <1>2, <1>7, <1>8, MaxOf
<1>11. ASSUME NEW e \in loops PROVE LastNumber(f, e[1]) <= RangeEnd(f, v)
  <2>1. LatchNumber(f, e) <= RangeEnd(f, v) /\ RangeEnd(f, v) \in Nat
    BY <1>1, <1>7, <1>9, <1>10
  <2> QED BY <1>6, <2>1
<1>12. RangeEnd(f, v) \in Nat /\ \A x \in S : x <= RangeEnd(f, v)
  BY <1>1, <1>7, <1>10
<1>13. ASSUME NEW e \in BackEdges(f), \E q \in Readers(f, v) : q[1] \in LoopBlocks(f, e),
              Home(f, v) \notin LoopBlocks(f, e) \ {e[2]}
       PROVE  LastNumber(f, e[1]) <= RangeEnd(f, v)
  BY <1>11, <1>13
<1>14. /\ \A q \in Readers(f, v) : q[2] # 0 => Number(q) <= RangeEnd(f, v)
       /\ \A b \in Live(f) : (\E s \in f.phis : f.inc[s][b] = v) => LastNumber(f, b) <= RangeEnd(f, v)
  BY <1>9, <1>12
<1> QED BY <1>12, <1>13, <1>14

(* The blocks of a loop are reached against the edges from its latch. *)
LEMMA LoopClosed ==
  ASSUME NEW f, Trimmed(f), NEW y \in Live(f), NEW h \in Live(f)
  PROVE  /\ y \in LoopBlocks(f, <<y, h>>) /\ h \in LoopBlocks(f, <<y, h>>)
         /\ LoopBlocks(f, <<y, h>>) \subseteq Live(f)
         /\ \A x \in LoopBlocks(f, <<y, h>>) \ {h} : \A p \in Blocks :
              x \in Succ(f)[p] => p \in LoopBlocks(f, <<y, h>>)
<1>1. PICK succ \in [Blocks -> SUBSET Blocks] : succ = Succ(f)
  BY SuccType DEF Trimmed
<1>2. PICK rev \in [Blocks -> SUBSET Blocks] : rev = [b \in Blocks |-> Preds(succ, b)]
  <2>1. [b \in Blocks |-> Preds(succ, b)] \in [Blocks -> SUBSET Blocks]
    BY DEF Preds
  <2> QED BY <2>1
<1>3. y \in Blocks /\ h \in Blocks /\ Live(f) \subseteq Blocks
  BY DEF Live
<1>4. PICK R : R = ReachAvoiding(rev, {y}, {h})
  OBVIOUS
<1>5. LoopBlocks(f, <<y, h>>) = {h} \cup R
  BY <1>1, <1>2, <1>4 DEF LoopBlocks
<1>6. R \subseteq Blocks \ {h} /\ {y} \ {h} \subseteq R /\ \A x \in R : rev[x] \ {h} \subseteq R
  <2>1. {y} \in SUBSET Blocks
    BY <1>3
  <2> QED BY <1>4, <2>1, ReachClosed
<1>7. \A x, p \in Blocks : x \in succ[p] => p \in Live(f) /\ p \in rev[x]
  <2>1. \A p \in Blocks \ Live(f) : succ[p] = {}
    BY <1>1 DEF Succ, Live
  <2> QED BY <1>2, <2>1 DEF Preds
<1>8. R \subseteq Live(f)
  <2>1. {y} \ {h} \subseteq Live(f)
    OBVIOUS
  <2>2. \A x \in Live(f) : rev[x] \ {h} \subseteq Live(f)
    BY <1>2, <1>3, <1>7 DEF Preds
  <2>3. ReachAvoiding(rev, {y}, {h}) \subseteq Live(f)
    BY <2>1, <2>2, ReachLeast
  <2> QED BY <1>4, <2>3
<1>9. ASSUME NEW x \in R, NEW p \in Blocks, x \in succ[p] PROVE p \in {h} \cup R
  BY <1>6, <1>7, <1>9
<1> QED BY <1>1, <1>5, <1>6, <1>8, <1>9

LEMMA BackEdgeLoops ==
  ASSUME NEW f, Trimmed(f)
  PROVE  \A e \in BackEdges(f) : e[1] \in LoopBlocks(f, e) /\ LoopBlocks(f, e) \subseteq Live(f)
<1> SUFFICES ASSUME NEW e \in BackEdges(f)
             PROVE  e[1] \in LoopBlocks(f, e) /\ LoopBlocks(f, e) \subseteq Live(f)
  OBVIOUS
<1>1. PICK y \in Live(f), h \in Live(f) : e = <<y, h>>
  BY DEF BackEdges
<1> QED BY <1>1, LoopClosed

(* An edge back in the list of a structured function closes a loop. *)
LEMMA Retreats ==
  ASSUME NEW f, Trimmed(f), Structured(f), NEW y \in Live(f), NEW h \in Succ(f)[y], h <= y
  PROVE  /\ h \in Live(f) /\ <<y, h>> \in BackEdges(f) /\ Dominates(Succ(f), h, y)
         /\ LoopBlocks(f, <<y, h>>) = {c \in Live(f) : h <= c /\ c <= y}
         /\ \A u \in LoopBlocks(f, <<y, h>>) : \A s \in f.phis \ LoopBlocks(f, <<y, h>>) :
              f.inc[s][u] \in Instrs => Home(f, f.inc[s][u]) \in LoopBlocks(f, <<y, h>>)
<1>1. h \in Live(f)
  BY LiveBlocks
<1>2. PICK e : e = <<y, h>> /\ e[1] = y /\ e[2] = h
  <2>1. <<y, h>>[1] = y /\ <<y, h>>[2] = h
    OBVIOUS
  <2> QED BY <2>1
<1>3. e \in {d \in Live(f) \X Live(f) : d[2] <= d[1] /\ d[2] \in Succ(f)[d[1]]}
  BY <1>1, <1>2
<1>4. /\ e \in BackEdges(f)
      /\ LoopBlocks(f, e) = {c \in Live(f) : e[2] <= c /\ c <= e[1]}
      /\ \A u \in LoopBlocks(f, e) : \A s \in f.phis \ LoopBlocks(f, e) :
              f.inc[s][u] \in Instrs => Home(f, f.inc[s][u]) \in LoopBlocks(f, e)
  BY <1>3 DEF Structured
<1>5. Dominates(Succ(f), h, y)
  <2>1. PICK succ \in [Blocks -> SUBSET Blocks] : succ = Succ(f)
    BY SuccType DEF Trimmed
  <2>2. y \notin ReachAvoiding(succ, Roots(succ), {h})
    BY <1>2, <1>4, <2>1 DEF BackEdges, DomSetOf
  <2>3. PICK A : A = ReachAvoiding(succ, Roots(succ), {h})
    OBVIOUS
  <2>4. Roots(succ) \in SUBSET Blocks /\ Entry \in Roots(succ)
    BY EntryFirst DEF Roots
  <2>5. {Entry} \ {h} \subseteq A /\ \A x \in A : succ[x] \ {h} \subseteq A
    <3>1. Roots(succ) \ {h} \subseteq A /\ \A x \in A : succ[x] \ {h} \subseteq A
      BY <2>3, <2>4, ReachClosed
    <3> QED BY <2>4, <3>1
  <2>6. ReachAvoiding(succ, {Entry}, {h}) \subseteq A
    BY <2>5, ReachLeast
  <2> QED BY <2>1, <2>2, <2>3, <2>6 DEF Dominates
<1> QED BY <1>1, <1>2, <1>4, <1>5

LEMMA HomeEarlier ==
  ASSUME NEW f, Trimmed(f), Structured(f), NEW b \in Live(f), NEW d \in Blocks, Dominates(Succ(f), d, b)
  PROVE  d <= b
<1>1. PICK succ \in [Blocks -> SUBSET Blocks] : succ = Succ(f)
  BY SuccType DEF Trimmed
<1>2. Reachable(succ) = Live(f) /\ b \in Reachable(succ)
  BY <1>1 DEF Trimmed
<1>3. \A p \in Reachable(succ) : \A s \in succ[p] : s <= p => Dominates(succ, s, p)
  BY <1>1, <1>2, Retreats
<1> QED BY <1>1, <1>2, <1>3, DominatorEarlier

(* A value that is needed further up in the list is kept to the latch of a loop
   around both places. *)
LEMMA KeptAroundLoop ==
  ASSUME NEW f, Trimmed(f), Structured(f), NEW v \in Used(f),
         NEW a \in Live(f), NEW b \in Live(f), a \in Succ(f)[b] \/ a = b,
         NEW u \in UseBlocks(f, v), u \in ReachAvoiding(Succ(f), {a}, {Home(f, v)}),
         u <= b, a \in Succ(f)[b] \/ u # b
  PROVE  LastNumber(f, b) <= RangeEnd(f, v)
<1>1. PICK succ \in [Blocks -> SUBSET Blocks], home \in Blocks : succ = Succ(f) /\ home = Home(f, v)
  BY SuccType, MadeAt DEF Trimmed
<1>2. /\ Live(f) \subseteq Blocks /\ Blocks \subseteq Nat /\ u \in Live(f) /\ v \in Carried /\ v \in Instrs
      /\ v # Absent /\ v # Arg
  <2>1. v \in Carried /\ v \in Instrs /\ v # Arg
    BY DEF Used, Carried, Instrs, Arg
  <2>2. v # Absent
    BY <2>1, SCCPAssumption DEF Values
  <2>3. u \in Live(f)
    BY <2>1, UsedAt
  <2> QED BY <2>1, <2>2, <2>3, PlaceNumbers
<1>3. a \in Blocks /\ b \in Blocks /\ u \in Blocks
  BY <1>2
<1>4. PICK h \in Blocks :
        /\ h # home /\ h <= u /\ u \in ReachAvoiding(succ, {h}, {home})
        /\ \/ a = h
           \/ \E y \in ReachAvoiding(succ, {a}, {home} \cup {x \in Blocks : x <= h}) : h \in succ[y]
  <2>1. u \in ReachAvoiding(succ, {a}, {home})
    BY <1>1
  <2> QED BY <1>3, <2>1, LeastOnPath
<1>5. h \in Nat /\ u \in Nat /\ b \in Nat /\ h <= b
  BY <1>2, <1>3, <1>4
<1>6. \E y \in Live(f) : h \in succ[y] /\ h <= y /\ h \in Live(f) /\ b \in LoopBlocks(f, <<y, h>>)
  <2>1. CASE a = h
    <3>1. a \in succ[b]
      BY <1>1, <1>4, <1>5, <2>1
    <3>2. h \in succ[b] /\ h \in Live(f)
      BY <2>1, <3>1
    <3> QED BY <1>5, <3>2, LoopClosed
  <2>2. CASE a # h
    <3>1. PICK D : D = {home} \cup {x \in Blocks : x <= h}
      OBVIOUS
    <3>2. PICK B : B = ReachAvoiding(succ, {a}, D)
      OBVIOUS
    <3>3. PICK y \in B : h \in succ[y]
      BY <1>4, <2>2, <3>1, <3>2
    <3>4. B \subseteq Blocks \ D
      <4>1. {a} \in SUBSET Blocks
        BY <1>3
      <4> QED BY <3>2, <4>1, ReachClosed
    <3>5. B \subseteq Live(f)
      <4>1. {a} \ D \subseteq Live(f)
        OBVIOUS
      <4>2. \A x \in Live(f) : succ[x] \ D \subseteq Live(f)
        BY <1>1, LiveBlocks
      <4>3. ReachAvoiding(succ, {a}, D) \subseteq Live(f)
        BY <4>1, <4>2, ReachLeast
      <4> QED BY <3>2, <4>3
    <3>6. y \in Live(f) /\ h \in Live(f) /\ h <= y /\ h \in D /\ y # h
      <4>1. y \in Live(f) /\ y \in Blocks /\ y \notin D
        BY <3>3, <3>4, <3>5
      <4>2. h \in Live(f)
        BY <1>1, <3>3, <4>1, LiveBlocks
      <4> QED BY <1>2, <1>5, <3>1, <4>1, <4>2
    <3>7. PICK L : L = LoopBlocks(f, <<y, h>>)
      OBVIOUS
    <3>8. /\ y \in L /\ h \in L /\ L \subseteq Blocks
          /\ \A x \in L \ {h} : \A p \in Blocks : x \in succ[p] => p \in L
      BY <1>1, <1>2, <3>6, <3>7, LoopClosed
    <3>9. a \in L
      <4> SUFFICES ASSUME a \notin L PROVE FALSE
        OBVIOUS
      <4>1. PICK K : K = Blocks \ L
        OBVIOUS
      <4>2. {a} \ D \subseteq K
        BY <1>3, <4>1
      <4>3. \A x \in K : succ[x] \ D \subseteq K
        BY <3>6, <3>8, <4>1
      <4>4. ReachAvoiding(succ, {a}, D) \subseteq K
        BY <4>2, <4>3, ReachLeast
      <4> QED BY <3>2, <3>3, <3>8, <4>1, <4>4
    <3>10. b \in L
      BY <1>1, <1>3, <2>2, <3>8, <3>9
    <3> QED BY <3>3, <3>6, <3>7, <3>10
  <2> QED BY <2>1, <2>2
<1>7. PICK y \in Live(f) : h \in succ[y] /\ h <= y /\ h \in Live(f) /\ b \in LoopBlocks(f, <<y, h>>)
  BY <1>6
<1>8. PICK e : e = <<y, h>>
  OBVIOUS
<1>9. /\ e \in BackEdges(f) /\ LoopBlocks(f, e) = {c \in Live(f) : h <= c /\ c <= y}
      /\ \A c \in LoopBlocks(f, e) : \A s \in f.phis \ LoopBlocks(f, e) :
              f.inc[s][c] \in Instrs => Home(f, f.inc[s][c]) \in LoopBlocks(f, e)
  BY <1>1, <1>7, <1>8, Retreats
<1>10. b <= y /\ u \in LoopBlocks(f, e) /\ y \in Nat
  <2>1. b <= y /\ y \in Nat
    BY <1>2, <1>7, <1>8, <1>9
  <2> QED BY <1>2, <1>4, <1>5, <1>9, <2>1
<1>11. home \notin LoopBlocks(f, e)
  <2>1. ArrivesAlive(f, v, h)
    BY <1>1, <1>2, <1>4 DEF ArrivesAlive
  <2>2. Dominates(Succ(f), home, h)
    BY <1>1, <2>1, AliveDominated
  <2>3. home <= h
    BY <1>7, <2>2, HomeEarlier
  <2>4. home \in Nat
    BY <1>2
  <2> QED BY <1>4, <1>5, <1>9, <2>3, <2>4
<1>12. \E q \in Readers(f, v) : q[1] \in LoopBlocks(f, e)
  <2>1. CASE \E q \in Readers(f, v) : q[2] # 0 /\ q[1] = u
    BY <1>10, <2>1
  <2>2. CASE \E s \in f.phis : f.inc[s][u] = v
    <3>1. PICK s \in f.phis : f.inc[s][u] = v
      BY <2>2
    <3>2. s \in LoopBlocks(f, e)
      BY <1>1, <1>2, <1>9, <1>10, <1>11, <3>1
    <3>3. s \in Live(f) /\ s \in Blocks /\ f \in Function
      BY <1>2, <1>9, <3>2 DEF Trimmed
    <3>4. v \in PhiReads(f, s)
      BY <1>2, <1>3, <3>1 DEF PhiReads
    <3>5. v \in ReadBy(f, At(f, s, 0))
      <4>1. At(f, s, 0) = <<"phi", s>>
        BY <3>3, AtPlaces
      <4> QED BY <3>4, <4>1 DEF ReadBy
    <3>6. <<s, 0>> \in Readers(f, v)
      <4>1. 0 <= EndOf(f, s)
        BY <3>3, PlaceNumbers
      <4> QED BY <3>3, <3>5, <4>1, BlocksAssumption DEF Readers, Places
    <3>7. <<s, 0>>[1] = s
      OBVIOUS
    <3> QED BY <3>2, <3>6, <3>7
  <2>3. u \in {p[1] : p \in {q \in Readers(f, v) : q[2] # 0}} \/ \E s \in f.phis : f.inc[s][u] = v
    BY DEF UseBlocks
  <2> QED BY <2>1, <2>2, <2>3
<1>13. e[1] = y
  BY <1>8
<1>14. LastNumber(f, y) <= RangeEnd(f, v) /\ RangeEnd(f, v) \in Nat
  <2>1. Home(f, v) \notin LoopBlocks(f, e) \ {e[2]}
    BY <1>1, <1>11
  <2>2. LastNumber(f, e[1]) <= RangeEnd(f, v) /\ RangeEnd(f, v) \in Nat
    BY <1>9, <1>12, <2>1, BackEdgeLoops, RangeEndAfter
  <2> QED BY <1>13, <2>2
<1>15. LastNumber(f, b) <= LastNumber(f, y) /\ LastNumber(f, b) \in Nat /\ LastNumber(f, y) \in Nat
  <2>1. /\ EndOf(f, b) \in Nat /\ EndOf(f, b) <= N + 1 /\ EndOf(f, y) \in Nat
    BY <1>2, PlaceNumbers
  <2>2. CASE b = y
    BY <1>10, <2>1, <2>2, NumberOrder DEF LastNumber
  <2>3. CASE b # y
    <3>1. b < y
      BY <1>5, <1>10, <2>3
    <3>2. Number(<<b, EndOf(f, b)>>) \in Nat /\ Number(<<b, EndOf(f, b)>>) < Number(<<y, EndOf(f, y)>>)
      BY <1>5, <1>10, <2>1, <3>1, NumberOrder
    <3>3. Number(<<y, EndOf(f, y)>>) \in Nat
      BY <1>10, <2>1, NumberOrder
    <3> QED BY <3>2, <3>3 DEF LastNumber
  <2> QED BY <2>2, <2>3
<1> QED BY <1>14, <1>15

(* A use further down is behind. *)
LEMMA KeptToUse ==
  ASSUME NEW f, Trimmed(f), NEW v \in Used(f), NEW b \in Live(f), NEW k \in Nat,
         NEW u \in UseBlocks(f, v), (b < u /\ k <= N + 1) \/ (b = u /\ k = 0)
  PROVE  Number(<<b, k>>) <= RangeEnd(f, v)
<1>1. Live(f) \subseteq Blocks /\ Blocks \subseteq Nat /\ b \in Nat
  BY PlaceNumbers
<1>2. /\ RangeEnd(f, v) \in Nat
      /\ \A q \in Readers(f, v) : q[2] # 0 => Number(q) <= RangeEnd(f, v)
      /\ \A c \in Live(f) : (\E s \in f.phis : f.inc[s][c] = v) => LastNumber(f, c) <= RangeEnd(f, v)
  BY BackEdgeLoops, RangeEndAfter
<1>3. \E j \in Nat : Number(<<u, j>>) <= RangeEnd(f, v) /\ u \in Nat
  <2>1. CASE u \in {p[1] : p \in {q \in Readers(f, v) : q[2] # 0}}
    <3>1. PICK q \in Readers(f, v) : q[2] # 0 /\ q[1] = u
      BY <2>1
    <3>2. q \in Places(f)
      BY DEF Readers
    <3>3. q = <<q[1], q[2]>> /\ q[1] \in Live(f) /\ q[2] \in Nat
      BY <3>2, PlaceNumbers
    <3>4. Number(<<u, q[2]>>) <= RangeEnd(f, v)
      BY <1>2, <3>1, <3>3
    <3> QED BY <1>1, <3>1, <3>3, <3>4
  <2>2. CASE u \in {p \in Live(f) : \E s \in f.phis : f.inc[s][p] = v}
    <3>1. LastNumber(f, u) <= RangeEnd(f, v) /\ u \in Live(f)
      BY <1>2, <2>2
    <3>2. EndOf(f, u) \in Nat /\ u \in Nat
      BY <1>1, <3>1, PlaceNumbers
    <3> QED BY <3>1, <3>2 DEF LastNumber
  <2> QED BY <2>1, <2>2 DEF UseBlocks
<1>4. PICK j \in Nat : Number(<<u, j>>) <= RangeEnd(f, v) /\ u \in Nat
  BY <1>3
<1>5. /\ Number(<<b, k>>) \in Nat /\ Number(<<u, j>>) \in Nat
      /\ b < u /\ k <= N + 1 => Number(<<b, k>>) < Number(<<u, j>>)
      /\ b = u /\ k <= j => Number(<<b, k>>) <= Number(<<u, j>>)
  BY <1>1, <1>4, NumberOrder
<1>6. Number(<<b, k>>) <= Number(<<u, j>>)
  BY <1>4, <1>5
<1> QED BY <1>2, <1>4, <1>5, <1>6

(* Where a value is alive it is made in front, and its range goes on. *)
LEMMA StartCovered ==
  ASSUME NEW f, Trimmed(f), Structured(f), NEW v \in Used(f), NEW b \in Live(f), ArrivesAlive(f, v, b)
  PROVE  Number(PlaceOf(f, v)) <= Number(<<b, 0>>) /\ Number(<<b, 0>>) <= RangeEnd(f, v)
<1>1. Live(f) \subseteq Blocks /\ Blocks \subseteq Nat /\ b \in Nat
  BY PlaceNumbers
<1>2. PICK home \in Nat, k \in Nat : PlaceOf(f, v) = <<home, k>> /\ home = Home(f, v) /\ k <= N + 1
                                     /\ home \in Blocks
  <2>1. PlaceOf(f, v) \in Places(f) /\ Home(f, v) \in Blocks
    BY MadeAt
  <2> QED BY <1>1, <2>1, PlaceNumbers DEF Home
<1>3. home < b
  <2>1. Dominates(Succ(f), home, b) /\ b # home
    BY <1>1, <1>2, AliveDominated
  <2>2. home <= b
    BY <1>2, <2>1, HomeEarlier
  <2> QED BY <1>1, <1>2, <2>1, <2>2
<1>4. Number(PlaceOf(f, v)) <= Number(<<b, 0>>)
  <2>1. /\ Number(<<home, k>>) \in Nat /\ Number(<<b, 0>>) \in Nat
        /\ Number(<<home, k>>) < Number(<<b, 0>>)
    BY <1>1, <1>2, <1>3, NumberOrder
  <2> QED BY <1>2, <2>1
<1>5. PICK u \in UseBlocks(f, v) : u \in ReachAvoiding(Succ(f), {b}, {Home(f, v)})
  <2>1. v # Arg
    BY DEF Used, Instrs, Arg
  <2> QED BY <2>1 DEF ArrivesAlive
<1>6. u \in Nat
  <2>1. v \in Carried
    BY DEF Used, Carried
  <2>2. u \in Live(f)
    BY <2>1, UsedAt
  <2> QED BY <1>1, <2>2
<1>7. CASE b <= u
  <2>1. b < u \/ b = u
    BY <1>1, <1>6, <1>7
  <2> QED BY <1>4, <2>1, KeptToUse, BlocksAssumption
<1>8. CASE u < b
  <2>1. u <= b /\ u # b
    BY <1>1, <1>6, <1>8
  <2>2. LastNumber(f, b) <= RangeEnd(f, v)
    BY <1>5, <2>1, KeptAroundLoop
  <2>3. EndOf(f, b) \in Nat /\ 0 <= EndOf(f, b)
    BY <1>1, PlaceNumbers
  <2>4. /\ Number(<<b, 0>>) \in Nat /\ LastNumber(f, b) \in Nat
        /\ Number(<<b, 0>>) <= LastNumber(f, b)
    BY <1>1, <2>3, NumberOrder DEF LastNumber
  <2>5. RangeEnd(f, v) \in Nat
    BY BackEdgeLoops, RangeEndAfter
  <2> QED BY <1>4, <2>2, <2>4, <2>5
<1> QED BY <1>1, <1>6, <1>7, <1>8

LEMMA EndCovered ==
  ASSUME NEW f, Trimmed(f), Structured(f), NEW v \in Used(f), NEW b \in Live(f), LeavesAlive(f, v, b)
  PROVE  Number(PlaceOf(f, v)) <= Number(<<b, EndOf(f, b)>>) /\ Number(<<b, EndOf(f, b)>>) <= RangeEnd(f, v)
<1>1. /\ Live(f) \subseteq Blocks /\ Blocks \subseteq Nat /\ b \in Nat /\ EndOf(f, b) \in Nat
      /\ EndOf(f, b) <= N + 1
  BY PlaceNumbers
<1>2. PICK home \in Nat, k \in Nat : PlaceOf(f, v) = <<home, k>> /\ home = Home(f, v) /\ k <= N + 1
                                     /\ home \in Blocks /\ k <= EndOf(f, home)
  <2>1. PlaceOf(f, v) \in Places(f) /\ Home(f, v) \in Blocks
    BY MadeAt
  <2> QED BY <1>1, <2>1, PlaceNumbers DEF Home
<1>3. home < b \/ home = b
  <2>1. Dominates(Succ(f), home, b)
    BY <1>2, LeavesDominated
  <2>2. home <= b
    BY <1>2, <2>1, HomeEarlier
  <2> QED BY <1>1, <1>2, <2>2
<1>4. Number(PlaceOf(f, v)) <= Number(<<b, EndOf(f, b)>>)
  <2>1. /\ Number(<<home, k>>) \in Nat /\ Number(<<b, EndOf(f, b)>>) \in Nat
        /\ home < b => Number(<<home, k>>) < Number(<<b, EndOf(f, b)>>)
        /\ home = b /\ k <= EndOf(f, b) => Number(<<home, k>>) <= Number(<<b, EndOf(f, b)>>)
    BY <1>1, <1>2, NumberOrder
  <2> QED BY <1>2, <1>3, <2>1
<1>5. PICK s \in Succ(f)[b] : f.inc[s][b] = v \/ ArrivesAlive(f, v, s)
  BY DEF LeavesAlive
<1>6. s \in Live(f) /\ s \in Blocks /\ b \in Blocks
  BY <1>1, <1>5, LiveBlocks
<1>7. CASE f.inc[s][b] = v
  <2>1. v # Absent
    BY SCCPAssumption DEF Used, Instrs, Values
  <2>2. s \in f.phis
    BY <1>6, <1>7, <2>1 DEF Trimmed, Matching, Arrives
  <2>3. LastNumber(f, b) <= RangeEnd(f, v)
    BY <1>7, <2>2, BackEdgeLoops, RangeEndAfter
  <2> QED BY <1>4, <2>3 DEF LastNumber
<1>8. CASE ArrivesAlive(f, v, s)
  <2>1. PICK u \in UseBlocks(f, v) : u \in ReachAvoiding(Succ(f), {s}, {Home(f, v)})
    <3>1. v # Arg
      BY DEF Used, Instrs, Arg
    <3> QED BY <1>8, <3>1 DEF ArrivesAlive
  <2>2. u \in Nat
    <3>1. v \in Carried
      BY DEF Used, Carried
    <3>2. u \in Live(f)
      BY <3>1, UsedAt
    <3> QED BY <1>1, <3>2
  <2>3. CASE b < u
    BY <1>1, <1>4, <2>3, KeptToUse
  <2>4. CASE u <= b
    <3>1. LastNumber(f, b) <= RangeEnd(f, v)
      BY <1>5, <1>6, <2>1, <2>4, KeptAroundLoop
    <3> QED BY <1>4, <3>1 DEF LastNumber
  <2> QED BY <1>1, <2>2, <2>3, <2>4
<1> QED BY <1>5, <1>7, <1>8

LEMMA SettledRanges ==
  ASSUME TypeOK, Strict(fn), Matching(fn), Strict(before), Matching(before)
  PROVE  RangesCover
<1>1. \A f \in Allocated : f \in Function /\ Strict(f) /\ Matching(f)
  BY DEF Allocated, TypeOK
<1>2. ASSUME NEW f \in Allocated, Structured(f) PROVE Trimmed(f)
  BY <1>1, <1>2 DEF Trimmed, Strict, Structured
<1>3. ASSUME NEW f \in Allocated, Structured(f), NEW v \in Used(f), NEW p \in AlivePlaces(f, v)
      PROVE  Number(PlaceOf(f, v)) <= Number(p) /\ Number(p) <= RangeEnd(f, v)
  <2>1. Trimmed(f)
    BY <1>2, <1>3
  <2>2. CASE \E b \in Live(f) : p = <<b, 0>> /\ ArrivesAlive(f, v, b)
    BY <1>3, <2>1, <2>2, StartCovered
  <2>3. CASE \E b \in Live(f) : p = <<b, EndOf(f, b)>> /\ LeavesAlive(f, v, b)
    BY <1>3, <2>1, <2>3, EndCovered
  <2> QED BY <2>2, <2>3 DEF AlivePlaces
<1> QED BY <1>3 DEF RangesCover

(* However the passes change a function, when its edges back in the list make
   loops of neighbouring blocks the range of a value has every place in it where
   a path from there comes to a use. *)
THEOREM RangesCoverAlways == Spec => []RangesCover
<1>1. Init => /\ TypeOK /\ Visiting /\ Standing /\ Matching(fn) /\ Strict(fn) /\ Tabled
              /\ Matching(before) /\ Strict(before)
  BY TypeInit, MatchingInit, StrictInit DEF Init, Tabled
<1>2. TypeOK /\ Visiting /\ Standing /\ Matching(fn) /\ Strict(fn) /\ Tabled /\ [Next]_vars
        => TypeOK' /\ Visiting' /\ Standing' /\ Matching(fn)' /\ Strict(fn)' /\ Tabled'
  BY TypeStep, StandingStep, MatchingStep, StrictStep, TabledStep
<1>3. Matching(fn) /\ Strict(fn) /\ Matching(before) /\ Strict(before) /\ [Next]_vars
        => Matching(before)' /\ Strict(before)'
  BY SettledStep
<1>4. TypeOK /\ Matching(fn) /\ Strict(fn) /\ Matching(before) /\ Strict(before) => RangesCover
  BY SettledRanges
<1> QED BY <1>1, <1>2, <1>3, <1>4, PTL DEF Spec
=============================================================================
