------------------------------- MODULE EGraph -------------------------------
(***************************************************************************)
(* The e-graph and the pass that runs it on a block                        *)
(* (src/src/transforms/EGraph.cpp, src/src/transforms/EGraphPass.cpp).     *)
(*                                                                         *)
(* The instructions of the block are numbered in their order; an operand   *)
(* is such an instruction, a constant, or a leaf: any value that is not    *)
(* arithmetic.  Arithmetic of other blocks is expanded as that of the      *)
(* block itself and not told apart from it.  All arithmetic has two        *)
(* operands.                                                               *)
(*                                                                         *)
(* The phases of performTransformation are the values of phase.  addValue  *)
(* and extractBest are recursive: adding and extracting are their calls in *)
(* progress, innermost last.  graph.rep[c] is what find(c) returns, and    *)
(* graph.val[c], which the code does not have, what class c was made for.  *)
(***************************************************************************)
EXTENDS Integers, Sequences, FiniteSets

CONSTANTS
  Leaves, Data,   \* the leaves; the numbers, of which constants are some
  Envs,           \* what the leaves may be: a set of functions
  Apply,          \* the arithmetic: Apply[op][<<a, b>>]
  Programs,       \* the blocks, each with what its arithmetic computes
  Width,          \* powers of two are below 2^Width
  Depth, Rounds   \* how deep addValue goes; how often saturate applies rules

VARIABLES program, code, phase, graph, adding, roots, at, pos, rule, round, queue,
          newMemo, kept, extracted, extracting

adds     == <<adding, roots>>
cursor   == <<at, pos>>
rebuilds == <<newMemo, kept>>
extracts == <<extracted, extracting>>
vars == <<program, code, phase, graph, adds, cursor, rule, round, queue, rebuilds, extracts>>

Inst(i)  == [kind |-> "inst",  of |-> i]
Const(n) == [kind |-> "const", of |-> n]  \* of the program
Made(n)  == [kind |-> "made",  of |-> n]  \* by a rule: of the global context, never the program's
Leaf(l)  == [kind |-> "leaf",  of |-> l]
None     == [kind |-> "none",  of |-> 0]

Arithmetic == DOMAIN Apply
IsConst(v) == v.kind \in {"const", "made"}

(* What an operand of the program amounts to, and an operation.             *)
ValueOf(p, v) ==
  CASE v.kind = "inst" -> p.value[v.of]
    [] v.kind = "leaf" -> [e \in Envs |-> e[v.of]]
    [] OTHER           -> [e \in Envs |-> v.of]

Compute(op, x, y) == [e \in Envs |-> Apply[op][<<x[e], y[e]>>]]

Shifts == 0 .. Width - 1
Powers == {2 ^ k : k \in Shifts}
Log(n) == CHOOSE k \in Shifts : n = 2 ^ k

(***************************************************************************)
(* The arithmetic identities behind the rules.                             *)
(***************************************************************************)
ASSUME ArithmeticAssumption ==
  /\ Width \in Nat /\ {0} \cup Powers \cup {p - 1 : p \in Powers} \cup Shifts \subseteq Data
  /\ \A a \in Data :
       /\ \A op \in {"Add", "Sub"} : Apply[op][<<a, 0>>] = a
       /\ Apply["Mul"][<<a, 1>>] = a
       /\ \A op \in {"Sub", "Xor"} : Apply[op][<<a, a>>] = 0
       /\ \A k \in Shifts :
            /\ Apply["Udiv"][<<a, 2 ^ k>>] = Apply["Shr"][<<a, k>>]
            /\ Apply["Mul"][<<a, 2 ^ k>>]  = Apply["Shl"][<<a, k>>]
            /\ Apply["Urem"][<<a, 2 ^ k>>] = Apply["And"][<<a, 2 ^ k - 1>>]

(* A program lists instructions, each after those it reads; value[i] is what
   instruction i amounts to.                                                 *)
Operands(p) ==
  {Inst(i) : i \in {j \in 1 .. Len(p.code) : p.code[j].op \in Arithmetic}} \cup {Leaf(l) : l \in Leaves} \cup {Const(n) : n \in Data}

ASSUME ProgramAssumption ==
  /\ Depth \in Nat \ {0} /\ Envs # {} /\ Envs \subseteq [Leaves -> Data]
  /\ \A op \in Arithmetic : Apply[op] \in [Data \X Data -> Data]
  /\ {"Shr", "Sar", "Shl", "And", "Mul", "Div", "Udiv", "Rem", "Urem"} \subseteq Arithmetic
  /\ \A p \in Programs : \A i \in 1 .. Len(p.code) :
       /\ p.code[i].args \in Seq(Operands(p)) /\ p.value[i] \in [Envs -> Data]
       /\ \A k \in DOMAIN p.code[i].args :
            p.code[i].args[k].kind = "inst" => p.code[i].args[k].of < i
       /\ p.code[i].op \in Arithmetic =>
            /\ Len(p.code[i].args) = 2
            /\ p.value[i] = Compute(p.code[i].op, ValueOf(p, p.code[i].args[1]),
                                                  ValueOf(p, p.code[i].args[2]))

-----------------------------------------------------------------------------
(* Nodes and classes.                                                       *)
Node(op, x, y) == [op |-> op, children |-> <<x, y>>, atom |-> None]
Atom(v)        == [op |-> "Copy", children |-> <<>>, atom |-> v]
IsAtom(n)      == n.atom # None

NoGraph == [rep |-> <<>>, memo |-> [n \in {} |-> 0], classes |-> [c \in {} |-> <<>>], val |-> <<>>]

Entry(g, c) == IF c \in DOMAIN g.classes THEN g.classes[c] ELSE <<>>

Denotation(p, g, n) ==
  IF IsAtom(n) THEN ValueOf(p, n.atom)
  ELSE Compute(n.op, g.val[n.children[1]], g.val[n.children[2]])

Canonical(g, n) ==
  [n EXCEPT !.children = [k \in DOMAIN n.children |-> g.rep[n.children[k]]]]

Added(p, g, m) ==
  LET id == Len(g.rep) + 1
  IN  [rep |-> Append(g.rep, id), val |-> Append(g.val, Denotation(p, g, m)),
       memo |-> [n \in DOMAIN g.memo \cup {m} |-> IF n = m THEN id ELSE g.memo[n]],
       classes |-> [c \in DOMAIN g.classes \cup {id} |-> IF c = id THEN <<m>> ELSE g.classes[c]]]

(* addNode: the graph afterwards, and what the call returns.                 *)
AddNode(p, g, n) ==
  IF Canonical(g, n) \in DOMAIN g.memo
  THEN [graph |-> g, id |-> g.rep[g.memo[Canonical(g, n)]]]
  ELSE [graph |-> Added(p, g, Canonical(g, n)), id |-> Len(g.rep) + 1]

Union(g, r1, r2) == [g EXCEPT !.rep = [c \in DOMAIN @ |-> IF @[c] = r2 THEN r1 ELSE @[c]]]

(* EGraph::merge                                                            *)
Merged(g, c1, c2) ==
  LET r1 == g.rep[c1]
      r2 == g.rep[c2]
  IN  IF r1 = r2 THEN g
      ELSE [Union(g, r1, r2) EXCEPT
              !.classes = [c \in (DOMAIN g.classes \cup {r1}) \ {r2} |->
                             IF c = r1 THEN Entry(g, r1) \o Entry(g, r2) ELSE g.classes[c]]]

-----------------------------------------------------------------------------
(* addValue, for each instruction worth a better form.                      *)
IsCandidate(i) == code[i].op \in {"Udiv", "Div", "Urem", "Rem", "Mul"}

Expands(v, depth) ==
  v.kind = "inst" /\ code[v.of].op \in Arithmetic /\ depth < Depth

Top(s) == s[Len(s)]
Pop(s) == SubSeq(s, 1, Len(s) - 1)

FirstFrom(S, k) == {m \in S : m >= k /\ \A l \in S : l >= k => m <= l}

BeginCandidate ==
  /\ phase = "add" /\ adding = <<>>
  /\ \E i \in FirstFrom({j \in 1 .. Len(code) : IsCandidate(j)}, at) :
       /\ adding' = <<[of |-> Inst(i), ids |-> <<>>]>>
       /\ at' = i + 1
  /\ UNCHANGED <<program, code, phase, graph, roots, pos, rule, round, queue, rebuilds, extracts>>

AddOperand ==
  /\ phase = "add" /\ adding # <<>>
  /\ LET f == Top(adding)
     IN  /\ Expands(f.of, Len(adding) - 1) /\ Len(f.ids) < 2
         /\ adding' = Append(adding, [of |-> code[f.of.of].args[Len(f.ids) + 1], ids |-> <<>>])
  /\ UNCHANGED <<program, code, phase, graph, roots, cursor, rule, round, queue, rebuilds, extracts>>

AddTop ==
  /\ phase = "add" /\ adding # <<>>
  /\ LET f == Top(adding)
         expands == Expands(f.of, Len(adding) - 1)
         added == AddNode(program, graph, IF expands THEN Node(code[f.of.of].op, f.ids[1], f.ids[2])
                                            ELSE Atom(f.of))
         rest == Pop(adding)
     IN  /\ expands => Len(f.ids) = 2
         /\ graph' = added.graph
         /\ IF rest = <<>>
            THEN roots' = Append(roots, [of |-> f.of.of, id |-> added.id]) /\ adding' = <<>>
            ELSE /\ adding' = [rest EXCEPT ![Len(rest)].ids = Append(@, added.id)]
                 /\ UNCHANGED roots
  /\ UNCHANGED <<program, code, phase, cursor, rule, round, queue, rebuilds, extracts>>

(* The loops over the classes go by their numbers, from where `at` is.       *)
Classes == DOMAIN graph.classes

StartLoop(p, S) ==
  /\ phase' = p
  /\ \E c \in FirstFrom(S, 1) : at' = c
  /\ pos' = 1

NextClass ==
  /\ \E c \in FirstFrom(Classes, at + 1) : at' = c
  /\ pos' = 1

IsLastClass == FirstFrom(Classes, at + 1) = {}

EndOfCandidates ==
  /\ phase = "add" /\ adding = <<>>
  /\ FirstFrom({j \in 1 .. Len(code) : IsCandidate(j)}, at) = {}
  /\ IF roots = <<>> THEN phase' = "done" /\ UNCHANGED <<at, pos>> ELSE StartLoop("rules", Classes)
  /\ UNCHANGED <<program, code, graph, adds, rule, round, queue, rebuilds, extracts>>

-----------------------------------------------------------------------------
(* applyRules: what it finds is merged after the loop over the classes.      *)
Constants(g, c) == {k \in DOMAIN Entry(g, c) : IsConst(Entry(g, c)[k].atom)}

(* The last constant in the class of c, if it has one.                       *)
ConstantOf(g, c) ==
  {Entry(g, c)[k].atom.of : k \in {j \in Constants(g, c) : \A l \in Constants(g, c) : l <= j}}

IsIdentity(op, n) == (op \in {"Add", "Sub"} /\ n = 0) \/ (op = "Mul" /\ n = 1)

(* The cheaper operation for an operation with the power of two n, and its
   operand.                                                                 *)
CheaperOp(op) ==
  CASE op \in {"Udiv", "Shr"} -> "Shr" [] op \in {"Div", "Sar"} -> "Sar"
    [] op = "Mul" -> "Shl"             [] OTHER -> "And"

MaskTooLarge(op, n) == IF op = "Urem" THEN n ELSE Log(n)  \* variant: one too many

CheaperOperand(op, n) == IF op = "Urem" THEN n - 1 ELSE Log(n)

HasCheaper == {"Udiv", "Shr", "Div", "Sar", "Mul", "Urem"}

(* The numbers of the rules that match node n, in the order of the code.
   (The one for broadcast vectors never does: addValue makes leaves of them.) *)
Matching(n) ==
  LET x  == graph.rep[n.children[1]]
      y  == graph.rep[n.children[2]]
      ns == ConstantOf(graph, y)
  IN  IF IsAtom(n) THEN {} ELSE
      {r \in 1 .. 3 :
         CASE r = 1 -> \E k \in ns : IsIdentity(n.op, k)
           [] r = 2 -> n.op \in {"Sub", "Xor"} /\ x = y
           [] r = 3 -> n.op \in HasCheaper /\ ns \cap Powers # {}}

Nodes(c) == graph.classes[c]
Visited  == Nodes(at)[pos]

(* A rule that matches equates the class of the node with another.           *)
Matches(r) ==
  /\ phase = "rules" /\ pos <= Len(Nodes(at))
  /\ r \in FirstFrom(Matching(Visited), rule)
  /\ rule' = r + 1
  /\ UNCHANGED <<program, code, phase, adds, cursor, round, rebuilds, extracts>>

Equate(g, c) == graph' = g /\ queue' = Append(queue, <<graph.rep[at], c>>)

Identity == Matches(1) /\ Equate(graph, graph.rep[Visited.children[1]])

Cancel ==
  /\ Matches(2)
  /\ LET zero == AddNode(program, graph, Atom(Made(0)))
     IN  Equate(zero.graph, zero.id)

Cheapen ==
  /\ Matches(3)
  /\ \E n \in ConstantOf(graph, graph.rep[Visited.children[2]]) :
       LET x       == graph.rep[Visited.children[1]]
           amount  == AddNode(program, graph, Atom(Made(CheaperOperand(Visited.op, n))))
           cheaper == AddNode(program, amount.graph, Node(CheaperOp(Visited.op), x, amount.id))
       IN  Equate(cheaper.graph, cheaper.id)

NextNode ==
  /\ phase = "rules" /\ pos <= Len(Nodes(at))
  /\ FirstFrom(Matching(Visited), rule) = {}
  /\ pos' = pos + 1 /\ rule' = 1
  /\ UNCHANGED <<program, code, phase, graph, adds, at, round, queue, rebuilds, extracts>>

EndOfClass ==
  /\ phase = "rules" /\ pos > Len(graph.classes[at]) /\ ~IsLastClass
  /\ NextClass
  /\ UNCHANGED <<program, code, phase, graph, adds, rule, round, queue, rebuilds, extracts>>

(* saturate ends when no rule matched; the pass when none ever did.          *)
EndOfRules ==
  /\ phase = "rules" /\ pos > Len(graph.classes[at]) /\ IsLastClass
  /\ phase' = IF queue # <<>> THEN "merge" ELSE IF round = 0 THEN "done" ELSE "extract"
  /\ at' = 1 /\ pos' = 1
  /\ UNCHANGED <<program, code, graph, adds, rule, round, queue, rebuilds, extracts>>

MergeNext ==
  /\ phase = "merge" /\ queue # <<>>
  /\ graph' = Merged(graph, Head(queue)[1], Head(queue)[2])
  /\ queue' = Tail(queue)
  /\ UNCHANGED <<program, code, phase, adds, cursor, rule, round, rebuilds, extracts>>

EndOfMerges ==
  /\ phase = "merge" /\ queue = <<>>
  /\ StartLoop("rebuild", Classes)
  /\ newMemo' = [n \in {} |-> 0] /\ kept' = <<>>
  /\ UNCHANGED <<program, code, graph, adds, rule, round, queue, extracts>>

-----------------------------------------------------------------------------
(* rebuild: one pass.  A node seen before joins the classes but not their
   lists; the memo of addNode stays what it was.                             *)
RebuildNode ==
  /\ phase = "rebuild" /\ pos <= Len(graph.classes[at])
  /\ LET n == Canonical(graph, graph.classes[at][pos])
     IN  IF n \in DOMAIN newMemo
         THEN /\ graph' = LET r1 == graph.rep[at]
                              r2 == graph.rep[newMemo[n]]
                          IN  Union(graph, r1, r2)
              /\ UNCHANGED <<newMemo, kept>>
         ELSE /\ newMemo' = [m \in DOMAIN newMemo \cup {n} |-> IF m = n THEN at ELSE newMemo[m]]
              /\ kept' = Append(kept, n)
              /\ UNCHANGED graph
  /\ pos' = pos + 1
  /\ UNCHANGED <<program, code, phase, adds, at, rule, round, queue, extracts>>

RebuildEndOfClass ==
  /\ phase = "rebuild" /\ pos > Len(graph.classes[at])
  /\ graph' = [graph EXCEPT !.classes[at] = kept]
  /\ kept' = <<>>
  /\ IF ~IsLastClass THEN NextClass /\ UNCHANGED <<phase, round>>
     ELSE /\ round' = round + 1
          /\ IF round + 1 < Rounds THEN StartLoop("rules", Classes)
             ELSE phase' = "extract" /\ at' = 1 /\ pos' = 1
  /\ UNCHANGED <<program, code, adds, rule, queue, newMemo, extracts>>

-----------------------------------------------------------------------------
(* extractBest, for each candidate.                                         *)
Cost(op) ==
  CASE op \in {"Shr", "Sar", "Shl", "And", "Xor", "Add", "Sub"} -> 1
    [] op = "Mul" -> 3 [] op \in {"Div", "Udiv"} -> 20 [] OTHER -> 2

CostOf(n) == IF IsAtom(n) THEN 0 ELSE Cost(n.op)

Cheapest(s) ==
  s[CHOOSE k \in DOMAIN s : /\ \A l \in DOMAIN s : CostOf(s[k]) <= CostOf(s[l])
                            /\ \A l \in 1 .. k - 1 : CostOf(s[k]) < CostOf(s[l])]

Buildable == {"Shr", "Sar", "Shl", "And", "Add", "Sub", "Mul"}

BeginExtraction ==
  /\ phase = "extract" /\ extracting = <<>> /\ at <= Len(roots)
  /\ graph.rep[roots[at].id] \notin DOMAIN extracted
  /\ extracting' = <<graph.rep[roots[at].id]>>
  /\ UNCHANGED <<program, code, phase, graph, adds, cursor, rule, round, queue, rebuilds, extracted>>

Extracted(c, v) == [d \in DOMAIN extracted \cup {c} |-> IF d = c THEN v ELSE extracted[d]]

(* The class the call on top has to extract next for a child, if any.        *)
Missing(n) ==
  LET todo == {k \in DOMAIN n.children : graph.rep[n.children[k]] \notin DOMAIN extracted}
  IN  {graph.rep[n.children[k]] : k \in FirstFrom(todo, 1)}

GiveUpAgain ==  \* variant: the candidate is tried again
  extracting' = <<>> /\ UNCHANGED <<code, phase, at, extracted>>

(* A call gives up, and with it all that wait for it.                        *)
GiveUp ==
  /\ extracting' = <<>> /\ at' = at + 1
  /\ UNCHANGED <<code, phase, extracted>>

(* A call that reaches a class in progress does so again and again until the
   stack of the compiler ends.                                               *)
ExtractChild(c) ==
  /\ IF \E k \in DOMAIN extracting : extracting[k] = c
     THEN phase' = "overflow" /\ UNCHANGED extracting
     ELSE extracting' = Append(extracting, c) /\ UNCHANGED phase
  /\ UNCHANGED <<code, at, extracted>>

(* createX after setInsertPoint(bb): at the end of the block, behind its
   return, and not before the instruction to be replaced.                    *)
Build(n) ==
  /\ code' = Append(code, [op |-> n.op, args |-> [k \in DOMAIN n.children |->
                                                    extracted[graph.rep[n.children[k]]]]])
  /\ extracted' = Extracted(Top(extracting), Inst(Len(code) + 1))
  /\ extracting' = Pop(extracting)
  /\ UNCHANGED <<phase, at>>

TakeAtom(n) ==
  /\ extracted' = Extracted(Top(extracting), n.atom)
  /\ extracting' = Pop(extracting)
  /\ UNCHANGED <<code, phase, at>>

ExtractBest ==
  /\ phase = "extract" /\ extracting # <<>>
  /\ LET nodes == Entry(graph, Top(extracting))
         best  == Cheapest(nodes)
     IN  \/ nodes = <<>> /\ GiveUp
         \/ nodes # <<>> /\ IsAtom(best) /\ TakeAtom(best)
         \/ /\ nodes # <<>> /\ ~IsAtom(best)
            /\ \/ \E c \in Missing(best) : ExtractChild(c)
               \/ Missing(best) = {} /\ best.op \in Buildable /\ Build(best)
               \/ Missing(best) = {} /\ best.op \notin Buildable /\ GiveUp
  /\ UNCHANGED <<program, graph, adds, pos, rule, round, queue, rebuilds>>

(* replaceAllUsesWith                                                       *)
Replace ==
  /\ phase = "extract" /\ extracting = <<>> /\ at <= Len(roots)
  /\ graph.rep[roots[at].id] \in DOMAIN extracted
  /\ LET best == extracted[graph.rep[roots[at].id]]
         old  == Inst(roots[at].of)
     IN  code' = [i \in DOMAIN code |-> [code[i] EXCEPT !.args =
                    [k \in DOMAIN @ |-> IF @[k] = old THEN best ELSE @[k]]]]
  /\ at' = at + 1
  /\ UNCHANGED <<program, phase, graph, adds, pos, rule, round, queue, rebuilds, extracts>>

EndOfExtraction ==
  /\ phase = "extract" /\ extracting = <<>> /\ at > Len(roots)
  /\ phase' = "done"
  /\ UNCHANGED <<program, code, graph, adds, cursor, rule, round, queue, rebuilds, extracts>>

-----------------------------------------------------------------------------
Start(p) ==
  /\ program \in Programs
  /\ code = program.code
  /\ phase = p /\ graph = NoGraph
  /\ adding = <<>> /\ roots = <<>> /\ queue = <<>> /\ kept = <<>> /\ extracting = <<>>
  /\ at = 1 /\ pos = 1 /\ rule = 1 /\ round = 0
  /\ newMemo = [n \in {} |-> 0] /\ extracted = [c \in {} |-> None]

Init == Start("add")

Next ==
  \/ BeginCandidate \/ AddOperand \/ AddTop \/ EndOfCandidates
  \/ Identity \/ Cancel \/ Cheapen \/ NextNode \/ EndOfClass \/ EndOfRules \/ MergeNext \/ EndOfMerges
  \/ RebuildNode \/ RebuildEndOfClass
  \/ BeginExtraction \/ ExtractBest \/ Replace \/ EndOfExtraction

Spec == Init /\ [][Next]_vars

-----------------------------------------------------------------------------
(* Where the rules are right.  A shift right by a power of two is taken for a
   division by it, also the shift that a division became, and a signed
   division for a shift: such programs are left out of the claims below.     *)
Allowed(op, y) ==
  \A k \in Shifts : y = [e \in Envs |-> 2 ^ k] =>
    op \notin {"Shr", "Sar", "Div"} /\ (op = "Udiv" => k \notin Powers)

Exact(p) ==
  \A i \in 1 .. Len(p.code) :
    p.code[i].op \in Arithmetic => Allowed(p.code[i].op, ValueOf(p, p.code[i].args[2]))

(* Whatever was added, merged and rebuilt, the nodes of a class compute the
   same, the class they were merged into as well, and a candidate is in the
   class of what it computes.                                                *)
ClassesAgree ==
  Exact(program) =>
    /\ \A c \in Classes : \A k \in DOMAIN graph.classes[c] :
         Denotation(program, graph, graph.classes[c][k]) = graph.val[c]
    /\ \A c \in DOMAIN graph.rep : graph.val[graph.rep[c]] = graph.val[c]
    /\ \A k \in DOMAIN roots : graph.val[roots[k].id] = program.value[roots[k].of]

(* No class lost the constant it holds.  The merges of rebuild leave the list
   of a class behind; extractBest may then build the constant from other nodes
   of its class, and from the instructions to be replaced.                   *)
ConstantsListed ==
  \A n \in DOMAIN graph.memo : IsConst(n.atom) =>
    LET s == Entry(graph, graph.rep[graph.memo[n]])
    IN  s # <<>> => \E k \in DOMAIN s : IsConst(s[k].atom)

(* The instructions whose results instruction i is computed from.            *)
Below(p) ==
  LET below[i \in 1 .. Len(p.code)] ==
        LET direct == {p.code[i].args[k].of : k \in {j \in DOMAIN p.code[i].args :
                                                      p.code[i].args[j].kind = "inst"}}
        IN  direct \cup UNION {below[j] : j \in direct}
  IN  below

(* No instruction computes what one that it is computed from does, by a sum
   with zero say: these two would share a class, and the cheaper might have
   that class for an operand.                                                *)
Progresses(p) ==
  \A i \in 1 .. Len(p.code) : p.code[i].op \in Arithmetic =>
    \A j \in Below(p)[i] : p.value[i] # p.value[j]
=============================================================================
