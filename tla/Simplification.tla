--------------------------- MODULE Simplification ---------------------------
(***************************************************************************)
(* What transforms::GVN and transforms::InstCombinePass (src/src/          *)
(* transforms) make of one instruction of a function, and the edits of     *)
(* functions that all scalar passes use.                                   *)
(***************************************************************************)
EXTENDS SCCP

CONSTANTS
  Any,                 \* in an identity: any value, the same one everywhere
  NumberingIdentities, \* what tryIdentitySimplify knows
  CombineIdentities,   \* what InstCombinePass knows
  Commuting,           \* the operations whose operands getValueKey sorts
  Associating          \* the operations whose constants InstCombinePass joins

Pattern == {Any} \cup {Const(d) : d \in Data}

(* An operation of operands x and y is is.                                  *)
Identity == [fun : DOMAIN Apply, x : Pattern, y : Pattern, is : Pattern]

IsConst(v) == v[1] = "const"

Instance(p, v) == IF p = Any THEN v ELSE p

ASSUME SimplificationAssumption ==
  /\ Any \notin Values
  /\ NumberingIdentities \cup CombineIdentities \subseteq Identity
  /\ \A i \in NumberingIdentities \cup CombineIdentities : \A d \in Data :
       Apply[i.fun][<<Instance(i.x, Const(d))[2], Instance(i.y, Const(d))[2]>>]
         = Instance(i.is, Const(d))[2]
  /\ Commuting \subseteq DOMAIN Apply
  /\ \A g \in Commuting : \A d, e \in Data : Apply[g][<<d, e>>] = Apply[g][<<e, d>>]
  /\ Associating \subseteq DOMAIN Apply
  /\ \A g \in Associating : \A d, e \in Data :
       /\ Apply[g][<<d, e>>] \in Data /\ Apply[g][<<d, Zero>>] = d
       /\ \A h \in Data : Apply[g][<<Apply[g][<<d, e>>], h>>] = Apply[g][<<d, Apply[g][<<e, h>>]>>]

-----------------------------------------------------------------------------
(* Value::replaceAllUsesWith, for each instruction of DOMAIN s.             *)
Image(s, v) == IF v \in DOMAIN s THEN s[v] ELSE v

Replace(f, s) ==
  [f EXCEPT
     !.inc = [b \in Blocks |-> [p \in Blocks |-> Image(s, f.inc[b][p])]],
     !.op = [b \in Blocks |-> [f.op[b] EXCEPT !.x = Image(s, @), !.y = Image(s, @)]],
     !.term = [b \in Blocks |-> [f.term[b] EXCEPT !.x = Image(s, @)]]]

EraseOps(f, C) ==
  [f EXCEPT !.op = [c \in Blocks |-> IF c \in C THEN [f.op[c] EXCEPT !.code = "none", !.x = Null, !.y = Null]
                                     ELSE f.op[c]]]

(* An instruction that is replaced with itself leaves nulls behind.         *)
ReplaceOne(f, c, v) ==
  EraseOps(Replace(f, [i \in {<<"op", c>>} |-> IF v = i THEN Null ELSE v]), {c})

Pieces(f, B) == {c \in Blocks : \E b \in B : \E k \in 1 .. Len(f.body[b]) : c = f.body[b][k]}

-----------------------------------------------------------------------------
(* The value that the operation o is by an identity.                        *)
ByIdentity(identities, o) ==
  {w \in Values :
     /\ o.code = "pure" /\ Null \notin {o.x, o.y}
     /\ \E i \in identities, v \in {o.x, o.y} :
          /\ i.fun = o.fun
          /\ o.x = Instance(i.x, v) /\ o.y = Instance(i.y, v) /\ w = Instance(i.is, v)}

(* tryConstantFold.                                                         *)
ByFolding(o) ==
  {w \in Values :
     \E d, e \in Data : /\ o.code = "pure" /\ o.x = Const(d) /\ o.y = Const(e)
                        /\ Apply[o.fun][<<d, e>>] # Undef
                        /\ w = Const(Apply[o.fun][<<d, e>>])}

ByCopy(c, o) == IF o.code = "copy" THEN {o.x} \ {<<"op", c>>, Null} ELSE {}

(* getValueKey: operations of one key.                                      *)
SameKey(o, q) ==
  /\ o.code = "pure" /\ q.code = "pure" /\ o.fun = q.fun
  /\ \/ o.x = q.x /\ o.y = q.y
     \/ o.fun \in Commuting /\ o.x = q.y /\ o.y = q.x

(* An earlier instruction of the key of o, in a block that dominates b: the
   table of a block is that of its parent in the tree and what follows.  Keys
   are made when an instruction is entered: table keeps it as it was then.  *)
Originals(f, table, b, o) ==
  {<<"op", e[1]>> : e \in {t \in table : t[1] \in Pieces(f, DomSetOf(Succ(f), b)) /\ SameKey(t[2], o)}}

(* processBlockGlobalGVN: what instruction c of block b is replaced with.   *)
Redundant(f, table, b, c) ==
  LET o == f.op[c]
  IN  IF ByCopy(c, o) # {} THEN ByCopy(c, o)
      ELSE IF ByFolding(o) # {} THEN ByFolding(o)
      ELSE IF ByIdentity(NumberingIdentities, o) # {} THEN ByIdentity(NumberingIdentities, o)
      ELSE Originals(f, table, b, o)

(* The block below which b hangs in the dominator tree.                     *)
Parents(f, b) ==
  LET dom(d) == DomSetOf(Succ(f), d)
  IN  {d \in dom(b) \ {b} : dom(b) \ {b} \subseteq dom(d)}

-----------------------------------------------------------------------------
(* (x + C1) + C2: the operation with the constants joined.                  *)
Reassociated(f, o) ==
  {[o EXCEPT !.x = f.op[t[1]].x, !.y = Const(Apply[o.fun][<<t[2], t[3]>>])] :
     t \in {u \in Blocks \X Data \X Data :
             /\ o.code = "pure" /\ o.fun \in Associating
             /\ o.x = <<"op", u[1]>> /\ o.y = Const(u[3])
             /\ f.op[u[1]].code = "pure" /\ f.op[u[1]].fun = o.fun /\ f.op[u[1]].y = Const(u[2])}}

(* InstCombinePass::performTransformation, instruction c.                   *)
Combine(f, c) ==
  LET o == f.op[c]
      same == ByIdentity(CombineIdentities, o)
      joined == Reassociated(f, o)
  IN  IF same # {} THEN {ReplaceOne(f, c, v) : v \in same}
      ELSE IF joined = {} THEN {f}
      ELSE {IF q.y # Const(Zero) THEN [f EXCEPT !.op[c] = q]
            ELSE IF q.x = Null THEN f ELSE ReplaceOne(f, c, q.x) : q \in joined}
=============================================================================
