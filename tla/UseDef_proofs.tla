---------------------------- MODULE UseDef_proofs ----------------------------
(***************************************************************************)
(* Proofs about the use-def graph of UseDef, for any set of instructions,  *)
(* blocks, constants and Use objects.                                      *)
(*                                                                         *)
(* UseListExact and NoDanglingOperand are not inductive by themselves.     *)
(* Three facts strengthen them: the lists of destroyed values are empty    *)
(* too (Linked), a Use object that does not exist reads nothing            *)
(* (FreeIsNull), and an operand vector holds distinct Use objects owned by *)
(* its instruction (Owned), which is what makes erasing one entry of a phi *)
(* leave the others alone.  While a pass calls removeInstructions block by *)
(* block, what it has destroyed was in none of the blocks it has still to  *)
(* call (StaleElsewhere).                                                  *)
(***************************************************************************)
EXTENDS UseDef, SequenceTheorems, TLAPS

Linked     == \A v \in Values : \A u \in Uses :
                use_list[v][u] = IF val[u] = v THEN 1 ELSE 0
FreeIsNull == \A u \in Uses : user[u] = None => val[u] = None
ReadsLive  == \A u \in Uses : val[u] \in live \cup {None}
UserLive   == \A u \in Uses : user[u] \in (live \cap Instrs) \cup {None}
Owned      == \A i \in Instrs :
                /\ \A k \in 1 .. Len(operands[i]) : user[operands[i][k]] = i
                /\ \A j, k \in 1 .. Len(operands[i]) :
                     operands[i][j] = operands[i][k] => j = k

StaleElsewhere == \A i \in sweep.list \ live : parent[i] \notin sweep.todo

IInv == TypeOK /\ Linked /\ FreeIsNull /\ ReadsLive /\ UserLive /\ Owned /\ StaleElsewhere

(* Between sweeps no list names anything.                                   *)
LEMMA IdleStale ==
  ASSUME Idle, sweep' = sweep
  PROVE  StaleElsewhere'
  BY DEF Idle, NoSweep, StaleElsewhere

(* Use::set keeps the two directions together: redirecting any set of uses
   updates the operands and every use list consistently.                    *)
LEMMA SetAllLinks ==
  ASSUME TypeOK, Linked,
         NEW S \in SUBSET Uses, NEW new \in [Uses -> Pointer], SetAll(S, new)
  PROVE  /\ Linked'
         /\ val' \in [Uses -> Pointer]
         /\ use_list' \in [Values -> [Uses -> Nat]]
         /\ \A u \in Uses : val'[u] = IF u \in S THEN new[u] ELSE val[u]
  <1>1. val' = [u \in Uses |-> IF u \in S THEN new[u] ELSE val[u]]
    BY DEF SetAll, AfterSet
  <1>2. val' \in [Uses -> Pointer]
    BY <1>1 DEF TypeOK
  <1>3. ASSUME NEW v \in Values, NEW u \in Uses
        PROVE  /\ use_list'[v][u] = IF val'[u] = v THEN 1 ELSE 0
               /\ use_list'[v][u] \in Nat
    <2>1. use_list'[v][u] =
            IF u \notin S \/ val[u] = new[u] THEN use_list[v][u]
            ELSE IF v = new[u] THEN use_list[v][u] + 1
            ELSE IF v = val[u] THEN 0 ELSE use_list[v][u]
      BY DEF SetAll, ListsAfterSet
    <2>2. use_list[v][u] = IF val[u] = v THEN 1 ELSE 0
      BY DEF Linked
    <2> QED BY <2>1, <2>2, <1>1
  <1>4. use_list' \in [Values -> [Uses -> Nat]]
    BY <1>3 DEF SetAll, ListsAfterSet
  <1> QED BY <1>1, <1>2, <1>3, <1>4 DEF Linked

(* The whole destruction of a set of instructions and blocks.               *)
LEMMA DestroyKeeps ==
  ASSUME IInv, NEW D \in SUBSET (live \cap (Instrs \cup Blocks)),
         NEW detached \in SUBSET Instrs, Destroy(D, detached),
         parent' \in [Instrs -> Blocks \cup {None}],
         sweep' \in [list : SUBSET Instrs, todo : SUBSET Blocks], StaleElsewhere'
  PROVE  IInv'
  <1> DEFINE S == OwnedBy(D \cup detached) \cup UNION {UsersOf(v) : v \in D}
  <1>1. S \in SUBSET Uses /\ ToNull \in [Uses -> Pointer] /\ SetAll(S, ToNull)
    BY DEF Destroy, OwnedBy, UsersOf, ToNull, Pointer
  <1> HIDE DEF S
  <1>2. /\ Linked' /\ val' \in [Uses -> Pointer]
        /\ use_list' \in [Values -> [Uses -> Nat]]
        /\ \A u \in Uses : val'[u] = IF u \in S THEN None ELSE val[u]
    <2>1. /\ Linked' /\ val' \in [Uses -> Pointer]
          /\ use_list' \in [Values -> [Uses -> Nat]]
          /\ \A u \in Uses : val'[u] = IF u \in S THEN ToNull[u] ELSE val[u]
      BY <1>1, SetAllLinks DEF IInv
    <2> QED BY <2>1 DEF ToNull
  <1>3. \A u \in Uses : user[u] \in D => u \in S
    BY DEF S, OwnedBy
  <1>4. \A u \in Uses : val[u] \in D => u \in S
    <2> SUFFICES ASSUME NEW u \in Uses, val[u] \in D PROVE u \in S
      OBVIOUS
    <2>1. val[u] \in Values
      BY DEF IInv, TypeOK, Values
    <2>2. use_list[val[u]][u] > 0
      BY <2>1 DEF IInv, Linked
    <2> QED BY <2>2 DEF S, UsersOf
  <1>5. TypeOK'
    BY <1>2 DEF IInv, TypeOK, Destroy
  <1>6. FreeIsNull'
    BY <1>2, <1>3 DEF IInv, FreeIsNull, Destroy
  <1>7. ReadsLive'
    BY <1>2, <1>4 DEF IInv, ReadsLive, Destroy
  <1>8. UserLive'
    BY <1>2 DEF IInv, UserLive, Destroy
  <1>9. Owned'
    <2> SUFFICES ASSUME NEW i \in Instrs
                 PROVE  /\ \A k \in 1 .. Len(operands'[i]) : user'[operands'[i][k]] = i
                        /\ \A j, k \in 1 .. Len(operands'[i]) :
                             operands'[i][j] = operands'[i][k] => j = k
      BY DEF Owned
    <2>1. CASE i \in D
      <3>1. operands'[i] = <<>>
        BY <2>1 DEF Destroy
      <3> QED BY <3>1
    <2>2. CASE i \notin D
      <3>1. operands'[i] = operands[i] /\ operands[i] \in Seq(Uses)
        BY <2>2 DEF Destroy, IInv, TypeOK
      <3>2. ASSUME NEW k \in 1 .. Len(operands[i])
            PROVE  user'[operands[i][k]] = i
        <4>1. operands[i][k] \in Uses /\ user[operands[i][k]] = i
          BY <3>1 DEF IInv, Owned
        <4> QED BY <4>1, <2>2 DEF Destroy
      <3> QED BY <3>1, <3>2 DEF IInv, Owned
    <2> QED BY <2>1, <2>2
  <1> QED BY <1>2, <1>5, <1>6, <1>7, <1>8, <1>9 DEF IInv

(* Redirecting existing uses to live values or to null.                     *)
LEMMA RedirectKeeps ==
  ASSUME IInv, NEW S \in SUBSET Uses, NEW new \in [Uses -> Pointer], SetAll(S, new),
         \A u \in S : user[u] # None /\ new[u] \in live \cup {None},
         Idle, UNCHANGED <<live, parent, sweep, operands, user>>
  PROVE  IInv'
  <1>1. /\ Linked' /\ val' \in [Uses -> Pointer]
        /\ use_list' \in [Values -> [Uses -> Nat]]
        /\ \A u \in Uses : val'[u] = IF u \in S THEN new[u] ELSE val[u]
    BY SetAllLinks DEF IInv
  <1>2. TypeOK'
    BY <1>1 DEF IInv, TypeOK
  <1>3. FreeIsNull' /\ ReadsLive'
    BY <1>1 DEF IInv, FreeIsNull, ReadsLive
  <1>4. UserLive' /\ Owned'
    BY DEF IInv, UserLive, Owned
  <1>5. StaleElsewhere'
    BY IdleStale
  <1> QED BY <1>1, <1>2, <1>3, <1>4, <1>5 DEF IInv

(* The Use objects an operand vector holds exist.                           *)
LEMMA OperandExists ==
  ASSUME IInv, NEW i \in Instrs, NEW k \in 1 .. Len(operands[i])
  PROVE  operands[i][k] \in Uses /\ user[operands[i][k]] = i /\ user[operands[i][k]] # None
  <1>1. operands[i] \in Seq(Uses)
    BY DEF IInv, TypeOK
  <1>2. operands[i][k] \in Uses /\ user[operands[i][k]] = i
    BY <1>1 DEF IInv, Owned
  <1> QED BY <1>2, ValueAssumption DEF Values

LEMMA SetOperandKeeps ==
  ASSUME IInv, NEW i \in Instrs, NEW k \in 1 .. MaxOperands, NEW v \in Values,
         SetOperand(i, k, v)
  PROVE  IInv'
  <1>1. /\ k \in 1 .. Len(operands[i]) /\ v \in live
        /\ SetAll({operands[i][k]}, [u \in Uses |-> v])
        /\ Idle /\ UNCHANGED <<live, parent, sweep, operands, user>>
    BY DEF SetOperand
  <1>2. operands[i][k] \in Uses /\ user[operands[i][k]] # None
    BY <1>1, OperandExists
  <1> DEFINE S == {operands[i][k]}
             new == [u \in Uses |-> v]
  <1>3. new \in [Uses -> Pointer] /\ S \in SUBSET Uses
    BY <1>2 DEF Pointer
  <1>4. \A u \in S : user[u] # None /\ new[u] \in live \cup {None}
    BY <1>1, <1>2
  <1>5. SetAll(S, new)
    BY <1>1
  <1> HIDE DEF S, new
  <1> QED BY <1>1, <1>3, <1>4, <1>5, RedirectKeeps

LEMMA ReplaceAllUsesWithKeeps ==
  ASSUME IInv, NEW v \in Values, NEW w \in Pointer, ReplaceAllUsesWith(v, w)
  PROVE  IInv'
  <1> DEFINE S == UsersOf(v)
             new == [u \in Uses |-> w]
  <1>1. /\ w \in live \cup {None} /\ SetAll(S, new)
        /\ Idle /\ UNCHANGED <<live, parent, sweep, operands, user>>
    BY DEF ReplaceAllUsesWith
  <1>2. new \in [Uses -> Pointer] /\ S \in SUBSET Uses
    BY DEF UsersOf
  <1>3. ASSUME NEW u \in S PROVE user[u] # None /\ new[u] \in live \cup {None}
    <2>1. u \in Uses /\ use_list[v][u] > 0
      BY <1>3 DEF UsersOf
    <2>2. val[u] = v
      BY <2>1 DEF IInv, Linked
    <2>3. v # None
      BY ValueAssumption
    <2> QED BY <2>1, <2>2, <2>3, <1>1 DEF IInv, FreeIsNull
  <1> HIDE DEF S, new
  <1> QED BY <1>1, <1>2, <1>3, RedirectKeeps

LEMMA BeginSweepKeeps ==
  ASSUME IInv, NEW R \in SUBSET Instrs, NEW B \in SUBSET Blocks, BeginSweep(R, B)
  PROVE  IInv'
  <1>1. /\ UNCHANGED <<live, parent, operands, user, val, use_list>>
        /\ sweep' = [list |-> R, todo |-> B] /\ R \subseteq live
    BY DEF BeginSweep
  <1>2. TypeOK' /\ StaleElsewhere'
    BY <1>1 DEF IInv, TypeOK, StaleElsewhere
  <1> QED BY <1>1, <1>2 DEF IInv, Linked, FreeIsNull, ReadsLive, UserLive, Owned

(* What a call of a sweep takes for its own is alive: what the calls before
   it destroyed was in blocks that are done.                                *)
LEMMA OwnAreLive ==
  ASSUME IInv, NEW b \in sweep.todo, NEW overwritten
  PROVE  /\ b \in Blocks
         /\ ReadAsOwn(b, overwritten) \in SUBSET (live \cap Instrs)
  BY DEF IInv, TypeOK, StaleElsewhere, ReadAsOwn

(* What a call leaves behind, in freed memory, names its own block, which is
   done.                                                                    *)
LEMMA AfterCallKeeps ==
  ASSUME IInv, NEW b \in sweep.todo, NEW own,
         \A i \in own : parent[i] = b, live' = live \ own, AfterCall(b)
  PROVE  /\ parent' \in [Instrs -> Blocks \cup {None}]
         /\ sweep' \in [list : SUBSET Instrs, todo : SUBSET Blocks]
         /\ StaleElsewhere'
  <1>1. CASE LastBlock(b)
    <2>1. sweep' = NoSweep /\ parent' = [i \in Instrs |-> IF i \in live' THEN parent[i] ELSE None]
      BY <1>1 DEF AfterCall, ForgetDead
    <2>2. parent' \in [Instrs -> Blocks \cup {None}]
      BY <2>1 DEF IInv, TypeOK
    <2> QED BY <2>1, <2>2 DEF NoSweep, StaleElsewhere
  <1>2. CASE ~LastBlock(b)
    <2>1. sweep' = [sweep EXCEPT !.todo = @ \ {b}] /\ parent' = parent
      BY <1>2 DEF AfterCall
    <2>2. sweep \in [list : SUBSET Instrs, todo : SUBSET Blocks]
      BY DEF IInv, TypeOK
    <2>3. /\ sweep' \in [list : SUBSET Instrs, todo : SUBSET Blocks]
          /\ sweep'.list = sweep.list /\ sweep'.todo = sweep.todo \ {b}
      BY <2>1, <2>2
    <2>4. StaleElsewhere'
      BY <2>1, <2>3 DEF IInv, StaleElsewhere
    <2> QED BY <2>1, <2>3, <2>4 DEF IInv, TypeOK
  <1> QED BY <1>1, <1>2

LEMMA RemoveInstructionsKeeps ==
  ASSUME IInv, NEW b \in Blocks, RemoveInstructions(b)
  PROVE  IInv'
  <1>1. PICK overwritten \in SUBSET (sweep.list \ live) :
          Destroy(ReadAsOwn(b, overwritten), ReadAsOwn(b, overwritten))
    BY DEF RemoveInstructions
  <1> DEFINE own == ReadAsOwn(b, overwritten)
  <1>2. b \in sweep.todo /\ AfterCall(b)
    BY DEF RemoveInstructions
  <1>3. own \in SUBSET (live \cap Instrs)
    BY <1>2, OwnAreLive
  <1>4. \A i \in own : parent[i] = b
    BY DEF ReadAsOwn
  <1>5. Destroy(own, own) /\ live' = live \ own
    BY <1>1 DEF Destroy
  <1> HIDE DEF own
  <1>6. /\ parent' \in [Instrs -> Blocks \cup {None}]
        /\ sweep' \in [list : SUBSET Instrs, todo : SUBSET Blocks]
        /\ StaleElsewhere'
    BY <1>2, <1>4, <1>5, AfterCallKeeps
  <1>7. own \in SUBSET (live \cap (Instrs \cup Blocks)) /\ own \in SUBSET Instrs
    BY <1>3
  <1> QED BY <1>5, <1>6, <1>7, DestroyKeeps

LEMMA EraseBlockKeeps ==
  ASSUME IInv, NEW b \in Blocks, EraseBlock(b)
  PROVE  IInv'
  <1> DEFINE D == {b} \cup {i \in live \cap Instrs : parent[i] = b}
  <1>1. D \in SUBSET (live \cap (Instrs \cup Blocks)) /\ {} \in SUBSET Instrs
    BY DEF EraseBlock
  <1>2. Destroy(D, {}) /\ ForgetDead /\ Idle /\ sweep' = sweep
    BY DEF EraseBlock
  <1>3. /\ parent' \in [Instrs -> Blocks \cup {None}]
        /\ sweep' \in [list : SUBSET Instrs, todo : SUBSET Blocks]
    BY <1>2 DEF ForgetDead, IInv, TypeOK
  <1>4. StaleElsewhere'
    BY <1>2, IdleStale
  <1> HIDE DEF D
  <1> QED BY <1>1, <1>2, <1>3, <1>4, DestroyKeeps

LEMMA MoveInstructionKeeps ==
  ASSUME IInv, NEW i \in Instrs, NEW b \in Blocks, MoveInstruction(i, b)
  PROVE  IInv'
  <1>1. UNCHANGED <<live, sweep, operands, user, val, use_list>> /\ Idle
        /\ parent' \in [Instrs -> Blocks \cup {None}]
    BY DEF MoveInstruction, IInv, TypeOK
  <1>2. TypeOK'
    BY <1>1 DEF IInv, TypeOK
  <1>3. StaleElsewhere'
    BY <1>1, IdleStale
  <1> QED BY <1>1, <1>2, <1>3 DEF IInv, Linked, FreeIsNull, ReadsLive, UserLive, Owned

(* The i-th instruction gets fresh Use objects for its operands.            *)
LEMMA CreateInstructionKeeps ==
  ASSUME IInv, NEW i \in Instrs, NEW b \in Blocks, NEW n \in 0 .. MaxArgs,
         CreateInstruction(i, b, n)
  PROVE  IInv'
  <1> PICK us \in [1 .. n -> Free], args \in [1 .. n -> live] :
         /\ \A j, k \in 1 .. n : us[j] = us[k] => j = k
         /\ operands' = [operands EXCEPT ![i] = us]
         /\ user' = [u \in Uses |-> IF u \in RangeOf(us) THEN i ELSE user[u]]
         /\ SetAll(RangeOf(us),
                   [u \in Uses |-> IF u \in RangeOf(us)
                                   THEN args[CHOOSE k \in 1 .. n : us[k] = u] ELSE None])
    BY DEF CreateInstruction
  <1> DEFINE S == RangeOf(us)
             new == [u \in Uses |-> IF u \in S
                                    THEN args[CHOOSE k \in 1 .. n : us[k] = u] ELSE None]
  <1>1. /\ i \notin live /\ live' = live \cup {i}
        /\ parent' = [parent EXCEPT ![i] = b] /\ Idle /\ sweep' = sweep
    BY DEF CreateInstruction
  <1>2. n \in Nat /\ us \in Seq(Uses) /\ Len(us) = n
    <2>1. n \in Nat
      BY ValueAssumption
    <2>2. us \in [1 .. n -> Uses]
      BY DEF Free
    <2> QED BY <2>1, <2>2
  <1>3. S = {us[k] : k \in 1 .. n} /\ S \in SUBSET Free /\ S \in SUBSET Uses
    BY <1>2 DEF RangeOf, Free
  <1>4. \A u \in S : new[u] \in live
    <2> SUFFICES ASSUME NEW u \in S PROVE new[u] \in live
      OBVIOUS
    <2>1. PICK k \in 1 .. n : us[k] = u
      BY <1>3
    <2>2. (CHOOSE m \in 1 .. n : us[m] = u) \in 1 .. n
      BY <2>1
    <2> QED BY <2>2, <1>3
  <1>5. new \in [Uses -> Pointer]
    <2>1. live \subseteq Pointer
      BY DEF IInv, TypeOK, Pointer
    <2> QED BY <1>4, <2>1 DEF Pointer
  <1>6. SetAll(S, new)
    OBVIOUS
  <1>7. \A u \in Uses : user'[u] = IF u \in S THEN i ELSE user[u]
    BY <1>3
  <1> HIDE DEF S, new
  <1>8. /\ Linked' /\ val' \in [Uses -> Pointer]
        /\ use_list' \in [Values -> [Uses -> Nat]]
        /\ \A u \in Uses : val'[u] = IF u \in S THEN new[u] ELSE val[u]
    BY <1>3, <1>5, <1>6, SetAllLinks DEF IInv
  <1>9. TypeOK'
    <2>1. live' \subseteq Values
      BY <1>1 DEF IInv, TypeOK, Values
    <2>2. parent' \in [Instrs -> Blocks \cup {None}]
      BY <1>1 DEF IInv, TypeOK
    <2>3. operands' \in [Instrs -> Seq(Uses)]
      BY <1>2 DEF IInv, TypeOK
    <2>4. user' \in [Uses -> Instrs \cup {None}]
      BY DEF IInv, TypeOK
    <2>5. sweep' \in [list : SUBSET Instrs, todo : SUBSET Blocks]
      BY <1>1 DEF IInv, TypeOK
    <2> QED BY <2>1, <2>2, <2>3, <2>4, <2>5, <1>8 DEF TypeOK
  <1>10. FreeIsNull' /\ ReadsLive' /\ UserLive'
    <2>1. i # None
      BY ValueAssumption DEF Values
    <2> QED BY <1>1, <1>4, <1>7, <1>8, <2>1 DEF IInv, FreeIsNull, ReadsLive, UserLive
  <1>11. Owned'
    <2> SUFFICES ASSUME NEW m \in Instrs
                 PROVE  /\ \A k \in 1 .. Len(operands'[m]) : user'[operands'[m][k]] = m
                        /\ \A j, k \in 1 .. Len(operands'[m]) :
                             operands'[m][j] = operands'[m][k] => j = k
      BY DEF Owned
    <2>1. CASE m = i
      <3>1. operands'[m] = us
        BY <2>1 DEF IInv, TypeOK
      <3>2. \A k \in 1 .. n : us[k] \in S /\ us[k] \in Uses
        BY <1>3
      <3> QED BY <2>1, <3>1, <3>2, <1>2, <1>7
    <2>2. CASE m # i
      <3>1. operands'[m] = operands[m]
        BY <2>2 DEF IInv, TypeOK
      <3>2. \A k \in 1 .. Len(operands[m]) :
              /\ operands[m][k] \in Uses /\ user[operands[m][k]] = m
              /\ user[operands[m][k]] # None
        BY OperandExists
      <3>3. \A k \in 1 .. Len(operands[m]) : operands[m][k] \notin S
        BY <3>2, <1>3 DEF Free
      <3> QED BY <3>1, <3>2, <3>3, <1>7 DEF IInv, Owned
    <2> QED BY <2>1, <2>2
  <1>12. StaleElsewhere'
    BY <1>1, IdleStale
  <1> QED BY <1>8, <1>9, <1>10, <1>11, <1>12 DEF IInv

LEMMA SetIncomingKeeps ==
  ASSUME IInv, NEW p \in Phis, NEW b \in Blocks, NEW v \in Pointer,
         SetIncomingValueForBlock(p, b, v)
  PROVE  IInv'
  <1>1. /\ p \in live /\ p \in Instrs /\ b \in live /\ b \in Values
        /\ v \in live \cup {None} /\ operands[p] \in Seq(Uses)
    BY ValueAssumption DEF SetIncomingValueForBlock, Values, IInv, TypeOK
  <1>2. CASE SetIncomingFound(p, b, v)
    <2> PICK k \in 1 .. Len(operands[p]) - 1 :
          SetAll({operands[p][k + 1]}, [u \in Uses |-> v])
      BY <1>2 DEF SetIncomingFound
    <2> DEFINE S == {operands[p][k + 1]}
               new == [u \in Uses |-> v]
    <2>1. k + 1 \in 1 .. Len(operands[p])
      BY <1>1
    <2>2. operands[p][k + 1] \in Uses /\ user[operands[p][k + 1]] # None
      BY <1>1, <2>1, OperandExists
    <2>3. new \in [Uses -> Pointer] /\ S \in SUBSET Uses
      BY <2>2
    <2>4. \A u \in S : user[u] # None /\ new[u] \in live \cup {None}
      BY <1>1, <2>2
    <2>5. SetAll(S, new)
      OBVIOUS
    <2>6. Idle /\ UNCHANGED <<live, parent, sweep, operands, user>>
      BY <1>2 DEF SetIncomingFound, SetIncomingValueForBlock
    <2> HIDE DEF S, new
    <2> QED BY <2>3, <2>4, <2>5, <2>6, RedirectKeeps
  <1>3. CASE SetIncomingNew(p, b, v)
    <2> PICK u1 \in Free, u2 \in Free :
          /\ u1 # u2
          /\ operands' = [operands EXCEPT ![p] = @ \o <<u1, u2>>]
          /\ user' = [user EXCEPT ![u1] = p, ![u2] = p]
          /\ SetAll({u1, u2},
                    [u \in Uses |-> IF u = u1 THEN b ELSE IF u = u2 THEN v ELSE None])
      BY <1>3 DEF SetIncomingNew
    <2> DEFINE S == {u1, u2}
               new == [u \in Uses |-> IF u = u1 THEN b ELSE IF u = u2 THEN v ELSE None]
    <2>1. u1 \in Uses /\ u2 \in Uses /\ user[u1] = None /\ user[u2] = None
      BY DEF Free
    <2>2. new \in [Uses -> Pointer] /\ S \in SUBSET Uses /\ SetAll(S, new)
      BY <1>1, <2>1 DEF Pointer
    <2>3. \A u \in S : new[u] \in live \cup {None}
      BY <1>1, <2>1
    <2>4. \A u \in Uses : user'[u] = IF u \in S THEN p ELSE user[u]
      BY <2>1 DEF IInv, TypeOK
    <2>5. Idle /\ UNCHANGED <<live, parent, sweep>>
      BY <1>3 DEF SetIncomingNew, SetIncomingValueForBlock
    <2>6. operands'[p] = operands[p] \o <<u1, u2>>
      BY <1>1 DEF IInv, TypeOK
    <2>7. /\ Linked' /\ val' \in [Uses -> Pointer]
          /\ use_list' \in [Values -> [Uses -> Nat]]
          /\ \A u \in Uses : val'[u] = IF u \in S THEN new[u] ELSE val[u]
      <3> HIDE DEF S, new
      <3> QED BY <2>2, SetAllLinks DEF IInv
    <2>8. TypeOK'
      <3>1. operands' \in [Instrs -> Seq(Uses)]
        BY <1>1, <2>1 DEF IInv, TypeOK
      <3>2. user' \in [Uses -> Instrs \cup {None}]
        BY <1>1, <2>1 DEF IInv, TypeOK
      <3> QED BY <3>1, <3>2, <2>5, <2>7 DEF IInv, TypeOK
    <2>9. FreeIsNull' /\ ReadsLive' /\ UserLive'
      <3>1. p # None
        BY <1>1, ValueAssumption DEF Values
      <3> HIDE DEF S, new
      <3>2. FreeIsNull'
        BY <2>4, <2>7, <3>1 DEF IInv, FreeIsNull
      <3>3. ReadsLive'
        BY <2>3, <2>5, <2>7 DEF IInv, ReadsLive
      <3>4. UserLive'
        <4>1. live' = live /\ p \in live \cap Instrs
          BY <1>1, <2>5
        <4>2. \A u \in Uses : user[u] \in (live \cap Instrs) \cup {None}
          BY DEF IInv, UserLive
        <4>3. \A u \in Uses : user'[u] \in (live' \cap Instrs) \cup {None}
          BY <2>4, <4>1, <4>2
        <4> QED BY <4>3 DEF UserLive
      <3> QED BY <3>2, <3>3, <3>4
    <2>10. Owned'
      <3> SUFFICES ASSUME NEW m \in Instrs
                   PROVE  /\ \A k \in 1 .. Len(operands'[m]) : user'[operands'[m][k]] = m
                          /\ \A j, k \in 1 .. Len(operands'[m]) :
                               operands'[m][j] = operands'[m][k] => j = k
        BY DEF Owned
      <3>1. \A k \in 1 .. Len(operands[m]) :
              /\ operands[m][k] \in Uses /\ user[operands[m][k]] = m
              /\ operands[m][k] \notin S
        BY OperandExists, <2>1
      <3>2. CASE m = p
        <4>1. /\ Len(operands'[m]) = Len(operands[m]) + 2
              /\ \A k \in 1 .. Len(operands'[m]) :
                   operands'[m][k] = IF k <= Len(operands[m]) THEN operands[m][k]
                                     ELSE IF k = Len(operands[m]) + 1 THEN u1 ELSE u2
          BY <1>1, <2>1, <2>6, <3>2
        <4>2. Len(operands[m]) \in Nat
          BY <1>1, <3>2
        <4> HIDE DEF S, new
        <4>3. \A j, k \in 1 .. Len(operands[m]) : operands[m][j] = operands[m][k] => j = k
          BY DEF IInv, Owned
        <4>4. u1 \in S /\ u2 \in S
          BY DEF S
        <4>5. \A k \in 1 .. Len(operands'[m]) : user'[operands'[m][k]] = m
          <5> SUFFICES ASSUME NEW k \in 1 .. Len(operands'[m]) PROVE user'[operands'[m][k]] = m
            OBVIOUS
          <5>1. CASE k <= Len(operands[m])
            <6>1. k \in 1 .. Len(operands[m]) /\ operands'[m][k] = operands[m][k]
              BY <4>1, <4>2, <5>1
            <6> QED BY <2>4, <3>1, <6>1
          <5>2. CASE ~(k <= Len(operands[m]))
            <6>1. operands'[m][k] \in S /\ operands'[m][k] \in Uses
              BY <2>1, <4>1, <4>4, <5>2
            <6> QED BY <2>4, <3>2, <6>1
          <5> QED BY <5>1, <5>2
        <4>6. \A j, k \in 1 .. Len(operands'[m]) : operands'[m][j] = operands'[m][k] => j = k
          BY <3>1, <4>1, <4>2, <4>3, <4>4
        <4> QED BY <4>5, <4>6
      <3>3. CASE m # p
        <4>1. operands'[m] = operands[m]
          BY <3>3 DEF IInv, TypeOK
        <4> HIDE DEF S, new
        <4>2. \A k \in 1 .. Len(operands[m]) : user'[operands[m][k]] = m
          BY <2>4, <3>1
        <4>3. \A j, k \in 1 .. Len(operands[m]) : operands[m][j] = operands[m][k] => j = k
          BY DEF IInv, Owned
        <4> QED BY <4>1, <4>2, <4>3
      <3> QED BY <3>2, <3>3
    <2>11. StaleElsewhere'
      BY <2>5, IdleStale
    <2> QED BY <2>7, <2>8, <2>9, <2>10, <2>11 DEF IInv
  <1> QED BY <1>2, <1>3 DEF SetIncomingValueForBlock

(* Erasing the k-th and the next element keeps the others, each once.       *)
LEMMA WithoutPairElements ==
  ASSUME NEW T, NEW s \in Seq(T), NEW k \in 1 .. Len(s) - 1
  PROVE  /\ WithoutPair(s, k) \in Seq(T)
         /\ Len(WithoutPair(s, k)) = Len(s) - 2
         /\ \A n \in 1 .. Len(s) - 2 :
              WithoutPair(s, k)[n] = IF n < k THEN s[n] ELSE s[n + 2]
  <1> DEFINE front == SubSeq(s, 1, k - 1)
             back  == SubSeq(s, k + 2, Len(s))
  <1>1. Len(s) \in Nat /\ k \in Nat /\ k >= 1 /\ k + 1 <= Len(s)
    OBVIOUS
  <1>2. /\ front \in Seq(T) /\ Len(front) = k - 1
        /\ \A n \in 1 .. k - 1 : front[n] = s[n]
    BY <1>1
  <1>3. /\ back \in Seq(T) /\ Len(back) = Len(s) - k - 1
        /\ \A n \in 1 .. Len(s) - k - 1 : back[n] = s[n + k + 1]
    BY <1>1
  <1>4. WithoutPair(s, k) = front \o back
    BY DEF WithoutPair
  <1> HIDE DEF front, back
  <1>5. Len(front \o back) = Len(s) - 2 /\ front \o back \in Seq(T)
    <2>1. front \o back \in Seq(T) /\ Len(front \o back) = Len(front) + Len(back)
      BY <1>2, <1>3, ConcatProperties
    <2>2. Len(front) + Len(back) = Len(s) - 2
      BY <1>1, <1>2, <1>3
    <2> QED BY <2>1, <2>2
  <1>6. ASSUME NEW n \in 1 .. Len(s) - 2
        PROVE  (front \o back)[n] = IF n < k THEN s[n] ELSE s[n + 2]
    <2>1. CASE n < k
      BY <1>1, <1>2, <1>3, <2>1
    <2>2. CASE ~(n < k)
      <3>1. n - (k - 1) \in 1 .. Len(s) - k - 1
        BY <1>1, <2>2
      <3>2. (front \o back)[n] = back[n - (k - 1)]
        BY <1>1, <1>2, <1>3, <2>2
      <3>3. back[n - (k - 1)] = s[n - (k - 1) + k + 1]
        BY <1>3, <3>1
      <3>4. n - (k - 1) + k + 1 = n + 2
        BY <1>1
      <3> QED BY <2>2, <3>2, <3>3, <3>4
    <2> QED BY <2>1, <2>2
  <1> QED BY <1>4, <1>5, <1>6

LEMMA RemoveIncomingKeeps ==
  ASSUME IInv, NEW p \in Phis, NEW b \in Blocks, RemoveIncomingValue(p, b)
  PROVE  IInv'
  <1>1. p \in live /\ p \in Instrs /\ operands[p] \in Seq(Uses) /\ p # None
    BY ValueAssumption DEF RemoveIncomingValue, Values, IInv, TypeOK
  <1> PICK k \in 1 .. Len(operands[p]) - 1 :
        /\ operands' = [operands EXCEPT ![p] = WithoutPair(@, k)]
        /\ user' = [u \in Uses |->
                      IF u \in {operands[p][k], operands[p][k + 1]} THEN None ELSE user[u]]
        /\ SetAll({operands[p][k], operands[p][k + 1]}, ToNull)
    BY DEF RemoveIncomingValue
  <1> DEFINE gone == {operands[p][k], operands[p][k + 1]}
  <1>2. k \in 1 .. Len(operands[p]) /\ k + 1 \in 1 .. Len(operands[p])
    BY <1>1
  <1>3. gone \in SUBSET Uses /\ \A u \in gone : user[u] = p
    BY <1>2, <1>1, OperandExists
  <1>4. SetAll(gone, ToNull) /\ ToNull \in [Uses -> Pointer]
    BY DEF ToNull, Pointer
  <1>5. Idle /\ UNCHANGED <<live, parent, sweep>>
    BY DEF RemoveIncomingValue
  <1>6. \A u \in Uses : user'[u] = IF u \in gone THEN None ELSE user[u]
    OBVIOUS
  <1>7. /\ Linked' /\ val' \in [Uses -> Pointer]
        /\ use_list' \in [Values -> [Uses -> Nat]]
        /\ \A u \in Uses : val'[u] = IF u \in gone THEN None ELSE val[u]
    <2> HIDE DEF gone
    <2>1. /\ Linked' /\ val' \in [Uses -> Pointer]
          /\ use_list' \in [Values -> [Uses -> Nat]]
          /\ \A u \in Uses : val'[u] = IF u \in gone THEN ToNull[u] ELSE val[u]
      BY <1>3, <1>4, SetAllLinks DEF IInv
    <2> QED BY <2>1 DEF ToNull
  <1>8. TypeOK'
    <2>1. operands' \in [Instrs -> Seq(Uses)]
      BY <1>1, WithoutPairElements DEF IInv, TypeOK
    <2>2. user' \in [Uses -> Instrs \cup {None}]
      BY DEF IInv, TypeOK
    <2> QED BY <2>1, <2>2, <1>5, <1>7 DEF IInv, TypeOK
  <1>9. FreeIsNull' /\ ReadsLive' /\ UserLive'
    <2> HIDE DEF gone
    <2>1. FreeIsNull'
      BY <1>6, <1>7 DEF IInv, FreeIsNull
    <2>2. ReadsLive'
      BY <1>5, <1>7 DEF IInv, ReadsLive
    <2>3. UserLive'
      BY <1>5, <1>6 DEF IInv, UserLive
    <2> QED BY <2>1, <2>2, <2>3
  <1>10. Owned'
    <2> SUFFICES ASSUME NEW m \in Instrs
                 PROVE  /\ \A n \in 1 .. Len(operands'[m]) : user'[operands'[m][n]] = m
                        /\ \A j, n \in 1 .. Len(operands'[m]) :
                             operands'[m][j] = operands'[m][n] => j = n
      BY DEF Owned
    <2>1. /\ \A n \in 1 .. Len(operands[m]) :
               operands[m][n] \in Uses /\ user[operands[m][n]] = m
          /\ \A j, n \in 1 .. Len(operands[m]) : operands[m][j] = operands[m][n] => j = n
      BY OperandExists DEF IInv, Owned
    <2>2. CASE m = p
      <3> DEFINE old(n) == IF n < k THEN n ELSE n + 2
      <3>1. operands'[m] = WithoutPair(operands[m], k)
        BY <2>2, <1>1 DEF IInv, TypeOK
      <3>2. /\ Len(operands'[m]) = Len(operands[m]) - 2
            /\ \A n \in 1 .. Len(operands[m]) - 2 : operands'[m][n] = operands[m][old(n)]
        <4>1. /\ Len(WithoutPair(operands[m], k)) = Len(operands[m]) - 2
              /\ \A n \in 1 .. Len(operands[m]) - 2 :
                   WithoutPair(operands[m], k)[n] =
                     IF n < k THEN operands[m][n] ELSE operands[m][n + 2]
          BY <2>2, <1>1, WithoutPairElements
        <4> QED BY <3>1, <4>1
      <3>3. \A n \in 1 .. Len(operands[m]) - 2 :
              old(n) \in 1 .. Len(operands[m]) /\ old(n) # k /\ old(n) # k + 1
        BY <1>1, <2>2
      <3>4. \A j, n \in 1 .. Len(operands[m]) - 2 : old(j) = old(n) => j = n
        BY <1>1, <2>2
      <3> HIDE DEF old
      <3>5. \A n \in 1 .. Len(operands[m]) - 2 : operands[m][old(n)] \notin gone
        BY <2>1, <2>2, <1>2, <3>3
      <3>6. \A n \in 1 .. Len(operands'[m]) : user'[operands'[m][n]] = m
        <4> HIDE DEF gone
        <4> QED BY <1>6, <2>1, <3>2, <3>3, <3>5
      <3>7. \A j, n \in 1 .. Len(operands'[m]) : operands'[m][j] = operands'[m][n] => j = n
        BY <2>1, <3>2, <3>3, <3>4
      <3> QED BY <3>6, <3>7
    <2>3. CASE m # p
      <3>1. operands'[m] = operands[m]
        BY <2>3 DEF IInv, TypeOK
      <3>2. \A n \in 1 .. Len(operands[m]) : operands[m][n] \notin gone
        BY <1>3, <2>1, <2>3
      <3> HIDE DEF gone
      <3> QED BY <1>6, <2>1, <3>1, <3>2
    <2> QED BY <2>2, <2>3
  <1>11. StaleElsewhere'
    BY <1>5, IdleStale
  <1> QED BY <1>7, <1>8, <1>9, <1>10, <1>11 DEF IInv

-----------------------------------------------------------------------------
LEMMA InitIInv == Init => IInv
  <1> SUFFICES ASSUME Init PROVE IInv
    OBVIOUS
  <1>1. TypeOK
    BY DEF Init, TypeOK, Values, Pointer, NoSweep
  <1>2. Linked
    BY ValueAssumption DEF Init, Linked
  <1>3. FreeIsNull /\ ReadsLive /\ UserLive /\ Owned /\ StaleElsewhere
    BY DEF Init, FreeIsNull, ReadsLive, UserLive, Owned, NoSweep, StaleElsewhere
  <1> QED BY <1>1, <1>2, <1>3 DEF IInv

LEMMA NextIInv == IInv /\ [Next]_vars => IInv'
  <1> SUFFICES ASSUME IInv, [Next]_vars PROVE IInv'
    OBVIOUS
  <1>1. CASE \E i \in Instrs, b \in Blocks, n \in 0 .. MaxArgs : CreateInstruction(i, b, n)
    BY <1>1, CreateInstructionKeeps
  <1>2. CASE \E i \in Instrs, k \in 1 .. MaxOperands, v \in Values : SetOperand(i, k, v)
    BY <1>2, SetOperandKeeps
  <1>3. CASE \E v \in Values, w \in Pointer : ReplaceAllUsesWith(v, w)
    BY <1>3, ReplaceAllUsesWithKeeps
  <1>4. CASE \E b \in Blocks : RemoveInstructions(b)
    BY <1>4, RemoveInstructionsKeeps
  <1>5. CASE \E b \in Blocks : EraseBlock(b)
    BY <1>5, EraseBlockKeeps
  <1>6. CASE \E i \in Instrs, b \in Blocks : MoveInstruction(i, b)
    BY <1>6, MoveInstructionKeeps
  <1>7. CASE \E p \in Phis, b \in Blocks, v \in Pointer : SetIncomingValueForBlock(p, b, v)
    BY <1>7, SetIncomingKeeps
  <1>8. CASE \E p \in Phis, b \in Blocks : RemoveIncomingValue(p, b)
    BY <1>8, RemoveIncomingKeeps
  <1>9. CASE UNCHANGED vars
    BY <1>9 DEF vars, IInv, TypeOK, Linked, FreeIsNull, ReadsLive, UserLive, Owned, StaleElsewhere
  <1>10. CASE \E R \in SUBSET Instrs, B \in SUBSET Blocks : BeginSweep(R, B)
    BY <1>10, BeginSweepKeeps
  <1> QED BY <1>1, <1>2, <1>3, <1>4, <1>5, <1>6, <1>7, <1>8, <1>9, <1>10 DEF Next

LEMMA AlwaysIInv == Spec => []IInv
  <1> QED BY InitIInv, NextIInv, PTL DEF Spec

(* Type correctness of the graph, for any number of values and uses.        *)
THEOREM TypeCorrect == Spec => []TypeOK
  <1>1. IInv => TypeOK
    BY DEF IInv
  <1> QED BY AlwaysIInv, <1>1, PTL

(* The use list of every live value is exact: whatever passes replace, move,
   detach and destroy, in whatever order, replaceAllUsesWith reaches every
   reader, use_empty never lies, and no list keeps a destroyed Use.          *)
THEOREM UseListsAreExact == Spec => []UseListExact
  <1>1. IInv => UseListExact
    <2> SUFFICES ASSUME IInv, NEW v \in live, NEW u \in Uses
                 PROVE  use_list[v][u] = IF user[u] # None /\ val[u] = v THEN 1 ELSE 0
      BY DEF UseListExact
    <2>1. v \in Values /\ v # None
      BY ValueAssumption DEF IInv, TypeOK
    <2> QED BY <2>1 DEF IInv, Linked, FreeIsNull
  <1> QED BY AlwaysIInv, <1>1, PTL

(* No operand of a live instruction points to a destroyed value.             *)
THEOREM OperandsNeverDangle == Spec => []NoDanglingOperand
  <1>1. IInv => NoDanglingOperand
    BY DEF IInv, ReadsLive, UserLive, NoDanglingOperand
  <1> QED BY AlwaysIInv, <1>1, PTL
-----------------------------------------------------------------------------
(* What the k-th operand of a phi may read.                                 *)
Fits(k, v) == IF k % 2 = 1 THEN v \in Blocks \cup {None} ELSE v \notin Blocks

Pairs(p) == /\ Len(operands[p]) % 2 = 0
            /\ \A k \in 1 .. Len(operands[p]) : Fits(k, val[operands[p][k]])

LEMMA PairsOf == PhiAlternates <=> \A p \in Phis : Pairs(p)
BY DEF PhiAlternates, Pairs, Fits

LEMMA NullFits == \A k : Fits(k, None)
BY ValueAssumption DEF Fits, Values

(* A phi whose operand vector stays as it was.                              *)
LEMMA VectorKept ==
  ASSUME NEW p \in Phis, Pairs(p), operands'[p] = operands[p],
         \A k \in 1 .. Len(operands[p]) :
           LET u == operands[p][k] IN val'[u] = val[u] \/ Fits(k, val'[u])
  PROVE  Pairs(p)'
BY DEF Pairs, Fits

(* Uses of no operand of p are redirected.                                  *)
LEMMA OthersRedirected ==
  ASSUME IInv, NEW p \in Phis, Pairs(p), operands'[p] = operands[p],
         NEW S \in SUBSET Uses, NEW new \in [Uses -> Pointer], SetAll(S, new),
         \A u \in S : user[u] # p
  PROVE  Pairs(p)'
<1>1. \A u \in Uses : val'[u] = IF u \in S THEN new[u] ELSE val[u]
  BY SetAllLinks DEF IInv
<1>2. p \in Instrs
  BY ValueAssumption
<1>3. \A k \in 1 .. Len(operands[p]) : operands[p][k] \in Uses /\ operands[p][k] \notin S
  BY <1>2, OperandExists
<1> QED BY <1>1, <1>3, VectorKept

LEMMA DestroyPairs ==
  ASSUME IInv, NEW p \in Phis, Pairs(p), NEW D, NEW detached, Destroy(D, detached)
  PROVE  Pairs(p)'
<1> DEFINE S == OwnedBy(D \cup detached) \cup UNION {UsersOf(v) : v \in D}
<1>1. S \in SUBSET Uses /\ ToNull \in [Uses -> Pointer] /\ SetAll(S, ToNull)
  BY DEF Destroy, OwnedBy, UsersOf, ToNull, Pointer
<1> HIDE DEF S
<1>2. \A u \in Uses : val'[u] = IF u \in S THEN ToNull[u] ELSE val[u]
  BY <1>1, SetAllLinks DEF IInv
<1>3. \A u \in Uses : val'[u] \in {None, val[u]}
  BY <1>2 DEF ToNull
<1>4. p \in Instrs
  BY ValueAssumption
<1>5. CASE p \in D
  <2>1. operands'[p] = <<>>
    BY <1>4, <1>5 DEF Destroy
  <2> QED BY <2>1 DEF Pairs
<1>6. CASE p \notin D
  <2>1. operands'[p] = operands[p]
    BY <1>4, <1>6 DEF Destroy
  <2>2. \A k \in 1 .. Len(operands[p]) : operands[p][k] \in Uses
    BY <1>4, OperandExists
  <2> QED BY <1>3, <2>1, <2>2, NullFits, VectorKept
<1> QED BY <1>5, <1>6

LEMMA CreatePairs ==
  ASSUME IInv, NEW p \in Phis, Pairs(p),
         NEW i \in Instrs, NEW b \in Blocks, NEW n \in 0 .. MaxArgs, CreateInstruction(i, b, n)
  PROVE  Pairs(p)'
<1>0. p \in Instrs /\ p # None
  BY ValueAssumption DEF Values
<1>1. PICK us \in [1 .. n -> Free], args \in [1 .. n -> live] :
        /\ operands' = [operands EXCEPT ![i] = us]
        /\ SetAll(RangeOf(us),
                  [u \in Uses |-> IF u \in RangeOf(us)
                                  THEN args[CHOOSE k \in 1 .. n : us[k] = u] ELSE None])
  BY DEF CreateInstruction
<1>2. n \in Nat
  BY ValueAssumption
<1>3. us \in Seq(Uses) /\ Len(us) = n
  BY <1>2 DEF Free
<1>4. CASE p = i
  <2>1. n = 0
    BY <1>4 DEF CreateInstruction
  <2>2. operands'[p] = us
    BY <1>0, <1>1, <1>4 DEF IInv, TypeOK
  <2> QED BY <1>3, <2>1, <2>2 DEF Pairs
<1>5. CASE p # i
  <2> DEFINE S == RangeOf(us)
             new == [u \in Uses |-> IF u \in S THEN args[CHOOSE k \in 1 .. n : us[k] = u] ELSE None]
  <2>1. S \in SUBSET Uses /\ \A u \in S : user[u] = None
    BY <1>3 DEF RangeOf, Free
  <2>2. \A u \in S : \E k \in 1 .. n : us[k] = u
    BY <1>3 DEF RangeOf
  <2>3. \A u \in S : args[CHOOSE k \in 1 .. n : us[k] = u] \in live
    BY <2>2
  <2>4. new \in [Uses -> Pointer]
    BY <2>3 DEF IInv, TypeOK, Pointer
  <2>5. SetAll(S, new)
    BY <1>1
  <2>6. operands'[p] = operands[p]
    BY <1>0, <1>1, <1>5 DEF IInv, TypeOK
  <2> HIDE DEF S, new
  <2> QED BY <1>0, <2>1, <2>4, <2>5, <2>6, OthersRedirected
<1> QED BY <1>4, <1>5

(* A redirected operand reads what its place in the pair allows.            *)
LEMMA SetOnePairs ==
  ASSUME IInv, NEW p \in Phis, Pairs(p), NEW i \in Instrs,
         NEW k \in 1 .. Len(operands[i]), NEW v \in Pointer,
         SetAll({operands[i][k]}, [u \in Uses |-> v]), operands' = operands,
         i = p => Fits(k, v)
  PROVE  Pairs(p)'
<1> DEFINE S == {operands[i][k]}
           new == [u \in Uses |-> v]
<1>1. S \in SUBSET Uses /\ new \in [Uses -> Pointer] /\ SetAll(S, new)
  BY OperandExists
<1>2. \A u \in S : user[u] = i
  BY OperandExists
<1>3. CASE i # p
  <2> HIDE DEF S, new
  <2> QED BY <1>1, <1>2, <1>3, OthersRedirected
<1>4. CASE i = p
  <2>1. \A u \in Uses : val'[u] = IF u \in S THEN new[u] ELSE val[u]
    <3> HIDE DEF S, new
    <3> QED BY <1>1, SetAllLinks DEF IInv
  <2>2. \A m \in 1 .. Len(operands[p]) : operands[p][m] \in Uses /\ (operands[p][m] \in S => m = k)
    BY <1>4, OperandExists DEF IInv, Owned
  <2>3. \A m \in 1 .. Len(operands[p]) :
          LET u == operands[p][m] IN val'[u] = val[u] \/ Fits(m, val'[u])
    BY <1>4, <2>1, <2>2
  <2> QED BY <2>3, VectorKept
<1> QED BY <1>3, <1>4

LEMMA SetOperandPairs ==
  ASSUME IInv, NEW p \in Phis, Pairs(p),
         NEW i \in Instrs, NEW k \in 1 .. MaxOperands, NEW v \in Values, SetOperand(i, k, v)
  PROVE  Pairs(p)'
<1>1. k \in 1 .. Len(operands[i]) /\ v \in Pointer
  BY DEF SetOperand, Pointer
<1>2. SetAll({operands[i][k]}, [u \in Uses |-> v]) /\ operands' = operands
  BY DEF SetOperand
<1>3. i = p => Fits(k, v)
  BY DEF SetOperand, Fits
<1> QED BY <1>1, <1>2, <1>3, SetOnePairs

LEMMA ReplacePairs ==
  ASSUME IInv, NEW p \in Phis, Pairs(p), NEW v \in Values, NEW w \in Pointer,
         ReplaceAllUsesWith(v, w)
  PROVE  Pairs(p)'
<1> DEFINE S == UsersOf(v)
           new == [u \in Uses |-> w]
<1>1. S \in SUBSET Uses /\ new \in [Uses -> Pointer] /\ SetAll(S, new)
  BY DEF ReplaceAllUsesWith, UsersOf
<1>2. \A u \in S : val[u] = v
  BY DEF UsersOf, IInv, Linked
<1> HIDE DEF S
<1>3. \A u \in Uses : val'[u] = IF u \in S THEN w ELSE val[u]
  <2>1. \A u \in Uses : val'[u] = IF u \in S THEN new[u] ELSE val[u]
    <3> HIDE DEF new
    <3> QED BY <1>1, SetAllLinks DEF IInv
  <2> QED BY <2>1
<1>4. operands' = operands /\ p \in Instrs /\ v # None
  BY ValueAssumption DEF ReplaceAllUsesWith
<1>5. \A k \in 1 .. Len(operands[p]) :
        operands[p][k] \in Uses /\ Fits(k, val[operands[p][k]])
  BY <1>4, OperandExists DEF Pairs
<1>6. \A k : Fits(k, v) => Fits(k, w)
  BY <1>4 DEF ReplaceAllUsesWith, Fits
<1>7. \A k \in 1 .. Len(operands[p]) :
        LET u == operands[p][k] IN val'[u] = val[u] \/ Fits(k, val'[u])
  BY <1>2, <1>3, <1>5, <1>6
<1> QED BY <1>4, <1>7, VectorKept

LEMMA SetIncomingPairs ==
  ASSUME IInv, NEW p \in Phis, Pairs(p),
         NEW q \in Phis, NEW b \in Blocks, NEW v \in Pointer, SetIncomingValueForBlock(q, b, v)
  PROVE  Pairs(p)'
<1>1. p \in Instrs /\ q \in Instrs /\ operands[q] \in Seq(Uses) /\ v \notin Blocks
  BY ValueAssumption DEF SetIncomingValueForBlock, Values, IInv, TypeOK
<1>2. CASE SetIncomingFound(q, b, v)
  <2>1. PICK k \in 1 .. Len(operands[q]) - 1 :
          k % 2 = 1 /\ SetAll({operands[q][k + 1]}, [u \in Uses |-> v])
    BY <1>2 DEF SetIncomingFound, IsFirstMatch, Matching
  <2>2. k + 1 \in 1 .. Len(operands[q]) /\ Fits(k + 1, v)
    BY <1>1, <2>1 DEF Fits
  <2>3. operands' = operands
    BY <1>2 DEF SetIncomingFound
  <2> QED BY <1>1, <2>1, <2>2, <2>3, SetOnePairs
<1>3. CASE SetIncomingNew(q, b, v)
  <2>1. PICK u1 \in Free, u2 \in Free :
          /\ u1 # u2
          /\ operands' = [operands EXCEPT ![q] = @ \o <<u1, u2>>]
          /\ SetAll({u1, u2},
                    [u \in Uses |-> IF u = u1 THEN b ELSE IF u = u2 THEN v ELSE None])
    BY <1>3 DEF SetIncomingNew
  <2> DEFINE S == {u1, u2}
             new == [u \in Uses |-> IF u = u1 THEN b ELSE IF u = u2 THEN v ELSE None]
  <2>2. u1 \in Uses /\ u2 \in Uses /\ \A u \in S : user[u] = None
    BY DEF Free
  <2>3. S \in SUBSET Uses /\ new \in [Uses -> Pointer] /\ SetAll(S, new)
    BY <2>1, <2>2 DEF Pointer, Values
  <2>4. \A u \in Uses : val'[u] = IF u \in S THEN new[u] ELSE val[u]
    <3> HIDE DEF S, new
    <3> QED BY <2>3, SetAllLinks DEF IInv
  <2>5. CASE p # q
    <3>1. operands'[p] = operands[p]
      BY <1>1, <2>1, <2>5 DEF IInv, TypeOK
    <3>2. \A u \in S : user[u] # p
      BY <1>1, <2>2, ValueAssumption DEF Values
    <3> HIDE DEF S, new
    <3> QED BY <2>3, <3>1, <3>2, OthersRedirected
  <2>6. CASE p = q
    <3> DEFINE n == Len(operands[p])
    <3>1. operands'[p] = operands[p] \o <<u1, u2>> /\ operands[p] \in Seq(Uses) /\ n \in Nat
      BY <1>1, <2>1, <2>6 DEF IInv, TypeOK
    <3>2. /\ Len(operands'[p]) = n + 2 /\ operands'[p][n + 1] = u1 /\ operands'[p][n + 2] = u2
          /\ \A k \in 1 .. n : operands'[p][k] = operands[p][k]
      BY <2>2, <3>1
    <3>3. \A k \in 1 .. n : operands[p][k] \in Uses \ S
      BY <1>1, <2>2, OperandExists
    <3>4. val'[u1] = b /\ val'[u2] = v
      BY <2>1, <2>2, <2>4
    <3>5. n % 2 = 0 /\ \A k \in 1 .. n : Fits(k, val[operands[p][k]])
      BY DEF Pairs
    <3> HIDE DEF S, new, n
    <3>6. (n + 2) % 2 = 0 /\ (n + 1) % 2 = 1
      <4>0. n \in Nat /\ n % 2 = 0
        BY <3>1, <3>5
      <4>1. (n + 2) % 2 = 0
        BY <4>0, SMTT(30)
      <4>2. (n + 1) % 2 = 1
        BY <4>0, SMTT(30)
      <4> QED BY <4>1, <4>2
    <3>7. Fits(n + 1, b) /\ Fits(n + 2, v)
      BY <1>1, <3>6 DEF Fits
    <3>8. \A k \in 1 .. n : Fits(k, val'[operands'[p][k]])
      BY <2>4, <3>2, <3>3, <3>5
    <3>9. \A k \in 1 .. n + 2 : k \in 1 .. n \/ k = n + 1 \/ k = n + 2
      BY <3>1
    <3>10. \A k \in 1 .. n + 2 : Fits(k, val'[operands'[p][k]])
      BY <3>2, <3>4, <3>7, <3>8, <3>9
    <3> QED BY <3>2, <3>6, <3>10 DEF Pairs
  <2> QED BY <2>5, <2>6
<1> QED BY <1>2, <1>3 DEF SetIncomingValueForBlock

LEMMA RemoveIncomingPairs ==
  ASSUME IInv, NEW p \in Phis, Pairs(p),
         NEW q \in Phis, NEW b \in Blocks, RemoveIncomingValue(q, b)
  PROVE  Pairs(p)'
<1>1. p \in Instrs /\ q \in Instrs /\ operands[q] \in Seq(Uses)
  BY ValueAssumption DEF IInv, TypeOK
<1>2. PICK k \in 1 .. Len(operands[q]) - 1 :
        /\ k % 2 = 1
        /\ operands' = [operands EXCEPT ![q] = WithoutPair(@, k)]
        /\ SetAll({operands[q][k], operands[q][k + 1]}, ToNull)
  BY DEF RemoveIncomingValue, IsFirstMatch, Matching
<1> DEFINE gone == {operands[q][k], operands[q][k + 1]}
<1>3. k \in 1 .. Len(operands[q]) /\ k + 1 \in 1 .. Len(operands[q])
  BY <1>1
<1>4. gone \in SUBSET Uses /\ \A u \in gone : user[u] = q
  BY <1>1, <1>3, OperandExists
<1>5. SetAll(gone, ToNull) /\ ToNull \in [Uses -> Pointer]
  BY <1>2 DEF ToNull, Pointer
<1> HIDE DEF gone
<1>6. CASE p # q
  <2>1. operands'[p] = operands[p]
    BY <1>1, <1>2, <1>6 DEF IInv, TypeOK
  <2> QED BY <1>4, <1>5, <1>6, <2>1, OthersRedirected
<1>7. CASE p = q
  <2> DEFINE n == Len(operands[p])
             s == operands'[p]
  <2>1. s = WithoutPair(operands[p], k) /\ n \in Nat
    BY <1>1, <1>2, <1>7 DEF IInv, TypeOK
  <2>2. /\ Len(s) = n - 2
        /\ \A m \in 1 .. n - 2 : s[m] = IF m < k THEN operands[p][m] ELSE operands[p][m + 2]
    BY <1>1, <1>2, <1>7, <2>1, WithoutPairElements
  <2>3. \A u \in Uses : val'[u] \in {val[u], None}
    <3>1. \A u \in Uses : val'[u] = IF u \in gone THEN ToNull[u] ELSE val[u]
      BY <1>4, <1>5, SetAllLinks DEF IInv
    <3> QED BY <3>1 DEF ToNull
  <2>4. n % 2 = 0 /\ \A m \in 1 .. n : Fits(m, val[operands[p][m]])
    BY DEF Pairs
  <2>5. \A m \in 1 .. n : operands[p][m] \in Uses
    BY <1>1, OperandExists
  <2>6. n >= 2 /\ k \in Nat
    BY <1>3, <1>7, <2>1, <2>4
  <2> HIDE DEF n, s
  <2>7. (n - 2) % 2 = 0
    BY <2>1, <2>4, <2>6
  <2>8. ASSUME NEW m \in 1 .. n - 2
        PROVE  Fits(m, val'[s[m]])
    <3>1. CASE m < k
      <4>1. m \in 1 .. n /\ s[m] = operands[p][m]
        BY <2>1, <2>2, <3>1
      <4> QED BY <2>3, <2>4, <2>5, <4>1, NullFits
    <3>2. CASE ~(m < k)
      <4>1. m + 2 \in 1 .. n /\ s[m] = operands[p][m + 2]
        BY <2>1, <2>2, <3>2
      <4>2. Fits(m + 2, val[s[m]]) /\ s[m] \in Uses
        BY <2>4, <2>5, <4>1
      <4>3. (m + 2) % 2 = 1 <=> m % 2 = 1
        BY <2>1
      <4>4. \A v : Fits(m + 2, v) <=> Fits(m, v)
        BY <4>3 DEF Fits
      <4> QED BY <2>3, <4>2, <4>4, NullFits
    <3> QED BY <3>1, <3>2
  <2> QED BY <2>2, <2>7, <2>8 DEF Pairs, s
<1> QED BY <1>6, <1>7

(* Whatever instructions are created, redirected and destroyed, and whatever
   entries are added and erased, the operands of a phi stay pairs of a block
   and a value.                                                             *)
THEOREM PhisStayPaired == Spec => []PhiAlternates
<1>1. Init => PhiAlternates
  <2> SUFFICES ASSUME Init, NEW p \in Phis PROVE Pairs(p)
    BY PairsOf
  <2>1. operands[p] = <<>>
    BY ValueAssumption DEF Init
  <2> QED BY <2>1 DEF Pairs
<1>2. IInv /\ PhiAlternates /\ [Next]_vars => PhiAlternates'
  <2> SUFFICES ASSUME IInv, PhiAlternates, [Next]_vars, NEW p \in Phis PROVE Pairs(p)'
    BY DEF PhiAlternates, Pairs, Fits
  <2>0. Pairs(p)
    BY PairsOf
  <2>1. CASE \E i \in Instrs, b \in Blocks, n \in 0 .. MaxArgs : CreateInstruction(i, b, n)
    BY <2>0, <2>1, CreatePairs
  <2>2. CASE \E i \in Instrs, k \in 1 .. MaxOperands, v \in Values : SetOperand(i, k, v)
    BY <2>0, <2>2, SetOperandPairs
  <2>3. CASE \E v \in Values, w \in Pointer : ReplaceAllUsesWith(v, w)
    BY <2>0, <2>3, ReplacePairs
  <2>4. CASE \E b \in Blocks : RemoveInstructions(b)
    BY <2>0, <2>4, DestroyPairs DEF RemoveInstructions
  <2>5. CASE \E b \in Blocks : EraseBlock(b)
    BY <2>0, <2>5, DestroyPairs DEF EraseBlock
  <2>6. CASE \E i \in Instrs, b \in Blocks : MoveInstruction(i, b)
    BY <2>0, <2>6 DEF MoveInstruction, Pairs
  <2>7. CASE \E q \in Phis, b \in Blocks, v \in Pointer : SetIncomingValueForBlock(q, b, v)
    BY <2>0, <2>7, SetIncomingPairs
  <2>8. CASE \E q \in Phis, b \in Blocks : RemoveIncomingValue(q, b)
    BY <2>0, <2>8, RemoveIncomingPairs
  <2>9. CASE UNCHANGED vars
    BY <2>0, <2>9 DEF vars, Pairs
  <2>10. CASE \E R \in SUBSET Instrs, B \in SUBSET Blocks : BeginSweep(R, B)
    BY <2>0, <2>10 DEF BeginSweep, Pairs
  <2> QED BY <2>1, <2>2, <2>3, <2>4, <2>5, <2>6, <2>7, <2>8, <2>9, <2>10 DEF Next
<1> QED BY <1>1, <1>2, AlwaysIInv, PTL DEF Spec
-----------------------------------------------------------------------------
(* What DestructionIsLocal says of one step: of the survivors, and of a call
   of a sweep.                                                              *)
OwnOnly == \A b \in sweep.todo \ sweep'.todo : ReadAsOwn(b, {}) \subseteq live

SurvivorsKept ==
  \A u \in Uses :
    (/\ live' # live /\ user[u] # None /\ user[u] \in live' /\ val[u] \in live')
      => user'[u] = user[u] /\ val'[u] = val[u]

(* The destructors null the operands of what dies and the readers of what
   dies.  A use of a survivor that reads a survivor is in no list of a dying
   value, because the lists are exact.                                      *)
LEMMA DestroySpares ==
  ASSUME IInv, NEW D \in SUBSET Values, Destroy(D, D \cap Instrs) \/ Destroy(D, {})
  PROVE  SurvivorsKept
  <1>1. PICK E \in SUBSET D : Destroy(D, E)
    OBVIOUS
  <1>2. SUFFICES ASSUME NEW u \in Uses, user[u] \in live', val[u] \in live'
                 PROVE  user'[u] = user[u] /\ val'[u] = val[u]
    BY DEF SurvivorsKept
  <1>3. user[u] \notin D /\ val[u] \notin D
    BY <1>1, <1>2 DEF Destroy
  <1>4. \A v \in D : u \notin UsersOf(v)
    <2>1. \A v \in D : use_list[v][u] = 0
      BY <1>3 DEF IInv, Linked
    <2> QED BY <2>1 DEF UsersOf
  <1>5. u \notin OwnedBy(D \cup E)
    BY <1>3 DEF OwnedBy
  <1>6. val'[u] = val[u]
    BY <1>1, <1>4, <1>5 DEF Destroy, SetAll, AfterSet
  <1>7. user'[u] = user[u]
    BY <1>1, <1>3 DEF Destroy
  <1> QED BY <1>6, <1>7

(* Creation touches Use objects that did not exist, and no others.          *)
LEMMA CreateSpares ==
  ASSUME NEW i \in Instrs, NEW b \in Blocks, NEW n \in 0 .. MaxArgs,
         n \in Nat, CreateInstruction(i, b, n)
  PROVE  SurvivorsKept
  <1> PICK us \in [1 .. n -> Free], args \in [1 .. n -> live] :
         /\ user' = [u \in Uses |-> IF u \in RangeOf(us) THEN i ELSE user[u]]
         /\ SetAll(RangeOf(us),
                   [u \in Uses |-> IF u \in RangeOf(us)
                                   THEN args[CHOOSE k \in 1 .. n : us[k] = u] ELSE None])
    BY DEF CreateInstruction
  <1>1. RangeOf(us) \subseteq Free
    <2>1. us \in [1 .. n -> Free] /\ Len(us) = n
      OBVIOUS
    <2> QED BY <2>1 DEF RangeOf
  <1>2. SUFFICES ASSUME NEW u \in Uses, user[u] # None
                 PROVE  user'[u] = user[u] /\ val'[u] = val[u]
    BY DEF SurvivorsKept
  <1>3. u \notin RangeOf(us)
    BY <1>1, <1>2 DEF Free
  <1>4. val'[u] = val[u]
    BY <1>3 DEF SetAll, AfterSet
  <1> QED BY <1>3, <1>4

(* Destruction is local.  Whatever a pass destroys, the instructions of a list
   that it passes to any blocks in turn or a whole block with the branches
   and phi entries that name it, every operand of a survivor that reads a
   survivor keeps its owner and its value, and no call takes an instruction
   that an earlier call has destroyed for one of its own.                   *)
THEOREM DestructionStaysLocal == Spec => DestructionIsLocal
<1>1. ASSUME IInv, [Next]_vars PROVE SurvivorsKept
  <2>0. CASE live' = live
    BY <2>0 DEF SurvivorsKept
  <2>1. CASE \E i \in Instrs, b \in Blocks, n \in 0 .. MaxArgs : CreateInstruction(i, b, n)
    BY <2>1, ValueAssumption, CreateSpares
  <2>2. CASE \E i \in Instrs, k \in 1 .. MaxOperands, v \in Values : SetOperand(i, k, v)
    BY <2>0, <2>2 DEF SetOperand
  <2>3. CASE \E v \in Values, w \in Pointer : ReplaceAllUsesWith(v, w)
    BY <2>0, <2>3 DEF ReplaceAllUsesWith
  <2>4. ASSUME NEW b \in Blocks, RemoveInstructions(b)
        PROVE  SurvivorsKept
    <3>1. PICK overwritten \in SUBSET (sweep.list \ live) :
            Destroy(ReadAsOwn(b, overwritten), ReadAsOwn(b, overwritten))
      BY <2>4 DEF RemoveInstructions
    <3> DEFINE own == ReadAsOwn(b, overwritten)
    <3>2. b \in sweep.todo
      BY <2>4 DEF RemoveInstructions
    <3>3. own \in SUBSET (live \cap Instrs)
      BY <1>1, <3>2, OwnAreLive
    <3>4. Destroy(own, own)
      BY <3>1
    <3> HIDE DEF own
    <3>5. own \in SUBSET Values /\ own \cap Instrs = own
      BY <3>3 DEF Values
    <3> QED BY <1>1, <3>4, <3>5, DestroySpares
  <2>5. ASSUME NEW b \in Blocks, EraseBlock(b) PROVE SurvivorsKept
    <3> DEFINE D == {b} \cup {i \in live \cap Instrs : parent[i] = b}
    <3>1. D \in SUBSET Values
      BY DEF Values
    <3>2. Destroy(D, {})
      BY <2>5 DEF EraseBlock
    <3> HIDE DEF D
    <3> QED BY <1>1, <3>1, <3>2, DestroySpares
  <2>6. CASE \E i \in Instrs, b \in Blocks : MoveInstruction(i, b)
    BY <2>0, <2>6 DEF MoveInstruction
  <2>7. CASE \E p \in Phis, b \in Blocks, v \in Pointer : SetIncomingValueForBlock(p, b, v)
    BY <2>0, <2>7 DEF SetIncomingValueForBlock, SetIncomingFound, SetIncomingNew
  <2>8. CASE \E p \in Phis, b \in Blocks : RemoveIncomingValue(p, b)
    BY <2>0, <2>8 DEF RemoveIncomingValue
  <2>9. CASE UNCHANGED vars
    BY <2>0, <2>9 DEF vars
  <2>10. CASE \E R \in SUBSET Instrs, B \in SUBSET Blocks : BeginSweep(R, B)
    BY <2>0, <2>10 DEF BeginSweep
  <2> QED BY <1>1, <2>1, <2>2, <2>3, <2>4, <2>5, <2>6, <2>7, <2>8, <2>9, <2>10 DEF Next
<1>2. ASSUME IInv PROVE OwnOnly
  <2> SUFFICES ASSUME NEW b \in sweep.todo PROVE ReadAsOwn(b, {}) \subseteq live
    BY DEF OwnOnly
  <2> QED BY <1>2, OwnAreLive
<1>3. IInv /\ [Next]_vars =>
        [/\ \A u \in Uses :
              (/\ live' # live /\ user[u] # None /\ user[u] \in live' /\ val[u] \in live')
                => user'[u] = user[u] /\ val'[u] = val[u]
         /\ \A b \in sweep.todo \ sweep'.todo : ReadAsOwn(b, {}) \subseteq live]_vars
  BY <1>1, <1>2 DEF SurvivorsKept, OwnOnly
<1> QED BY <1>3, AlwaysIInv, PTL DEF Spec, DestructionIsLocal
=============================================================================
