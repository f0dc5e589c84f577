---------------------------- MODULE Backend_proofs ----------------------------
(***************************************************************************)
(* Proofs about the components of the back end that do not share a         *)
(* variable: the linear scan of register allocation, the internal linker   *)
(* that emitExecutable calls, the build session that drives them, and the  *)
(* merge of modules that comes before.  Each has a part of its own below,  *)
(* with the argument in front of it.                                       *)
(***************************************************************************)
EXTENDS LinearScan, InternalLinker, BuildSession, IRLinker, FiniteSetTheorems, TLAPS

-----------------------------------------------------------------------------
(***************************************************************************)
(* Linear scan, for any number of vregs, registers and positions.          *)
(*                                                                         *)
(* NoSharedRegister is not inductive: it says nothing of the pools a       *)
(* register is taken from.  What keeps it is that a register is either     *)
(* free or held by one active interval (Held, Distinct, Conserved), and    *)
(* that an interval which is in a register and no longer active has ended  *)
(* before the last start (Past).                                           *)
(***************************************************************************)

Free == freeCaller \cup freeCallee \cup freeXmm

Held      == \A a \in active : loc[a] \in Regs \ Free
Distinct  == \A a, b \in active : loc[a] = loc[b] => a = b
Conserved == \A r \in Regs \ Free : \E a \in active : loc[a] = r
Past      == \A v \in Vregs : InReg(v) /\ v \notin active => EndOf(v) < pos

ScanInv == ScanTypeOK /\ Held /\ Distinct /\ Conserved /\ Past /\ NoSharedRegister

(* The registers that are free once the expired have returned theirs.       *)
FreeAfter(start) == CallerAfter(start) \cup CalleeAfter(start) \cup XmmAfter(start)

-----------------------------------------------------------------------------
(* A slot begins at a whole word and the frame grows by whole words.        *)
LEMMA AlignedType ==
  ASSUME NEW n \in Nat, NEW w \in Nat \ {0}
  PROVE  Aligned(n, w) \in Nat
<1>1. n % w \in 0 .. w - 1
  OBVIOUS
<1> QED
  BY <1>1 DEF Aligned

LEMMA GiveSlotType ==
  ASSUME ScanTypeOK, NEW v \in Vregs, NEW w \in Widths, GiveSlot(v, w)
  PROVE  slotAt' \in [Vregs -> Nat] /\ frame' \in Nat
<1>1. w \in Nat \ {0}
  BY RegisterAssumption
<1>2. Aligned(frame, w) \in Nat
  BY <1>1, AlignedType DEF ScanTypeOK
<1> QED
  BY <1>1, <1>2 DEF ScanTypeOK, GiveSlot

(* What the pools hold after expiry.                                        *)
LEMMA PoolTypes ==
  ASSUME ScanTypeOK, NEW start
  PROVE  /\ CallerAfter(start) \subseteq Caller
         /\ CalleeAfter(start) \subseteq Callee
         /\ XmmAfter(start) \subseteq Xmm
BY DEF ScanTypeOK, CallerAfter, CalleeAfter, XmmAfter

(* A register is only taken from the pools.                                 *)
LEMMA CandidatesAreFree ==
  ASSUME NEW iv
  PROVE  Candidates(iv) \subseteq FreeAfter(iv.start)
BY DEF Candidates, FreeAfter

(* What a visit leaves free: everything free before or returned, but what it
   takes.                                                                   *)
LEMMA FreeNext ==
  ASSUME ScanTypeOK, Held, NEW start, NEW taken \in SUBSET Regs, PoolsAfter(start, taken)
  PROVE  /\ Free' = FreeAfter(start) \ taken
         /\ FreeAfter(start) = Free \cup Returned(start)
         /\ Returned(start) \subseteq Regs
<1>1. Returned(start) \subseteq Regs
  BY DEF Held, Returned, Expired
<1>2. FreeAfter(start) = Free \cup Returned(start)
  BY <1>1 DEF FreeAfter, CallerAfter, CalleeAfter, XmmAfter, Free, Regs
<1> QED
  BY <1>1, <1>2 DEF PoolsAfter, FreeAfter, Free

(* An active interval that stays alive keeps its register out of the pools. *)
LEMMA AliveKeeps ==
  ASSUME ScanTypeOK, Held, Distinct, NEW start \in Nat, NEW a \in Alive(start)
  PROVE  /\ a \in active /\ loc[a] \in Regs
         /\ loc[a] \notin Free \cup Returned(start)
<1>1. a \in active /\ loc[a] \in Regs \ Free
  BY DEF Alive, Held
<1>2. ASSUME NEW e \in Expired(start), loc[e] = loc[a]
      PROVE  FALSE
  <2>1. e = a
    BY <1>1, <1>2 DEF Distinct, Expired
  <2>2. EndOf(a) \in Nat
    BY <1>1 DEF ScanTypeOK, Intervals, EndOf
  <2> QED
    BY <2>1, <2>2 DEF Alive, Expired
<1> QED
  BY <1>1, <1>2 DEF Returned

(* Every active interval expires or stays alive.                            *)
LEMMA ExpiredOrAlive ==
  ASSUME ScanTypeOK, NEW start \in Nat
  PROVE  active = Alive(start) \cup Expired(start)
<1>1. \A a \in active : EndOf(a) \in Nat
  BY DEF ScanTypeOK, Intervals, EndOf
<1> QED
  BY <1>1 DEF Alive, Expired

(* An interval that is in a register when another one starts and is not
   alive there has ended.                                                   *)
LEMMA Ended ==
  ASSUME ScanTypeOK, Past, NEW w \in Vregs, NEW iv \in Intervals, pos <= iv.start,
         InReg(w), w \notin Alive(iv.start)
  PROVE  EndOf(w) <= iv.start
<1>1. EndOf(w) \in Nat /\ iv.start \in Nat /\ pos \in Nat
  BY DEF ScanTypeOK, Intervals, EndOf
<1> QED
  BY <1>1 DEF Past, Alive
-----------------------------------------------------------------------------
(* Type correctness of the allocator.                                       *)
THEOREM ScanTypeCorrect == ScanSpec => []ScanTypeOK
<1>1. ScanInit => ScanTypeOK
  <2> SUFFICES ASSUME ScanInit PROVE ScanTypeOK
    OBVIOUS
  <2>1. \E iv \in Intervals : TRUE
    <3>1. PICK w \in Widths : TRUE
      BY RegisterAssumption
    <3>2. [start |-> 0, end |-> 0, weight |-> 0, vector |-> FALSE, width |-> w] \in Intervals
      BY RegisterAssumption DEF Intervals
    <3> QED
      BY <3>2
  <2>2. interval \in [Vregs -> Intervals]
    BY <2>1 DEF ScanInit
  <2> QED
    BY <2>2 DEF ScanInit, ScanTypeOK
<1>2. ScanTypeOK /\ [ScanNext]_scanVars => ScanTypeOK'
  <2> SUFFICES ASSUME ScanTypeOK, [ScanNext]_scanVars PROVE ScanTypeOK'
    OBVIOUS
  <2>1. ASSUME NEW v \in Vregs, NEW iv \in Intervals, Arrives(v, iv),
               NEW taken, PoolsAfter(iv.start, taken),
               loc' \in [Vregs -> Regs \cup {Stack, Unvisited}], active' \subseteq Vregs,
               frame' \in Nat, slotAt' \in [Vregs -> Nat]
        PROVE  ScanTypeOK'
    <3>1. interval' \in [Vregs -> Intervals] /\ pos' \in Nat
      BY <2>1, RegisterAssumption DEF Arrives, ScanTypeOK, Intervals
    <3>2. freeCaller' \subseteq Caller /\ freeCallee' \subseteq Callee /\ freeXmm' \subseteq Xmm
      BY <2>1, PoolTypes DEF PoolsAfter
    <3> QED
      BY <2>1, <3>1, <3>2 DEF ScanTypeOK
  <2>2. ASSUME NEW v \in Vregs, NEW iv \in Intervals, NEW r \in Regs, Assign(v, iv, r)
        PROVE  ScanTypeOK'
    <3>1. loc' \in [Vregs -> Regs \cup {Stack, Unvisited}] /\ active' \subseteq Vregs
      BY <2>2 DEF Assign, ScanTypeOK, Alive
    <3>2. frame' \in Nat /\ slotAt' \in [Vregs -> Nat]
      BY <2>2 DEF Assign, NoSlot, ScanTypeOK
    <3> QED
      BY <2>1, <2>2, <3>1, <3>2 DEF Assign
  <2>3. ASSUME NEW v \in Vregs, NEW iv \in Intervals, NEW a \in Vregs, SpillLightest(v, iv, a)
        PROVE  ScanTypeOK'
    <3>1. loc' \in [Vregs -> Regs \cup {Stack, Unvisited}] /\ active' \subseteq Vregs
      BY <2>3 DEF SpillLightest, ScanTypeOK, Alive
    <3>2. interval[a].width \in Widths
      BY DEF ScanTypeOK, Intervals
    <3>3. frame' \in Nat /\ slotAt' \in [Vregs -> Nat]
      BY <2>3, <3>2, GiveSlotType DEF SpillLightest
    <3> QED
      BY <2>1, <2>3, <3>1, <3>3 DEF SpillLightest
  <2>4. ASSUME NEW v \in Vregs, NEW iv \in Intervals, SpillCurrent(v, iv)
        PROVE  ScanTypeOK'
    <3>1. loc' \in [Vregs -> Regs \cup {Stack, Unvisited}] /\ active' \subseteq Vregs
      BY <2>4 DEF SpillCurrent, ScanTypeOK, Alive
    <3>2. iv.width \in Widths
      BY DEF Intervals
    <3>3. frame' \in Nat /\ slotAt' \in [Vregs -> Nat]
      BY <2>4, <3>2, GiveSlotType DEF SpillCurrent
    <3> QED
      BY <2>1, <2>4, <3>1, <3>3 DEF SpillCurrent
  <2>5. CASE UNCHANGED scanVars
    BY <2>5 DEF ScanTypeOK, scanVars, pools
  <2> QED
    BY <2>2, <2>3, <2>4, <2>5 DEF ScanNext
<1> QED
  BY <1>1, <1>2, PTL DEF ScanSpec

-----------------------------------------------------------------------------
(* A vreg that takes a free register conserves the registers.               *)
LEMMA AssignConserves ==
  ASSUME ScanTypeOK, Held, Distinct, Conserved,
         NEW v \in Vregs, NEW iv \in Intervals, NEW r \in Regs, Assign(v, iv, r)
  PROVE  Held' /\ Distinct' /\ Conserved'
<1> DEFINE start == iv.start
<1>0. start \in Nat
  BY RegisterAssumption DEF Intervals
<1>1. /\ Free' = FreeAfter(start) \ {r}
      /\ FreeAfter(start) = Free \cup Returned(start)
      /\ Returned(start) \subseteq Regs
  BY FreeNext DEF Assign
<1>2. r \in Free \cup Returned(start)
  BY <1>1, CandidatesAreFree DEF Assign
<1>3. v \notin active /\ ~Visited(v)
  BY RegisterAssumption DEF Assign, Arrives, Held, Visited
<1>4. \A a \in Alive(start) : /\ a \in active /\ a # v /\ loc'[a] = loc[a]
                              /\ loc[a] \in Regs \ (Free \cup Returned(start))
  BY <1>0, <1>3, AliveKeeps DEF Assign, ScanTypeOK
<1>5. active' = Alive(start) \cup {v} /\ loc'[v] = r
  BY DEF Assign, ScanTypeOK
<1> HIDE DEF start
<1>6. Held'
  BY <1>1, <1>2, <1>4, <1>5 DEF Held
<1>7. Distinct'
  BY <1>2, <1>4, <1>5 DEF Distinct
<1>8. ASSUME NEW q \in Regs, q \notin Free' PROVE \E a \in active' : loc'[a] = q
  <2>1. CASE q = r
    BY <2>1, <1>5
  <2>2. CASE q # r
    <3>1. q \notin Free /\ q \notin Returned(start)
      BY <2>2, <1>8, <1>1
    <3>2. PICK a \in active : loc[a] = q
      BY <3>1 DEF Conserved
    <3>3. a \notin Expired(start)
      BY <3>1, <3>2 DEF Returned
    <3>4. a \in Alive(start)
      BY <1>0, <3>2, <3>3, ExpiredOrAlive
    <3> QED
      BY <3>2, <3>4, <1>4, <1>5
  <2> QED
    BY <2>1, <2>2
<1> QED
  BY <1>6, <1>7, <1>8 DEF Conserved

(* So does one that takes over the register of another.                     *)
LEMMA EvictionConserves ==
  ASSUME ScanTypeOK, Held, Distinct, Conserved,
         NEW v \in Vregs, NEW iv \in Intervals, NEW e \in Vregs, SpillLightest(v, iv, e)
  PROVE  Held' /\ Distinct' /\ Conserved'
<1> DEFINE start == iv.start
<1>0. start \in Nat
  BY RegisterAssumption DEF Intervals
<1>1. /\ Free' = FreeAfter(start)
      /\ FreeAfter(start) = Free \cup Returned(start)
      /\ Returned(start) \subseteq Regs
  BY FreeNext DEF SpillLightest
<1>2. e \in Alive(start)
  BY DEF SpillLightest, MayEvict, Lightest
<1>3. v \notin active /\ ~Visited(v)
  BY RegisterAssumption DEF SpillLightest, Arrives, Held, Visited
<1>4. \A a \in Alive(start) : /\ a \in active /\ a # v /\ (a # e => loc'[a] = loc[a])
                              /\ loc[a] \in Regs \ (Free \cup Returned(start))
  BY <1>0, <1>3, AliveKeeps DEF SpillLightest, ScanTypeOK
<1>5. active' = (Alive(start) \ {e}) \cup {v} /\ loc'[v] = loc[e]
  BY <1>2, <1>4 DEF SpillLightest, ScanTypeOK
<1> HIDE DEF start
<1>6. Held'
  BY <1>1, <1>2, <1>4, <1>5 DEF Held
<1>7. Distinct'
  BY <1>2, <1>4, <1>5 DEF Distinct
<1>8. ASSUME NEW q \in Regs, q \notin Free' PROVE \E a \in active' : loc'[a] = q
  <2>1. CASE q = loc[e]
    BY <2>1, <1>5
  <2>2. CASE q # loc[e]
    <3>1. q \notin Free /\ q \notin Returned(start)
      BY <1>8, <1>1
    <3>2. PICK a \in active : loc[a] = q
      BY <3>1 DEF Conserved
    <3>3. a \notin Expired(start)
      BY <3>1, <3>2 DEF Returned
    <3>4. a \in Alive(start) /\ a # e
      BY <1>0, <2>2, <3>2, <3>3, ExpiredOrAlive
    <3> QED
      BY <3>2, <3>4, <1>4, <1>5
  <2> QED
    BY <2>1, <2>2
<1> QED
  BY <1>6, <1>7, <1>8 DEF Conserved

(* And one that goes to the stack.                                          *)
LEMMA SpillConserves ==
  ASSUME ScanTypeOK, Held, Distinct, Conserved,
         NEW v \in Vregs, NEW iv \in Intervals, SpillCurrent(v, iv)
  PROVE  Held' /\ Distinct' /\ Conserved'
<1> DEFINE start == iv.start
<1>0. start \in Nat
  BY RegisterAssumption DEF Intervals
<1>1. /\ Free' = FreeAfter(start)
      /\ FreeAfter(start) = Free \cup Returned(start)
      /\ Returned(start) \subseteq Regs
  BY FreeNext DEF SpillCurrent
<1>3. v \notin active
  BY RegisterAssumption DEF SpillCurrent, Arrives, Held, Visited
<1>4. \A a \in Alive(start) : /\ a \in active /\ a # v /\ loc'[a] = loc[a]
                              /\ loc[a] \in Regs \ (Free \cup Returned(start))
  BY <1>0, <1>3, AliveKeeps DEF SpillCurrent, ScanTypeOK
<1>5. active' = Alive(start)
  BY DEF SpillCurrent
<1> HIDE DEF start
<1>6. Held'
  BY <1>1, <1>4, <1>5 DEF Held
<1>7. Distinct'
  BY <1>4, <1>5 DEF Distinct
<1>8. ASSUME NEW q \in Regs, q \notin Free' PROVE \E a \in active' : loc'[a] = q
  <2>1. q \notin Free /\ q \notin Returned(start)
    BY <1>8, <1>1
  <2>2. PICK a \in active : loc[a] = q
    BY <2>1 DEF Conserved
  <2>3. a \notin Expired(start)
    BY <2>1, <2>2 DEF Returned
  <2> QED
    BY <1>0, <1>4, <1>5, <2>2, <2>3, ExpiredOrAlive
<1> QED
  BY <1>6, <1>7, <1>8 DEF Conserved
-----------------------------------------------------------------------------
(* What every visit does to the intervals and to the places of the vregs it
   does not visit: they keep the place they have, or go to the stack.       *)
Places(v, iv) ==
  /\ interval'[v] = iv /\ pos' = iv.start + 1 /\ pos <= iv.start
  /\ \A w \in Vregs \ {v} : interval'[w] = interval[w] /\ loc'[w] \in {loc[w], Stack}
  /\ \A w \in Vregs \ {v} : loc'[w] # Stack /\ w \notin active' => w \notin Alive(iv.start)

LEMMA VisitPlaces ==
  ASSUME ScanTypeOK, Held, NEW v \in Vregs, NEW iv \in Intervals,
         \/ \E r \in Regs : Assign(v, iv, r)
         \/ \E e \in Vregs : SpillLightest(v, iv, e)
         \/ SpillCurrent(v, iv)
  PROVE  Places(v, iv)
<1>1. Arrives(v, iv)
  BY DEF Assign, SpillLightest, SpillCurrent
<1>2. /\ interval'[v] = iv /\ pos' = iv.start + 1 /\ pos <= iv.start
      /\ \A w \in Vregs \ {v} : interval'[w] = interval[w]
  BY <1>1 DEF Arrives, ScanTypeOK
<1>3. ASSUME NEW r \in Regs, Assign(v, iv, r) PROVE Places(v, iv)
  BY <1>2, <1>3 DEF Places, Assign, ScanTypeOK
<1>4. ASSUME NEW e \in Vregs, SpillLightest(v, iv, e) PROVE Places(v, iv)
  <2>1. \A w \in Vregs \ {v} : loc'[w] = IF w = e THEN Stack ELSE loc[w]
    BY <1>4 DEF SpillLightest, ScanTypeOK
  <2>2. active' = (Alive(iv.start) \ {e}) \cup {v}
    BY <1>4 DEF SpillLightest
  <2> QED
    BY <2>1, <2>2, <1>2 DEF Places
<1>5. CASE SpillCurrent(v, iv)
  BY <1>2, <1>5 DEF Places, SpillCurrent, ScanTypeOK
<1> QED
  BY <1>3, <1>4, <1>5

(* An interval that leaves the active ones has ended or is on the stack.    *)
LEMMA PlacesKeepPast ==
  ASSUME ScanTypeOK, Past, NEW v \in Vregs, NEW iv \in Intervals, Places(v, iv),
         v \in active' \/ loc'[v] = Stack
  PROVE  Past'
<1> SUFFICES ASSUME NEW w \in Vregs, InReg(w)', w \notin active'
             PROVE  EndOf(w)' < pos'
  BY DEF Past
<1>1. w # v /\ loc'[w] # Stack
  BY RegisterAssumption DEF InReg
<1>2. loc'[w] = loc[w] /\ interval'[w] = interval[w] /\ w \notin Alive(iv.start)
  BY <1>1 DEF Places
<1>3. EndOf(w) <= iv.start
  BY <1>2, Ended DEF InReg, Places
<1>4. EndOf(w)' = EndOf(w) /\ EndOf(w) \in Nat /\ iv.start \in Nat
  BY <1>2, RegisterAssumption DEF EndOf, ScanTypeOK, Intervals
<1> QED
  BY <1>3, <1>4 DEF Places

(* A register that no interval alive holds can be given to the next one.    *)
LEMMA PlacesKeepApart ==
  ASSUME ScanTypeOK, Past, NoSharedRegister,
         NEW v \in Vregs, NEW iv \in Intervals, Places(v, iv),
         \A w \in Vregs \ {v} : loc'[w] = loc'[v] /\ loc'[v] \in Regs => w \notin Alive(iv.start)
  PROVE  NoSharedRegister'
<1>1. ASSUME NEW w \in Vregs, w # v, loc'[w] = loc'[v], loc'[v] \in Regs
      PROVE  EndOf(w)' <= StartOf(v)'
  <2>1. loc'[w] = loc[w] /\ interval'[w] = interval[w]
    BY <1>1, RegisterAssumption DEF Places
  <2>2. EndOf(w) <= iv.start
    BY <1>1, <2>1, Ended DEF InReg, Places
  <2> QED
    BY <2>1, <2>2 DEF Places, EndOf, StartOf
<1>2. ASSUME NEW w \in Vregs, NEW x \in Vregs, w # x, w # v, x # v,
             loc'[w] \in Regs, loc'[w] = loc'[x]
      PROVE  EndOf(w)' <= StartOf(x)' \/ EndOf(x)' <= StartOf(w)'
  <2>1. /\ loc'[w] = loc[w] /\ interval'[w] = interval[w]
        /\ loc'[x] = loc[x] /\ interval'[x] = interval[x]
    BY <1>2, RegisterAssumption DEF Places
  <2> QED
    BY <1>2, <2>1 DEF NoSharedRegister, InReg, EndOf, StartOf
<1> QED
  BY <1>1, <1>2 DEF NoSharedRegister, InReg

(* Nobody alive holds the register that a visit gives away.                 *)
LEMMA GivenIsUnheld ==
  ASSUME ScanTypeOK, Held, Distinct, NEW v \in Vregs, NEW iv \in Intervals,
         \/ \E r \in Regs : Assign(v, iv, r)
         \/ \E e \in Vregs : SpillLightest(v, iv, e)
         \/ SpillCurrent(v, iv)
  PROVE  /\ v \in active' \/ loc'[v] = Stack
         /\ \A w \in Vregs \ {v} :
              loc'[w] = loc'[v] /\ loc'[v] \in Regs => w \notin Alive(iv.start)
<1>0. iv.start \in Nat
  BY RegisterAssumption DEF Intervals
<1>1. ASSUME NEW r \in Regs, Assign(v, iv, r),
             NEW w \in Vregs \ {v}, loc'[w] = r, w \in Alive(iv.start)
      PROVE  FALSE
  <2>1. r \in Free \cup Returned(iv.start)
    BY <1>1, CandidatesAreFree, FreeNext DEF Assign
  <2>2. loc[w] = r
    BY <1>1 DEF Assign, ScanTypeOK
  <2> QED
    BY <1>0, <1>1, <2>1, <2>2, AliveKeeps
<1>2. ASSUME NEW e \in Vregs, SpillLightest(v, iv, e),
             NEW w \in Vregs \ {v}, loc'[w] = loc[e], loc[e] \in Regs, w \in Alive(iv.start)
      PROVE  FALSE
  <2>1. w # e
    BY <1>2, RegisterAssumption DEF SpillLightest, ScanTypeOK
  <2>2. loc[w] = loc[e]
    BY <1>2, <2>1 DEF SpillLightest, ScanTypeOK
  <2>3. w \in active /\ e \in active
    BY <1>2 DEF Alive, SpillLightest, MayEvict, Lightest
  <2> QED
    BY <2>1, <2>2, <2>3 DEF Distinct
<1>3. ASSUME NEW r \in Regs, Assign(v, iv, r) PROVE loc'[v] = r /\ v \in active'
  BY <1>3 DEF Assign, ScanTypeOK
<1>4. ASSUME NEW e \in Vregs, SpillLightest(v, iv, e) PROVE loc'[v] = loc[e] /\ v \in active'
  <2>1. v # e
    BY <1>4, RegisterAssumption
       DEF SpillLightest, Arrives, MayEvict, Lightest, Alive, Held, Visited
  <2> QED
    BY <1>4, <2>1 DEF SpillLightest, ScanTypeOK
<1>5. SpillCurrent(v, iv) => loc'[v] = Stack
  BY DEF SpillCurrent, ScanTypeOK
<1>6. CASE SpillCurrent(v, iv)
  BY <1>5, <1>6, RegisterAssumption
<1>7. CASE \E r \in Regs : Assign(v, iv, r)
  BY <1>1, <1>3, <1>7
<1>8. CASE \E e \in Vregs : SpillLightest(v, iv, e)
  BY <1>2, <1>4, <1>8
<1> QED
  BY <1>6, <1>7, <1>8

-----------------------------------------------------------------------------
(* The inductive invariant.                                                 *)
LEMMA ScanInductive == ScanSpec => []ScanInv
<1>1. ScanInit => Held /\ Distinct /\ Conserved /\ Past /\ NoSharedRegister
  BY RegisterAssumption
     DEF ScanInit, Held, Distinct, Conserved, Past, NoSharedRegister, InReg, Free, Regs
<1>2. ScanInv /\ [ScanNext]_scanVars => Held' /\ Distinct' /\ Conserved' /\ Past' /\ NoSharedRegister'
  <2> SUFFICES ASSUME ScanInv, [ScanNext]_scanVars
               PROVE  Held' /\ Distinct' /\ Conserved' /\ Past' /\ NoSharedRegister'
    OBVIOUS
  <2>1. ASSUME NEW v \in Vregs, NEW iv \in Intervals,
               \/ \E r \in Regs : Assign(v, iv, r)
               \/ \E e \in Vregs : SpillLightest(v, iv, e)
               \/ SpillCurrent(v, iv)
        PROVE  Held' /\ Distinct' /\ Conserved' /\ Past' /\ NoSharedRegister'
    <3>1. Held' /\ Distinct' /\ Conserved'
      BY <2>1, AssignConserves, EvictionConserves, SpillConserves DEF ScanInv
    <3>2. Places(v, iv)
      BY <2>1, VisitPlaces DEF ScanInv
    <3>3. Past' /\ NoSharedRegister'
      BY <2>1, <3>2, GivenIsUnheld, PlacesKeepPast, PlacesKeepApart DEF ScanInv
    <3> QED
      BY <3>1, <3>3
  <2>2. CASE UNCHANGED scanVars
    BY <2>2 DEF ScanInv, scanVars, pools, Held, Distinct, Conserved, Past, NoSharedRegister,
                InReg, Free, EndOf, StartOf
  <2> QED
    BY <2>1, <2>2 DEF ScanNext
<1> QED
  BY <1>1, <1>2, ScanTypeCorrect, PTL DEF ScanSpec, ScanInv

(* Two vregs that are alive at the same time are never in one register.     *)
THEOREM RegistersAreNotShared == ScanSpec => []NoSharedRegister
BY ScanInductive, PTL DEF ScanInv

(* Each register is free or belongs to one active interval.                 *)
THEOREM RegistersAreConserved == ScanSpec => []PoolsConserve
<1>1. ScanInv => PoolsConserve
  <2> SUFFICES ASSUME ScanInv, NEW r \in Regs
               PROVE  LET holders == {a \in active : loc[a] = r}
                      IN  IF r \in Free THEN holders = {} ELSE Cardinality(holders) = 1
    BY DEF PoolsConserve, Free
  <2>1. CASE r \in Free
    BY <2>1 DEF ScanInv, Held
  <2>2. CASE r \notin Free
    <3>1. PICK a \in active : loc[a] = r
      BY <2>2 DEF ScanInv, Conserved
    <3>2. {b \in active : loc[b] = r} = {a}
      BY <3>1 DEF ScanInv, Distinct
    <3> QED
      BY <2>2, <3>2, FS_Singleton
  <2> QED
    BY <2>1, <2>2
<1> QED
  BY <1>1, ScanInductive, PTL
-----------------------------------------------------------------------------
(* A value that is alive across a call is never left in a caller-saved
   general register.                                                        *)
THEOREM CallsSpareValues == ScanSpec => []NoCallerSavedAcrossCall
<1>1. ScanInit => NoCallerSavedAcrossCall
  BY RegisterAssumption DEF ScanInit, NoCallerSavedAcrossCall, Regs
<1>2. ScanInv /\ NoCallerSavedAcrossCall /\ [ScanNext]_scanVars => NoCallerSavedAcrossCall'
  <2> SUFFICES ASSUME ScanInv, NoCallerSavedAcrossCall, [ScanNext]_scanVars
               PROVE  NoCallerSavedAcrossCall'
    OBVIOUS
  <2>1. ASSUME NEW v \in Vregs, NEW iv \in Intervals, Places(v, iv),
               loc'[v] \in Caller => ~LiveAcrossCall(iv)
        PROVE  NoCallerSavedAcrossCall'
    <3>1. ASSUME NEW w \in Vregs, w # v, loc'[w] \in Caller
          PROVE  ~LiveAcrossCall(interval'[w])
      <4>1. loc'[w] = loc[w] /\ interval'[w] = interval[w]
        BY <2>1, <3>1, RegisterAssumption DEF Places, Regs
      <4> QED
        BY <3>1, <4>1 DEF NoCallerSavedAcrossCall
    <3>2. interval'[v] = iv
      BY <2>1 DEF Places
    <3>3. \A w \in Vregs : loc'[w] \in Caller => ~LiveAcrossCall(interval'[w])
      BY <2>1, <3>1, <3>2
    <3> QED
      BY <3>3 DEF NoCallerSavedAcrossCall, LiveAcrossCall
  <2>2. ASSUME NEW v \in Vregs, NEW iv \in Intervals, NEW r \in Regs, Assign(v, iv, r)
        PROVE  NoCallerSavedAcrossCall'
    <3>1. loc'[v] = r
      BY <2>2 DEF Assign, ScanInv, ScanTypeOK
    <3>2. LiveAcrossCall(iv) => r \in Callee \cup Xmm
      BY <2>2, PoolTypes DEF Assign, Candidates, ScanInv
    <3>3. r \in Caller => ~LiveAcrossCall(iv)
      BY <3>2, RegisterAssumption
    <3> QED
      BY <2>1, <2>2, <3>1, <3>3, VisitPlaces DEF ScanInv
  <2>3. ASSUME NEW v \in Vregs, NEW iv \in Intervals, NEW e \in Vregs, SpillLightest(v, iv, e)
        PROVE  NoCallerSavedAcrossCall'
    <3>1. v # e
      BY <2>3, RegisterAssumption
         DEF SpillLightest, Arrives, MayEvict, Lightest, Alive, ScanInv, Held, Visited
    <3>2. loc'[v] = loc[e]
      BY <2>3, <3>1 DEF SpillLightest, ScanInv, ScanTypeOK
    <3>3. LiveAcrossCall(iv) => loc[e] \notin Caller
      BY <2>3 DEF SpillLightest, MayEvict
    <3> QED
      BY <2>1, <2>3, <3>2, <3>3, VisitPlaces DEF ScanInv
  <2>4. ASSUME NEW v \in Vregs, NEW iv \in Intervals, SpillCurrent(v, iv)
        PROVE  NoCallerSavedAcrossCall'
    <3>1. loc'[v] = Stack
      BY <2>4 DEF SpillCurrent, ScanInv, ScanTypeOK
    <3>2. loc'[v] \notin Caller
      BY <3>1, RegisterAssumption DEF Regs
    <3> QED
      BY <2>1, <2>4, <3>2, VisitPlaces DEF ScanInv
  <2>5. CASE UNCHANGED scanVars
    BY <2>5 DEF scanVars, NoCallerSavedAcrossCall, LiveAcrossCall
  <2> QED
    BY <2>2, <2>3, <2>4, <2>5 DEF ScanNext
<1> QED
  BY <1>1, <1>2, ScanInductive, PTL DEF ScanSpec

-----------------------------------------------------------------------------
(* A step that takes a register from a vreg hands it to a heavier one that is
   alive at the same time; nothing comes back from the stack.               *)
Pays(v) ==
  /\ Spilled(v) => loc'[v] = loc[v]
  /\ InReg(v) /\ loc'[v] # loc[v] =>
       /\ loc'[v] = Stack
       /\ \E w \in Vregs : /\ ~Visited(w) /\ loc'[w] = loc[v]
                           /\ interval'[w].weight > interval[v].weight
                           /\ interval'[w].start < interval[v].end

THEOREM EvictionsPay == ScanSpec => EvictionPays
<1>1. ASSUME ScanInv, [ScanNext]_scanVars PROVE [\A v \in Vregs : Pays(v)]_scanVars
  <2>1. ASSUME NEW v \in Vregs, NEW iv \in Intervals, NEW r \in Regs, Assign(v, iv, r),
               NEW w \in Vregs
        PROVE  Pays(w)
    <3>1. w # v => loc'[w] = loc[w]
      BY <2>1, <1>1 DEF Assign, ScanInv, ScanTypeOK
    <3>2. w = v => ~Spilled(w) /\ ~InReg(w)
      BY <2>1, RegisterAssumption DEF Assign, Arrives, Visited, Spilled, InReg
    <3> QED
      BY <3>1, <3>2 DEF Pays
  <2>2. ASSUME NEW v \in Vregs, NEW iv \in Intervals, NEW e \in Vregs, SpillLightest(v, iv, e),
               NEW w \in Vregs
        PROVE  Pays(w)
    <3>1. w # v /\ w # e => loc'[w] = loc[w]
      BY <2>2, <1>1 DEF SpillLightest, ScanInv, ScanTypeOK
    <3>2. ~Visited(v) /\ ~Spilled(v) /\ ~InReg(v)
      BY <2>2, RegisterAssumption DEF SpillLightest, Arrives, Visited, Spilled, InReg
    <3>3. e \in active /\ InReg(e) /\ e # v
      BY <2>2, <1>1, <3>2 DEF SpillLightest, MayEvict, Lightest, Alive, ScanInv, Held, InReg
    <3>4. loc'[e] = Stack /\ loc'[v] = loc[e]
      BY <2>2, <1>1, <3>3 DEF SpillLightest, ScanInv, ScanTypeOK
    <3>5. interval'[v] = iv
      BY <2>2, <1>1 DEF SpillLightest, Arrives, ScanInv, ScanTypeOK
    <3>6. iv.weight > interval[e].weight /\ iv.start < interval[e].end
      <4>1. interval[e] \in Intervals
        BY <1>1 DEF ScanInv, ScanTypeOK
      <4>2. /\ iv.start \in Nat /\ iv.weight \in Nat
            /\ interval[e].weight \in Nat /\ interval[e].end \in Nat
        BY <4>1, RegisterAssumption DEF Intervals
      <4> QED
        BY <2>2, <4>2 DEF SpillLightest, MayEvict, Lightest, Alive, EndOf
    <3>7. w = e => ~Spilled(w)
      BY <3>3, RegisterAssumption DEF Spilled, InReg
    <3> QED
      BY <3>1, <3>2, <3>4, <3>5, <3>6, <3>7 DEF Pays
  <2>3. ASSUME NEW v \in Vregs, NEW iv \in Intervals, SpillCurrent(v, iv), NEW w \in Vregs
        PROVE  Pays(w)
    <3>1. w # v => loc'[w] = loc[w]
      BY <2>3, <1>1 DEF SpillCurrent, ScanInv, ScanTypeOK
    <3>2. w = v => ~Spilled(w) /\ ~InReg(w)
      BY <2>3, RegisterAssumption DEF SpillCurrent, Arrives, Visited, Spilled, InReg
    <3> QED
      BY <3>1, <3>2 DEF Pays
  <2> QED
    BY <1>1, <2>1, <2>2, <2>3 DEF ScanNext
<1> QED
  BY <1>1, ScanInductive, PTL DEF ScanSpec, EvictionPays, Pays
-----------------------------------------------------------------------------
(* A slot begins at a multiple of its size, beyond the frame.               *)
LEMMA AlignedIsAligned ==
  ASSUME NEW n \in Nat, NEW w \in Nat \ {0}
  PROVE  Aligned(n, w) \in Nat /\ Aligned(n, w) % w = 0 /\ n <= Aligned(n, w)
<1>1. n % w \in 0 .. w - 1
  OBVIOUS
<1>2. (n + (w - (n % w))) % w = 0
  OBVIOUS
<1> QED
  BY <1>1, <1>2, AlignedType DEF Aligned

(* One vreg is spilled and given a slot of its size.                        *)
LEMMA SpillOne ==
  ASSUME ScanTypeOK, SlotsDisjoint, NEW a \in Vregs, ~Spilled(a),
         interval' \in [Vregs -> Intervals],
         \A x \in Vregs : x # a /\ Spilled(x)' => Spilled(x) /\ interval'[x] = interval[x],
         GiveSlot(a, interval'[a].width)
  PROVE  SlotsDisjoint'
<1> DEFINE w == interval'[a].width
           at == Aligned(frame, w)
<1>1. w \in Nat \ {0}
  BY RegisterAssumption DEF Intervals
<1>2. frame \in Nat
  BY DEF ScanTypeOK
<1>3. at \in Nat /\ at % w = 0 /\ frame <= at
  BY <1>1, <1>2, AlignedIsAligned
<1>4. slotAt' = [slotAt EXCEPT ![a] = at] /\ frame' = at + w
  BY DEF GiveSlot
<1> HIDE DEF at
<1>5. slotAt'[a] = at
  BY <1>4 DEF ScanTypeOK
<1>6. ASSUME NEW x \in Vregs \ {a}, Spilled(x)'
      PROVE  /\ Spilled(x) /\ interval'[x] = interval[x] /\ slotAt'[x] = slotAt[x]
             /\ slotAt[x] \in Nat /\ interval[x].width \in Nat \ {0}
             /\ slotAt[x] % interval[x].width = 0 /\ slotAt[x] + interval[x].width <= frame
  <2>1. Spilled(x) /\ interval'[x] = interval[x] /\ slotAt'[x] = slotAt[x]
    BY <1>4, <1>6 DEF ScanTypeOK
  <2>2. interval[x] \in Intervals /\ slotAt[x] \in Nat
    BY DEF ScanTypeOK
  <2>3. interval[x].width \in Nat \ {0}
    BY <2>2, RegisterAssumption DEF Intervals
  <2> QED
    BY <2>1, <2>2, <2>3 DEF SlotsDisjoint
<1> HIDE DEF w
<1>7. ASSUME NEW x \in Vregs, Spilled(x)'
      PROVE  /\ slotAt'[x] % interval'[x].width = 0
             /\ slotAt'[x] + interval'[x].width <= frame'
             /\ \A y \in Vregs \ {x} : Spilled(y)' =>
                  \/ slotAt'[x] + interval'[x].width <= slotAt'[y]
                  \/ slotAt'[y] + interval'[y].width <= slotAt'[x]
  <2>1. CASE x = a
    <3>1. slotAt'[x] % interval'[x].width = 0 /\ slotAt'[x] + interval'[x].width <= frame'
      BY <1>1, <1>3, <1>4, <1>5, <2>1 DEF w
    <3>2. \A y \in Vregs \ {x} : Spilled(y)' => slotAt'[y] + interval'[y].width <= slotAt'[x]
      BY <1>2, <1>3, <1>5, <1>6, <2>1
    <3> QED
      BY <3>1, <3>2
  <2>2. CASE x # a
    <3>1. x \in Vregs \ {a}
      BY <2>2
    <3>2. slotAt'[x] % interval'[x].width = 0 /\ slotAt'[x] + interval'[x].width <= frame
      BY <1>6, <1>7, <3>1
    <3>3. slotAt'[x] + interval'[x].width <= frame' /\ slotAt'[x] + interval'[x].width <= at
      BY <1>1, <1>2, <1>3, <1>4, <1>6, <1>7, <3>1, <3>2
    <3>4. \A y \in Vregs \ {x} : Spilled(y)' /\ y # a =>
            \/ slotAt'[x] + interval'[x].width <= slotAt'[y]
            \/ slotAt'[y] + interval'[y].width <= slotAt'[x]
      BY <1>6, <1>7, <3>1 DEF SlotsDisjoint
    <3> QED
      BY <1>5, <3>2, <3>3, <3>4
  <2> QED
    BY <2>1, <2>2
<1> QED
  BY <1>7 DEF SlotsDisjoint

(* For any vregs, sizes and evictions no two spilled values share a word of
   the frame, and a slot is aligned to its size.                            *)
THEOREM SlotsAreDisjoint == ScanSpec => []SlotsDisjoint
<1>1. ScanInit => SlotsDisjoint
  BY RegisterAssumption DEF ScanInit, SlotsDisjoint, Spilled
<1>2. ScanTypeOK /\ ScanTypeOK' /\ Held /\ SlotsDisjoint /\ [ScanNext]_scanVars => SlotsDisjoint'
  <2> SUFFICES ASSUME ScanTypeOK, ScanTypeOK', Held, SlotsDisjoint, [ScanNext]_scanVars PROVE SlotsDisjoint'
    OBVIOUS
  <2>0. interval' \in [Vregs -> Intervals]
    BY DEF ScanTypeOK
  <2>a. \A v \in Vregs : ~Visited(v) => ~Spilled(v)
    BY RegisterAssumption DEF Visited, Spilled
  <2>1. ASSUME NEW v \in Vregs, NEW iv \in Intervals, NEW r \in Regs, Assign(v, iv, r)
        PROVE  SlotsDisjoint'
    <3>1. /\ ~Visited(v) /\ interval' = [interval EXCEPT ![v] = iv]
          /\ loc' = [loc EXCEPT ![v] = r] /\ slotAt' = slotAt /\ frame' = frame
      BY <2>1 DEF Assign, Arrives, NoSlot
    <3>2. \A x \in Vregs : Spilled(x)' => Spilled(x) /\ interval'[x] = interval[x]
      BY <3>1, RegisterAssumption DEF ScanTypeOK, Spilled
    <3> QED
      BY <3>1, <3>2 DEF SlotsDisjoint
  <2>2. ASSUME NEW v \in Vregs, NEW iv \in Intervals, NEW a \in Vregs, SpillLightest(v, iv, a)
        PROVE  SlotsDisjoint'
    <3>1. /\ ~Visited(v) /\ interval' = [interval EXCEPT ![v] = iv] /\ a \in Alive(iv.start)
          /\ loc' = [loc EXCEPT ![v] = loc[a], ![a] = Stack]
          /\ GiveSlot(a, interval[a].width)
      BY <2>2 DEF SpillLightest, Arrives, MayEvict, Lightest
    <3>2. loc[a] \in Regs /\ ~Spilled(a) /\ a # v
      BY <3>1, RegisterAssumption DEF Held, Alive, Spilled, Visited
    <3>3. interval'[a] = interval[a]
      BY <3>1, <3>2 DEF ScanTypeOK
    <3>4. \A x \in Vregs : x # a /\ Spilled(x)' => Spilled(x) /\ interval'[x] = interval[x]
      BY <3>1, <3>2, RegisterAssumption DEF ScanTypeOK, Spilled
    <3> QED
      BY <2>0, <3>1, <3>2, <3>3, <3>4, SpillOne
  <2>3. ASSUME NEW v \in Vregs, NEW iv \in Intervals, SpillCurrent(v, iv)
        PROVE  SlotsDisjoint'
    <3>1. /\ ~Visited(v) /\ interval' = [interval EXCEPT ![v] = iv]
          /\ loc' = [loc EXCEPT ![v] = Stack] /\ GiveSlot(v, iv.width)
      BY <2>3 DEF SpillCurrent, Arrives
    <3>2. interval'[v] = iv
      BY <3>1 DEF ScanTypeOK
    <3>3. \A x \in Vregs : x # v /\ Spilled(x)' => Spilled(x) /\ interval'[x] = interval[x]
      BY <3>1 DEF ScanTypeOK, Spilled
    <3> QED
      BY <2>0, <2>a, <3>1, <3>2, <3>3, SpillOne
  <2>4. CASE UNCHANGED scanVars
    BY <2>4 DEF scanVars, SlotsDisjoint, Spilled
  <2> QED
    BY <2>1, <2>2, <2>3, <2>4 DEF ScanNext
<1>3. ScanInv => ScanTypeOK /\ Held
  BY DEF ScanInv
<1> QED
  BY <1>1, <1>2, <1>3, ScanInductive, PTL DEF ScanSpec

-----------------------------------------------------------------------------
(***************************************************************************)
(* The internal linker, for every number of objects, archive members,      *)
(* names and sections: what is extracted, what is reported, what           *)
(* relocations are bound to, and that nothing overlaps.                    *)
(***************************************************************************)

-----------------------------------------------------------------------------
(* Type correctness.                                                        *)
LEMMA AlignUpType ==
  ASSUME NEW x \in Nat, NEW a \in Nat \ {0}
  PROVE  AlignUp(x, a) \in Nat
<1>1. x + a - 1 \in Nat
  OBVIOUS
<1>2. (x + a - 1) \div a \in Nat
  BY <1>1
<1> QED BY <1>2 DEF AlignUp

LEMMA Numbers ==
  /\ Inputs \in Nat \ {0} /\ Members \in Nat /\ Placed \in Nat \ {0}
  /\ Align \in Nat \ {0} /\ Page \in Nat \ {0} /\ StubSize \in Nat /\ ThunkSize \in Nat
BY LinkerAssumption

LEMMA Ranges ==
  /\ Objects \subseteq Nat \ {0} /\ 1 .. Inputs \subseteq Objects
  /\ 1 .. Placed \subseteq Sections /\ Text \in Sections /\ 1 \in 1 .. Placed + 1
BY Numbers DEF Objects, Sections, Text

LEMMA ObjectParts ==
  ASSUME build \in Build, NEW o \in Objects
  PROVE  /\ Refs(o) \subseteq Names /\ Undefs(o) \subseteq Names
         /\ Globals(o) \subseteq Names /\ Locals(o) \subseteq Names
         /\ \A s \in Sections : Size(o, s) \in Nat
         /\ build.patched[o] \in Sections
<1>1. /\ build.size \in [Objects -> [Sections -> Nat]]
      /\ build.patched \in [Objects -> Sections]
  BY DEF Build
<1>2. Size(o, sec) = build.size[o][sec] /\ \A s \in Sections : Size(o, s) \in Nat
  BY <1>1 DEF Size
<1> QED BY <1>1, <1>2 DEF Refs, Undefs, Globals, Locals

(* The inputs come first, and the loops stay within what they go through.   *)
Control ==
  /\ Len(linked) >= Inputs /\ \A i \in 1 .. Inputs : linked[i] = i
  /\ phase \in {"round", "visit", "check"} => sec = 1
  /\ phase \in {"check", "start"} => obj = 1
  /\ phase = "visit" => obj \in Inputs + 1 .. Inputs + Members + 1
  /\ phase \in {"place", "resolve"} => obj \in 1 .. Len(linked) + 1
  /\ phase = "place" => sec \in 1 .. Placed
  /\ phase = "relocate" => obj \in 1 .. Len(linked) /\ pending \subseteq Refs(linked[obj])

LEMMA LinkedObjects ==
  ASSUME TypeOK, NEW i \in 1 .. Len(linked)
  PROVE  linked[i] \in Objects /\ linked[i] \in Linked
BY DEF TypeOK, Linked

LEMMA InitType == Init => TypeOK /\ Control
<1> SUFFICES ASSUME Init PROVE TypeOK /\ Control
  OBVIOUS
<1>1. linked \in Seq(Objects) /\ Len(linked) = Inputs
  BY Numbers, Ranges DEF Init
<1>2. build \in Build
  BY LinkerAssumption DEF Init
<1>4. TypeOK
  BY <1>1, <1>2, Numbers, Ranges DEF Init, TypeOK
<1> QED BY <1>1, <1>4, Numbers DEF Init, Control

LEMMA ExtractionType ==
  ASSUME TypeOK, Control, StartRound \/ Extract \/ PassOver \/ EndRound
  PROVE  TypeOK' /\ Control'
<1> USE DEF extraction, layout, binding
<1>1. CASE StartRound
  <2>1. UnresolvedGlobals \subseteq Names
    BY ObjectParts DEF UnresolvedGlobals, Linked, TypeOK
  <2>2. /\ phase = "round" /\ phase' \in {"visit", "check"}
        /\ wanted' \in {wanted, UnresolvedGlobals} /\ progress' \in {progress, FALSE}
        /\ obj' \in {1, Inputs + 1} /\ (phase' = "visit" => obj' = Inputs + 1)
        /\ (phase' = "check" => obj' = 1)
    BY <1>1 DEF StartRound
  <2>3. UNCHANGED <<build, linked, extracted, sec, offset, vma, base, place, length, symbols,
                    stub, thunk, pending, bound, error>>
    BY <1>1 DEF StartRound
  <2>a. wanted' \subseteq Names /\ progress' \in BOOLEAN
    BY <2>1, <2>2 DEF TypeOK
  <2>b. obj' \in Nat \ {0}
    BY <2>2, Numbers
  <2>4. TypeOK'
    BY <2>2, <2>3, <2>a, <2>b DEF TypeOK
  <2> QED BY <2>2, <2>3, <2>4, Numbers DEF Control
<1>2. CASE Extract
  <2>1. /\ phase = "visit" /\ obj \in Objects
        /\ linked' = Append(linked, obj) /\ extracted' = extracted \cup {obj}
        /\ obj' = obj + 1 /\ progress' = TRUE
        /\ UNCHANGED <<build, phase, wanted, sec, layout, length, symbols, stub, thunk, binding, error>>
    BY <1>2 DEF Extract
  <2>2. linked' \in Seq(Objects) /\ Len(linked') = Len(linked) + 1
        /\ \A i \in 1 .. Len(linked) : linked'[i] = linked[i]
    BY <2>1 DEF TypeOK
  <2>3. TypeOK'
    BY <2>1, <2>2 DEF TypeOK
  <2>4. Len(linked) \in Nat
    BY DEF TypeOK
  <2> QED BY <2>1, <2>2, <2>3, <2>4, Numbers DEF Control, Objects
<1>3. CASE PassOver
  <2>1. TypeOK'
    BY <1>3 DEF PassOver, TypeOK
  <2> QED BY <1>3, <2>1, Numbers DEF PassOver, Control, Objects
<1>4. CASE EndRound
  <2>1. TypeOK'
    BY <1>4 DEF EndRound, TypeOK
  <2> QED BY <1>4, <2>1 DEF EndRound, Control
<1> QED BY <1>1, <1>2, <1>3, <1>4

LEMMA StopType ==
  ASSUME TypeOK, Control, NEW reason \in Errors, Stop(reason)
  PROVE  TypeOK' /\ Control'
BY DEF Stop, extraction, layout, binding, TypeOK, Control

LEMMA LayoutType ==
  ASSUME TypeOK, Control, CheckTargets \/ PlacePiece \/ EndSection
  PROVE  TypeOK' /\ Control'
<1> USE DEF extraction, layout, binding
<1>1. CASE CheckTargets
  BY <1>1, Numbers DEF CheckTargets, TypeOK, Control
<1>2. CASE PlacePiece
  <2> DEFINE o == linked[obj]
             at == AlignUp(offset, Align)
  <2>1. /\ phase = "place" /\ obj <= Len(linked) /\ obj' = obj + 1
        /\ UNCHANGED <<build, phase, extraction, sec, vma, base, length, symbols, stub, thunk,
                       binding, error>>
        /\ \/ UNCHANGED <<place, offset>>
           \/ place' = [place EXCEPT ![o][sec] = at] /\ offset' = at + Size(o, sec)
    BY <1>2 DEF PlacePiece
  <2>2. o \in Objects /\ sec \in 1 .. Placed /\ sec \in Sections /\ obj \in 1 .. Len(linked)
    BY <2>1, LinkedObjects DEF Control, Sections, TypeOK
  <2>3. at \in Nat /\ Size(o, sec) \in Nat
    BY <2>2, Numbers, AlignUpType, ObjectParts DEF TypeOK
  <2> HIDE DEF at, o
  <2>4. place' \in [Objects -> [Sections -> Nat \cup {None}]] /\ offset' \in Nat
    <3>1. /\ place \in [Objects -> [Sections -> Nat \cup {None}]] /\ offset \in Nat
          /\ at \in Nat \cup {None} /\ at + Size(o, sec) \in Nat
      BY <2>3 DEF TypeOK
    <3> QED BY <2>1, <2>2, <3>1
  <2>5. TypeOK'
    BY <2>1, <2>2, <2>4 DEF TypeOK
  <2> QED BY <2>1, <2>2, <2>5 DEF Control, TypeOK
<1>3. CASE EndSection
  <2>1. sec \in Sections /\ sec \in 1 .. Placed
    BY <1>3 DEF EndSection, Control, Sections
  <2>2. AlignUp(vma + offset, Page) \in Nat
    <3>1. vma + offset \in Nat
      BY DEF TypeOK
    <3> QED BY <3>1, Numbers, AlignUpType
  <2>3. /\ phase' \in {"resolve", "place"} /\ (phase' = "place" => sec # Placed)
        /\ sec' = sec + 1 /\ obj' = 1 /\ offset' = 0
        /\ base' \in [Sections -> Nat \cup {None}] /\ length' \in [Sections -> Nat] /\ vma' \in Nat
    BY <1>3, <2>1, <2>2 DEF EndSection, TypeOK
  <2>4. UNCHANGED <<build, linked, extracted, wanted, progress, place, symbols, stub, thunk,
                    pending, bound, error>>
    BY <1>3 DEF EndSection
  <2>5. TypeOK'
    BY <2>1, <2>3, <2>4, Numbers DEF TypeOK
  <2>6. Len(linked) \in Nat /\ Placed \in Nat /\ (phase' = "place" => sec' \in 1 .. Placed)
    BY <2>1, <2>3, Numbers DEF TypeOK
  <2>7. obj' \in 1 .. Len(linked) + 1
    BY <2>3, <2>6
  <2> QED BY <2>3, <2>4, <2>5, <2>6, <2>7 DEF Control
<1> QED BY <1>1, <1>2, <1>3

LEMMA SymbolsType ==
  ASSUME TypeOK, Control, ResolveSymbols \/ EndResolve \/ AddStart
  PROVE  TypeOK' /\ Control'
<1> USE DEF extraction, layout, binding
<1>1. CASE ResolveSymbols
  <2>1. linked[obj] \in Objects /\ obj \in 1 .. Len(linked)
    BY <1>1, LinkedObjects DEF ResolveSymbols, Control, TypeOK
  <2>2. Record(linked[obj]) \in [Names -> Entries \cup {None}]
    BY <2>1 DEF Record, Entries, TypeOK
  <2>3. TypeOK'
    BY <1>1, <2>2 DEF ResolveSymbols, TypeOK
  <2> QED BY <1>1, <2>1, <2>3 DEF ResolveSymbols, Control, TypeOK
<1>2. CASE EndResolve
  BY <1>2 DEF EndResolve, TypeOK, Control
<1>3. CASE AddStart
  <2>1. /\ phase = "start" /\ phase' = "relocate" /\ pending' = Refs(linked[1])
        /\ UNCHANGED <<build, linked, extracted, wanted, progress, obj, sec, offset, vma, base,
                       place, thunk, bound, error>>
        /\ stub' \in {stub, length[Text]}
        /\ length' \in {length, [length EXCEPT ![Text] = @ + StubSize]}
        /\ symbols' \in {symbols, [symbols EXCEPT ![Start] = [def |-> Stub, global |-> TRUE]]}
    BY <1>3 DEF AddStart
  <2>2. obj = 1 /\ 1 \in 1 .. Len(linked)
    BY <2>1, Numbers DEF Control, TypeOK
  <2>3. pending' \subseteq Names
    BY <2>1, <2>2, LinkedObjects, ObjectParts DEF TypeOK
  <2>4. stub' \in Nat \cup {None} /\ length' \in [Sections -> Nat]
    <3>1. length \in [Sections -> Nat] /\ length[Text] + StubSize \in Nat /\ stub \in Nat \cup {None}
      BY Numbers, Ranges DEF TypeOK
    <3> QED BY <2>1, <3>1, Ranges
  <2>5. symbols' \in [Names -> Entries \cup {None}]
    <3>1. [def |-> Stub, global |-> TRUE] \in Entries
      BY DEF Entries
    <3> QED BY <2>1, <3>1 DEF TypeOK
  <2>6. TypeOK'
    BY <2>1, <2>3, <2>4, <2>5 DEF TypeOK
  <2> QED BY <2>1, <2>2, <2>6 DEF Control, Refs
<1> QED BY <1>1, <1>2, <1>3

LEMMA RelocateType ==
  ASSUME TypeOK, Control, NEW n \in Names, Relocate(n)
  PROVE  TypeOK' /\ Control'
<1> USE DEF extraction, layout, binding
<1>1. CASE NoThunk(n) \/ ReportUnresolved(n) \/ RejectRelocation(n)
  BY <1>1, StopType DEF NoThunk, ReportUnresolved, RejectRelocation, Errors
<1>2. CASE Ignore(n)
  <2>1. TypeOK'
    BY <1>2 DEF Ignore, TypeOK
  <2> QED BY <1>2, <2>1 DEF Ignore, Control, Refs
<1>3. ASSUME NEW target \in Objects \cup {Stub, Thunk, Slot, Merged}, Bind(n, target), Relocating(n),
             length' \in [Sections -> Nat], thunk' \in [Names -> Nat \cup {None}]
      PROVE  TypeOK' /\ Control'
  <2>1. /\ phase = "relocate" /\ obj \in 1 .. Len(linked) /\ Here \in Objects
    BY <1>3, LinkedObjects DEF Relocating, Control, Here
  <2>2. pending' = pending \ {n} /\ bound' = [bound EXCEPT ![Here][n] = target]
    BY <1>3 DEF Bind
  <2>3. bound' \in [Objects -> [Names -> Objects \cup {None, Stub, Thunk, Slot, Merged}]]
    <3> DEFINE T == Objects \cup {None, Stub, Thunk, Slot, Merged}
    <3>1. bound \in [Objects -> [Names -> T]] /\ target \in T
      BY DEF TypeOK
    <3> HIDE DEF T
    <3>2. bound' \in [Objects -> [Names -> T]]
      BY <2>1, <2>2, <3>1
    <3> QED BY <3>2 DEF T
  <2>4. UNCHANGED <<build, phase, linked, extracted, wanted, progress, obj, sec, offset, vma,
                    base, place, symbols, stub, error>>
    BY <1>3 DEF Bind
  <2>5. TypeOK'
    BY <1>3, <2>2, <2>3, <2>4 DEF TypeOK
  <2> QED BY <2>1, <2>2, <2>4, <2>5 DEF Control, Refs
<1>4. CASE BindSymbol(n)
  <2>1. symbols[n] \in Entries /\ symbols[n].def \in Objects \cup {Stub}
    BY <1>4 DEF BindSymbol, TypeOK, Entries
  <2> QED BY <1>3, <1>4, <2>1 DEF BindSymbol, TypeOK
<1>5. CASE BindSection(n)
  BY <1>3, <1>5 DEF BindSection, TypeOK
<1>6. CASE BindSlot(n)
  BY <1>3, <1>6 DEF BindSlot, Imported, TypeOK
<1>7. CASE BindThunk(n)
  <2>1. length[Text] \in Nat /\ length[Text] + ThunkSize \in Nat
    BY Numbers, Ranges DEF TypeOK
  <2>2. length' \in [Sections -> Nat] /\ thunk' \in [Names -> Nat \cup {None}]
    BY <1>7, <2>1, Ranges DEF BindThunk, TypeOK
  <2> QED BY <1>3, <1>7, <2>2 DEF BindThunk, Imported
<1> QED BY <1>1, <1>2, <1>4, <1>5, <1>6, <1>7 DEF Relocate

LEMMA TypeStep == TypeOK /\ Control /\ [Next]_vars => TypeOK' /\ Control'
<1> SUFFICES ASSUME TypeOK, Control, [Next]_vars PROVE TypeOK' /\ Control'
  OBVIOUS
<1>1. CASE StartRound \/ Extract \/ PassOver \/ EndRound
  BY <1>1, ExtractionType
<1>2. CASE CheckTargets \/ PlacePiece \/ EndSection
  BY <1>2, LayoutType
<1>3. CASE ResolveSymbols \/ EndResolve \/ AddStart
  BY <1>3, SymbolsType
<1>4. CASE RefuseTarget \/ ReportDuplicate
  BY <1>4, StopType DEF RefuseTarget, ReportDuplicate, Errors
<1>5. CASE \E n \in Names : Relocate(n)
  BY <1>5, RelocateType
<1>6. CASE NextObject
  <2>1. /\ phase = "relocate" /\ obj < Len(linked) /\ obj' = obj + 1 /\ pending' = Refs(linked[obj + 1])
        /\ UNCHANGED <<build, phase, linked, extracted, wanted, progress, sec, offset, vma,
                       base, place, length, symbols, stub, thunk, bound, error>>
    BY <1>6 DEF NextObject, extraction, layout
  <2>2. obj + 1 \in 1 .. Len(linked) /\ obj + 1 \in Nat \ {0}
    BY <2>1 DEF Control, TypeOK
  <2>3. pending' \subseteq Names
    BY <2>1, <2>2, LinkedObjects, ObjectParts DEF TypeOK
  <2>4. TypeOK'
    BY <2>1, <2>2, <2>3 DEF TypeOK
  <2> QED BY <2>1, <2>2, <2>4 DEF Control, Refs
<1>7. CASE Finish
  BY <1>7 DEF Finish, extraction, layout, binding, TypeOK, Control
<1>8. CASE UNCHANGED vars
  BY <1>8 DEF vars, extraction, layout, binding, TypeOK, Control, Refs
<1> QED BY <1>1, <1>2, <1>3, <1>4, <1>5, <1>6, <1>7, <1>8 DEF Next

(* Every variable of the linker keeps its type, whatever the build is.       *)
THEOREM TypeCorrect == Spec => []TypeOK
BY InitType, TypeStep, PTL DEF Spec
-----------------------------------------------------------------------------
(* Extraction.                                                              *)
LEMMA BuildFrame ==
  ASSUME UNCHANGED build, NEW o
  PROVE  /\ Globals(o)' = Globals(o) /\ Locals(o)' = Locals(o) /\ Refs(o)' = Refs(o)
         /\ Undefs(o)' = Undefs(o) /\ Mentions(o)' = Mentions(o)
BY DEF Globals, Locals, Refs, Undefs, Mentions

LEMMA UnresolvedNames ==
  /\ UnresolvedGlobals \cap DefinedGlobals = {}
  /\ \A n \in UnresolvedGlobals : \E o \in Linked : n \in Mentions(o)
<1> DEFINE mentioned == UNION {Refs(o) \cup Undefs(o) : o \in Linked}
<1>1. UnresolvedGlobals = mentioned \ DefinedGlobals
  BY DEF UnresolvedGlobals
<1>2. \A n \in mentioned : \E o \in Linked : n \in Mentions(o)
  BY DEF Mentions
<1> HIDE DEF mentioned
<1> QED BY <1>1, <1>2

LEMMA LinkedFrame ==
  ASSUME UNCHANGED <<build, linked>>
  PROVE  /\ Linked' = Linked /\ DefinedGlobals' = DefinedGlobals
         /\ UnresolvedGlobals' = UnresolvedGlobals
<1>1. Linked' = Linked
  BY DEF Linked
<1>2. DefinedGlobals' = DefinedGlobals
  BY <1>1, BuildFrame DEF DefinedGlobals
<1> QED BY <1>1, <1>2, BuildFrame DEF UnresolvedGlobals

(* Which steps concern extraction.                                          *)
LEMMA OtherSteps ==
  ASSUME [Next]_vars
  PROVE  /\ UNCHANGED build
         /\ \/ StartRound \/ Extract \/ PassOver \/ EndRound
            \/ /\ UNCHANGED <<linked, extracted, wanted, progress>>
               /\ \/ phase' = phase /\ obj' = obj
                  \/ phase \notin {"round", "visit"} /\ phase' \notin {"round", "visit"}
<1> USE DEF extraction
<1>1. CASE StartRound \/ Extract \/ PassOver \/ EndRound
  BY <1>1 DEF StartRound, Extract, PassOver, EndRound
<1>2. CASE CheckTargets \/ RefuseTarget \/ PlacePiece \/ EndSection
  BY <1>2 DEF CheckTargets, RefuseTarget, PlacePiece, EndSection, Stop
<1>3. CASE ResolveSymbols \/ ReportDuplicate \/ EndResolve \/ AddStart
  BY <1>3 DEF ResolveSymbols, ReportDuplicate, EndResolve, AddStart, Stop
<1>4. ASSUME NEW n \in Names, Relocate(n)
      PROVE  /\ UNCHANGED <<build, linked, extracted, wanted, progress>>
             /\ phase = "relocate" /\ phase' \in {"relocate", "end"}
  BY <1>4 DEF Relocate, Ignore, BindSymbol, BindSection, BindSlot, BindThunk, NoThunk, ReportUnresolved,
              RejectRelocation, Imported, Relocating, Bind, Stop
<1>5. CASE NextObject \/ Finish
  BY <1>5 DEF NextObject, Finish
<1>6. CASE UNCHANGED vars
  BY <1>6 DEF vars, layout, binding
<1> QED BY <1>1, <1>2, <1>3, <1>4, <1>5, <1>6 DEF Next

(* No object is linked twice, the extracted flags say which members are
   linked, and what a round wants was wanted by what was linked before.      *)
Extraction ==
  /\ \A i, j \in 1 .. Len(linked) : i # j => linked[i] # linked[j]
  /\ \A o \in Objects : o \in extracted <=> (o > Inputs /\ o \in Linked)
  /\ phase = "visit" => \A n \in wanted :
       /\ \E j \in 1 .. Len(linked) : n \in Mentions(linked[j])
       /\ \A o \in 1 .. Inputs : n \notin Globals(o)

LEMMA InputsLinked ==
  ASSUME TypeOK, Control
  PROVE  1 .. Inputs \subseteq Linked
<1> SUFFICES ASSUME NEW i \in 1 .. Inputs PROVE i \in Linked
  OBVIOUS
<1>1. i \in 1 .. Len(linked) /\ linked[i] = i
  BY Numbers DEF TypeOK, Control
<1> QED BY <1>1, LinkedObjects

LEMMA ExtractionStep ==
  ASSUME TypeOK, Control, Extraction, ExtractionIsNeeded, [Next]_vars
  PROVE  Extraction' /\ ExtractionIsNeeded'
<1>0. UNCHANGED build
  BY OtherSteps
<1>1. CASE UNCHANGED <<linked, extracted, wanted>> /\ (phase' = "visit" => phase = "visit")
  <2>1. \A o : Mentions(o)' = Mentions(o) /\ Globals(o)' = Globals(o)
    BY <1>0, BuildFrame
  <2>2. Linked' = Linked
    BY <1>1 DEF Linked
  <2>3. Extraction'
    BY <1>1, <2>1, <2>2 DEF Extraction
  <2>4. ExtractionIsNeeded'
    BY <1>1, <2>1 DEF ExtractionIsNeeded
  <2> QED BY <2>3, <2>4
<1>2. CASE StartRound
  <2>1. UNCHANGED <<linked, extracted>> /\ (phase' = "visit" => wanted' = UnresolvedGlobals)
    BY <1>2 DEF StartRound
  <2>2. \A o : Mentions(o)' = Mentions(o) /\ Globals(o)' = Globals(o)
    BY <1>0, BuildFrame
  <2>3. Linked' = Linked
    BY <2>1 DEF Linked
  <2>4. ASSUME NEW n \in UnresolvedGlobals
        PROVE  /\ \E j \in 1 .. Len(linked) : n \in Mentions(linked[j])
               /\ \A o \in 1 .. Inputs : n \notin Globals(o)
    <3>1. PICK o \in Linked : n \in Mentions(o)
      BY UnresolvedNames
    <3>2. \A o2 \in Linked : n \notin Globals(o2)
      <4>1. n \notin DefinedGlobals
        BY UnresolvedNames
      <4> QED BY <4>1 DEF DefinedGlobals
    <3> QED BY <3>1, <3>2, InputsLinked DEF Linked
  <2>5. Extraction'
    BY <2>1, <2>2, <2>3, <2>4 DEF Extraction
  <2>6. ExtractionIsNeeded'
    BY <2>1, <2>2 DEF ExtractionIsNeeded
  <2> QED BY <2>5, <2>6
<1>3. CASE Extract
  <2>1. /\ phase = "visit" /\ phase' = phase /\ obj \in Objects /\ obj \notin extracted /\ Provides(obj)
        /\ linked' = Append(linked, obj) /\ extracted' = extracted \cup {obj} /\ wanted' = wanted
    BY <1>3 DEF Extract
  <2>2. obj > Inputs /\ obj \notin Linked
    BY <2>1, Numbers DEF Control, Extraction
  <2> DEFINE L == Len(linked)
  <2>3. /\ L \in Nat /\ Len(linked') = L + 1 /\ linked'[L + 1] = obj
        /\ \A i \in 1 .. L : linked'[i] = linked[i]
    BY <2>1 DEF TypeOK
  <2>4. \A o : Mentions(o)' = Mentions(o) /\ Globals(o)' = Globals(o)
    BY <1>0, BuildFrame
  <2>5. \A i \in 1 .. L : linked[i] # obj
    BY <2>2 DEF Linked
  <2>6. PICK n \in Globals(obj) : n \in wanted
    BY <2>1 DEF Provides
  <2>7. /\ \E j \in 1 .. L : n \in Mentions(linked[j])
        /\ \A o \in 1 .. Inputs : n \notin Globals(o)
    BY <2>1, <2>6 DEF Extraction
  <2> HIDE DEF L
  <2>8. 1 .. L + 1 = (1 .. L) \cup {L + 1}
    BY <2>3
  <2>9. Linked' = Linked \cup {obj}
    BY <2>3, <2>8 DEF Linked, L
  <2>10. \A i, j \in 1 .. L + 1 : i # j => linked'[i] # linked'[j]
    BY <2>3, <2>5, <2>8 DEF Extraction, L
  <2>11. \A o \in Objects : o \in extracted' <=> (o > Inputs /\ o \in Linked')
    BY <2>1, <2>2, <2>9 DEF Extraction
  <2>12. \A v \in wanted : /\ \E j \in 1 .. L + 1 : v \in Mentions(linked'[j])
                           /\ \A o \in 1 .. Inputs : v \notin Globals(o)
    BY <2>1, <2>3, <2>8 DEF Extraction, L
  <2>13. Extraction'
    BY <2>1, <2>3, <2>4, <2>10, <2>11, <2>12 DEF Extraction
  <2>14. ASSUME NEW i \in 1 .. L + 1, linked'[i] > Inputs
         PROVE  /\ \A j \in 1 .. i - 1 : linked'[j] # linked'[i]
                /\ \E v \in Globals(linked'[i]), j \in 1 .. i - 1 :
                     v \in Mentions(linked'[j]) /\ \A o \in 1 .. Inputs : v \notin Globals(o)
    <3>1. CASE i = L + 1
      <4>1. i - 1 = L
        BY <2>3, <3>1
      <4> QED BY <2>3, <2>5, <2>6, <2>7, <3>1, <4>1
    <3>2. CASE i \in 1 .. L
      <4>1. \A j \in 1 .. i - 1 : j \in 1 .. L
        BY <2>3, <3>2
      <4>2. /\ \A j \in 1 .. i - 1 : linked[j] # linked[i]
            /\ \E v \in Globals(linked[i]), j \in 1 .. i - 1 :
                 v \in Mentions(linked[j]) /\ \A o \in 1 .. Inputs : v \notin Globals(o)
        BY <2>3, <2>14, <3>2 DEF ExtractionIsNeeded, L
      <4> QED BY <2>3, <3>2, <4>1, <4>2
    <3> QED BY <2>8, <3>1, <3>2
  <2>15. ExtractionIsNeeded'
    BY <2>3, <2>4, <2>14 DEF ExtractionIsNeeded
  <2> QED BY <2>13, <2>15
<1>4. CASE PassOver \/ EndRound
  BY <1>1, <1>4 DEF PassOver, EndRound, extraction
<1> QED BY <1>1, <1>2, <1>3, <1>4, OtherSteps

LEMMA ExtractionInit == Init => Extraction /\ ExtractionIsNeeded
<1> SUFFICES ASSUME Init PROVE Extraction /\ ExtractionIsNeeded
  OBVIOUS
<1>1. TypeOK /\ Control
  BY InitType
<1>2. Len(linked) = Inputs /\ \A i \in 1 .. Inputs : linked[i] = i
  BY Numbers DEF Init
<1>3. \A o \in Linked : o <= Inputs
  BY <1>2, Numbers DEF Linked
<1> QED BY <1>2, <1>3, Numbers DEF Init, Extraction, ExtractionIsNeeded, Objects

(* Whatever the archives hold, a member is linked once, and only when it
   defines a name that an object linked before it mentions and that no input
   defines: extractLazyArchiveMembers never pulls in an unneeded member.     *)
THEOREM OnlyNeededMembers == Spec => []ExtractionIsNeeded
<1>1. Init => TypeOK /\ Control
  BY InitType
<1>2. TypeOK /\ Control /\ [Next]_vars => TypeOK' /\ Control'
  BY TypeStep
<1>3. Init => Extraction /\ ExtractionIsNeeded
  BY ExtractionInit
<1>4. TypeOK /\ Control /\ Extraction /\ ExtractionIsNeeded /\ [Next]_vars
        => Extraction' /\ ExtractionIsNeeded'
  BY ExtractionStep
<1> QED BY <1>1, <1>2, <1>3, <1>4, PTL DEF Spec
(* What a round that extracts nothing has passed over it leaves for good.    *)
Exhausted ==
  /\ phase = "visit" /\ ~progress =>
       /\ wanted = UnresolvedGlobals
       /\ \A m \in Inputs + 1 .. obj - 1 : m \in extracted \/ Globals(m) \cap wanted = {}
  /\ phase = "round" /\ ~progress =>
       \A m \in Objects \ Linked : Globals(m) \cap UnresolvedGlobals = {}

LEMMA ExhaustedStep ==
  ASSUME TypeOK, Control, Extraction, Exhausted, ExtractionIsEnough, [Next]_vars
  PROVE  Exhausted' /\ ExtractionIsEnough'
<1>0. UNCHANGED build /\ \A o : Globals(o)' = Globals(o)
  BY OtherSteps, BuildFrame
<1>1. CASE /\ UNCHANGED <<linked, extracted, wanted, progress>>
           /\ \/ phase' = phase /\ obj' = obj
              \/ phase \notin {"round", "visit"} /\ phase' \notin {"round", "visit"}
  <2>1. Linked' = Linked /\ UnresolvedGlobals' = UnresolvedGlobals
    BY <1>0, <1>1, LinkedFrame
  <2> QED BY <1>0, <1>1, <2>1 DEF Exhausted, ExtractionIsEnough
<1>2. CASE StartRound
  <2>1. /\ UNCHANGED <<linked, extracted>> /\ phase = "round"
        /\ \/ phase' = "visit" /\ wanted' = UnresolvedGlobals /\ ~progress' /\ obj' = Inputs + 1
           \/ phase' = "check" /\ (~progress \/ UnresolvedGlobals = {})
    BY <1>2 DEF StartRound
  <2>2. Linked' = Linked /\ UnresolvedGlobals' = UnresolvedGlobals
    BY <1>0, <2>1, LinkedFrame
  <2>3. ASSUME phase' = "visit" PROVE Exhausted' /\ ExtractionIsEnough'
    <3>1. wanted' = UnresolvedGlobals' /\ obj' = Inputs + 1
      BY <2>1, <2>2, <2>3
    <3>2. Inputs + 1 .. obj' - 1 = {}
      BY <3>1, Numbers
    <3> QED BY <2>3, <3>1, <3>2 DEF Exhausted, ExtractionIsEnough
  <2>4. ASSUME phase' = "check" PROVE Exhausted' /\ ExtractionIsEnough'
    <3>1. \A m \in Objects \ Linked : Globals(m) \cap UnresolvedGlobals = {}
      BY <2>1, <2>4 DEF Exhausted
    <3> QED BY <1>0, <2>2, <2>4, <3>1 DEF Exhausted, ExtractionIsEnough
  <2> QED BY <2>1, <2>3, <2>4
<1>3. CASE Extract
  BY <1>3 DEF Extract, Exhausted, ExtractionIsEnough
<1>4. CASE PassOver
  <2>1. /\ phase = "visit" /\ obj \in Objects /\ (obj \in extracted \/ ~Provides(obj))
        /\ obj' = obj + 1 /\ UNCHANGED <<phase, linked, extracted, wanted, progress>>
    BY <1>4 DEF PassOver, extraction
  <2>2. Linked' = Linked /\ UnresolvedGlobals' = UnresolvedGlobals
    BY <1>0, <2>1, LinkedFrame
  <2>3. \A m \in Inputs + 1 .. obj' - 1 : m = obj \/ m \in Inputs + 1 .. obj - 1
    BY <2>1, Numbers DEF TypeOK
  <2>4. ~Provides(obj) => Globals(obj) \cap wanted = {}
    BY DEF Provides
  <2> QED BY <1>0, <2>1, <2>2, <2>3, <2>4 DEF Exhausted, ExtractionIsEnough
<1>5. CASE EndRound
  <2>1. /\ phase = "visit" /\ phase' = "round" /\ obj \notin Objects
        /\ UNCHANGED <<linked, extracted, wanted, progress>>
    BY <1>5 DEF EndRound, extraction
  <2>2. Linked' = Linked /\ UnresolvedGlobals' = UnresolvedGlobals
    BY <1>0, <2>1, LinkedFrame
  <2>3. ASSUME ~progress, NEW m \in Objects \ Linked PROVE Globals(m) \cap UnresolvedGlobals = {}
    <3>1. m \notin 1 .. Inputs /\ m \notin extracted
      BY InputsLinked DEF Extraction
    <3>2. m \in Inputs + 1 .. obj - 1
      BY <2>1, <3>1, Numbers DEF Control, Objects
    <3> QED BY <2>1, <2>3, <3>1, <3>2 DEF Exhausted
  <2> QED BY <1>0, <2>1, <2>2, <2>3 DEF Exhausted, ExtractionIsEnough
<1> QED BY <1>1, <1>2, <1>3, <1>4, <1>5, OtherSteps

(* When the rounds end, whatever the archives hold, no member that was left
   defines a name that is mentioned and undefined: nothing that link reports
   unresolved could have been extracted.                                    *)
THEOREM EnoughMembers == Spec => []ExtractionIsEnough
<1>1. Init => TypeOK /\ Control
  BY InitType
<1>2. TypeOK /\ Control /\ [Next]_vars => TypeOK' /\ Control'
  BY TypeStep
<1>3. Init => Extraction /\ ExtractionIsNeeded
  BY ExtractionInit
<1>4. TypeOK /\ Control /\ Extraction /\ ExtractionIsNeeded /\ [Next]_vars
        => Extraction' /\ ExtractionIsNeeded'
  BY ExtractionStep
<1>5. Init => Exhausted /\ ExtractionIsEnough
  BY DEF Init, Exhausted, ExtractionIsEnough
<1>6. TypeOK /\ Control /\ Extraction /\ Exhausted /\ ExtractionIsEnough /\ [Next]_vars
        => Exhausted' /\ ExtractionIsEnough'
  BY ExhaustedStep
<1> QED BY <1>1, <1>2, <1>3, <1>4, <1>5, <1>6, PTL DEF Spec
-----------------------------------------------------------------------------
(* Symbols.  The objects whose symbols link has seen, and what the table of
   names holds of them: the one global definition, or some local one, of
   each name, and the start stub when nothing defines its name.              *)
Seen == IF phase = "resolve" THEN {linked[i] : i \in 1 .. obj - 1} ELSE Linked

Defines(e, n) == n \in (IF e.global THEN Globals(e.def) ELSE Locals(e.def))

SymbolsSound ==
  /\ phase \in {"round", "visit", "check", "place"} => \A n \in Names : symbols[n] = None
  /\ phase \in {"resolve", "start", "relocate"} =>
       /\ \A o \in Seen :
            /\ \A n \in Globals(o) : symbols[n] # None /\ symbols[n].def = o /\ symbols[n].global
            /\ \A n \in Locals(o) : symbols[n] # None
       /\ \A n \in Names : symbols[n] # None =>
            \/ symbols[n].def \in Seen /\ Defines(symbols[n], n)
            \/ /\ phase = "relocate" /\ symbols[n].def = Stub
               /\ \A o \in Linked : n \notin Globals(o) \cup Locals(o)

LEMMA EntryFacts ==
  /\ None \notin Entries /\ None \notin Nat /\ None \notin Errors
  /\ \A o \in Objects \cup {Stub}, g \in BOOLEAN : [def |-> o, global |-> g] \in Entries
  /\ Stub \notin Objects /\ Stub # None /\ Thunk # None /\ Slot # None /\ Merged # None
  /\ Stub \notin {Thunk, Slot} /\ Merged \notin {Thunk, Slot}
  /\ Slot \notin Objects /\ Thunk \notin Objects /\ Merged \notin Objects /\ None \notin Objects
BY LinkerAssumption DEF Entries

LEMMA SymbolsResolve ==
  ASSUME TypeOK, Control, Extraction, SymbolsSound, ResolveSymbols
  PROVE  SymbolsSound'
<1> DEFINE o == linked[obj]
<1>1. /\ phase = "resolve" /\ phase' = phase /\ obj' = obj + 1 /\ Clashes(o) = {} /\ symbols' = Record(o)
      /\ UNCHANGED <<build, linked>>
  BY DEF ResolveSymbols, extraction
<1>2. obj \in 1 .. Len(linked) /\ o \in Objects
  BY <1>1, LinkedObjects DEF ResolveSymbols, Control, TypeOK
<1>3. Seen' = Seen \cup {o} /\ o \notin Seen
  <2>1. Seen = {linked[i] : i \in 1 .. obj - 1} /\ Seen' = {linked[i] : i \in 1 .. obj}
    BY <1>1, <1>2 DEF Seen
  <2>2. 1 .. obj = (1 .. obj - 1) \cup {obj} /\ \A i \in 1 .. obj - 1 : i \in 1 .. Len(linked) /\ i # obj
    BY <1>2 DEF TypeOK
  <2> QED BY <1>2, <2>1, <2>2 DEF Extraction
<1>4. \A p : Globals(p)' = Globals(p) /\ Locals(p)' = Locals(p)
  BY <1>1, BuildFrame
<1> HIDE DEF o
<1>5. \A n \in Names : symbols'[n] = IF n \in Globals(o) THEN [def |-> o, global |-> TRUE]
                                     ELSE IF n \in Locals(o) /\ symbols[n] = None THEN [def |-> o, global |-> FALSE]
                                     ELSE symbols[n]
  BY <1>1 DEF Record
<1>6. \A n \in Globals(o) : symbols[n] = None \/ ~symbols[n].global
  BY <1>1 DEF Clashes
<1>7. \A p \in Seen' : p \in Objects
  <2>1. \A i \in 1 .. obj - 1 : linked[i] \in Objects
    BY <1>2 DEF TypeOK
  <2> QED BY <1>1, <1>2, <1>3, <2>1 DEF Seen
<1>8. ASSUME NEW p \in Seen'
      PROVE  /\ \A n \in Globals(p) : symbols'[n] # None /\ symbols'[n].def = p /\ symbols'[n].global
             /\ \A n \in Locals(p) : symbols'[n] # None
  <2>1. Globals(p) \subseteq Names /\ Locals(p) \subseteq Names
    BY <1>7, ObjectParts DEF TypeOK
  <2>2. \A g \in BOOLEAN : [def |-> o, global |-> g] # None
    BY <1>2, EntryFacts
  <2>3. CASE p = o
    <3>1. \A n \in Globals(o) : symbols'[n] = [def |-> o, global |-> TRUE]
      BY <1>5, <2>1, <2>3
    <3>2. \A n \in Locals(o) : \/ \E g \in BOOLEAN : symbols'[n] = [def |-> o, global |-> g]
                               \/ symbols[n] # None /\ symbols'[n] = symbols[n]
      BY <1>5, <2>1, <2>3
    <3>3. \A n \in Globals(o) : symbols'[n].def = o /\ symbols'[n].global
      BY <3>1
    <3>4. \A n \in Globals(o) \cup Locals(o) : symbols'[n] # None
      BY <2>2, <3>1, <3>2
    <3> QED BY <2>3, <3>3, <3>4
  <2>4. CASE p \in Seen
    <3>1. \A n \in Globals(p) : symbols[n] # None /\ symbols[n].def = p /\ symbols[n].global
      BY <1>1, <2>4 DEF SymbolsSound
    <3>2. \A n \in Locals(p) : symbols[n] # None
      BY <1>1, <2>4 DEF SymbolsSound
    <3>3. \A n \in Globals(p) : symbols'[n] = symbols[n]
      BY <1>5, <1>6, <2>1, <3>1
    <3> QED BY <1>5, <2>1, <2>2, <3>1, <3>2, <3>3
  <2> QED BY <1>3, <2>3, <2>4
<1>9. ASSUME NEW n \in Names, symbols'[n] # None
      PROVE  symbols'[n].def \in Seen' /\ Defines(symbols'[n], n)
  <2>1. CASE symbols'[n] = symbols[n]
    <3>1. symbols[n].def \in Seen /\ Defines(symbols[n], n)
      BY <1>1, <1>9, <2>1 DEF SymbolsSound
    <3> QED BY <1>3, <2>1, <3>1
  <2>2. CASE n \in Globals(o) /\ symbols'[n] = [def |-> o, global |-> TRUE]
    BY <1>3, <2>2 DEF Defines
  <2>3. CASE n \in Locals(o) /\ symbols'[n] = [def |-> o, global |-> FALSE]
    BY <1>3, <2>3 DEF Defines
  <2> QED BY <1>5, <2>1, <2>2, <2>3
<1>10. \A n : Defines(symbols'[n], n) => Defines(symbols[n], n)'
  BY <1>4 DEF Defines
<1> QED BY <1>1, <1>4, <1>8, <1>9, <1>10 DEF SymbolsSound

LEMMA SymbolsStart ==
  ASSUME TypeOK, Control, SymbolsSound, AddStart
  PROVE  SymbolsSound'
<1>1. /\ phase = "start" /\ phase' = "relocate" /\ UNCHANGED <<build, linked>>
      /\ \/ symbols' = symbols
         \/ symbols[Start] = None /\ symbols' = [symbols EXCEPT ![Start] = [def |-> Stub, global |-> TRUE]]
  BY DEF AddStart, NeedsStub, extraction
<1>2. Seen = Linked /\ Seen' = Linked /\ Linked' = Linked
  BY <1>1 DEF Seen, Linked
<1>3. \A p : Globals(p)' = Globals(p) /\ Locals(p)' = Locals(p)
  BY <1>1, BuildFrame
<1>4. \A o \in Linked : Globals(o) \subseteq Names /\ Locals(o) \subseteq Names
  BY LinkedObjects, ObjectParts DEF TypeOK, Linked
<1>5. \A n \in Names : symbols'[n] = symbols[n] \/
        (n = Start /\ symbols[n] = None /\ symbols'[n] = [def |-> Stub, global |-> TRUE])
  BY <1>1 DEF TypeOK
<1>6. [def |-> Stub, global |-> TRUE] # None
  BY EntryFacts
<1>7. ASSUME NEW o \in Linked
      PROVE  /\ \A n \in Globals(o) : symbols'[n] # None /\ symbols'[n].def = o /\ symbols'[n].global
             /\ \A n \in Locals(o) : symbols'[n] # None
  BY <1>1, <1>2, <1>4, <1>5 DEF SymbolsSound
<1>8. ASSUME NEW n \in Names, symbols'[n] # None
      PROVE  \/ symbols'[n].def \in Linked /\ Defines(symbols'[n], n)
             \/ symbols'[n].def = Stub /\ \A o \in Linked : n \notin Globals(o) \cup Locals(o)
  <2>1. CASE symbols'[n] = symbols[n]
    BY <1>1, <1>2, <1>8, <2>1 DEF SymbolsSound
  <2>2. CASE symbols[n] = None /\ symbols'[n] = [def |-> Stub, global |-> TRUE]
    BY <1>1, <1>2, <2>2 DEF SymbolsSound
  <2> QED BY <1>5, <2>1, <2>2
<1>9. \A n : Defines(symbols'[n], n) => Defines(symbols[n], n)'
  BY <1>3 DEF Defines
<1> QED BY <1>1, <1>2, <1>3, <1>7, <1>8, <1>9 DEF SymbolsSound

(* What a relocation is bound to does not touch the symbols.                *)
LEMMA RelocateFrame ==
  ASSUME NEW n \in Names, Relocate(n)
  PROVE  /\ phase = "relocate" /\ n \in pending
         /\ UNCHANGED <<build, linked, obj, symbols, base>>
         /\ \/ phase' = phase /\ pending' = pending \ {n} /\ error' = error
            \/ phase' = "end" /\ pending' = pending /\ bound' = bound /\ error' # None
BY EntryFacts DEF Relocate, Ignore, BindSymbol, BindSection, BindSlot, BindThunk, NoThunk, ReportUnresolved,
       RejectRelocation, Imported, Relocating, Bind, Stop, extraction, layout, binding, Errors

LEMMA SymbolsStep ==
  ASSUME TypeOK, Control, Extraction, SymbolsSound, [Next]_vars
  PROVE  SymbolsSound'
<1> USE DEF extraction, layout, binding
<1>1. CASE /\ UNCHANGED <<build, linked, symbols>>
           /\ \/ phase' = phase /\ (phase = "resolve" => obj' = obj)
              \/ phase' = "end"
              \/ phase' \in {"round", "visit", "check", "place"} /\ phase \in {"round", "visit", "check", "place"}
  <2>1. phase' = phase => Seen' = Seen
    BY <1>1 DEF Seen, Linked
  <2>2. \A p : Globals(p)' = Globals(p) /\ Locals(p)' = Locals(p)
    BY <1>1, BuildFrame
  <2>3. \A n : Defines(symbols[n], n)' <=> Defines(symbols[n], n)
    BY <1>1, <2>2 DEF Defines
  <2>4. Linked' = Linked
    BY <1>1 DEF Linked
  <2> QED BY <1>1, <2>1, <2>2, <2>3, <2>4 DEF SymbolsSound
<1>2. CASE StartRound \/ PassOver \/ EndRound
  BY <1>1, <1>2 DEF StartRound, PassOver, EndRound
<1>3. CASE Extract
  BY <1>3 DEF Extract, SymbolsSound
<1>4. CASE CheckTargets \/ RefuseTarget \/ PlacePiece \/ ReportDuplicate
  BY <1>1, <1>4 DEF CheckTargets, RefuseTarget, PlacePiece, ReportDuplicate, Stop
<1>5. CASE EndSection
  <2>1. CASE phase' = "place"
    BY <1>1, <1>5, <2>1 DEF EndSection
  <2>2. CASE phase' = "resolve"
    <3>1. Seen' = {} /\ \A n \in Names : symbols'[n] = None
      BY <1>5, <2>2 DEF EndSection, Seen, SymbolsSound
    <3> QED BY <2>2, <3>1 DEF SymbolsSound
  <2> QED BY <1>5, <2>1, <2>2 DEF EndSection
<1>6. CASE ResolveSymbols
  BY <1>6, SymbolsResolve
<1>7. CASE EndResolve
  <2>1. /\ phase = "resolve" /\ phase' = "start" /\ obj = Len(linked) + 1
        /\ UNCHANGED <<build, linked, symbols>>
    BY <1>7 DEF EndResolve
  <2>2. Seen' = Seen /\ Linked' = Linked
    <3>1. obj - 1 = Len(linked)
      BY <2>1 DEF TypeOK
    <3> QED BY <2>1, <3>1 DEF Seen, Linked
  <2>3. \A p : Globals(p)' = Globals(p) /\ Locals(p)' = Locals(p)
    BY <2>1, BuildFrame
  <2>4. \A n : Defines(symbols[n], n)' <=> Defines(symbols[n], n)
    BY <2>1, <2>3 DEF Defines
  <2> QED BY <2>1, <2>2, <2>3, <2>4 DEF SymbolsSound
<1>8. CASE AddStart
  BY <1>8, SymbolsStart
<1>9. ASSUME NEW n \in Names, Relocate(n) PROVE SymbolsSound'
  BY <1>1, <1>9, RelocateFrame
<1>10. CASE NextObject \/ Finish \/ UNCHANGED vars
  BY <1>1, <1>10 DEF NextObject, Finish, vars
<1> QED BY <1>2, <1>3, <1>4, <1>5, <1>6, <1>7, <1>8, <1>9, <1>10 DEF Next
-----------------------------------------------------------------------------
(* Errors.                                                                  *)
UndefinedReference ==
  \E o \in Linked : \E n \in Refs(o) :
    /\ build.imports[n] = "none"
    /\ \A p \in Linked : n \notin Globals(p) \cup Locals(p)

Reported ==
  /\ phase # "end" => error = None
  /\ error = "duplicate" => DefinedTwice
  /\ (phase = "end" /\ error = None) => ~DefinedTwice
  /\ error = "unresolved" => UndefinedReference

LEMMA ReportFrame ==
  ASSUME UNCHANGED <<build, linked>>
  PROVE  (DefinedTwice' <=> DefinedTwice) /\ (UndefinedReference' <=> UndefinedReference)
<1>1. \A p : Globals(p)' = Globals(p) /\ Locals(p)' = Locals(p) /\ Refs(p)' = Refs(p)
  BY BuildFrame
<1>2. Linked' = Linked
  BY DEF Linked
<1>3. DefinedTwice' <=> DefinedTwice
  BY <1>1, <1>2 DEF DefinedTwice
<1>4. UndefinedReference' <=> UndefinedReference
  BY <1>1, <1>2 DEF UndefinedReference
<1> QED BY <1>3, <1>4

(* Once all symbols are resolved no name has two global definitions.        *)
LEMMA DefinedOnce ==
  ASSUME SymbolsSound, phase \in {"start", "relocate"}
  PROVE  ~DefinedTwice
<1>1. \A o \in Linked : \A n \in Globals(o) : symbols[n].def = o
  BY DEF SymbolsSound, Seen
<1> QED BY <1>1 DEF DefinedTwice

LEMMA ReportedStep ==
  ASSUME TypeOK, Control, Extraction, SymbolsSound, Reported, [Next]_vars
  PROVE  Reported'
<1> USE DEF extraction, layout, binding
<1>1. CASE UNCHANGED <<phase, error>> /\ (phase = "end" => UNCHANGED <<build, linked>>)
  <2>1. CASE phase = "end"
    BY <1>1, <2>1, ReportFrame DEF Reported
  <2>2. CASE phase # "end"
    <3>1. None # "duplicate" /\ None # "unresolved"
      BY EntryFacts DEF Errors
    <3> QED BY <1>1, <2>2, <3>1 DEF Reported
  <2> QED BY <2>1, <2>2
<1>2. CASE phase # "end" /\ phase' # "end" /\ error' = error
  <2>1. None # "duplicate" /\ None # "unresolved"
    BY EntryFacts DEF Errors
  <2> QED BY <1>2, <2>1 DEF Reported
<1>3. CASE StartRound \/ Extract \/ PassOver \/ EndRound \/ CheckTargets \/ PlacePiece \/ EndSection
  BY <1>2, <1>3 DEF StartRound, Extract, PassOver, EndRound, CheckTargets, PlacePiece, EndSection
<1>4. CASE ResolveSymbols \/ EndResolve \/ AddStart \/ NextObject
  BY <1>2, <1>4 DEF ResolveSymbols, EndResolve, AddStart, NextObject
<1>5. CASE RefuseTarget
  <2>1. error' = "target" /\ phase' = "end" /\ "target" # None
    BY <1>5, EntryFacts DEF RefuseTarget, Stop, Errors
  <2> QED BY <2>1 DEF Reported
<1>6. CASE ReportDuplicate
  <2>1. /\ phase = "resolve" /\ obj <= Len(linked) /\ Clashes(linked[obj]) # {}
        /\ error' = "duplicate" /\ phase' = "end" /\ UNCHANGED <<build, linked>> /\ "duplicate" # None
    BY <1>6, EntryFacts DEF ReportDuplicate, Stop, Errors
  <2>2. obj \in 1 .. Len(linked)
    BY <2>1 DEF Control, TypeOK
  <2>3. PICK n \in Globals(linked[obj]) : symbols[n] # None /\ symbols[n].global
    BY <2>1 DEF Clashes
  <2>4. n \in Names
    BY <2>2, LinkedObjects, ObjectParts DEF TypeOK
  <2>5. symbols[n].def \in Seen /\ n \in Globals(symbols[n].def)
    BY <2>1, <2>3, <2>4 DEF SymbolsSound, Defines
  <2>6. PICK i \in 1 .. obj - 1 : symbols[n].def = linked[i]
    BY <2>1, <2>5 DEF Seen
  <2>7. i \in 1 .. Len(linked) /\ i # obj
    BY <2>2, <2>6 DEF TypeOK
  <2>8. linked[i] # linked[obj] /\ linked[i] \in Linked /\ linked[obj] \in Linked
    BY <2>2, <2>7 DEF Extraction, Linked
  <2>9. DefinedTwice
    BY <2>3, <2>5, <2>6, <2>8 DEF DefinedTwice
  <2> QED BY <2>1, <2>9, ReportFrame DEF Reported
<1>7. ASSUME NEW n \in Names, Relocate(n) PROVE Reported'
  <2>1. phase = "relocate" /\ UNCHANGED <<build, linked>> /\ error = None
    BY <1>7, RelocateFrame DEF Reported
  <2>2. CASE phase' = phase /\ error' = error
    BY <1>1, <2>1, <2>2
  <2>3. CASE NoThunk(n) \/ RejectRelocation(n)
    <3>1. phase' = "end" /\ error' \in {"no thunk", "evaluate"} /\ "no thunk" # None /\ "evaluate" # None
      BY <2>3, EntryFacts DEF NoThunk, RejectRelocation, Stop, Errors
    <3> QED BY <3>1 DEF Reported
  <2>4. CASE ReportUnresolved(n)
    <3>1. /\ n \in pending /\ symbols[n] = None /\ build.imports[n] = "none"
          /\ phase' = "end" /\ error' = "unresolved" /\ "unresolved" # None
      BY <2>4, EntryFacts DEF ReportUnresolved, Imported, Relocating, Stop, Errors
    <3>2. n \in Refs(linked[obj]) /\ linked[obj] \in Linked
      BY <2>1, <3>1, LinkedObjects DEF Control
    <3>3. \A p \in Linked : n \notin Globals(p) \cup Locals(p)
      BY <2>1, <3>1 DEF SymbolsSound, Seen
    <3>4. UndefinedReference
      BY <3>1, <3>2, <3>3 DEF UndefinedReference
    <3> QED BY <2>1, <3>1, <3>4, ReportFrame DEF Reported
  <2>5. CASE Ignore(n) \/ BindSymbol(n) \/ BindSection(n) \/ BindSlot(n) \/ BindThunk(n)
    BY <2>2, <2>5 DEF Ignore, BindSymbol, BindSection, BindSlot, BindThunk, Bind
  <2> QED BY <1>7, <2>3, <2>4, <2>5 DEF Relocate
<1>8. CASE Finish
  <2>1. phase = "relocate" /\ phase' = "end" /\ UNCHANGED <<build, linked, error>>
    BY <1>8 DEF Finish
  <2>2. ~DefinedTwice
    BY <2>1, DefinedOnce
  <2>3. None # "duplicate" /\ None # "unresolved"
    BY EntryFacts DEF Errors
  <2> QED BY <2>1, <2>2, <2>3, ReportFrame DEF Reported
<1>9. CASE UNCHANGED vars
  BY <1>1, <1>9 DEF vars
<1> QED BY <1>3, <1>4, <1>5, <1>6, <1>7, <1>8, <1>9 DEF Next

LEMMA ReportedDeserved == Reported /\ SymbolsSound => ErrorsAreDeserved
<1> SUFFICES ASSUME Reported, SymbolsSound PROVE ErrorsAreDeserved
  OBVIOUS
<1>1. DefinedTwice => phase \notin {"start", "relocate"}
  BY DefinedOnce
<1> QED BY <1>1 DEF Reported, UndefinedReference, ErrorsAreDeserved

LEMMA SymbolsInit == Init => SymbolsSound /\ Reported
<1> SUFFICES ASSUME Init PROVE SymbolsSound /\ Reported
  OBVIOUS
<1>1. None # "duplicate" /\ None # "unresolved"
  BY EntryFacts DEF Errors
<1> QED BY <1>1 DEF Init, SymbolsSound, Reported

(* For every build: link never succeeds when two linked objects define a name
   globally, reports a duplicate only then, and reports a name as undefined
   only when no linked object defines it and no library has it.              *)
THEOREM DeservedErrors == Spec => []ErrorsAreDeserved
<1>1. Init => TypeOK /\ Control
  BY InitType
<1>2. TypeOK /\ Control /\ [Next]_vars => TypeOK' /\ Control'
  BY TypeStep
<1>3. Init => Extraction /\ ExtractionIsNeeded
  BY ExtractionInit
<1>4. TypeOK /\ Control /\ Extraction /\ ExtractionIsNeeded /\ [Next]_vars
        => Extraction' /\ ExtractionIsNeeded'
  BY ExtractionStep
<1>5. Init => SymbolsSound /\ Reported
  BY SymbolsInit
<1>6. TypeOK /\ Control /\ Extraction /\ SymbolsSound /\ Reported /\ [Next]_vars
        => SymbolsSound' /\ Reported'
  BY SymbolsStep, ReportedStep
<1>7. Reported /\ SymbolsSound => ErrorsAreDeserved
  BY ReportedDeserved
<1> QED BY <1>1, <1>2, <1>3, <1>4, <1>5, <1>6, <1>7, PTL DEF Spec
-----------------------------------------------------------------------------
(* Relocations.  What may be bound for name n in object o, and how far the
   relocations are.                                                         *)
BoundWell(o, n, target) ==
  /\ \A d \in Linked : n \in Globals(d) => target = d
  /\ (LocalsAreOwn /\ n \in Locals(o)) => target = o
  /\ target \in {Slot, Thunk} => build.imports[n] # "none"

Settled(o, n) == bound[o][n] # None \/ base[build.patched[o]] = None

Binding ==
  /\ phase \notin {"relocate", "end"} => \A o \in Objects, n \in Names : bound[o][n] = None
  /\ \A o \in Linked, n \in Names : bound[o][n] # None => BoundWell(o, n, bound[o][n])
  /\ phase = "relocate" =>
       \A i \in 1 .. obj : \A n \in Refs(linked[i]) : (i = obj /\ n \in pending) \/ Settled(linked[i], n)
  /\ phase = "end" /\ error = None => \A o \in Linked : \A n \in Refs(o) : Settled(o, n)

LEMMA BoundFrame ==
  ASSUME UNCHANGED <<build, linked>>, NEW o, NEW n, NEW target
  PROVE  BoundWell(o, n, target)' <=> BoundWell(o, n, target)
<1>1. \A p : Globals(p)' = Globals(p) /\ Locals(p)' = Locals(p)
  BY BuildFrame
<1>2. Linked' = Linked
  BY DEF Linked
<1>3. LocalsAreOwn' <=> LocalsAreOwn
  BY <1>1, <1>2 DEF LocalsAreOwn
<1> QED BY <1>1, <1>2, <1>3 DEF BoundWell

LEMMA ReferencesFrame ==
  ASSUME Binding, UNCHANGED <<build, linked, bound, base>>,
         \/ phase' = phase /\ phase # "relocate" /\ (phase = "end" => error' = error)
         \/ phase' \notin {"relocate", "end"} /\ phase \notin {"relocate", "end"}
         \/ phase' = "end" /\ error' # None
  PROVE  Binding'
<1>1. \A o, n : Settled(o, n)' <=> Settled(o, n)
  BY DEF Settled
<1>2. \A o : Refs(o)' = Refs(o)
  BY BuildFrame
<1>3. Linked' = Linked
  BY DEF Linked
<1>4. \A o \in Linked, n \in Names : bound[o][n] # None => BoundWell(o, n, bound[o][n])'
  BY BoundFrame DEF Binding
<1> QED BY <1>1, <1>2, <1>3, <1>4 DEF Binding

(* Each way to bind a relocation binds it well.                             *)
LEMMA TargetsWell ==
  ASSUME TypeOK, Control, SymbolsSound, NEW n \in Names,
         BindSymbol(n) \/ BindSection(n) \/ BindSlot(n) \/ BindThunk(n)
  PROVE  \E target \in Objects \cup {Stub, Thunk, Slot, Merged} :
           Bind(n, target) /\ Relocating(n) /\ BoundWell(Here, n, target)
<1>1. phase = "relocate" /\ Relocating(n)
  BY DEF BindSymbol, BindSection, BindSlot, BindThunk, Imported, Relocating
<1>2. Here \in Linked
  BY <1>1, LinkedObjects DEF Control, Here
<1>3. CASE BindSymbol(n)
  <2> DEFINE d == symbols[n].def
  <2>1. symbols[n] # None /\ Bind(n, d)
    BY <1>3 DEF BindSymbol
  <2>2. \/ d \in Linked /\ n \in Globals(d) \cup Locals(d)
        \/ d = Stub /\ \A o \in Linked : n \notin Globals(o) \cup Locals(o)
    BY <1>1, <2>1 DEF SymbolsSound, Seen, Defines
  <2>3. \A o \in Linked : n \in Globals(o) => d = o
    BY <1>1 DEF SymbolsSound, Seen
  <2>4. d \in Objects \cup {Stub}
    BY <2>2, LinkedObjects DEF Linked
  <2> HIDE DEF d
  <2>5. (LocalsAreOwn /\ n \in Locals(Here)) => d = Here
    <3> SUFFICES ASSUME LocalsAreOwn, n \in Locals(Here), d # Here PROVE FALSE
      OBVIOUS
    <3>1. d \in Linked /\ n \in Globals(d) \cup Locals(d)
      BY <1>2, <2>2
    <3>2. build.holds[d][n] = "none"
      BY <1>2, <3>1 DEF LocalsAreOwn
    <3> QED BY <3>1, <3>2 DEF Globals, Locals
  <2>6. d \notin {Slot, Thunk}
    BY <2>4, EntryFacts
  <2>7. BoundWell(Here, n, d)
    BY <2>3, <2>5, <2>6 DEF BoundWell
  <2> QED BY <1>1, <2>1, <2>4, <2>7
<1>4. ASSUME symbols[n] = None, NEW target, target \in {Slot, Thunk} => build.imports[n] # "none"
      PROVE  BoundWell(Here, n, target)
  <2>1. \A o \in Linked : n \notin Globals(o) \cup Locals(o)
    BY <1>1, <1>4 DEF SymbolsSound, Seen
  <2> QED BY <1>2, <1>4, <2>1 DEF BoundWell
<1>5. CASE BindSection(n)
  BY <1>1, <1>4, <1>5, EntryFacts DEF BindSection
<1>6. CASE BindSlot(n)
  BY <1>1, <1>4, <1>6 DEF BindSlot, Imported
<1>7. CASE BindThunk(n)
  BY <1>1, <1>4, <1>7 DEF BindThunk, Imported
<1> QED BY <1>3, <1>5, <1>6, <1>7

LEMMA RelocateBinding ==
  ASSUME TypeOK, Control, SymbolsSound, Binding, NEW n \in Names, Relocate(n)
  PROVE  Binding'
<1> USE DEF extraction, layout, binding
<1>0. phase = "relocate" /\ n \in pending /\ UNCHANGED <<build, linked, obj, symbols, base>>
  BY RelocateFrame
<1>1. CASE NoThunk(n) \/ ReportUnresolved(n) \/ RejectRelocation(n)
  <2>1. phase' = "end" /\ error' \in Errors /\ UNCHANGED <<bound>>
    BY <1>1 DEF NoThunk, ReportUnresolved, RejectRelocation, Stop, Errors
  <2> QED BY <1>0, <2>1, EntryFacts, ReferencesFrame
<1>2. \A o : Refs(o)' = Refs(o)
  BY <1>0, BuildFrame
<1>3. Linked' = Linked
  BY <1>0 DEF Linked
<1>4. CASE Ignore(n)
  <2>1. /\ phase' = phase /\ pending' = pending \ {n} /\ bound' = bound
        /\ base[build.patched[Here]] = None
    BY <1>4 DEF Ignore
  <2>2. \A o, m : Settled(o, m)' <=> Settled(o, m)
    BY <1>0, <2>1 DEF Settled
  <2>3. \A m : Settled(linked[obj], m)
    BY <2>1 DEF Settled, Here
  <2>4. \A o \in Linked, m \in Names : bound[o][m] # None => BoundWell(o, m, bound[o][m])'
    BY <1>0, <2>1, BoundFrame DEF Binding
  <2> QED BY <1>0, <1>2, <1>3, <2>1, <2>2, <2>3, <2>4 DEF Binding
<1>5. CASE BindSymbol(n) \/ BindSection(n) \/ BindSlot(n) \/ BindThunk(n)
  <2>1. PICK target \in Objects \cup {Stub, Thunk, Slot, Merged} :
          Bind(n, target) /\ Relocating(n) /\ BoundWell(Here, n, target)
    BY <1>5, TargetsWell
  <2>2. /\ phase' = phase /\ pending' = pending \ {n}
        /\ bound' = [bound EXCEPT ![Here][n] = target]
    BY <2>1 DEF Bind
  <2>3. Here \in Objects /\ Here = linked[obj] /\ target # None
    BY <1>0, LinkedObjects, EntryFacts DEF Control, Here
  <2>4. bound \in [Objects -> [Names -> Objects \cup {None, Stub, Thunk, Slot, Merged}]]
    BY DEF TypeOK
  <2>5. \A o \in Objects, m \in Names :
          bound'[o][m] = IF o = Here /\ m = n THEN target ELSE bound[o][m]
    BY <2>2, <2>3, <2>4
  <2>6. \A o \in Linked : o \in Objects
    BY LinkedObjects DEF Linked
  <2>7. ASSUME NEW o \in Linked, NEW m \in Names, bound'[o][m] # None
        PROVE  BoundWell(o, m, bound'[o][m])
    BY <2>1, <2>5, <2>6, <2>7 DEF Binding
  <2>8. \A o \in Linked, m \in Names : bound'[o][m] # None => BoundWell(o, m, bound[o][m])'
    <3> SUFFICES ASSUME NEW o \in Linked, NEW m \in Names, bound'[o][m] # None
                 PROVE  BoundWell(o, m, bound[o][m])'
      OBVIOUS
    <3>1. \A p : Globals(p)' = Globals(p) /\ Locals(p)' = Locals(p)
      BY <1>0, BuildFrame
    <3>2. LocalsAreOwn' <=> LocalsAreOwn
      BY <1>0, <1>3, <3>1 DEF LocalsAreOwn
    <3> QED BY <1>0, <1>3, <2>7, <3>1, <3>2 DEF BoundWell
  <2>9. ASSUME NEW i \in 1 .. obj, NEW m \in Refs(linked[i])
        PROVE  (i = obj /\ m \in pending') \/ Settled(linked[i], m)'
    <3>1. i \in 1 .. Len(linked)
      BY <1>0 DEF Control, TypeOK
    <3>2. linked[i] \in Objects /\ m \in Names
      BY <3>1, LinkedObjects, ObjectParts DEF TypeOK
    <3>3. (i = obj /\ m \in pending) \/ Settled(linked[i], m)
      BY <1>0 DEF Binding
    <3>4. Settled(linked[i], m) => Settled(linked[i], m)'
      BY <1>0, <2>3, <2>5, <3>2 DEF Settled
    <3>5. i = obj /\ m = n => Settled(linked[i], m)'
      BY <1>0, <2>3, <2>5, <3>2 DEF Settled
    <3> QED BY <2>2, <3>3, <3>4, <3>5
  <2> QED BY <1>0, <1>2, <1>3, <2>2, <2>8, <2>9 DEF Binding
<1> QED BY <1>1, <1>4, <1>5 DEF Relocate

LEMMA BindingStep ==
  ASSUME TypeOK, Control, Extraction, SymbolsSound, Binding, [Next]_vars
  PROVE  Binding'
<1> USE DEF extraction, layout, binding
<1>1. CASE StartRound \/ PassOver \/ EndRound \/ CheckTargets \/ PlacePiece
  BY <1>1, ReferencesFrame DEF StartRound, PassOver, EndRound, CheckTargets, PlacePiece
<1>2. CASE Extract \/ EndSection
  <2>1. phase \notin {"relocate", "end"} /\ phase' \notin {"relocate", "end"} /\ bound' = bound
    BY <1>2 DEF Extract, EndSection
  <2>2. \A o \in Linked' : o \in Objects
    <3>1. Len(linked)' = Len(linked') /\ linked' \in Seq(Objects)
      BY TypeStep DEF TypeOK
    <3> QED BY <3>1 DEF Linked
  <2> QED BY <2>1, <2>2 DEF Binding
<1>3. CASE RefuseTarget \/ ReportDuplicate
  <2>1. phase' = "end" /\ error' \in Errors /\ UNCHANGED <<build, linked, bound, base>>
    BY <1>3 DEF RefuseTarget, ReportDuplicate, Stop, Errors
  <2> QED BY <2>1, EntryFacts, ReferencesFrame
<1>4. CASE ResolveSymbols \/ EndResolve
  BY <1>4, ReferencesFrame DEF ResolveSymbols, EndResolve
<1>5. CASE AddStart
  <2>1. /\ phase = "start" /\ phase' = "relocate" /\ pending' = Refs(linked[1])
        /\ UNCHANGED <<build, linked, obj, bound, base>>
    BY <1>5 DEF AddStart
  <2>2. obj = 1 /\ \A o : Refs(o)' = Refs(o)
    BY <2>1, BuildFrame DEF Control
  <2>3. \A o \in Linked' : o \in Objects
    BY <2>1, LinkedObjects DEF Linked
  <2>4. \A i \in 1 .. obj : i = 1
    BY <2>2
  <2> QED BY <2>1, <2>2, <2>3, <2>4 DEF Binding
<1>6. ASSUME NEW n \in Names, Relocate(n) PROVE Binding'
  BY <1>6, RelocateBinding
<1>7. CASE NextObject
  <2>1. /\ phase = "relocate" /\ phase' = phase /\ pending = {}
        /\ obj' = obj + 1 /\ pending' = Refs(linked[obj + 1])
        /\ UNCHANGED <<build, linked, bound, base>>
    BY <1>7 DEF NextObject
  <2>2. \A i \in 1 .. obj' : i = obj + 1 \/ i \in 1 .. obj
    BY <2>1 DEF TypeOK
  <2>3. \A o, n : Settled(o, n)' <=> Settled(o, n)
    BY <2>1 DEF Settled
  <2>4. \A o : Refs(o)' = Refs(o)
    BY <2>1, BuildFrame
  <2>5. \A o \in Linked, n \in Names : bound[o][n] # None => BoundWell(o, n, bound[o][n])'
    BY <2>1, BoundFrame DEF Binding
  <2>6. Linked' = Linked
    BY <2>1 DEF Linked
  <2> QED BY <2>1, <2>2, <2>3, <2>4, <2>5, <2>6 DEF Binding
<1>8. CASE Finish
  <2>1. /\ phase = "relocate" /\ phase' = "end" /\ pending = {} /\ obj = Len(linked)
        /\ UNCHANGED <<build, linked, bound, base>>
    BY <1>8 DEF Finish
  <2>2. \A o \in Linked : \A n \in Refs(o) : Settled(o, n)
    BY <2>1 DEF Binding, Linked
  <2>3. \A o, n : Settled(o, n)' <=> Settled(o, n)
    BY <2>1 DEF Settled
  <2>4. \A o : Refs(o)' = Refs(o)
    BY <2>1, BuildFrame
  <2>5. \A o \in Linked, n \in Names : bound[o][n] # None => BoundWell(o, n, bound[o][n])'
    BY <2>1, BoundFrame DEF Binding
  <2>6. Linked' = Linked
    BY <2>1 DEF Linked
  <2> QED BY <2>1, <2>2, <2>3, <2>4, <2>5, <2>6 DEF Binding
<1>9. CASE UNCHANGED vars
  <2>1. UNCHANGED <<build, phase, linked, obj, pending, bound, base, error>>
    BY <1>9 DEF vars
  <2>3. \A o, n : Settled(o, n)' <=> Settled(o, n)
    BY <2>1 DEF Settled
  <2>4. \A o : Refs(o)' = Refs(o)
    BY <2>1, BuildFrame
  <2>5. \A o \in Linked, n \in Names : bound[o][n] # None => BoundWell(o, n, bound[o][n])'
    BY <2>1, BoundFrame DEF Binding
  <2>6. Linked' = Linked
    BY <2>1 DEF Linked
  <2> QED BY <2>1, <2>3, <2>4, <2>5, <2>6 DEF Binding
<1> QED BY <1>1, <1>2, <1>3, <1>4, <1>5, <1>6, <1>7, <1>8, <1>9 DEF Next

LEMMA BindingInit == Init => Binding
<1> SUFFICES ASSUME Init PROVE Binding
  OBVIOUS
<1>1. \A o \in Linked : o \in Objects
  BY InitType, LinkedObjects DEF Linked
<1> QED BY <1>1 DEF Init, Binding

LEMMA BindingReferences == Binding => ReferencesBind
BY DEF Binding, BoundWell, Settled, ReferencesBind, Refs

(* For every build, whatever names the objects, the archives and the libraries
   share: a relocation is bound to the one global definition of its name if
   there is one, else to the object's own local, and to an import only if a
   library has the name; and when link succeeds no relocation of a section of
   the image is left unbound.                                               *)
THEOREM ReferencesBindAlways == Spec => []ReferencesBind
<1>1. Init => TypeOK /\ Control
  BY InitType
<1>2. TypeOK /\ Control /\ [Next]_vars => TypeOK' /\ Control'
  BY TypeStep
<1>3. Init => Extraction /\ ExtractionIsNeeded
  BY ExtractionInit
<1>4. TypeOK /\ Control /\ Extraction /\ ExtractionIsNeeded /\ [Next]_vars
        => Extraction' /\ ExtractionIsNeeded'
  BY ExtractionStep
<1>5. Init => SymbolsSound /\ Binding
  BY SymbolsInit, BindingInit
<1>6. TypeOK /\ Control /\ Extraction /\ SymbolsSound /\ Binding /\ [Next]_vars
        => SymbolsSound' /\ Binding'
  BY SymbolsStep, BindingStep
<1>7. Binding => ReferencesBind
  BY BindingReferences
<1> QED BY <1>1, <1>2, <1>3, <1>4, <1>5, <1>6, <1>7, PTL DEF Spec

-----------------------------------------------------------------------------
(* Layout.  A piece is placed behind everything that its section holds, a
   section behind the last one; .text then grows by the stub and the thunks.  *)
PieceEnd(o, s) == place[o][s] + Size(o, s)

Thunked == {n \in Names : thunk[n] # None}

Grown == (IF stub = None THEN 0 ELSE StubSize) + ThunkSize * Cardinality(Thunked)

(* The section that is laid out, and those that are still to come.           *)
Underway ==
  /\ \A o \in Objects : place[o][sec] # None => offset > 0 /\ PieceEnd(o, sec) <= offset
  /\ offset > 0 => \E o \in Objects : place[o][sec] # None /\ PieceEnd(o, sec) = offset
  /\ \A s \in sec + 1 .. Placed, o \in Objects : place[o][s] = None
  /\ \A s \in sec .. Placed : base[s] = None /\ length[s] = 0
  /\ \A s \in 1 .. sec - 1 : base[s] # None => base[s] + length[s] <= vma

(* .text was m bytes long when it had been laid out.                         *)
TextLaid(m) ==
  /\ length[Text] = m + Grown
  /\ \A o \in Objects : place[o][Text] # None => PieceEnd(o, Text) <= m
  /\ base[Text] # None => \E o \in Objects : place[o][Text] # None /\ PieceEnd(o, Text) = m
  /\ \A t \in 2 .. Placed : base[Text] # None /\ base[t] # None => base[Text] + m <= base[t]
  /\ stub # None => stub = m
  /\ \A n \in Thunked :
       /\ m <= thunk[n] /\ thunk[n] + ThunkSize <= length[Text]
       /\ stub # None => stub + StubSize <= thunk[n]

PiecesApart ==
  \A s \in 1 .. Placed, o, p \in Objects :
    (o # p /\ place[o][s] # None /\ place[p][s] # None) =>
      Apart(place[o][s], Size(o, s), place[p][s], Size(p, s))

ThunksApart ==
  \A n, p \in Thunked : n # p => Apart(thunk[n], ThunkSize, thunk[p], ThunkSize)

SectionsApart ==
  \A s \in 2 .. Placed, t \in 1 .. Placed :
    (s < t /\ base[s] # None /\ base[t] # None) => base[s] + length[s] <= base[t]

Layout ==
  /\ PiecesApart /\ ThunksApart /\ SectionsApart
  /\ Thunked \subseteq Imports
  /\ phase \in {"round", "visit", "check"} =>
       offset = 0 /\ \A o \in Objects, s \in Sections : place[o][s] = None
  /\ phase \in {"round", "visit", "check", "place"} => Underway
  /\ phase \notin {"relocate", "end"} => stub = None /\ Thunked = {}
  /\ (phase = "place" /\ sec = Text) \/ \E m \in Nat : TextLaid(m)

LEMMA AlignUpBehind ==
  ASSUME NEW x \in Nat, NEW a \in Nat \ {0}
  PROVE  AlignUp(x, a) \in Nat /\ x <= AlignUp(x, a)
<1> DEFINE y == x + a - 1
<1>1. y \in Nat /\ y + 1 = x + a
  OBVIOUS
<1> HIDE DEF y
<1>2. /\ y \div a \in Nat /\ y % a \in Nat /\ y % a < a
      /\ y = a * (y \div a) + (y % a)
  BY <1>1, SMT
<1>3. a * (y \div a) = (y \div a) * a /\ a * (y \div a) \in Nat
  BY <1>2
<1>4. x <= a * (y \div a)
  BY <1>1, <1>2, <1>3
<1> QED BY <1>3, <1>4 DEF AlignUp, y

LEMMA ThunkedFinite ==
  /\ IsFiniteSet(Thunked) /\ IsFiniteSet(Imports)
  /\ Cardinality(Thunked) \in Nat /\ Cardinality(Imports) \in Nat
  /\ ThunkSize * Cardinality(Thunked) \in Nat /\ Grown \in Nat
<1>1. IsFiniteSet(Names)
  BY LinkerAssumption
<1>2. Thunked \subseteq Names /\ Imports \subseteq Names
  BY DEF Thunked, Imports
<1>3. IsFiniteSet(Thunked) /\ IsFiniteSet(Imports)
  BY <1>1, <1>2, FS_Subset
<1>4. Cardinality(Thunked) \in Nat /\ Cardinality(Imports) \in Nat
  BY <1>3, FS_CardinalityType
<1>5. ThunkSize * Cardinality(Thunked) \in Nat
  BY <1>4, Numbers
<1> QED BY <1>3, <1>4, <1>5, Numbers DEF Grown

LEMMA LayoutInit == Init => Layout
<1> SUFFICES ASSUME Init PROVE Layout
  OBVIOUS
<1>1. Thunked = {}
  BY DEF Init, Thunked
<1>2. \A o \in Objects, s \in Sections : place[o][s] = None
  BY DEF Init
<1>3. \A s \in Sections : base[s] = None /\ length[s] = 0
  BY DEF Init
<1>4. \A s \in 1 .. Placed : s \in Sections
  BY Ranges
<1>5. Cardinality(Thunked) = 0 /\ Grown = 0
  BY <1>1, FS_EmptySet, Numbers DEF Grown, Init
<1>6. TextLaid(0)
  BY <1>1, <1>2, <1>3, <1>5, Ranges DEF TextLaid, Init
<1>7. Underway
  <2>1. sec = 1 /\ offset = 0 /\ sec \in Sections
    BY Ranges, Numbers DEF Init, Sections
  <2>2. \A s \in sec + 1 .. Placed : s \in Sections
    BY <2>1, Numbers DEF Sections
  <2>3. \A s \in sec .. Placed : s \in Sections
    BY <2>1, Numbers DEF Sections
  <2> QED BY <1>2, <1>3, <2>1, <2>2, <2>3 DEF Underway
<1>8. PiecesApart /\ SectionsApart
  <2>1. \A s \in 2 .. Placed : s \in Sections
    BY Numbers DEF Sections
  <2> QED BY <1>2, <1>3, <1>4, <2>1 DEF PiecesApart, SectionsApart
<1> QED BY <1>1, <1>2, <1>6, <1>7, <1>8 DEF Layout, ThunksApart, Init

LEMMA FrameDefs ==
  ASSUME UNCHANGED <<build, place, base, length, stub, thunk>>
  PROVE  /\ Thunked' = Thunked /\ Grown' = Grown
         /\ \A o, s : PieceEnd(o, s)' = PieceEnd(o, s) /\ Size(o, s)' = Size(o, s)
         /\ \A m : TextLaid(m)' <=> TextLaid(m)
         /\ (PiecesApart' <=> PiecesApart) /\ (ThunksApart' <=> ThunksApart)
         /\ (SectionsApart' <=> SectionsApart)
<1>1. Thunked' = Thunked
  BY DEF Thunked
<1>2. \A o, s : Size(o, s)' = Size(o, s)
  BY DEF Size
<1>3. \A o, s : PieceEnd(o, s)' = PieceEnd(o, s)
  BY <1>2 DEF PieceEnd
<1>4. Grown' = Grown
  BY <1>1 DEF Grown
<1>5. \A m : TextLaid(m)' <=> TextLaid(m)
  BY <1>1, <1>3, <1>4 DEF TextLaid
<1>6. PiecesApart' <=> PiecesApart
  BY <1>2 DEF PiecesApart
<1>7. ThunksApart' <=> ThunksApart
  BY <1>1 DEF ThunksApart
<1>8. SectionsApart' <=> SectionsApart
  BY DEF SectionsApart
<1> QED BY <1>1, <1>2, <1>3, <1>4, <1>5, <1>6, <1>7, <1>8

LEMMA ImportsFrame == ASSUME UNCHANGED <<build, linked>> PROVE Imports' = Imports
BY LinkedFrame DEF Imports

(* Steps that lay nothing out.                                              *)
LEMMA LayoutFrame ==
  ASSUME Layout, UNCHANGED <<build, place, base, length, stub, thunk, offset, vma, sec>>,
         Thunked = {} \/ UNCHANGED linked,
         phase' \in {"round", "visit", "check"} => phase \in {"round", "visit", "check"},
         phase' = "place" => phase \in {"round", "visit", "check", "place"},
         phase' \notin {"relocate", "end"} => phase \notin {"relocate", "end"},
         phase = "place" => phase' = "place"
  PROVE  Layout'
<1>1. /\ Thunked' = Thunked
      /\ \A o, s : PieceEnd(o, s)' = PieceEnd(o, s)
      /\ \A m : TextLaid(m)' <=> TextLaid(m)
      /\ (PiecesApart' <=> PiecesApart) /\ (ThunksApart' <=> ThunksApart)
      /\ (SectionsApart' <=> SectionsApart)
  BY FrameDefs
<1>2. Thunked' \subseteq Imports'
  BY <1>1, ImportsFrame DEF Layout
<1>3. Underway' <=> Underway
  BY <1>1 DEF Underway
<1> QED BY <1>1, <1>2, <1>3 DEF Layout

(* A piece begins behind the pieces of its section.                          *)
LEMMA PlaceLayout ==
  ASSUME TypeOK, Control, Layout, PlacePiece
  PROVE  Layout'
<1> DEFINE o == linked[obj]
           at == AlignUp(offset, Align)
<1>1. /\ phase = "place" /\ phase' = phase /\ obj <= Len(linked)
      /\ UNCHANGED <<build, linked, sec, vma, base, length, stub, thunk>>
  BY DEF PlacePiece, extraction
<1>2. obj \in 1 .. Len(linked) /\ sec \in 1 .. Placed
  BY <1>1 DEF Control, TypeOK
<1>3. o \in Objects /\ sec \in Sections
  BY <1>2, LinkedObjects, Ranges
<1>4. CASE Size(o, sec) = 0
  <2>1. UNCHANGED <<place, offset>>
    BY <1>4 DEF PlacePiece
  <2> QED BY <1>1, <2>1, LayoutFrame
<1>5. CASE Size(o, sec) # 0
  <2>1. place' = [place EXCEPT ![o][sec] = at] /\ offset' = at + Size(o, sec)
    BY <1>5 DEF PlacePiece
  <2>2. offset \in Nat /\ at \in Nat /\ offset <= at /\ Size(o, sec) \in Nat
    BY <1>3, AlignUpBehind, Numbers, ObjectParts DEF TypeOK
  <2>3. \A p \in Objects, s \in Sections :
          place'[p][s] = IF p = o /\ s = sec THEN at ELSE place[p][s]
    BY <1>3, <2>1 DEF TypeOK
  <2>4. \A p, s : Size(p, s)' = Size(p, s)
    BY <1>1 DEF Size
  <2>5. at # None /\ offset' \in Nat /\ offset' > 0
    BY <1>5, <2>1, <2>2, EntryFacts
  <2> HIDE DEF o, at
  <2>6. \A p \in Objects : place[p][sec] # None => PieceEnd(p, sec) <= offset
    BY <1>1 DEF Layout, Underway
  <2>7. \A p \in Objects, s \in Sections :
          place'[p][s] + Size(p, s) = IF p = o /\ s = sec THEN offset' ELSE PieceEnd(p, s)
    BY <2>1, <2>3, <2>4 DEF PieceEnd
  <2>8. \A p \in Objects, s \in Sections : place[p][s] # None => place[p][s] \in Nat /\ PieceEnd(p, s) \in Nat
    BY ObjectParts DEF TypeOK, PieceEnd
  <2>9. PiecesApart'
    <3> SUFFICES ASSUME NEW s \in 1 .. Placed, NEW p \in Objects, NEW q \in Objects,
                        p # q, place'[p][s] # None, place'[q][s] # None
                 PROVE  Apart(place'[p][s], Size(p, s), place'[q][s], Size(q, s))
      BY <2>4 DEF PiecesApart
    <3>0. s \in Sections
      BY Ranges
    <3>1. CASE s # sec \/ (p # o /\ q # o)
      <4>1. place'[p][s] = place[p][s] /\ place'[q][s] = place[q][s]
        BY <2>3, <3>0, <3>1
      <4> QED BY <4>1 DEF Layout, PiecesApart
    <3>2. CASE s = sec /\ p = o
      <4>1. place'[p][s] = at /\ place'[q][s] = place[q][s]
        BY <2>3, <3>0, <3>2
      <4>2. place[q][s] + Size(q, s) <= offset /\ place[q][s] + Size(q, s) \in Nat
        BY <2>6, <2>8, <3>0, <3>2, <4>1 DEF PieceEnd
      <4> QED BY <2>2, <4>1, <4>2 DEF Apart
    <3>3. CASE s = sec /\ q = o
      <4>1. place'[q][s] = at /\ place'[p][s] = place[p][s]
        BY <2>3, <3>0, <3>3
      <4>2. place[p][s] + Size(p, s) <= offset /\ place[p][s] + Size(p, s) \in Nat
        BY <2>6, <2>8, <3>0, <3>3, <4>1 DEF PieceEnd
      <4> QED BY <2>2, <4>1, <4>2 DEF Apart
    <3> QED BY <3>1, <3>2, <3>3
  <2>10. Underway'
    <3>1. \A p \in Objects : place'[p][sec] # None => offset' > 0 /\ place'[p][sec] + Size(p, sec) <= offset'
      <4> SUFFICES ASSUME NEW p \in Objects, place'[p][sec] # None, p # o
                   PROVE  place'[p][sec] + Size(p, sec) <= offset'
        BY <1>3, <2>5, <2>7
      <4>1. place[p][sec] # None /\ place'[p][sec] + Size(p, sec) = PieceEnd(p, sec)
        BY <1>3, <2>3, <2>7
      <4>2. PieceEnd(p, sec) <= offset /\ PieceEnd(p, sec) \in Nat
        BY <1>3, <2>6, <2>8, <4>1
      <4> QED BY <2>1, <2>2, <4>1, <4>2
    <3>2. place'[o][sec] # None /\ place'[o][sec] + Size(o, sec) = offset'
      BY <1>3, <2>3, <2>5, <2>7
    <3>3. \A s \in sec + 1 .. Placed, p \in Objects : place'[p][s] = None
      <4> SUFFICES ASSUME NEW s \in sec + 1 .. Placed, NEW p \in Objects PROVE place'[p][s] = None
        OBVIOUS
      <4>1. s \in Sections /\ s # sec
        BY <1>2, Numbers DEF Sections
      <4>2. place[p][s] = None
        BY <1>1 DEF Layout, Underway
      <4> QED BY <2>3, <4>1, <4>2
    <3>4. /\ \A s \in sec .. Placed : base[s] = None /\ length[s] = 0
          /\ \A s \in 1 .. sec - 1 : base[s] # None => base[s] + length[s] <= vma
      BY <1>1 DEF Layout, Underway
    <3> QED BY <1>1, <1>3, <2>4, <3>1, <3>2, <3>3, <3>4 DEF Underway, PieceEnd, Size
  <2>11. Thunked' = Thunked /\ Imports' = Imports /\ Grown' = Grown
    BY <1>1, ImportsFrame DEF Thunked, Grown
  <2>12. ThunksApart' /\ SectionsApart'
    BY <1>1, <2>11 DEF Layout, ThunksApart, SectionsApart
  <2>13. sec # Text => \E m \in Nat : TextLaid(m)'
    <3> SUFFICES ASSUME sec # Text PROVE \E m \in Nat : TextLaid(m)'
      OBVIOUS
    <3>1. PICK m \in Nat : TextLaid(m)
      BY DEF Layout
    <3>2. \A p \in Objects : place'[p][Text] = place[p][Text] /\ PieceEnd(p, Text)' = PieceEnd(p, Text)
      BY <2>3, <2>4, Ranges DEF PieceEnd
    <3>3. TextLaid(m)'
      BY <1>1, <2>11, <3>1, <3>2 DEF TextLaid
    <3> QED BY <3>3
  <2> QED BY <1>1, <2>9, <2>10, <2>11, <2>12, <2>13 DEF Layout
<1> QED BY <1>4, <1>5

(* A section begins behind the end of the last one.                         *)
LEMMA SectionLayout ==
  ASSUME TypeOK, Control, Layout, EndSection
  PROVE  Layout'
<1>1. /\ phase = "place" /\ sec' = sec + 1 /\ offset' = 0 /\ phase' \in {"resolve", "place"}
      /\ phase' = "place" => sec # Placed
      /\ UNCHANGED <<build, linked, place, stub, thunk>>
  BY DEF EndSection, extraction
<1>2. sec \in 1 .. Placed /\ sec \in Sections /\ sec \in Nat
  BY <1>1, Ranges, Numbers DEF Control
<1>3. Underway /\ stub = None /\ Thunked = {}
  BY <1>1 DEF Layout
<1>4. /\ Thunked' = Thunked /\ Imports' = Imports /\ Grown' = Grown /\ Grown = 0
      /\ \A o, s : PieceEnd(o, s)' = PieceEnd(o, s) /\ Size(o, s)' = Size(o, s)
      /\ PiecesApart' /\ ThunksApart'
  <2>1. Thunked' = Thunked /\ Imports' = Imports /\ Grown' = Grown
    BY <1>1, ImportsFrame DEF Thunked, Grown
  <2>2. Grown = 0
    BY <1>3, FS_EmptySet, Numbers DEF Grown
  <2>3. \A o, s : PieceEnd(o, s)' = PieceEnd(o, s) /\ Size(o, s)' = Size(o, s)
    BY <1>1 DEF PieceEnd, Size
  <2>4. PiecesApart' /\ ThunksApart'
    BY <1>1, <2>1, <2>3 DEF Layout, PiecesApart, ThunksApart
  <2> QED BY <2>1, <2>2, <2>3, <2>4
<1>5. /\ vma \in Nat /\ offset \in Nat /\ vma + offset <= AlignUp(vma + offset, Page)
      /\ AlignUp(vma + offset, Page) \in Nat
  <2>1. vma \in Nat /\ offset \in Nat /\ vma + offset \in Nat
    BY DEF TypeOK
  <2> QED BY <2>1, AlignUpBehind, Numbers
<1>6. /\ \A s \in Sections : base[s] # None => base[s] \in Nat
      /\ \A s \in Sections : length[s] \in Nat
  BY DEF TypeOK
<1>7. SectionsApart' /\ (phase' = "place" => Underway') /\ \E m \in Nat : TextLaid(m)'
  <2>1. CASE offset = 0
    <3>1. UNCHANGED <<base, length, vma>>
      BY <2>1 DEF EndSection
    <3>2. SectionsApart'
      BY <3>1 DEF Layout, SectionsApart
    <3>3. ASSUME sec # Placed PROVE Underway'
      <4>1. \A o \in Objects, s \in sec + 1 .. Placed : place[o][s] = None
        BY <1>3 DEF Underway
      <4>2. \A s \in sec .. Placed : base[s] = None /\ length[s] = 0
        BY <1>3 DEF Underway
      <4>3. \A s \in 1 .. sec : base[s] # None => base[s] + length[s] <= vma
        <5>1. \A s \in 1 .. sec : s = sec \/ s \in 1 .. sec - 1
          BY <1>2
        <5>2. base[sec] = None
          BY <1>2, <4>2
        <5> QED BY <1>3, <5>1, <5>2 DEF Underway
      <4>4. \A o \in Objects : place[o][sec + 1] = None
        BY <1>2, <3>3, <4>1, Numbers
      <4>5. \A s \in sec + 1 .. Placed : base[s] = None /\ length[s] = 0
        BY <1>2, <4>2, Numbers
      <4>6. \A o \in Objects, s \in (sec + 1) + 1 .. Placed : place[o][s] = None
        BY <1>2, <4>1, Numbers
      <4>7. (sec + 1) - 1 = sec
        BY <1>2
      <4> QED BY <1>1, <1>2, <3>1, <4>3, <4>4, <4>5, <4>6, <4>7 DEF Underway
    <3>4. \E m \in Nat : TextLaid(m)'
      <4>1. CASE sec = Text
        <5>1. base[Text] = None /\ length[Text] = 0
          BY <1>2, <1>3, <4>1 DEF Underway
        <5>2. \A o \in Objects : place[o][Text] = None
          BY <1>3, <2>1, <4>1 DEF Underway
        <5>3. TextLaid(0)'
          BY <1>1, <1>3, <1>4, <3>1, <5>1, <5>2 DEF TextLaid
        <5> QED BY <5>3
      <4>2. CASE sec # Text
        <5>1. PICK m \in Nat : TextLaid(m)
          BY <4>2 DEF Layout
        <5>2. TextLaid(m)'
          BY <1>1, <1>4, <3>1, <5>1 DEF TextLaid
        <5> QED BY <5>2
      <4> QED BY <4>1, <4>2
    <3> QED BY <1>1, <3>2, <3>3, <3>4
  <2>2. CASE offset # 0
    <3>1. /\ base' = [base EXCEPT ![sec] = vma] /\ length' = [length EXCEPT ![sec] = offset]
          /\ vma' = AlignUp(vma + offset, Page)
      BY <2>2 DEF EndSection
    <3>2. \A s \in Sections : /\ base'[s] = IF s = sec THEN vma ELSE base[s]
                             /\ length'[s] = IF s = sec THEN offset ELSE length[s]
      BY <1>2, <3>1 DEF TypeOK
    <3>3. \A s \in 1 .. Placed : s \in Sections
      BY Ranges
    <3>4. \A s \in 1 .. sec - 1 : base[s] # None => base[s] + length[s] <= vma
      BY <1>3 DEF Underway
    <3>5. \A s \in sec .. Placed : base[s] = None /\ length[s] = 0
      BY <1>3 DEF Underway
    <3>6. SectionsApart'
      <4> SUFFICES ASSUME NEW s \in 2 .. Placed, NEW u \in 1 .. Placed, s < u,
                          base'[s] # None, base'[u] # None
                   PROVE  base'[s] + length'[s] <= base'[u]
        BY DEF SectionsApart
      <4>1. s \in Sections /\ u \in Sections /\ s \in 1 .. Placed
        BY <3>3
      <4>2. ~(sec < u)
        BY <1>2, <3>2, <3>5, <4>1
      <4>3. CASE u = sec
        <5>1. s \in 1 .. sec - 1 /\ base'[s] = base[s] /\ length'[s] = length[s] /\ base'[u] = vma
          BY <1>2, <3>2, <4>1, <4>3
        <5> QED BY <3>4, <5>1
      <4>4. CASE u < sec
        <5>1. base'[s] = base[s] /\ length'[s] = length[s] /\ base'[u] = base[u]
          BY <1>2, <3>2, <4>1, <4>4
        <5> QED BY <5>1 DEF Layout, SectionsApart
      <4> QED BY <1>2, <4>2, <4>3, <4>4
    <3>7. ASSUME sec # Placed PROVE Underway'
      <4>1. \A o \in Objects, s \in sec + 1 .. Placed : place[o][s] = None
        BY <1>3 DEF Underway
      <4>2. \A s \in sec + 1 .. Placed : base'[s] = None /\ length'[s] = 0
        <5> SUFFICES ASSUME NEW s \in sec + 1 .. Placed PROVE base'[s] = None /\ length'[s] = 0
          OBVIOUS
        <5>1. s \in Sections /\ s # sec /\ s \in sec .. Placed
          BY <1>2, Numbers DEF Sections
        <5> QED BY <3>2, <3>5, <5>1
      <4>3. \A s \in 1 .. sec : base'[s] # None => base'[s] + length'[s] <= vma'
        <5> SUFFICES ASSUME NEW s \in 1 .. sec, base'[s] # None PROVE base'[s] + length'[s] <= vma'
          OBVIOUS
        <5>1. s \in Sections
          BY <1>2, Numbers DEF Sections
        <5>2. CASE s = sec
          BY <1>5, <3>1, <3>2, <5>1, <5>2
        <5>3. CASE s # sec
          <6>1. s \in 1 .. sec - 1 /\ base'[s] = base[s] /\ length'[s] = length[s]
            BY <1>2, <3>2, <5>1, <5>3
          <6>2. base[s] + length[s] <= vma /\ base[s] + length[s] \in Nat
            BY <1>6, <3>4, <5>1, <6>1
          <6> QED BY <1>5, <3>1, <6>1, <6>2
        <5> QED BY <5>2, <5>3
      <4>4. \A o \in Objects : place[o][sec + 1] = None
        BY <1>2, <3>7, <4>1, Numbers
      <4> QED BY <1>1, <1>2, <4>1, <4>2, <4>3, <4>4 DEF Underway
    <3>8. \E m \in Nat : TextLaid(m)'
      <4>1. CASE sec = Text
        <5>1. base'[Text] = vma /\ length'[Text] = offset
          BY <1>2, <3>2, <4>1
        <5>2. \A u \in 2 .. Placed : base'[u] = None
          <6> SUFFICES ASSUME NEW u \in 2 .. Placed PROVE base'[u] = None
            OBVIOUS
          <6>1. u \in Sections /\ u # sec /\ u \in sec .. Placed
            BY <4>1, Numbers DEF Sections, Text
          <6> QED BY <3>2, <3>5, <6>1
        <5>3. /\ \A o \in Objects : place[o][Text] # None => PieceEnd(o, Text) <= offset
              /\ \E o \in Objects : place[o][Text] # None /\ PieceEnd(o, Text) = offset
          BY <1>3, <1>5, <2>2, <4>1 DEF Underway
        <5>4. PICK m \in Nat : m = offset
          BY <1>5
        <5>5. TextLaid(m)'
          <6>1. length'[Text] = m + 0
            BY <5>1, <5>4
          <6>2. /\ \A o \in Objects : place'[o][Text] # None => place'[o][Text] + Size(o, Text)' <= m
                /\ \E o \in Objects : place'[o][Text] # None /\ place'[o][Text] + Size(o, Text)' = m
            BY <1>1, <1>4, <5>3, <5>4 DEF PieceEnd
          <6> QED BY <1>1, <1>3, <1>4, <5>2, <6>1, <6>2 DEF TextLaid, PieceEnd
        <5> QED BY <5>5
      <4>2. CASE sec # Text
        <5>1. PICK m \in Nat : TextLaid(m)
          BY <4>2 DEF Layout
        <5>2. base'[Text] = base[Text] /\ length'[Text] = length[Text] /\ length[Text] = m
          BY <1>4, <3>2, <4>2, <5>1, Ranges DEF TextLaid
        <5>3. ASSUME NEW u \in 2 .. Placed, base[Text] # None, base'[u] # None
              PROVE  base[Text] + m <= base'[u]
          <6>1. u \in Sections
            BY <3>3
          <6>2. CASE u = sec
            <7>1. Text \in 1 .. sec - 1
              BY <1>2, <4>2 DEF Text
            <7> QED BY <3>2, <3>4, <5>2, <5>3, <6>1, <6>2, <7>1
          <6>3. CASE u # sec
            BY <3>2, <5>1, <5>3, <6>1, <6>3 DEF TextLaid
          <6> QED BY <6>2, <6>3
        <5>4. TextLaid(m)'
          BY <1>1, <1>4, <5>1, <5>2, <5>3 DEF TextLaid
        <5> QED BY <5>4
      <4> QED BY <4>1, <4>2
    <3> QED BY <1>1, <3>6, <3>7, <3>8
  <2> QED BY <2>1, <2>2
<1> QED BY <1>1, <1>3, <1>4, <1>7 DEF Layout

(* The stub is put behind the pieces of .text.                               *)
LEMMA StubLayout ==
  ASSUME TypeOK, Control, Layout, AddStart
  PROVE  Layout'
<1>1. /\ phase = "start" /\ phase' = "relocate"
      /\ UNCHANGED <<build, linked, sec, offset, vma, base, place, thunk>>
  BY DEF AddStart, extraction, layout
<1>2. stub = None /\ Thunked = {}
  BY <1>1 DEF Layout
<1>3. PICK m \in Nat : TextLaid(m)
  BY <1>1 DEF Layout
<1>4. Cardinality(Thunked) = 0 /\ Grown = 0
  BY <1>2, FS_EmptySet, Numbers DEF Grown
<1>5. length[Text] = m
  BY <1>3, <1>4 DEF TextLaid
<1>6. /\ Thunked' = Thunked /\ Imports' = Imports
      /\ \A o, s : PieceEnd(o, s)' = PieceEnd(o, s) /\ Size(o, s)' = Size(o, s)
  BY <1>1, ImportsFrame DEF Thunked, PieceEnd, Size
<1>7. \/ stub' = None /\ length' = length
      \/ stub' = m /\ length' = [length EXCEPT ![Text] = @ + StubSize]
  BY <1>2, <1>5 DEF AddStart
<1>8. /\ length'[Text] = m + Grown' /\ (stub' # None => stub' = m)
      /\ \A s \in 2 .. Placed : length'[s] = length[s]
  <2>1. \A s \in 2 .. Placed : s \in Sections /\ s # Text
    BY Numbers DEF Sections, Text
  <2>2. Cardinality(Thunked') = 0 /\ ThunkSize * 0 = 0 /\ StubSize + 0 = StubSize /\ m # None
    BY <1>4, <1>6, Numbers, EntryFacts
  <2>3. CASE stub' = None /\ length' = length
    BY <1>5, <2>2, <2>3 DEF Grown
  <2>4. CASE stub' = m /\ length' = [length EXCEPT ![Text] = @ + StubSize]
    <3>1. length'[Text] = m + StubSize
      BY <1>5, <2>4, Ranges DEF TypeOK
    <3>2. Grown' = StubSize
      BY <2>2, <2>4 DEF Grown
    <3> QED BY <2>1, <2>4, <3>1, <3>2 DEF TypeOK
  <2> QED BY <1>7, <2>3, <2>4
<1>9. TextLaid(m)'
  BY <1>1, <1>2, <1>3, <1>6, <1>8 DEF TextLaid
<1>10. PiecesApart' /\ ThunksApart' /\ SectionsApart'
  BY <1>1, <1>6, <1>8 DEF Layout, PiecesApart, ThunksApart, SectionsApart
<1> QED BY <1>1, <1>2, <1>6, <1>9, <1>10 DEF Layout

(* A thunk is put behind all that .text holds.                               *)
LEMMA ThunkLayout ==
  ASSUME TypeOK, Control, SymbolsSound, Layout, NEW n \in Names, BindThunk(n)
  PROVE  Layout'
<1>1. /\ phase = "relocate" /\ phase' = phase
      /\ UNCHANGED <<build, linked, sec, offset, vma, base, place, stub>>
  BY DEF BindThunk, Imported, Relocating, Bind, extraction, layout
<1>2. CASE thunk[n] # None
  <2>1. UNCHANGED <<length, thunk>>
    BY <1>2 DEF BindThunk
  <2> QED BY <1>1, <2>1, LayoutFrame
<1>3. CASE thunk[n] = None
  <2> DEFINE end == length[Text]
  <2>1. thunk' = [thunk EXCEPT ![n] = end] /\ length' = [length EXCEPT ![Text] = @ + ThunkSize]
    BY <1>3 DEF BindThunk
  <2>2. end \in Nat /\ end # None /\ end + ThunkSize \in Nat
    BY Numbers, Ranges, EntryFacts DEF TypeOK
  <2>3. length'[Text] = end + ThunkSize /\ \A s \in 2 .. Placed : length'[s] = length[s]
    <3>1. \A s \in 2 .. Placed : s \in Sections /\ s # Text
      BY Numbers DEF Sections, Text
    <3> QED BY <2>1, <3>1, Ranges DEF TypeOK
  <2>4. \A p \in Names : thunk'[p] = IF p = n THEN end ELSE thunk[p]
    BY <2>1 DEF TypeOK
  <2> HIDE DEF end
  <2>5. n \notin Thunked /\ Thunked' = Thunked \cup {n}
    BY <1>3, <2>2, <2>4 DEF Thunked
  <2>6. n \in Imports
    <3>1. symbols[n] = None /\ build.imports[n] = "function"
      BY DEF BindThunk, Imported
    <3>2. n \notin DefinedGlobals
      BY <1>1, <3>1 DEF SymbolsSound, Seen, DefinedGlobals
    <3> QED BY <3>1, <3>2 DEF Imports
  <2>7. PICK m \in Nat : TextLaid(m)
    BY <1>1 DEF Layout
  <2>8. Imports' = Imports /\ \A o, s : PieceEnd(o, s)' = PieceEnd(o, s) /\ Size(o, s)' = Size(o, s)
    BY <1>1, ImportsFrame DEF PieceEnd, Size
  <2>9. Grown' = Grown + ThunkSize
    <3> DEFINE c == Cardinality(Thunked)
               k == IF stub = None THEN 0 ELSE StubSize
    <3>1. c \in Nat /\ Cardinality(Thunked') = c + 1
      BY <2>5, ThunkedFinite, FS_AddElement
    <3>2. Grown' = k + ThunkSize * (c + 1) /\ Grown = k + ThunkSize * c
      BY <1>1, <3>1 DEF Grown
    <3>3. k \in Nat /\ ThunkSize \in Nat
      BY Numbers
    <3> HIDE DEF c, k
    <3>4. ThunkSize * (c + 1) = ThunkSize * c + ThunkSize /\ ThunkSize * c \in Nat
      BY <3>1, <3>3
    <3> QED BY <3>2, <3>3, <3>4
  <2>10. /\ \A p \in Thunked : thunk[p] \in Nat /\ thunk'[p] = thunk[p]
         /\ thunk'[n] = end
         /\ stub # None => stub \in Nat
    BY <2>4, <2>5 DEF Thunked, TypeOK
  <2>11. Grown \in Nat /\ m + Grown = end /\ (stub # None => stub = m /\ StubSize <= Grown)
    <3>1. Grown \in Nat /\ ThunkSize * Cardinality(Thunked) \in Nat
      BY ThunkedFinite
    <3>2. stub # None => StubSize <= Grown
      BY <3>1, Numbers DEF Grown
    <3> QED BY <2>7, <3>1, <3>2 DEF TextLaid, end
  <2>12. \A p \in Thunked : thunk[p] + ThunkSize <= end
    BY <2>7 DEF TextLaid, end
  <2>13. TextLaid(m)'
    <3>1. length'[Text] = m + Grown'
      BY <2>3, <2>9, <2>11, Numbers
    <3>2. \A p \in Thunked' :
            /\ m <= thunk'[p] /\ thunk'[p] + ThunkSize <= length'[Text]
            /\ stub # None => stub + StubSize <= thunk'[p]
      <4> SUFFICES ASSUME NEW p \in Thunked'
                   PROVE  /\ m <= thunk'[p] /\ thunk'[p] + ThunkSize <= length'[Text]
                          /\ stub # None => stub + StubSize <= thunk'[p]
        OBVIOUS
      <4>1. CASE p = n
        BY <2>2, <2>3, <2>10, <2>11, <4>1, Numbers
      <4>2. CASE p \in Thunked
        <5>1. /\ m <= thunk[p] /\ thunk[p] + ThunkSize <= end
              /\ stub # None => stub + StubSize <= thunk[p]
          BY <2>7, <2>12, <4>2 DEF TextLaid
        <5> QED BY <2>2, <2>3, <2>10, <4>2, <5>1, Numbers
      <4> QED BY <2>5, <4>1, <4>2
    <3> QED BY <1>1, <2>7, <2>8, <3>1, <3>2 DEF TextLaid
  <2>14. ThunksApart'
    <3> SUFFICES ASSUME NEW p \in Thunked', NEW q \in Thunked', p # q
                 PROVE  Apart(thunk'[p], ThunkSize, thunk'[q], ThunkSize)
      BY DEF ThunksApart
    <3>1. CASE p \in Thunked /\ q \in Thunked
      BY <2>10, <3>1 DEF Layout, ThunksApart
    <3>2. CASE p = n /\ q \in Thunked
      BY <2>2, <2>10, <2>12, <3>2, Numbers DEF Apart
    <3>3. CASE q = n /\ p \in Thunked
      BY <2>2, <2>10, <2>12, <3>3, Numbers DEF Apart
    <3> QED BY <2>5, <3>1, <3>2, <3>3
  <2>15. PiecesApart' /\ SectionsApart'
    BY <1>1, <2>3, <2>8 DEF Layout, PiecesApart, SectionsApart
  <2> QED BY <1>1, <2>5, <2>6, <2>8, <2>13, <2>14, <2>15 DEF Layout
<1> QED BY <1>2, <1>3

LEMMA LayoutStep ==
  ASSUME TypeOK, Control, SymbolsSound, Layout, [Next]_vars
  PROVE  Layout'
<1> USE DEF extraction, layout, binding
<1>1. CASE StartRound \/ PassOver \/ EndRound
  BY <1>1, LayoutFrame DEF StartRound, PassOver, EndRound
<1>2. CASE Extract
  <2>1. Thunked = {}
    BY <1>2 DEF Extract, Layout
  <2> QED BY <1>2, <2>1, LayoutFrame DEF Extract
<1>3. CASE CheckTargets \/ RefuseTarget \/ ReportDuplicate \/ ResolveSymbols \/ EndResolve
  BY <1>3, LayoutFrame DEF CheckTargets, RefuseTarget, ReportDuplicate, ResolveSymbols, EndResolve, Stop
<1>4. CASE PlacePiece
  BY <1>4, PlaceLayout
<1>5. CASE EndSection
  BY <1>5, SectionLayout
<1>6. CASE AddStart
  BY <1>6, StubLayout
<1>7. ASSUME NEW n \in Names, Relocate(n) PROVE Layout'
  <2>1. CASE BindThunk(n)
    BY <2>1, ThunkLayout
  <2>2. CASE ~BindThunk(n)
    <3>1. /\ UNCHANGED <<build, linked, place, base, length, stub, thunk, offset, vma, sec>>
          /\ phase = "relocate" /\ phase' \in {"relocate", "end"}
      BY <1>7, <2>2 DEF Relocate, Ignore, BindSymbol, BindSection, BindSlot, NoThunk, ReportUnresolved,
           RejectRelocation, Imported, Relocating, Bind, Stop
    <3> QED BY <3>1, LayoutFrame
  <2> QED BY <2>1, <2>2
<1>8. CASE NextObject \/ Finish
  BY <1>8, LayoutFrame DEF NextObject, Finish
<1>9. CASE UNCHANGED vars
  BY <1>9, LayoutFrame DEF vars
<1> QED BY <1>1, <1>2, <1>3, <1>4, <1>5, <1>6, <1>7, <1>8, <1>9 DEF Next

LEMMA LayoutApart ==
  ASSUME TypeOK, Layout
  PROVE  NothingOverlaps
<1>1. \A o \in Objects, s \in Sections :
        Size(o, s) \in Nat /\ (place[o][s] # None => place[o][s] \in Nat /\ PieceEnd(o, s) \in Nat)
  BY ObjectParts DEF TypeOK, PieceEnd
<1>2. \A n \in Names : thunk[n] # None => n \in Thunked /\ thunk[n] \in Nat
  BY DEF Thunked, TypeOK
<1>3. CASE phase = "place" /\ sec = Text
  <2>1. /\ stub = None /\ Thunked = {} /\ Underway
    BY <1>3 DEF Layout
  <2>2. \A s \in 1 .. Placed : base[s] = None
    BY <1>3, <2>1 DEF Underway, Text
  <2> QED BY <1>2, <2>1, <2>2 DEF Layout, PiecesApart, NothingOverlaps
<1>4. ASSUME NEW m \in Nat, TextLaid(m) PROVE NothingOverlaps
  <2>1. \A n \in Names : thunk[n] # None =>
          /\ \A o \in Objects : place[o][Text] # None =>
               Apart(place[o][Text], Size(o, Text), thunk[n], ThunkSize)
          /\ \A p \in Names \ {n} : thunk[p] # None =>
               Apart(thunk[n], ThunkSize, thunk[p], ThunkSize)
          /\ stub # None => Apart(thunk[n], ThunkSize, stub, StubSize)
    <3> SUFFICES ASSUME NEW n \in Names, thunk[n] # None
                 PROVE  /\ \A o \in Objects : place[o][Text] # None =>
                             Apart(place[o][Text], Size(o, Text), thunk[n], ThunkSize)
                        /\ \A p \in Names \ {n} : thunk[p] # None =>
                             Apart(thunk[n], ThunkSize, thunk[p], ThunkSize)
                        /\ stub # None => Apart(thunk[n], ThunkSize, stub, StubSize)
      OBVIOUS
    <3>1. n \in Thunked /\ thunk[n] \in Nat /\ m <= thunk[n]
      BY <1>2, <1>4 DEF TextLaid
    <3>2. ASSUME NEW o \in Objects, place[o][Text] # None
          PROVE  Apart(place[o][Text], Size(o, Text), thunk[n], ThunkSize)
      <4>1. place[o][Text] + Size(o, Text) <= m /\ place[o][Text] + Size(o, Text) \in Nat
        BY <1>1, <1>4, <3>2, Ranges DEF TextLaid, PieceEnd
      <4> QED BY <3>1, <4>1 DEF Apart
    <3>3. \A p \in Names \ {n} : thunk[p] # None => Apart(thunk[n], ThunkSize, thunk[p], ThunkSize)
      BY <1>2, <3>1 DEF Layout, ThunksApart
    <3>4. stub # None => Apart(thunk[n], ThunkSize, stub, StubSize)
      BY <1>4, <3>1 DEF TextLaid, Apart
    <3> QED BY <3>2, <3>3, <3>4
  <2>2. ASSUME stub # None, NEW o \in Objects, place[o][Text] # None
        PROVE  Apart(place[o][Text], Size(o, Text), stub, StubSize)
    BY <1>4, <2>2 DEF TextLaid, PieceEnd, Apart
  <2>3. ASSUME NEW s \in 1 .. Placed, NEW u \in 1 .. Placed, s < u, base[s] # None, base[u] # None,
               base[s] + length[s] > base[u]
        PROVE  /\ s = Text
               /\ \E o \in Objects : place[o][Text] # None /\
                    base[Text] + place[o][Text] + Size(o, Text)
                      + StubSize + ThunkSize * Cardinality(Imports) > base[u]
    <3>0. s \in Sections /\ u \in Sections /\ base[s] \in Nat /\ base[u] \in Nat /\ length[s] \in Nat
      BY <2>3, Ranges DEF TypeOK
    <3>1. s = Text
      <4>1. s \in 2 .. Placed => base[s] + length[s] <= base[u]
        BY <2>3 DEF Layout, SectionsApart
      <4>2. ~(base[s] + length[s] <= base[u])
        BY <2>3, <3>0
      <4> QED BY <4>1, <4>2, Numbers DEF Text
    <3>2. PICK o \in Objects : place[o][Text] # None /\ PieceEnd(o, Text) = m
      BY <1>4, <2>3, <3>1 DEF TextLaid
    <3>3. ThunkSize * Cardinality(Thunked) <= ThunkSize * Cardinality(Imports)
      <4> DEFINE c == Cardinality(Thunked)
                 d == Cardinality(Imports)
      <4>1. c \in Nat /\ d \in Nat /\ c <= d
        BY ThunkedFinite, FS_Subset DEF Layout
      <4> HIDE DEF c, d
      <4>2. ThunkSize * c <= ThunkSize * d
        BY <4>1, Numbers
      <4> QED BY <4>2 DEF c, d
    <3> DEFINE x == ThunkSize * Cardinality(Thunked)
               y == ThunkSize * Cardinality(Imports)
               q == place[o][Text]
               z == Size(o, Text)
               b == base[Text]
    <3>4. x \in Nat /\ y \in Nat /\ x <= y
      BY <3>3, ThunkedFinite, Numbers
    <3>5. q \in Nat /\ z \in Nat /\ q + z = m /\ b \in Nat
      BY <1>1, <3>0, <3>1, <3>2, Ranges DEF PieceEnd
    <3>6. length[Text] = m + Grown /\ Grown <= StubSize + x /\ Grown \in Nat
      BY <1>4, <3>4, ThunkedFinite, Numbers DEF TextLaid, Grown
    <3> HIDE DEF x, y, q, z, b
    <3>7. b + length[Text] > base[u]
      BY <2>3, <3>1 DEF b
    <3>8. b + q + z + StubSize + y > base[u]
      BY <3>0, <3>4, <3>5, <3>6, <3>7, Numbers
    <3> QED BY <3>1, <3>2, <3>8 DEF b, q, z, y
  <2>4. \A s, u \in 1 .. Placed : (s < u /\ base[s] # None /\ base[u] # None) =>
          \/ base[s] + length[s] <= base[u]
          \/ base[s] + length[s] > base[u]
    <3>1. \A s \in 1 .. Placed : s \in Sections
      BY Ranges
    <3> QED BY <3>1 DEF TypeOK
  <2> QED BY <2>1, <2>2, <2>3, <2>4 DEF Layout, PiecesApart, NothingOverlaps
<1> QED BY <1>3, <1>4 DEF Layout

(* For every build, alignment and page size: no two pieces, stubs or thunks
   of a section share a byte, and the sections share none either, as long as
   the stub and one thunk for each imported function fit behind .text.        *)
THEOREM NothingOverlapsAlways == Spec => []NothingOverlaps
<1>1. Init => TypeOK /\ Control
  BY InitType
<1>2. TypeOK /\ Control /\ [Next]_vars => TypeOK' /\ Control'
  BY TypeStep
<1>3. Init => Extraction /\ ExtractionIsNeeded
  BY ExtractionInit
<1>4. TypeOK /\ Control /\ Extraction /\ ExtractionIsNeeded /\ [Next]_vars
        => Extraction' /\ ExtractionIsNeeded'
  BY ExtractionStep
<1>5. Init => SymbolsSound
  BY SymbolsInit
<1>6. TypeOK /\ Control /\ Extraction /\ SymbolsSound /\ [Next]_vars => SymbolsSound'
  BY SymbolsStep
<1>7. Init => Layout
  BY LayoutInit
<1>8. TypeOK /\ Control /\ SymbolsSound /\ Layout /\ [Next]_vars => Layout'
  BY LayoutStep
<1>9. TypeOK /\ Layout => NothingOverlaps
  BY LayoutApart
<1> QED BY <1>1, <1>2, <1>3, <1>4, <1>5, <1>6, <1>7, <1>8, <1>9, PTL DEF Spec

-----------------------------------------------------------------------------
(***************************************************************************)
(* The build session implements the contract, for any targets, switches,   *)
(* modules and bounds.  The contract's snapshot is the source module that  *)
(* the kept unit was cloned from.  Two facts make the kept state safe: a   *)
(* prepared unit is the fresh one (PreparedIsFresh), and stages marked as  *)
(* done without a prepared unit stand for settings under which no attempt  *)
(* succeeds (LeftoversAreHarmless).                                        *)
(***************************************************************************)

(* isPrepared_ implies that there is a preparedModule_.                    *)
HasUnit == prepared => unit \in Units

SessionInv == SessionTypeOK /\ HasUnit /\ PreparedIsFresh /\ LeftoversAreHarmless

Snap == IF prepared THEN unit.parts.src ELSE Nothing

LEMMA ErrorNames == Nothing # "collision" /\ Nothing # "invalid" /\ Nothing # "target"
  BY SettingsAssumption

(* The settings stay of their type whatever setter is called.              *)
LEMMA CanonicalType == ASSUME NEW n \in TargetNames PROVE Canonical[n] \in Triples
  BY DEF Triples

LEMMA PartsType ==
    ASSUME SettingsType
    PROVE  /\ CloneParts \in Parts
           /\ CloneParts.src = source
           /\ Clone(CloneParts) \in Units
  <1>1. cfg.lto \in BOOLEAN /\ mods \in Seq(Additional) /\ source \in Sources
      BY DEF SettingsType, Configs
  <1>2. CloneParts \in Parts /\ CloneParts.src = source
      BY <1>1 DEF CloneParts, PartsOf, Parts
  <1> QED
      BY <1>2 DEF Clone, Units

LEMMA KeysType ==
    ASSUME SettingsType
    PROVE  /\ OptKey(cfg) \in Levels \X Triples \X SUBSET Switches
           /\ AllocKey(cfg) \in {Nothing} \cup Triples
  BY DEF SettingsType, Configs, OptKey, AllocKey

(* A call of ensurePrepared that works leaves the unit of the types.       *)
LEMMA PrepareType ==
    ASSUME SessionTypeOK, EnsurePrepared
    PROVE  unit' \in Units /\ done' \subseteq Stages /\ prepared' \in BOOLEAN
  <1> DEFINE u == Clone(CloneParts)
             a == AfterSSA(u)
             b == AfterOpt(a)
             c == AfterAlloc(b)
  <1>1. u \in Units
      BY PartsType DEF SessionTypeOK
  <1>2. a \in Units
      BY <1>1 DEF AfterSSA, Units
  <1>3. b \in Units
      BY <1>2, KeysType DEF AfterOpt, Units, SessionTypeOK
  <1>4. c \in Units
      BY <1>3, KeysType DEF AfterAlloc, Units, SessionTypeOK
  <1>5. PreparedUnit \in {u, b, c}
      BY DEF PreparedUnit
  <1>6. StagesDone \subseteq Stages
      BY DEF StagesDone, Stages, SessionTypeOK
  <1> HIDE DEF u, a, b, c
  <1> QED
      BY <1>1, <1>3, <1>4, <1>5, <1>6 DEF EnsurePrepared

(* The error of ensurePrepared is the one a fresh build has, given that    *)
(* leftovers of an earlier attempt only exist where the triple is at fault. *)
LEMMA SameError ==
    ASSUME SessionInv, ~prepared
    PROVE  PrepareError = FreshError(cfg, mods, source)
  <1>1. AllocFails <=> cfg.triple \notin Resolvable
      BY DEF SessionInv, LeftoversAreHarmless, AllocFails
  <1> QED
      BY <1>1 DEF PrepareError, FreshError, LinkFails, ValidationFails, CloneParts

LEMMA SameUnit ==
    ASSUME SessionInv, ~prepared, EnsurePrepared, PrepareError = Nothing
    PROVE  unit' = Fresh(cfg, mods, source) /\ done' = Stages /\ prepared' = TRUE
  <1>1. ~LinkFails /\ ~ValidationFails /\ ~AllocFails
      BY ErrorNames DEF PrepareError
  <1>2. done = {}
      BY <1>1 DEF SessionInv, LeftoversAreHarmless, AllocFails
  <1>3. PreparedUnit = AfterAlloc(AfterOpt(AfterSSA(Clone(CloneParts))))
      BY <1>1 DEF PreparedUnit
  <1>4. AfterAlloc(AfterOpt(AfterSSA(Clone(CloneParts)))) = Fresh(cfg, mods, source)
      BY <1>2 DEF AfterAlloc, AfterOpt, AfterSSA, Clone, CloneParts, Fresh
  <1> QED
      BY <1>1, <1>3, <1>4 DEF EnsurePrepared, StagesDone

----------------------------------------------------------------------------
(* Each setter keeps the invariant: it changes nothing the unit depends    *)
(* on, or it drops the unit.                                               *)
LEMMA DroppedIsSafe ==
    ASSUME SettingsType', InvalidatePrepared
    PROVE  SessionInv'
  BY DEF InvalidatePrepared, SessionInv, SessionTypeOK, HasUnit, PreparedIsFresh, LeftoversAreHarmless

LEMMA ConfigureKeeps ==
    ASSUME SessionInv, NEW c \in Configs, Configure(c)
    PROVE  SessionInv'
  <1>1. SettingsType'
      BY DEF Configure, SessionInv, SessionTypeOK, SettingsType
  <1>2. CASE c = cfg
      BY <1>1, <1>2 DEF Configure, session, SessionInv, SessionTypeOK, HasUnit, PreparedIsFresh, LeftoversAreHarmless
  <1>3. CASE c # cfg
      BY <1>1, <1>3, DroppedIsSafe DEF Configure
  <1> QED
      BY <1>2, <1>3

(* The five setters of configuration fields, as one.                       *)
SetConfig == \E c \in Configs : Configure(c)

LEMMA SettersConfigure ==
    ASSUME SettingsType,
           \/ \E name \in TargetNames : Target(name)
           \/ \E level \in Levels : Optimize(level)
           \/ \E b \in BOOLEAN : Validate(b) \/ EnableLTO(b) \/ \E sw \in Switches : Enable(sw, b)
    PROVE  SetConfig
  <1>1. cfg \in Configs
      BY DEF SettingsType
  <1>2. ASSUME NEW name \in TargetNames, Target(name) PROVE SetConfig
      BY <1>1, <1>2, CanonicalType DEF Target, SetConfig, Configs
  <1>3. ASSUME NEW level \in Levels, Optimize(level) PROVE SetConfig
      BY <1>1, <1>3 DEF Optimize, SetConfig, Configs
  <1>4. ASSUME NEW b \in BOOLEAN, Validate(b) PROVE SetConfig
      BY <1>1, <1>4 DEF Validate, SetConfig, Configs
  <1>5. ASSUME NEW b \in BOOLEAN, EnableLTO(b) PROVE SetConfig
      BY <1>1, <1>5 DEF EnableLTO, SetConfig, Configs
  <1>6. ASSUME NEW b \in BOOLEAN, NEW sw \in Switches, Enable(sw, b) PROVE SetConfig
    <2> DEFINE on == IF b THEN cfg.on \cup {sw} ELSE cfg.on \ {sw}
    <2>1. on \in SUBSET Switches
        BY <1>1 DEF Configs
    <2>2. [cfg EXCEPT !.on = on] \in Configs
        BY <1>1, <2>1 DEF Configs
    <2> QED
        BY <1>6, <2>2 DEF Enable, SetConfig
  <1> QED
      BY <1>2, <1>3, <1>4, <1>5, <1>6

LEMMA FeatureKeeps ==
    ASSUME SessionInv, TargetFeature
    PROVE  SessionInv'
  <1>1. SettingsType'
      BY SettingsAssumption DEF TargetFeature, SessionInv, SessionTypeOK, SettingsType
  <1> QED
      BY <1>1, DroppedIsSafe DEF TargetFeature

LEMMA ModuleKeeps ==
    ASSUME SessionInv, NEW m \in Additional, AddModule(m)
    PROVE  SessionInv'
  <1>1. mods \in Seq(Additional) /\ Len(mods) < MaxModules /\ mods' = Append(mods, m)
      BY DEF AddModule, SessionInv, SessionTypeOK, SettingsType
  <1>2. mods' \in Seq(Additional) /\ Len(mods') <= MaxModules
      BY <1>1, SettingsAssumption
  <1>3. SettingsType'
      BY <1>2 DEF AddModule, SessionInv, SessionTypeOK, SettingsType
  <1> QED
      BY <1>3, DroppedIsSafe DEF AddModule

LEMMA EmitKeeps ==
    ASSUME SessionInv, NEW kind \in Kinds, Emit(kind)
    PROVE  SessionInv'
  <1>1. SettingsType' /\ UNCHANGED settings
      BY DEF Emit, settings, SessionInv, SessionTypeOK, SettingsType
  <1>2. CASE prepared
      BY <1>1, <1>2 DEF Emit, session, settings, SessionInv, SessionTypeOK, HasUnit, PreparedIsFresh, LeftoversAreHarmless
  <1>3. CASE ~prepared
    <2>1. EnsurePrepared
        BY <1>3 DEF Emit
    <2>2. SessionTypeOK' /\ HasUnit'
        BY <1>1, <2>1, PrepareType DEF SessionInv, SessionTypeOK, HasUnit
    <2>3. PreparedIsFresh'
      <3>1. CASE PrepareError = Nothing
        <4>1. unit' = Fresh(cfg, mods, source)
            BY <1>3, <2>1, <3>1, SameUnit
        <4>2. unit'.parts.src = source
            BY <4>1 DEF Fresh, PartsOf
        <4>3. FreshError(cfg, mods, source) = Nothing
            BY <1>3, <3>1, SameError
        <4> QED
            BY <1>1, <4>1, <4>2, <4>3 DEF PreparedIsFresh, settings, Fresh, FreshError, PartsOf, OptKey, AllocKey
      <3>2. CASE PrepareError # Nothing
          BY <2>1, <3>2 DEF EnsurePrepared, PreparedIsFresh
      <3> QED
          BY <3>1, <3>2
    <2>4. LeftoversAreHarmless'
      <3>1. CASE PrepareError = Nothing
          BY <2>1, <3>1 DEF EnsurePrepared, LeftoversAreHarmless
      <3>2. CASE PrepareError # Nothing
        <4>1. LinkFails \/ ValidationFails \/ AllocFails
            BY <3>2 DEF PrepareError
        <4>2. CASE LinkFails \/ ValidationFails
            BY <1>1, <1>3, <2>1, <4>2 DEF EnsurePrepared, StagesDone, LeftoversAreHarmless, SessionInv, settings
        <4>3. CASE ~LinkFails /\ ~ValidationFails /\ AllocFails
            BY <1>1, <2>1, <4>3 DEF EnsurePrepared, StagesDone, LeftoversAreHarmless, AllocFails, settings
        <4> QED
            BY <4>1, <4>2, <4>3
      <3> QED
          BY <3>1, <3>2
    <2> QED
        BY <2>2, <2>3, <2>4 DEF SessionInv
  <1> QED
      BY <1>2, <1>3

LEMMA SessionInitInv == SessionInit => SessionInv
  <1> SUFFICES ASSUME SessionInit PROVE SessionInv
      OBVIOUS
  <1>1. cfg \in Configs
      BY SettingsAssumption DEF SessionInit, SettingsInit, Configs
  <1>2. mods \in Seq(Additional) /\ Len(mods) <= MaxModules /\ features \in 0 .. MaxFeatures
      BY SettingsAssumption DEF SessionInit, SettingsInit
  <1>3. SettingsType
      BY <1>1, <1>2 DEF SessionInit, SettingsInit, SettingsType
  <1>4. SessionTypeOK
      BY <1>3 DEF SessionInit, SessionTypeOK
  <1> QED
      BY <1>4 DEF SessionInit, SessionInv, HasUnit, PreparedIsFresh, LeftoversAreHarmless

LEMMA SessionNextInv == SessionInv /\ [SessionNext]_sessionVars => SessionInv'
  <1> SUFFICES ASSUME SessionInv, [SessionNext]_sessionVars PROVE SessionInv'
      OBVIOUS
  <1>1. CASE SetConfig
      BY <1>1, ConfigureKeeps DEF SetConfig
  <1>2. CASE TargetFeature
      BY <1>2, FeatureKeeps
  <1>3. ASSUME NEW m \in Additional, AddModule(m) PROVE SessionInv'
      BY <1>3, ModuleKeeps
  <1>4. ASSUME NEW i \in LinkInputs, AddInput(i) PROVE SessionInv'
      BY <1>4 DEF AddInput, session, SessionInv, SessionTypeOK, SettingsType, HasUnit, PreparedIsFresh, LeftoversAreHarmless
  <1>5. ASSUME NEW x \in Sources, EditSource(x) PROVE SessionInv'
      BY <1>5 DEF EditSource, session, SessionInv, SessionTypeOK, SettingsType, HasUnit, PreparedIsFresh, LeftoversAreHarmless
  <1>6. ASSUME NEW kind \in Kinds, Emit(kind) PROVE SessionInv'
      BY <1>6, EmitKeeps
  <1>7. CASE UNCHANGED sessionVars
      BY <1>7 DEF sessionVars, settings, session, SessionInv, SessionTypeOK, SettingsType, HasUnit, PreparedIsFresh, LeftoversAreHarmless
  <1>8. SettingsType
      BY DEF SessionInv, SessionTypeOK
  <1> QED
      BY <1>1, <1>2, <1>3, <1>4, <1>5, <1>6, <1>7, <1>8, SettersConfigure DEF SessionNext

(* The kept unit is always what a new builder would make.                  *)
THEOREM PreparedUnitsAreFresh == SessionSpec => []PreparedIsFresh
  <1>1. SessionInv => PreparedIsFresh
      BY DEF SessionInv
  <1> QED
      BY <1>1, SessionInitInv, SessionNextInv, PTL DEF SessionSpec

(* Stages left marked by a failed run never let an unlowered unit through. *)
THEOREM LeftoversStayHarmless == SessionSpec => []LeftoversAreHarmless
  <1>1. SessionInv => LeftoversAreHarmless
      BY DEF SessionInv
  <1> QED
      BY <1>1, SessionInitInv, SessionNextInv, PTL DEF SessionSpec

----------------------------------------------------------------------------
(* The refinement: every step of the session is a step of the contract.    *)
LEMMA SnapWhenPrepared ==
    ASSUME SessionInv, prepared
    PROVE  Snap \in Sources /\ Snap # Nothing
  <1>1. unit \in Units
      BY DEF SessionInv, HasUnit
  <1> QED
      BY <1>1, SettingsAssumption DEF Snap, Units, Parts

LEMMA InitRefines == SessionInit => Contract!Init
  BY DEF SessionInit, SettingsInit, Contract!Init, Contract!SettingsInit

LEMMA ConfigureRefines ==
    ASSUME SessionInv, SetConfig
    PROVE  Contract!Configure
  <1>1. PICK c \in Configs : Configure(c)
      BY DEF SetConfig
  <1>2. cfg' \in Contract!Configs
      BY <1>1 DEF Configure, Configs, Contract!Configs, Triples, Contract!Triples
  <1>3. Snap' = IF cfg' = cfg THEN Snap ELSE Nothing
      BY <1>1 DEF Configure, session, InvalidatePrepared, Snap
  <1> QED
      BY <1>1, <1>2, <1>3 DEF Configure, Contract!Configure, Snap

LEMMA ExtendRefines ==
    ASSUME TargetFeature \/ \E m \in Additional : AddModule(m)
    PROVE  Contract!Extend
  BY DEF TargetFeature, AddModule, InvalidatePrepared, Contract!Extend

LEMMA InputRefines ==
    ASSUME SessionInv, NEW i \in LinkInputs, AddInput(i)
    PROVE  Contract!AddInput
  BY DEF SessionInv, SessionTypeOK, SettingsType, AddInput, session, Contract!AddInput, Contract!LinkInputs, LinkInputs

LEMMA EditRefines ==
    ASSUME NEW x \in Sources, EditSource(x)
    PROVE  Contract!EditSource
  BY DEF EditSource, session, Contract!EditSource

(* The contract's operators are those of the session: both come from the   *)
(* same module.                                                            *)
LEMMA SameOperators ==
    /\ \A ms, s : Contract!Fresh(cfg, ms, s) = Fresh(cfg, ms, s)
    /\ \A ms, s : Contract!FreshError(cfg, ms, s) = FreshError(cfg, ms, s)
    /\ \A kind, u : Contract!Artifact(kind, u) = Artifact(kind, u)
    /\ \A kind, e : Contract!Failure(kind, e) = Failure(kind, e)
  <1>1. \A ms, s : Contract!Fresh(cfg, ms, s) = Fresh(cfg, ms, s)
      BY DEF Contract!Fresh, Fresh, Contract!PartsOf, PartsOf, Contract!OptKey, OptKey,
             Contract!AllocKey, AllocKey
  <1>2. \A ms, s : Contract!FreshError(cfg, ms, s) = FreshError(cfg, ms, s)
      BY DEF Contract!FreshError, FreshError, Contract!PartsOf, PartsOf
  <1>3. \A kind, u : Contract!Artifact(kind, u) = Artifact(kind, u)
      BY DEF Contract!Artifact, Artifact, Contract!UsesFeatures, UsesFeatures,
             Contract!UsedInputs, UsedInputs, Contract!LinkInputs, LinkInputs
  <1>4. \A kind, e : Contract!Failure(kind, e) = Failure(kind, e)
      BY DEF Contract!Failure, Failure
  <1> QED
      BY <1>1, <1>2, <1>3, <1>4

LEMMA EmitRefines ==
    ASSUME SessionInv, NEW kind \in Kinds, Emit(kind)
    PROVE  Contract!Emit(kind)
  <1>1. Contract!Seen = IF prepared THEN unit.parts.src ELSE source
      BY SnapWhenPrepared DEF Contract!Seen, Snap
  <1>2. UNCHANGED settings
      BY DEF Emit
  <1>3. CASE prepared
    <2>1. FreshError(cfg, mods, unit.parts.src) = Nothing
        BY <1>3 DEF SessionInv, PreparedIsFresh
    <2>2. unit' = Fresh(cfg, mods, unit.parts.src) /\ Snap' = Snap /\ Snap = unit.parts.src
        BY <1>3 DEF Emit, session, SessionInv, PreparedIsFresh, Snap
    <2>3. out' \in {Artifact(kind, unit'), Failure(kind, "backend")}
        BY <1>3 DEF Emit
    <2> QED
        BY <1>1, <1>2, <1>3, <2>1, <2>2, <2>3, SameOperators DEF Contract!Emit, Snap, settings, Contract!settings
  <1>4. CASE ~prepared /\ PrepareError # Nothing
    <2>1. FreshError(cfg, mods, source) # Nothing /\ PrepareError = FreshError(cfg, mods, source)
        BY <1>4, SameError
    <2>2. out' = Failure(kind, PrepareError) /\ prepared' = FALSE
        BY <1>4 DEF Emit, EnsurePrepared
    <2>3. Snap' = Nothing /\ Snap = Nothing
        BY <1>4, <2>2 DEF Snap
    <2> QED
        BY <1>1, <1>2, <1>4, <2>1, <2>2, <2>3, SameOperators DEF Contract!Emit, Snap, settings, Contract!settings
  <1>5. CASE ~prepared /\ PrepareError = Nothing
    <2>1. FreshError(cfg, mods, source) = Nothing
        BY <1>5, SameError
    <2>2. unit' = Fresh(cfg, mods, source) /\ prepared' = TRUE
        BY <1>5, SameUnit DEF Emit
    <2>3. Snap' = source
        BY <2>2 DEF Snap, Fresh, PartsOf
    <2>4. out' \in {Artifact(kind, unit'), Failure(kind, "backend")}
        BY <1>5 DEF Emit
    <2> QED
        BY <1>1, <1>2, <1>5, <2>1, <2>2, <2>3, <2>4, SameOperators DEF Contract!Emit, Snap, settings, Contract!settings
  <1> QED
      BY <1>3, <1>4, <1>5

LEMMA NextRefines == SessionInv /\ [SessionNext]_sessionVars => [Contract!Next]_(Contract!vars)
  <1> SUFFICES ASSUME SessionInv, [SessionNext]_sessionVars PROVE Contract!Next \/ UNCHANGED Contract!vars
      OBVIOUS
  <1>1. CASE SetConfig
      BY <1>1, ConfigureRefines DEF Contract!Next
  <1>2. CASE TargetFeature \/ \E m \in Additional : AddModule(m)
      BY <1>2, ExtendRefines DEF Contract!Next
  <1>3. ASSUME NEW i \in LinkInputs, AddInput(i) PROVE Contract!Next
      BY <1>3, InputRefines DEF Contract!Next
  <1>4. ASSUME NEW x \in Sources, EditSource(x) PROVE Contract!Next
      BY <1>4, EditRefines DEF Contract!Next
  <1>5. ASSUME NEW kind \in Kinds, Emit(kind) PROVE Contract!Next
      BY <1>5, EmitRefines DEF Contract!Next, Contract!Kinds, Kinds
  <1>6. CASE UNCHANGED sessionVars
      BY <1>6 DEF sessionVars, settings, session, Contract!vars, Contract!settings
  <1>7. SettingsType
      BY DEF SessionInv, SessionTypeOK
  <1> QED
      BY <1>1, <1>2, <1>3, <1>4, <1>5, <1>6, <1>7, SettersConfigure DEF SessionNext

(* However setters, failing emissions, retries and edits are mixed, every  *)
(* emission is what a new builder with the same settings would give.       *)
THEOREM SessionMeetsContract == SessionSpec => MeetsContract
  BY SessionInitInv, SessionNextInv, InitRefines, NextRefines, PTL DEF SessionSpec, MeetsContract, Contract!Spec

-----------------------------------------------------------------------------
(***************************************************************************)
(* What a merge promises for any number of modules and any names: the      *)
(* destination holds one object per name, with the definition if there is  *)
(* one, the merge fails on two definitions only, and the destination's own *)
(* code keeps what it refers to.                                           *)
(***************************************************************************)

(* Where an object can be: with its own module until that is merged, then  *)
(* in the destination or destroyed.                                        *)
Whereabouts ==
    \A o \in Symbols :
        /\ given[o] = "absent" => owner[o] = Freed
        /\ given[o] # "absent" /\ o[1] = 0 => owner[o] = 0
        /\ owner[o] \in {0, o[1], Freed}
        /\ o[1] < cur => owner[o] \in {0, Freed}
        /\ owner[o] = 0 => o[1] <= cur

(* A failed merge never moves on to another module.                        *)
StopsAtFailure == failed => cur <= Last

(* An object that is not merged has what it was built with; what an object *)
(* of the destination has is a merged definition of its name.              *)
Bodies ==
    \A o \in Symbols :
        /\ ~Handled(o) /\ given[o] # "absent" =>
              body[o] = IF given[o] = "defined" THEN o ELSE Null
        /\ owner[o] = 0 /\ body[o] # Null =>
              /\ given[body[o]] = "defined"
              /\ Handled(body[o])
              /\ body[o][2] = o[2]

(* The strengthening of NoDanglingOperand: it holds of every operand.      *)
NoDanglingAnywhere == \A s \in Sites : ref[s] # Null => owner[ref[s]] # Freed

MergeInv == /\ MergeTypeOK /\ Whereabouts /\ StopsAtFailure /\ Bodies
        /\ OneObjectPerName /\ DefinitionsWin

LEMMA Pairs ==
    ASSUME NEW o \in Symbols
    PROVE  /\ o[1] \in Modules /\ o[2] \in SymbolNames /\ o = <<o[1], o[2]>>
           /\ o[1] \in Nat
  BY MergeAssumption DEF Symbols, Modules

LEMMA Fields ==
    ASSUME NEW s \in Sites
    PROVE  s[1] \in Symbols /\ s[2] \in Symbols
  BY DEF Sites, Symbols, SymbolNames

----------------------------------------------------------------------------
LEMMA InitTypeOK == MergeInit => MergeTypeOK
  <1> SUFFICES ASSUME MergeInit PROVE MergeTypeOK
      OBVIOUS
  <1>1. owner \in [Symbols -> Modules \cup {Freed}]
      BY Pairs DEF MergeInit
  <1>2. body \in [Symbols -> Symbols \cup {Null}]
      BY DEF MergeInit
  <1>3. ref \in [Sites -> Symbols \cup {Null}]
      BY Fields DEF MergeInit
  <1>4. cur \in 1 .. Last + 1
      BY MergeAssumption DEF MergeInit
  <1>5. given \in [Symbols -> Strength] /\ failed \in BOOLEAN
      BY DEF MergeInit
  <1> QED
      BY <1>1, <1>2, <1>3, <1>4, <1>5 DEF MergeTypeOK

LEMMA DestroyType ==
    ASSUME MergeTypeOK, NEW S \in SUBSET Symbols, Destroy(S)
    PROVE  /\ owner' \in [Symbols -> Modules \cup {Freed}]
           /\ ref' \in [Sites -> Symbols \cup {Null}]
  BY DEF MergeTypeOK, Destroy

LEMMA NextTypeOK == MergeTypeOK /\ [MergeNext]_mergeVars => MergeTypeOK'
  <1> SUFFICES ASSUME MergeTypeOK, [MergeNext]_mergeVars PROVE MergeTypeOK'
      OBVIOUS
  <1>1. CASE NextModule
      BY <1>1, MergeAssumption DEF NextModule, Running, MergeTypeOK
  <1>2. ASSUME NEW o \in Symbols, Add(o) PROVE MergeTypeOK'
      BY <1>2, MergeAssumption DEF Add, MergeTypeOK, Modules
  <1>3. ASSUME NEW o \in Symbols, Skip(o) PROVE MergeTypeOK'
    <2>1. Destroy({o})
        BY <1>3 DEF Skip
    <2> QED
        BY <2>1, <1>3, DestroyType DEF Skip, MergeTypeOK
  <1>4. ASSUME NEW o \in Symbols, NEW d \in Symbols, Fill(o, d) PROVE MergeTypeOK'
    <2>1. Destroy({o})
        BY <1>4 DEF Fill
    <2> QED
        BY <2>1, <1>4, DestroyType DEF Fill, MergeTypeOK
  <1>5. ASSUME NEW o \in Symbols, NEW d \in Symbols, Collide(o, d) PROVE MergeTypeOK'
    <2>1. Destroy({p \in Symbols : owner[p] = cur})
        BY <1>5 DEF Collide
    <2>2. {p \in Symbols : owner[p] = cur} \in SUBSET Symbols
        OBVIOUS
    <2> QED
        BY <2>1, <2>2, <1>5, DestroyType DEF Collide, MergeTypeOK
  <1>6. CASE UNCHANGED mergeVars
      BY <1>6 DEF mergeVars, MergeTypeOK
  <1> QED
      BY <1>1, <1>2, <1>3, <1>4, <1>5, <1>6 DEF MergeNext, MergeOne

(* The tables have the shapes the code gives them.                         *)
THEOREM MergeTypeCorrect == MergeSpec => []MergeTypeOK
  BY InitTypeOK, NextTypeOK, PTL DEF MergeSpec

----------------------------------------------------------------------------
LEMMA InitIInv == MergeInit => MergeInv
  <1> SUFFICES ASSUME MergeInit PROVE MergeInv
      OBVIOUS
  <1> USE Pairs
  <1>1. MergeTypeOK
      BY InitTypeOK
  <1>2. \A o \in Symbols : owner[o] = IF given[o] = "absent" THEN Freed ELSE o[1]
      BY DEF MergeInit
  <1>3. \A o \in Symbols : body[o] = IF given[o] = "defined" THEN o ELSE Null
      BY DEF MergeInit
  <1>4. cur = 1 /\ failed = FALSE
      BY DEF MergeInit
  <1>5. Freed # 0 /\ \A o \in Symbols : o[1] # Freed /\ o # Null
      BY MergeAssumption DEF Modules
  <1>6. Whereabouts
      BY <1>2, <1>4, <1>5 DEF Whereabouts
  <1>7. Bodies
      BY <1>2, <1>3, <1>5 DEF Bodies, Handled
  <1>8. OneObjectPerName
    <2> SUFFICES ASSUME NEW d \in Symbols, NEW e \in Symbols,
                        owner[d] = 0, owner[e] = 0, d[2] = e[2]
                 PROVE  d = e
        BY DEF OneObjectPerName
    <2> QED
        BY <1>2, <1>5
  <1>9. DefinitionsWin
      BY <1>2, <1>3, <1>5 DEF DefinitionsWin, Handled
  <1> QED
      BY <1>1, <1>4, <1>6, <1>7, <1>8, <1>9 DEF MergeInv, StopsAtFailure

(* A step that merges an object concerns one of the current module.        *)
LEMMA FrontFacts ==
    ASSUME MergeInv, NEW o \in Symbols, Running, Front(o)
    PROVE  /\ owner[o] = cur /\ o[1] = cur /\ given[o] # "absent"
           /\ cur \in Nat /\ cur > 0 /\ cur # Freed /\ ~Handled(o)
           /\ body[o] = IF given[o] = "defined" THEN o ELSE Null
  <1>1. cur \in Modules /\ cur > 0
      BY MergeAssumption DEF MergeInv, MergeTypeOK, Running, Modules
  <1>2. cur # Freed /\ Freed # 0 /\ cur \in Nat
      BY <1>1, MergeAssumption DEF Modules
  <1>3. owner[o] = cur
      BY DEF Front
  <1>4. o[1] = cur /\ given[o] # "absent"
      BY <1>1, <1>2, <1>3 DEF MergeInv, Whereabouts
  <1>5. ~Handled(o)
      BY <1>1, <1>2, <1>3 DEF Handled
  <1> QED
      BY <1>1, <1>2, <1>3, <1>4, <1>5 DEF MergeInv, Bodies

LEMMA AddKeeps ==
    ASSUME MergeInv, NEW o \in Symbols, Add(o)
    PROVE  Whereabouts' /\ StopsAtFailure' /\ Bodies' /\ OneObjectPerName' /\ DefinitionsWin'
  <1> USE Pairs
  <1>1. /\ owner[o] = cur /\ o[1] = cur /\ given[o] # "absent"
        /\ cur \in Nat /\ cur > 0 /\ cur # Freed /\ ~Handled(o)
        /\ body[o] = IF given[o] = "defined" THEN o ELSE Null
      BY FrontFacts DEF Add
  <1>2. /\ owner' = [owner EXCEPT ![o] = 0]
        /\ given' = given /\ body' = body /\ cur' = cur /\ failed' = failed
        /\ \A d \in Symbols : owner[d] = 0 => d[2] # o[2]
        /\ ~failed
      BY DEF Add, Exists, Running
  <1>3. \A p \in Symbols : owner'[p] = IF p = o THEN 0 ELSE owner[p]
      BY <1>2 DEF MergeInv, MergeTypeOK
  <1>4. \A p \in Symbols : Handled(p)' <=> Handled(p) \/ p = o
      BY <1>1, <1>2, <1>3 DEF Handled
  <1>5. Whereabouts'
      BY <1>1, <1>2, <1>3 DEF MergeInv, Whereabouts
  <1>6. StopsAtFailure'
      BY <1>2 DEF MergeInv, StopsAtFailure
  <1>7. Bodies'
      BY <1>1, <1>2, <1>3, <1>4, MergeAssumption DEF MergeInv, Bodies, MergeTypeOK
  <1>8. OneObjectPerName'
      BY <1>2, <1>3 DEF MergeInv, OneObjectPerName
  <1>9. DefinitionsWin'
    <2> SUFFICES ASSUME NEW p \in Symbols, Handled(p)'
                 PROVE  \E d \in Symbols : /\ owner'[d] = 0 /\ d[2] = p[2]
                                           /\ given[p] = "defined" => body[d] = p
        BY <1>2 DEF DefinitionsWin
    <2>1. CASE p = o
        BY <2>1, <1>1, <1>3
    <2>2. CASE p # o
      <3>1. PICK d \in Symbols : /\ owner[d] = 0 /\ d[2] = p[2]
                                 /\ given[p] = "defined" => body[d] = p
          BY <2>2, <1>2, <1>4 DEF MergeInv, DefinitionsWin
      <3> QED
          BY <3>1, <1>3
    <2> QED
        BY <2>1, <2>2
  <1> QED
      BY <1>5, <1>6, <1>7, <1>8, <1>9

LEMMA SkipKeeps ==
    ASSUME MergeInv, NEW o \in Symbols, Skip(o)
    PROVE  Whereabouts' /\ StopsAtFailure' /\ Bodies' /\ OneObjectPerName' /\ DefinitionsWin'
  <1> USE Pairs
  <1>1. /\ owner[o] = cur /\ o[1] = cur /\ given[o] # "absent"
        /\ cur \in Nat /\ cur > 0 /\ cur # Freed /\ ~Handled(o)
        /\ body[o] = IF given[o] = "defined" THEN o ELSE Null
      BY FrontFacts DEF Skip
  <1>2. /\ given' = given /\ body' = body /\ cur' = cur /\ failed' = failed
        /\ body[o] = Null /\ ~failed
        /\ \E d \in Symbols : owner[d] = 0 /\ d[2] = o[2]
      BY DEF Skip, Exists, Running
  <1>3. \A p \in Symbols : owner'[p] = IF p = o THEN Freed ELSE owner[p]
      BY DEF Skip, Destroy
  <1>4. \A p \in Symbols : Handled(p)' <=> Handled(p) \/ p = o
      BY <1>1, <1>2, <1>3 DEF Handled
  <1>5. Freed # 0 /\ given[o] # "defined"
      BY <1>1, <1>2, MergeAssumption DEF Modules
  <1>6. Whereabouts'
      BY <1>1, <1>2, <1>3, <1>5 DEF MergeInv, Whereabouts
  <1>7. StopsAtFailure'
      BY <1>2 DEF MergeInv, StopsAtFailure
  <1>8. Bodies'
      BY <1>1, <1>2, <1>3, <1>4, <1>5, MergeAssumption DEF MergeInv, Bodies, MergeTypeOK
  <1>9. OneObjectPerName'
      BY <1>3, <1>5 DEF MergeInv, OneObjectPerName
  <1>10. DefinitionsWin'
    <2> SUFFICES ASSUME NEW p \in Symbols, Handled(p)'
                 PROVE  \E d \in Symbols : /\ owner'[d] = 0 /\ d[2] = p[2]
                                           /\ given[p] = "defined" => body[d] = p
        BY <1>2 DEF DefinitionsWin
    <2>1. PICK d \in Symbols : /\ owner[d] = 0 /\ d[2] = p[2]
                               /\ given[p] = "defined" => body[d] = p
        BY <1>2, <1>4, <1>5 DEF MergeInv, DefinitionsWin
    <2> QED
        BY <2>1, <1>1, <1>3
  <1> QED
      BY <1>6, <1>7, <1>8, <1>9, <1>10

LEMMA FillKeeps ==
    ASSUME MergeInv, NEW o \in Symbols, NEW d \in Symbols, Fill(o, d)
    PROVE  Whereabouts' /\ StopsAtFailure' /\ Bodies' /\ OneObjectPerName' /\ DefinitionsWin'
  <1> USE Pairs
  <1>1. /\ owner[o] = cur /\ o[1] = cur /\ given[o] # "absent"
        /\ cur \in Nat /\ cur > 0 /\ cur # Freed /\ ~Handled(o)
        /\ body[o] = IF given[o] = "defined" THEN o ELSE Null
      BY FrontFacts DEF Fill
  <1>2. /\ given' = given /\ cur' = cur /\ failed' = failed /\ ~failed
        /\ body' = [body EXCEPT ![d] = body[o], ![o] = Null]
        /\ owner[d] = 0 /\ d[2] = o[2] /\ body[d] = Null /\ body[o] # Null
      BY DEF Fill, Running
  <1>3. \A p \in Symbols : owner'[p] = IF p = o THEN Freed ELSE owner[p]
      BY DEF Fill, Destroy
  <1>4. \A p \in Symbols : Handled(p)' <=> Handled(p) \/ p = o
      BY <1>1, <1>2, <1>3 DEF Handled
  <1>5. Freed # 0 /\ given[o] = "defined" /\ body[o] = o /\ o # d
      BY <1>1, <1>2, MergeAssumption DEF Modules
  <1>6. \A p \in Symbols : body'[p] = IF p = o THEN Null ELSE IF p = d THEN o ELSE body[p]
      BY <1>2, <1>5 DEF MergeInv, MergeTypeOK
  <1>7. Whereabouts'
      BY <1>1, <1>2, <1>3, <1>5 DEF MergeInv, Whereabouts
  <1>8. StopsAtFailure'
      BY <1>2 DEF MergeInv, StopsAtFailure
  <1>9. Bodies'
    <2> SUFFICES ASSUME NEW p \in Symbols
                 PROVE  /\ ~Handled(p)' /\ given[p] # "absent" =>
                              body'[p] = IF given[p] = "defined" THEN p ELSE Null
                        /\ owner'[p] = 0 /\ body'[p] # Null =>
                              /\ given[body'[p]] = "defined"
                              /\ Handled(body[p])'
                              /\ body'[p][2] = p[2]
        BY <1>2 DEF Bodies
    <2>1. Handled(d)
        BY <1>2, <1>5 DEF MergeInv, Whereabouts, Handled
    <2>2. CASE p = o
        BY <2>2, <1>3, <1>4, <1>5
    <2>3. CASE p = d
        BY <2>1, <2>3, <1>2, <1>4, <1>5, <1>6
    <2>4. CASE p # o /\ p # d
      <3>1. body'[p] = body[p] /\ owner'[p] = owner[p]
          BY <2>4, <1>3, <1>6
      <3>2. body[p] \in Symbols \cup {Null}
          BY DEF MergeInv, MergeTypeOK
      <3> QED
          BY <2>4, <3>1, <3>2, <1>4 DEF MergeInv, Bodies
    <2> QED
        BY <2>2, <2>3, <2>4
  <1>10. OneObjectPerName'
      BY <1>3, <1>5 DEF MergeInv, OneObjectPerName
  <1>11. DefinitionsWin'
    <2> SUFFICES ASSUME NEW p \in Symbols, Handled(p)'
                 PROVE  \E e \in Symbols : /\ owner'[e] = 0 /\ e[2] = p[2]
                                           /\ given[p] = "defined" => body'[e] = p
        BY <1>2 DEF DefinitionsWin
    <2>1. CASE p = o
        BY <2>1, <1>2, <1>3, <1>5, <1>6
    <2>2. CASE p # o
      <3>1. PICK e \in Symbols : /\ owner[e] = 0 /\ e[2] = p[2]
                                 /\ given[p] = "defined" => body[e] = p
          BY <2>2, <1>2, <1>4 DEF MergeInv, DefinitionsWin
      <3>2. e # o
          BY <3>1, <1>1
      <3>3. given[p] = "defined" => e # d
          BY <3>1, <1>2, MergeAssumption
      <3> QED
          BY <3>1, <3>2, <3>3, <1>3, <1>6
    <2> QED
        BY <2>1, <2>2
  <1> QED
      BY <1>7, <1>8, <1>9, <1>10, <1>11

LEMMA CollideKeeps ==
    ASSUME MergeInv, NEW o \in Symbols, NEW d \in Symbols, Collide(o, d)
    PROVE  Whereabouts' /\ StopsAtFailure' /\ Bodies' /\ OneObjectPerName' /\ DefinitionsWin'
  <1> USE Pairs
  <1>1. /\ owner[o] = cur /\ o[1] = cur /\ given[o] # "absent"
        /\ cur \in Nat /\ cur > 0 /\ cur # Freed
      BY FrontFacts DEF Collide
  <1>2. /\ given' = given /\ cur' = cur /\ body' = body /\ failed' = TRUE
        /\ cur <= Last
      BY DEF Collide, Running
  <1>3. \A p \in Symbols : owner'[p] = IF owner[p] = cur THEN Freed ELSE owner[p]
      BY DEF Collide, Destroy
  <1>4. Freed # 0
      BY MergeAssumption DEF Modules
  <1>5. \A p \in Symbols : Handled(p) => Handled(p)'
      BY <1>2, <1>3 DEF Handled
  <1>6. Whereabouts'
      BY <1>1, <1>2, <1>3, <1>4 DEF MergeInv, Whereabouts
  <1>7. StopsAtFailure'
      BY <1>2 DEF StopsAtFailure
  <1>8. Bodies'
    <2>1. \A p \in Symbols : owner'[p] = 0 => owner[p] = 0
        BY <1>1, <1>3, <1>4
    <2>2. \A p \in Symbols : body[p] \in Symbols \cup {Null}
        BY DEF MergeInv, MergeTypeOK
    <2> QED
        BY <2>1, <2>2, <1>2, <1>5 DEF MergeInv, Bodies
  <1>9. OneObjectPerName'
      BY <1>1, <1>3, <1>4 DEF MergeInv, OneObjectPerName
  <1>10. DefinitionsWin'
      BY <1>2 DEF DefinitionsWin
  <1> QED
      BY <1>6, <1>7, <1>8, <1>9, <1>10

LEMMA NextModuleKeeps ==
    ASSUME MergeInv, NextModule
    PROVE  Whereabouts' /\ StopsAtFailure' /\ Bodies' /\ OneObjectPerName' /\ DefinitionsWin'
  <1> USE Pairs
  <1>1. /\ given' = given /\ owner' = owner /\ body' = body /\ ref' = ref
        /\ cur' = cur + 1 /\ failed' = failed /\ ~failed
        /\ \A o \in Symbols : owner[o] # cur
      BY DEF NextModule, Running
  <1>2. cur \in Nat
      BY MergeAssumption DEF MergeInv, MergeTypeOK
  <1>3. Whereabouts'
      BY <1>1, <1>2 DEF MergeInv, Whereabouts
  <1>4. Bodies'
      BY <1>1 DEF MergeInv, Bodies, Handled
  <1>5. OneObjectPerName' /\ DefinitionsWin' /\ StopsAtFailure'
      BY <1>1 DEF MergeInv, OneObjectPerName, DefinitionsWin, StopsAtFailure, Handled
  <1> QED
      BY <1>3, <1>4, <1>5

LEMMA NextIInv == MergeInv /\ [MergeNext]_mergeVars => MergeInv'
  <1> SUFFICES ASSUME MergeInv, [MergeNext]_mergeVars PROVE MergeInv'
      OBVIOUS
  <1>1. MergeTypeOK'
      BY NextTypeOK DEF MergeInv
  <1>2. Whereabouts' /\ StopsAtFailure' /\ Bodies' /\ OneObjectPerName' /\ DefinitionsWin'
    <2>1. CASE NextModule
        BY <2>1, NextModuleKeeps
    <2>2. ASSUME NEW o \in Symbols, MergeOne(o)
          PROVE  Whereabouts' /\ StopsAtFailure' /\ Bodies' /\ OneObjectPerName' /\ DefinitionsWin'
        BY <2>2, AddKeeps, SkipKeeps, FillKeeps, CollideKeeps DEF MergeOne
    <2>3. CASE UNCHANGED mergeVars
        BY <2>3 DEF mergeVars, MergeInv, Whereabouts, StopsAtFailure, Bodies, OneObjectPerName,
                    DefinitionsWin, Handled
    <2> QED
        BY <2>1, <2>2, <2>3 DEF MergeNext
  <1> QED
      BY <1>1, <1>2 DEF MergeInv

(* A symbol looked up by its name in the destination is found once.        *)
THEOREM NamesStayUnique == MergeSpec => []OneObjectPerName
  <1>1. MergeInv => OneObjectPerName
      BY DEF MergeInv
  <1> QED
      BY <1>1, InitIInv, NextIInv, PTL DEF MergeSpec

(* A definition is never given up for a declaration.                       *)
THEOREM DefinitionsAreKept == MergeSpec => []DefinitionsWin
  <1>1. MergeInv => DefinitionsWin
      BY DEF MergeInv
  <1> QED
      BY <1>1, InitIInv, NextIInv, PTL DEF MergeSpec

(* linkModules fails on two definitions of a name and on nothing else.     *)
FailedOnTwo == failed => TwoDefinitions

LEMMA NextFailedOnTwo == MergeInv /\ FailedOnTwo /\ [MergeNext]_mergeVars => FailedOnTwo'
  <1> SUFFICES ASSUME MergeInv, FailedOnTwo, [MergeNext]_mergeVars PROVE FailedOnTwo'
      OBVIOUS
  <1>1. given' = given
      BY DEF MergeNext, MergeOne, NextModule, Add, Skip, Fill, Collide, mergeVars
  <1>2. CASE failed' = failed
      BY <1>1, <1>2 DEF FailedOnTwo, TwoDefinitions
  <1>3. ASSUME NEW o \in Symbols, NEW d \in Symbols, Collide(o, d)
        PROVE  FailedOnTwo'
    <2>1. given[o] = "defined" /\ ~Handled(o)
        BY <1>3, FrontFacts DEF Collide
    <2>2. body[d] \in Symbols /\ body[d][2] = o[2]
        BY <1>3 DEF Collide, MergeInv, MergeTypeOK, Bodies
    <2>3. given[body[d]] = "defined" /\ Handled(body[d])
        BY <1>3 DEF Collide, MergeInv, Bodies
    <2> QED
        BY <2>1, <2>2, <2>3, <1>1 DEF FailedOnTwo, TwoDefinitions
  <1> QED
      BY <1>2, <1>3 DEF MergeNext, MergeOne, NextModule, Add, Skip, Fill, mergeVars

LEMMA LinkedHasOneDefinition == MergeInv /\ AllMerged => ~TwoDefinitions
  <1> SUFFICES ASSUME MergeInv, AllMerged, NEW o \in Symbols, NEW p \in Symbols,
                      o[2] = p[2], given[o] = "defined", given[p] = "defined"
               PROVE  o = p
      BY DEF TwoDefinitions
  <1>1. ~failed /\ cur = Last + 1
      BY MergeAssumption DEF MergeInv, StopsAtFailure, AllMerged
  <1>2. o[1] < cur /\ p[1] < cur
      BY <1>1, Pairs, MergeAssumption DEF Modules
  <1>3. Handled(o) /\ Handled(p)
      BY <1>2 DEF MergeInv, Whereabouts, Handled
  <1>4. PICK d \in Symbols : owner[d] = 0 /\ d[2] = o[2] /\ body[d] = o
      BY <1>1, <1>3 DEF MergeInv, DefinitionsWin
  <1>5. PICK e \in Symbols : owner[e] = 0 /\ e[2] = p[2] /\ body[e] = p
      BY <1>1, <1>3 DEF MergeInv, DefinitionsWin
  <1>6. d = e
      BY <1>4, <1>5 DEF MergeInv, OneObjectPerName
  <1> QED
      BY <1>4, <1>5, <1>6

THEOREM CollisionsOnly == MergeSpec => []FailsOnCollisionOnly
  <1>1. MergeInit => FailedOnTwo
      BY DEF MergeInit, FailedOnTwo
  <1>2. MergeInv /\ FailedOnTwo => FailsOnCollisionOnly
      BY LinkedHasOneDefinition DEF FailedOnTwo, FailsOnCollisionOnly
  <1> QED
      BY <1>1, <1>2, InitIInv, NextIInv, NextFailedOnTwo, PTL DEF MergeSpec

----------------------------------------------------------------------------
(* Operands.  Every one that a module was built with still refers to its   *)
(* object, or is null because that object was dropped for one of the same  *)
(* name from an earlier module; the destination's own are never lost.      *)
Refers(s) == s[1][1] = s[2][1] /\ given[s[1]] = "defined" /\ given[s[2]] # "absent"

Operands ==
    \A s \in Sites : Refers(s) =>
        \/ ref[s] = s[2]
        \/ /\ s[2][1] # 0
           /\ \/ failed
              \/ \E m \in 0 .. s[2][1] - 1 : given[<<m, s[2][2]>>] # "absent"

OnlyOwn == \A s \in Sites : ref[s] \in {s[2], Null}

OInv == Operands /\ NoDanglingAnywhere /\ OnlyOwn

LEMMA InitOInv == MergeInit => OInv
  <1> SUFFICES ASSUME MergeInit PROVE OInv
      OBVIOUS
  <1>1. \A s \in Sites : ref[s] = IF /\ s[1][1] = s[2][1]
                                     /\ given[s[1]] = "defined"
                                     /\ given[s[2]] # "absent"
                                  THEN s[2] ELSE Null
      BY DEF MergeInit
  <1>2. \A o \in Symbols : owner[o] = IF given[o] = "absent" THEN Freed ELSE o[1]
      BY DEF MergeInit
  <1>3. \A o \in Symbols : o[1] # Freed
      BY Pairs, MergeAssumption
  <1>4. Operands
      BY <1>1 DEF Operands, Refers
  <1>5. NoDanglingAnywhere
      BY <1>1, <1>2, <1>3, Fields DEF NoDanglingAnywhere
  <1>6. OnlyOwn
      BY <1>1 DEF OnlyOwn
  <1> QED
      BY <1>4, <1>5, <1>6 DEF OInv

(* Objects that die leave null operands and no dangling ones; an operand   *)
(* whose object lives on is untouched.                                     *)
LEMMA DestroyOperands ==
    ASSUME MergeInv, OInv, NEW S \in SUBSET Symbols, Destroy(S)
    PROVE  /\ NoDanglingAnywhere' /\ OnlyOwn'
           /\ \A s \in Sites : ref[s] \notin S => ref'[s] = ref[s]
  <1>1. /\ \A s \in Sites : ref'[s] = IF ref[s] \in S THEN Null ELSE ref[s]
        /\ \A o \in Symbols : owner'[o] = IF o \in S THEN Freed ELSE owner[o]
      BY DEF Destroy
  <1>2. \A s \in Sites : ref[s] \in Symbols \cup {Null}
      BY DEF MergeInv, MergeTypeOK
  <1>3. NoDanglingAnywhere'
      BY <1>1, <1>2, MergeAssumption DEF OInv, NoDanglingAnywhere
  <1>4. OnlyOwn'
      BY <1>1 DEF OInv, OnlyOwn
  <1> QED
      BY <1>1, <1>3, <1>4

(* Dropping an object of the current module whose name the destination has *)
(* loses nothing but operands of a shared name.                            *)
LEMMA DropOperands ==
    ASSUME MergeInv, OInv, NEW o \in Symbols, NEW d \in Symbols, Running, Front(o),
           owner[d] = 0, d[2] = o[2], Destroy({o}), given' = given, failed' = failed
    PROVE  OInv'
  <1>1. o[1] = cur /\ cur \in Nat /\ cur > 0
      BY FrontFacts
  <1>2. Freed # 0
      BY MergeAssumption DEF Modules
  <1>3. given[d] # "absent" /\ d[1] <= cur /\ owner[o] = cur
      BY <1>2, FrontFacts DEF MergeInv, Whereabouts
  <1>4. d[1] # cur
      BY <1>1, <1>3, Pairs
  <1>5. d[1] \in 0 .. o[1] - 1 /\ d = <<d[1], o[2]>>
      BY <1>1, <1>3, <1>4, Pairs
  <1>6. /\ NoDanglingAnywhere' /\ OnlyOwn'
        /\ \A s \in Sites : ref[s] \notin {o} => ref'[s] = ref[s]
      BY DestroyOperands
  <1>7. Operands'
    <2> SUFFICES ASSUME NEW s \in Sites, Refers(s)
                 PROVE  \/ ref'[s] = s[2]
                        \/ /\ s[2][1] # 0
                           /\ \/ failed
                              \/ \E m \in 0 .. s[2][1] - 1 : given[<<m, s[2][2]>>] # "absent"
        BY DEF Operands, Refers
    <2>1. CASE ref[s] = o
      <3>1. s[2] = o
          BY <2>1, MergeAssumption DEF OInv, OnlyOwn
      <3> QED
          BY <3>1, <1>1, <1>3, <1>5
    <2>2. CASE ref[s] # o
        BY <2>2, <1>6 DEF OInv, Operands
    <2> QED
        BY <2>1, <2>2
  <1> QED
      BY <1>6, <1>7 DEF OInv

LEMMA NextOInv == MergeInv /\ OInv /\ [MergeNext]_mergeVars => OInv'
  <1> SUFFICES ASSUME MergeInv, OInv, [MergeNext]_mergeVars PROVE OInv'
      OBVIOUS
  <1>1. CASE NextModule
      BY <1>1 DEF NextModule, OInv, Operands, Refers, NoDanglingAnywhere, OnlyOwn
  <1>2. ASSUME NEW o \in Symbols, Add(o) PROVE OInv'
    <2>1. \A p \in Symbols : owner'[p] = IF p = o THEN 0 ELSE owner[p]
        BY <1>2 DEF Add, MergeInv, MergeTypeOK
    <2>2. 0 # Freed
        BY MergeAssumption DEF Modules
    <2>3. NoDanglingAnywhere'
        BY <1>2, <2>1, <2>2, MergeAssumption DEF Add, OInv, NoDanglingAnywhere, MergeInv, MergeTypeOK
    <2> QED
        BY <1>2, <2>3 DEF Add, OInv, Operands, Refers, OnlyOwn
  <1>3. ASSUME NEW o \in Symbols, Skip(o) PROVE OInv'
    <2>1. PICK d \in Symbols : owner[d] = 0 /\ d[2] = o[2]
        BY <1>3 DEF Skip, Exists
    <2> QED
        BY <1>3, <2>1, DropOperands DEF Skip
  <1>4. ASSUME NEW o \in Symbols, NEW d \in Symbols, Fill(o, d) PROVE OInv'
      BY <1>4, DropOperands DEF Fill
  <1>5. ASSUME NEW o \in Symbols, NEW d \in Symbols, Collide(o, d) PROVE OInv'
    <2> DEFINE S == {p \in Symbols : owner[p] = cur}
    <2>1. Destroy(S) /\ S \in SUBSET Symbols /\ failed' = TRUE /\ given' = given
        BY <1>5 DEF Collide
    <2>2. cur > 0 /\ \A p \in S : p[1] # 0
        BY <1>5, FrontFacts, Pairs DEF Collide, MergeInv, Whereabouts
    <2>3. /\ NoDanglingAnywhere' /\ OnlyOwn'
          /\ \A s \in Sites : ref[s] \notin S => ref'[s] = ref[s]
        BY <2>1, DestroyOperands
    <2>4. Operands'
      <3> SUFFICES ASSUME NEW s \in Sites, Refers(s), s[2][1] = 0
                   PROVE  ref'[s] = s[2]
          BY <2>1 DEF Operands, Refers
      <3>1. ref[s] = s[2]
          BY DEF OInv, Operands
      <3> QED
          BY <3>1, <2>2, <2>3
    <2> QED
        BY <2>3, <2>4 DEF OInv
  <1>6. CASE UNCHANGED mergeVars
      BY <1>6 DEF mergeVars, OInv, Operands, Refers, NoDanglingAnywhere, OnlyOwn
  <1> QED
      BY <1>1, <1>2, <1>3, <1>4, <1>5, <1>6 DEF MergeNext, MergeOne

LEMMA OInvImplies == MergeInv /\ OInv => OwnCallsSurvive /\ NoDanglingOperand
  <1> SUFFICES ASSUME MergeInv, OInv PROVE OwnCallsSurvive /\ NoDanglingOperand
      OBVIOUS
  <1>1. OwnCallsSurvive
    <2> SUFFICES ASSUME NEW s \in Sites, s[1][1] = 0, s[2][1] = 0,
                        given[s[1]] = "defined", given[s[2]] # "absent"
                 PROVE  ref[s] = s[2] /\ owner[s[2]] = 0
        BY DEF OwnCallsSurvive
    <2>1. ref[s] = s[2]
        BY DEF OInv, Operands, Refers
    <2>2. owner[s[2]] = 0
        BY Fields DEF MergeInv, Whereabouts
    <2> QED
        BY <2>1, <2>2
  <1>2. NoDanglingOperand
      BY DEF OInv, NoDanglingAnywhere, NoDanglingOperand
  <1> QED
      BY <1>1, <1>2

(* Whatever is merged, the destination's own code keeps every object it    *)
(* refers to, in the destination.                                          *)
THEOREM OwnCallsAreKept == MergeSpec => []OwnCallsSurvive
  BY InitIInv, NextIInv, InitOInv, NextOInv, OInvImplies, PTL DEF MergeSpec

(* No operand of merged code points at a destroyed object.                 *)
THEOREM NothingDangles == MergeSpec => []NoDanglingOperand
  BY InitIInv, NextIInv, InitOInv, NextOInv, OInvImplies, PTL DEF MergeSpec

LEMMA LostAreShared == MergeInv /\ OInv => OnlySharedNamesAreLost
  <1> SUFFICES ASSUME MergeInv, OInv, ~failed, NEW s \in Sites,
                      InUnit(s), s[1][1] = s[2][1], given[s[2]] # "absent", ref[s] = Null
               PROVE  \E m \in 0 .. s[2][1] - 1 : given[<<m, s[2][2]>>] # "absent"
      BY DEF OnlySharedNamesAreLost
  <1>1. s[1] # Null /\ s[2] # Null
      BY Fields, MergeAssumption
  <1>2. given[s[1]] = "defined"
      BY <1>1 DEF InUnit, MergeInv, Bodies
  <1> QED
      BY <1>1, <1>2 DEF OInv, Operands, Refers

(* A reference of merged code is lost only if the name it refers to was    *)
(* already taken by a module linked earlier.                               *)
THEOREM LostReferencesAreShared == MergeSpec => []OnlySharedNamesAreLost
  BY InitIInv, NextIInv, InitOInv, NextOInv, LostAreShared, PTL DEF MergeSpec
=============================================================================
