----------------------------- MODULE LinearScan -----------------------------
(***************************************************************************)
(* LinearScanAllocator (src/src/codegen/regalloc/LinearScanAllocator.cpp): *)
(* the live intervals of a function are visited in the order of their      *)
(* starts; each is given a register of one of three pools, or a stack      *)
(* slot, or the register of the lightest active interval, which then moves *)
(* to a stack slot for its whole life.                                     *)
(*                                                                         *)
(* The intervals are not fixed beforehand: a step takes any vreg that has  *)
(* not been visited with any interval that starts after the last one, so a *)
(* behaviour is a run of the allocator on some function.                   *)
(*                                                                         *)
(* Abstractions.  The preference for the register of the first operand and *)
(* the last-in first-out order of a pool only pick one free register of a  *)
(* pool; here any may be picked.  active_intervals is kept sorted by end,  *)
(* so the loop of expireOldIntervals that returns at the first interval    *)
(* still alive expires exactly those that end by the current start.        *)
(***************************************************************************)
EXTENDS Naturals, FiniteSets

CONSTANTS
  Vregs,          \* the instructions whose results need a place
  Caller,         \* pool of caller-saved registers (indices 0, 2 .. 7)
  R10,            \* the pure scratch register of that pool, index 0
  Callee,         \* pool of callee-saved registers (indices 8 .. 12)
  Xmm,            \* pool of SIMD registers (indices 100 .. 115)
  Unvisited,      \* the location of a vreg that has not been visited
  Calls,          \* the positions of call instructions
  MaxPos,         \* bound: the number of instruction positions
  MaxWeight,      \* bound: the distinct spill weights
  Widths          \* the sizes of values in words of eight bytes

Stack == "stack"     \* the location of a spilled vreg

Regs == Caller \cup Callee \cup Xmm

Intervals == [start : 0 .. MaxPos, end : 0 .. MaxPos, weight : 0 .. MaxWeight,
              vector : BOOLEAN, width : Widths]

ASSUME RegisterAssumption ==
  /\ R10 \in Caller
  /\ Caller \cap Callee = {} /\ Caller \cap Xmm = {} /\ Callee \cap Xmm = {}
  /\ Stack \notin Regs /\ Unvisited \notin Regs \cup {Stack}
  /\ MaxPos \in Nat /\ MaxWeight \in Nat /\ Calls \subseteq Nat
  /\ Widths \subseteq Nat \ {0} /\ Widths # {}

VARIABLES
  interval,       \* the live interval of each visited vreg
  loc,            \* vreg_to_location_map: a register, a slot, or Unvisited
  active,         \* active_intervals: the intervals alive in a register
  freeCaller, freeCallee, freeXmm,   \* the pools of free registers
  pos,            \* the start of the last interval visited, plus one
  frame,          \* current_frame_bytes, in words
  slotAt          \* StackSlot::byteOffset of each spilled vreg, in words

pools == <<freeCaller, freeCallee, freeXmm>>
scanVars  == <<interval, loc, active, pools, pos, frame, slotAt>>

StartOf(v)  == interval[v].start
EndOf(v)    == interval[v].end
InReg(v)  == loc[v] \in Regs
Spilled(v) == loc[v] = Stack
Visited(v) == loc[v] # Unvisited

(* LiveIntervalAnalysis: a call strictly inside the interval.               *)
LiveAcrossCall(iv) == \E c \in Calls : iv.start < c /\ c < iv.end

ScanTypeOK ==
  /\ interval \in [Vregs -> Intervals]
  /\ loc \in [Vregs -> Regs \cup {Stack, Unvisited}]
  /\ active \subseteq Vregs
  /\ freeCaller \subseteq Caller /\ freeCallee \subseteq Callee /\ freeXmm \subseteq Xmm
  /\ pos \in Nat /\ frame \in Nat
  /\ slotAt \in [Vregs -> Nat]

ScanInit ==
  /\ interval = [v \in Vregs |-> CHOOSE iv \in Intervals : TRUE]
  /\ loc = [v \in Vregs |-> Unvisited]
  /\ active = {}
  /\ freeCaller = Caller /\ freeCallee = Callee /\ freeXmm = Xmm
  /\ pos = 0 /\ frame = 0
  /\ slotAt = [v \in Vregs |-> 0]

-----------------------------------------------------------------------------
(* expireOldIntervals at a start point: who expires, who stays active, and
   the pool each register of the expired goes back to, by its index.        *)
ExpiredEarly(start) == {a \in active : EndOf(a) <= start + 1}     \* variant: off by one
Expired(start) == {a \in active : EndOf(a) <= start}
Alive(start)   == {a \in active : EndOf(a) > start}
Returned(start) == {loc[a] : a \in Expired(start)}

CallerAfter(start) == freeCaller \cup (Returned(start) \cap Caller)
CalleeAfter(start) == freeCallee \cup (Returned(start) \cap Callee)
XmmAfterLeak(start) == freeXmm                                  \* variant: never returned
XmmAfter(start)    == freeXmm \cup (Returned(start) \cap Xmm)

(* The registers the loop body may take for an interval, pool by pool.      *)
Candidates(iv) ==
  IF iv.vector THEN XmmAfter(iv.start)
  ELSE IF LiveAcrossCall(iv) THEN CalleeAfter(iv.start)
  ELSE IF R10 \in CallerAfter(iv.start) THEN {R10}
  ELSE IF CalleeAfter(iv.start) # {} THEN CalleeAfter(iv.start)
  ELSE CallerAfter(iv.start)

(* allocateStackSlot: an aligned offset beyond every slot given so far.     *)
Unaligned(n, w) == n                                            \* variant: no rounding
Aligned(n, w) == IF n % w = 0 THEN n ELSE n + (w - (n % w))

GiveSlot(v, w) ==
  /\ slotAt' = [slotAt EXCEPT ![v] = Aligned(frame, w)]
  /\ frame' = Aligned(frame, w) + w

NoSlot == UNCHANGED <<slotAt, frame>>

(* What every visit does first: record the interval, then expire.           *)
Arrives(v, iv) ==
  /\ ~Visited(v)
  /\ pos <= iv.start /\ iv.start <= iv.end
  /\ interval' = [interval EXCEPT ![v] = iv]
  /\ pos' = iv.start + 1

PoolsAfter(start, taken) ==
  /\ freeCaller' = CallerAfter(start) \ taken
  /\ freeCallee' = CalleeAfter(start) \ taken
  /\ freeXmm' = XmmAfter(start) \ taken

(* A free register of the right pool is taken.                              *)
Assign(v, iv, r) ==
  /\ Arrives(v, iv)
  /\ r \in Candidates(iv)
  /\ loc' = [loc EXCEPT ![v] = r]
  /\ active' = Alive(iv.start) \cup {v}
  /\ PoolsAfter(iv.start, {r})
  /\ NoSlot

(* spillAtInterval.  The candidate for eviction is the first of least weight
   in an order by end; ties are left open.                                   *)
Lightest(a, start) ==
  /\ a \in Alive(start)
  /\ \A b \in Alive(start) : interval[a].weight <= interval[b].weight

MayEvictCaller(a, iv) ==                                        \* variant: calls ignored
  Lightest(a, iv.start) /\ interval[a].weight < iv.weight

MayEvict(a, iv) ==
  /\ Lightest(a, iv.start)
  /\ interval[a].weight < iv.weight
  /\ LiveAcrossCall(iv) => loc[a] \notin Caller       \* reg.index >= 8

SpillLightest(v, iv, a) ==
  /\ Arrives(v, iv)
  /\ Candidates(iv) = {}
  /\ MayEvict(a, iv)
  /\ loc' = [loc EXCEPT ![v] = loc[a], ![a] = Stack]
  /\ GiveSlot(a, interval[a].width)
  /\ active' = (Alive(iv.start) \ {a}) \cup {v}
  /\ PoolsAfter(iv.start, {})

SpillCurrent(v, iv) ==
  /\ Arrives(v, iv)
  /\ Candidates(iv) = {}
  /\ Alive(iv.start) = {} \/ \E a \in Alive(iv.start) : Lightest(a, iv.start) /\ ~MayEvict(a, iv)
  /\ loc' = [loc EXCEPT ![v] = Stack]
  /\ GiveSlot(v, iv.width)
  /\ active' = Alive(iv.start)
  /\ PoolsAfter(iv.start, {})

ScanNext ==
  \E v \in {u \in Vregs : ~Visited(u)}, iv \in {i \in Intervals : pos <= i.start} :
    \/ \E r \in Regs : Assign(v, iv, r)
    \/ \E a \in Vregs : SpillLightest(v, iv, a)
    \/ SpillCurrent(v, iv)

ScanSpec == ScanInit /\ [][ScanNext]_scanVars

-----------------------------------------------------------------------------
(* Two vregs whose intervals overlap never end up in one register, not even
   when a register changed hands by an eviction in the middle of an interval
   or was freed and taken again.  Touching ends are allowed: the instruction
   reads its operands before it writes its result.                           *)
NoSharedRegister ==
  \A v, w \in Vregs :
    (v # w /\ InReg(v) /\ loc[v] = loc[w]) => EndOf(v) <= StartOf(w) \/ EndOf(w) <= StartOf(v)

(* No register is lost or duplicated: each is free in the pool of its class,
   once, or held by exactly one active interval.                             *)
PoolsConserve ==
  \A r \in Regs :
    LET holders == {a \in active : loc[a] = r}
    IN  IF r \in freeCaller \cup freeCallee \cup freeXmm THEN holders = {}
        ELSE Cardinality(holders) = 1

(* A value that is alive across a call is never in a caller-saved general
   register, whether it was assigned one or took one over by an eviction.    *)
NoCallerSavedAcrossCall ==
  \A v \in Vregs : loc[v] \in Caller => ~LiveAcrossCall(interval[v])

(* Spilled values do not overlap in the frame and each is aligned to its
   size, so that an aligned vector move of a slot is legal.                  *)
SlotsDisjoint ==
  \A v \in Vregs : Spilled(v) =>
    /\ slotAt[v] % interval[v].width = 0
    /\ slotAt[v] + interval[v].width <= frame
    /\ \A w \in Vregs \ {v} : Spilled(w) =>
         \/ slotAt[v] + interval[v].width <= slotAt[w]
         \/ slotAt[w] + interval[w].width <= slotAt[v]

(* An active interval gives its register up only to a heavier one that is
   alive at the same time, and nothing comes back from the stack.            *)
EvictionPays ==
  [][\A v \in Vregs :
       /\ Spilled(v) => loc'[v] = loc[v]
       /\ InReg(v) /\ loc'[v] # loc[v] =>
            /\ loc'[v] = Stack
            /\ \E w \in Vregs : /\ ~Visited(w) /\ loc'[w] = loc[v]
                                /\ interval'[w].weight > interval[v].weight
                                /\ interval'[w].start < interval[v].end]_scanVars

(* What the comment "Must spill to stack across call to prevent caller-saved
   clobbering" says of a value that is not a vector: alive across a call, it
   is in a callee-saved register or on the stack.                            *)
CrossCallSurvives ==
  \A v \in Vregs :
    (InReg(v) /\ ~interval[v].vector /\ LiveAcrossCall(interval[v])) => loc[v] \in Callee
=============================================================================
