-------------------------- MODULE SSAConstruction --------------------------
(***************************************************************************)
(* The conversion of memory variables to SSA form: PhiInsertion::run,      *)
(* SSARenamer::run and Mem2Reg::run (src/src/transforms), in the order of  *)
(* CompilerPipeline::runSSA.  The conversion is done step by step; then    *)
(* the function is executed twice in lockstep, as it was written and as    *)
(* the conversion left it, along any path and with any values stored.      *)
(*                                                                         *)
(* One variable is modelled, for the passes treat each alloc on its own: a *)
(* phi and a stack per alloc.  A block is the sequence of its accesses to  *)
(* the variable: loads and stores of several kinds, or a call that is      *)
(* given the address of the alloc.  A kind is an opcode, a width and an    *)
(* address: it says which part of the memory is read, and how it is        *)
(* extended, or which part is written.  The passes only ask whether the    *)
(* opcode is one they list and the address operand is the alloc itself     *)
(* (Direct); a computed address they do not see.  The value that a store   *)
(* writes is an instruction of its block and takes a new value each time   *)
(* the block is executed.                                                  *)
(***************************************************************************)
EXTENDS CFG, Integers, Sequences

CONSTANTS
  Programs,     \* the functions converted: terminators and accesses of blocks
  MaxOps,       \* bound: the accesses of a block
  Data,         \* the values a variable may hold, 0 among them
  Stored,       \* bound: the values that stores and callees write
  Undef,        \* what reading a null or an uncomputed operand yields
  Loads, Stores,   \* the kinds of access
  Direct,          \* those with an opcode the passes list, at the alloc itself
  Plain,           \* the direct stores that have the opcode Store
  Reads, Writes    \* what a load makes of the memory; the memory after a store

Ops == Loads \cup Stores \cup {"call"}
DirectLoads  == Loads \cap Direct
DirectStores == Stores \cap Direct

ASSUME ProgramAssumption ==
  /\ MaxOps \in Nat \ {0} /\ 0 \in Data /\ Undef \notin Data /\ Stored \subseteq Data
  /\ Loads \cap Stores = {} /\ "call" \notin Loads \cup Stores /\ Plain \subseteq DirectStores
  /\ Reads \in [Loads -> [Data -> Data]]
  /\ Writes \in [Stores -> [Data -> [Data -> Data]]]   \* of the old memory and the value
  /\ \A prog \in Programs :
       /\ prog.term \in [Blocks -> Terminators]
       /\ \A b \in Blocks : prog.code[b] \in Seq(Ops) /\ Len(prog.code[b]) <= MaxOps

(* A value is named by the place that computes it: the operand of the k-th
   access of block b, the phi of block b, the constant 0 or a null operand.  *)
Val == (0 .. N) \X (0 .. MaxOps)
Zero == <<0, 0>>
Null == <<0, 1>>
PhiOf(b) == <<b, 0>>

Sites == Blocks \X (1 .. MaxOps)

VARIABLES
  succ, code,   \* the function
  children,     \* its dominator tree, as DominatorTree::run leaves it
  frontiers,    \* its dominance frontiers, as DominanceFrontier::run does
  phase,        \* "insert", "rename", "promote", "run"
  phis,         \* the blocks that were given a phi
  stack,        \* varStacks of the variable
  calls,        \* the activations of renameBlock, innermost last
  incoming,     \* the operands of the phi of each block, by predecessor
  repl,         \* what replaceAllUsesWith put in the place of each load
  removed,      \* the loads and stores removed from the function
  cur, pc, env, \* execution: the block, the access, the SSA values
  mem, memSSA   \* the memory of the variable, before and after conversion

program == <<succ, code, children, frontiers>>
renamer == <<stack, calls, incoming, repl>>
machine == <<cur, pc, env, mem, memSSA>>
vars == <<program, phase, phis, renamer, removed, machine>>

HasOp(b, k, kinds) == k <= Len(code[b]) /\ code[b][k] \in kinds

Activations == [block : Blocks, waiting : SUBSET Blocks, pushed : Nat]

TypeOK ==
  /\ succ \in [Blocks -> SUBSET Blocks]
  /\ children \in [Blocks -> SUBSET Blocks] /\ frontiers \in [Blocks -> SUBSET Blocks]
  /\ phase \in {"insert", "rename", "promote", "run"}
  /\ phis \subseteq Blocks
  /\ stack \in Seq(Val) /\ calls \in Seq(Activations)
  /\ incoming \in [Blocks -> [Blocks -> Val]]
  /\ repl \in [Sites -> Val]
  /\ removed \subseteq Sites
  /\ cur \in Blocks /\ pc \in 1 .. MaxOps + 1
  /\ env \in [Val -> Data \cup {Undef}]
  /\ mem \in Data /\ memSSA \in Data

(* The immediate dominator of b, as a set that is empty if it has none.      *)
IdomOf(doms, b) ==
  LET sdom == doms[b] \ {b} IN {d \in sdom : sdom \subseteq doms[d]}

TreeOf(doms) == [b \in Blocks |-> {c \in Blocks \ {Entry} : b \in IdomOf(doms, c)}]

Init ==
  /\ \E prog \in Programs : succ = Graph(prog.term) /\ code = prog.code
  /\ children = TreeOf([b \in Blocks |-> DomSetOf(succ, b)])
  /\ frontiers = [b \in Blocks |-> JoinFrontierOf(succ, b)]
  /\ phase = "insert" /\ phis = {}
  /\ stack = <<Zero>> /\ calls = <<>>
  /\ incoming = [b \in Blocks |-> [p \in Blocks |-> Null]]
  /\ repl = [s \in Sites |-> Null]
  /\ removed = {}
  /\ cur = Entry /\ pc = 1
  /\ env = [v \in Val |-> IF v = Zero THEN 0 ELSE Undef]
  /\ mem = 0 /\ memSSA = 0

-----------------------------------------------------------------------------
(* PhiInsertion::run: the frontiers of the blocks that store, not iterated.  *)
DefSites == {b \in Blocks : \E k \in 1 .. MaxOps : HasOp(b, k, DirectStores)}

PhiBlocks == UNION {frontiers[d] : d \in DefSites}

InsertPhis ==
  /\ phase = "insert" /\ phase' = "rename"
  /\ phis' = PhiBlocks
  /\ UNCHANGED <<program, renamer, removed, machine>>

-----------------------------------------------------------------------------
(* SSARenamer::renameBlock.                                                  *)
Top(s) == s[Len(s)]

(* The values the stores of a block push, in the order of the block.         *)
StoresIn(b, ops) ==
  LET pushed[k \in 0 .. Len(ops)] ==
        IF k = 0 THEN <<>>
        ELSE IF ops[k] \in DirectStores THEN Append(pushed[k - 1], <<b, k>>) ELSE pushed[k - 1]
  IN  pushed[Len(ops)]

StoresOf(b) == StoresIn(b, code[b])

WithPhi(b) == IF b \in phis THEN Append(stack, PhiOf(b)) ELSE stack

(* Variants of RenameBlock with a bug: the phis are filled before the stores
   are pushed; the loads are replaced after; the phis of the children in the
   tree are filled, not those of the successors.                             *)
RenameBlockEarly(b) ==
  /\ repl' = [s \in Sites |-> IF s[1] = b /\ HasOp(b, s[2], DirectLoads)
                              THEN Top(WithPhi(b)) ELSE repl[s]]
  /\ stack' = WithPhi(b) \o StoresOf(b)
  /\ incoming' = [s \in Blocks |-> IF s \in succ[b] \cap phis
                                   THEN [incoming[s] EXCEPT ![b] = Top(WithPhi(b))]
                                   ELSE incoming[s]]

RenameBlockLate(b) ==
  /\ stack' = WithPhi(b) \o StoresOf(b)
  /\ repl' = [s \in Sites |-> IF s[1] = b /\ HasOp(b, s[2], DirectLoads)
                              THEN Top(stack') ELSE repl[s]]
  /\ incoming' = [s \in Blocks |-> IF s \in succ[b] \cap phis
                                   THEN [incoming[s] EXCEPT ![b] = Top(stack')]
                                   ELSE incoming[s]]

RenameBlockTree(b) ==
  /\ repl' = [s \in Sites |-> IF s[1] = b /\ HasOp(b, s[2], DirectLoads)
                              THEN Top(WithPhi(b)) ELSE repl[s]]
  /\ stack' = WithPhi(b) \o StoresOf(b)
  /\ incoming' = [s \in Blocks |-> IF s \in children[b] \cap phis
                                   THEN [incoming[s] EXCEPT ![b] = Top(stack')]
                                   ELSE incoming[s]]

(* The part of an activation before the recursion: push the phi, replace the
   loads, push the stores, fill the phis of the successors.                  *)
RenameBlock(b) ==
  /\ repl' = [s \in Sites |-> IF s[1] = b /\ HasOp(b, s[2], DirectLoads)
                              THEN Top(WithPhi(b)) ELSE repl[s]]
  /\ stack' = WithPhi(b) \o StoresOf(b)
  /\ incoming' = [s \in Blocks |-> IF s \in succ[b] \cap phis
                                   THEN [incoming[s] EXCEPT ![b] = Top(stack')]
                                   ELSE incoming[s]]

Activation(b) == [block |-> b, waiting |-> children[b],
                  pushed |-> Len(WithPhi(b) \o StoresOf(b)) - Len(stack)]

(* The first activation, of the entry, and one for a child in the tree.  The
   order of the children is that of their addresses.                         *)
RenameEntry ==
  /\ phase = "rename" /\ calls = <<>>
  /\ RenameBlock(Entry)
  /\ calls' = <<Activation(Entry)>>
  /\ UNCHANGED <<program, phase, phis, removed, machine>>

RenameChild(c) ==
  /\ phase = "rename" /\ calls # <<>> /\ c \in Top(calls).waiting
  /\ RenameBlock(c)
  /\ calls' = Append([calls EXCEPT ![Len(calls)].waiting = @ \ {c}], Activation(c))
  /\ UNCHANGED <<program, phase, phis, removed, machine>>

PopNothing(a) == stack                \* variant: local_defs is not popped

PopDefs(a) == SubSeq(stack, 1, Len(stack) - a.pushed)

(* The part after the recursion: pop the definitions, remove the dead loads. *)
LeaveBlock ==
  /\ phase = "rename" /\ calls # <<>> /\ Top(calls).waiting = {}
  /\ LET a == Top(calls)
     IN  /\ stack' = PopDefs(a)
         /\ removed' = removed \cup {s \in Sites : s[1] = a.block /\ HasOp(s[1], s[2], DirectLoads)}
  /\ calls' = SubSeq(calls, 1, Len(calls) - 1)
  /\ phase' = IF Len(calls) = 1 THEN "promote" ELSE "rename"
  /\ UNCHANGED <<program, phis, incoming, repl, machine>>

(* Mem2Reg::run removes the stores to an alloc that have the opcode Store;
   those of other opcodes, and with them the alloc, stay.                    *)
Promote ==
  /\ phase = "promote" /\ phase' = "run"
  /\ removed' = removed \cup {s \in Sites : HasOp(s[1], s[2], Plain)}
  /\ UNCHANGED <<program, phis, renamer, machine>>

-----------------------------------------------------------------------------
(* Execution.  A block computes a value before the store that writes it.     *)
AtOp(kinds) == phase = "run" /\ HasOp(cur, pc, kinds)
Kind == code[cur][pc]

(* A load that was replaced yields the operand as it is, whatever its width. *)
Loaded == IF <<cur, pc>> \in removed THEN env[repl[<<cur, pc>>]] ELSE Reads[Kind][memSSA]

ExecLoad ==
  /\ AtOp(Loads) /\ pc' = pc + 1
  /\ UNCHANGED <<program, phase, phis, renamer, removed, cur, env, mem, memSSA>>

ExecStore(x) ==
  /\ AtOp(Stores) /\ pc' = pc + 1
  /\ env' = [env EXCEPT ![<<cur, pc>>] = x]
  /\ mem' = Writes[Kind][mem][x]
  /\ memSSA' = IF <<cur, pc>> \in removed THEN memSSA ELSE Writes[Kind][memSSA][x]
  /\ UNCHANGED <<program, phase, phis, renamer, removed, cur>>

(* The callee may write through the address it was given.                    *)
ExecCall(x) ==
  /\ AtOp({"call"}) /\ pc' = pc + 1
  /\ mem' = x /\ memSSA' = x
  /\ UNCHANGED <<program, phase, phis, renamer, removed, cur, env>>

Jump(s) ==
  /\ phase = "run" /\ pc > Len(code[cur]) /\ s \in succ[cur]
  /\ cur' = s /\ pc' = 1
  /\ env' = IF s \in phis THEN [env EXCEPT ![PhiOf(s)] = env[incoming[s][cur]]] ELSE env
  /\ UNCHANGED <<program, phase, phis, renamer, removed, mem, memSSA>>

Next ==
  \/ InsertPhis \/ RenameEntry \/ LeaveBlock \/ Promote
  \/ \E c \in Blocks : RenameChild(c)
  \/ ExecLoad \/ \E x \in Stored : ExecStore(x) \/ ExecCall(x)
  \/ \E s \in Blocks : Jump(s)

Spec == Init /\ [][Next]_vars

-----------------------------------------------------------------------------
(* What Mem2Reg.cpp:11 and PhiInsertion promise together: whatever path is
   taken and whatever is stored, each load reads after the conversion what it
   read before, and the loads that stay read the same from the memory.       *)
LoadsAgree == AtOp(Loads) => Loaded = Reads[Kind][mem]

(* The direct accesses that read or write the variable as a whole, unchanged. *)
Full ==
  {op \in DirectLoads : \A m \in Data : Reads[op][m] = m} \cup
  {op \in DirectStores : \A m, x \in Data : Writes[op][m][x] = x}

(* The functions on which the conversion can be right: every block can be
   reached, nothing jumps to the entry, every access is of the whole variable
   and at the alloc itself, no address is passed to a call, no load follows a
   store in its block, and the frontiers need no iteration.                  *)
Covered ==
  /\ AllReachable(succ) /\ Preds(succ, Entry) = {}
  /\ \A b \in Blocks, j, k \in 1 .. MaxOps :
       /\ HasOp(b, k, Ops) => HasOp(b, k, Full)
       /\ HasOp(b, j, Stores) /\ HasOp(b, k, Loads) => k < j
  /\ \A b \in PhiBlocks : frontiers[b] \subseteq PhiBlocks

(* On those the conversion preserves what is loaded, on every path and for
   every value stored: phis merge the right definitions and no iteration of
   a loop sees the value of another one.                                     *)
CoveredLoadsAgree == LoadsAgree \/ ~Covered

(* During the walk over the tree the stack holds the definitions of the
   blocks from the entry to the one being renamed, and no other: a subtree
   leaves nothing behind for its siblings.                                   *)
StackFollowsTree ==
  LET defs(b) == (IF b \in phis THEN <<PhiOf(b)>> ELSE <<>>) \o StoresOf(b)
      along[n \in 0 .. Len(calls)] ==
        IF n = 0 THEN <<Zero>> ELSE along[n - 1] \o defs(calls[n].block)
  IN  phase = "rename" => stack = along[Len(calls)]

(* SSA form: a definition dominates the loads it replaces, and the end of the
   predecessor through which it enters a phi.                                *)
DefsDominateUses ==
  (phase = "promote" /\ AllReachable(succ)) =>
    /\ \A s \in removed : repl[s][1] # 0 =>
         Dominates(succ, repl[s][1], s[1]) /\ (repl[s][1] = s[1] => repl[s][2] < s[2])
    /\ \A b, p \in Blocks : incoming[b][p][1] # 0 => Dominates(succ, incoming[b][p][1], p)

(* A phi ends up with an operand for each predecessor, and for no other.     *)
PhisComplete ==
  (phase = "promote" /\ AllReachable(succ)) =>
    \A b \in phis, p \in Blocks : incoming[b][p] = Null <=> p \notin Preds(succ, b)
=============================================================================
