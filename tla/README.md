# Fyra, a verification development

Fyra is a compiler backend written in C++: an SSA intermediate representation, a
parser, a pipeline of analyses and transformations, a register allocator, code
generators for ten targets, and a linker of its own. The modules here model the
parts of it whose control is hard to test, check them with TLC on small
instances, and prove the central properties with TLAPS for instances of any size.

Paths are relative to the repository (`src/...` is the C++ source directory).

## 1. Inventory

| Component | State | Operations | Talks to | What is hard | What makes it correct |
|---|---|---|---|---|---|
| IR core: values, uses, instructions, blocks, phis (`src/ir`) | use lists, operand vectors, phi entries, block lists, ownership | `Use::set`, `replaceAllUsesWith`, phi edits, block and instruction removal | every pass | orders of destruction and redirection; raw pointers outside the use lists | both directions of the use-def graph agree; nothing reads what was destroyed; phi entries stay paired |
| Modules, types, constants, builder (`src/ir`) | interned types and constants, symbol lists | construction | parser, linker, passes | stale insertion points | interned values are unique |
| IR linker (`IRLinker.cpp`) | the lists of functions and globals of two modules, the name tables | `linkModules`, once for each additional module | called by the builder; destroys objects of the IR core | what is destroyed is still referred to; a collision in mid-merge | the definition of a name wins; only double definitions are refused; no operand dangles or is lost |
| Parser | token position, value map, pending phis | recursive descent | builder | forward references | each name resolves to the block or value of that name |
| CFG, dominators, frontiers (`src/transforms`) | predecessor/successor lists, dominator sets, tree, frontiers | three `run` methods | read by phi insertion, the renamer, loop passes | unreachable blocks, cycles nobody enters, loops to the entry | dominators are on every path; the tree and the frontiers are exact; the iteration ends |
| SSA construction: PhiInsertion, SSARenamer, Mem2Reg | stack of definitions per variable, phis | insertion, recursive renaming, removal of stores | dominators, use-def graph | joins, loops, order in a block, unreachable blocks, escaping addresses | every load reads what it read before |
| Scalar passes: SCCP, GVN, copies, dead code, control flow, inlining, combining, scheduling | worklists, lattice values, executable edges, value numbers | one `run` each, iterated by the pipeline | use-def graph | worklists in any order; phis when edges vanish; chains of copies | the function computes what it computed; phis match their predecessors; no operand is erased under its reader; the rounds end |
| E-graph rewriting | union-find, hash-consing table, lists of nodes per class | add, apply rules, merge, rebuild, extract, replace | instructions of one block | lists and table that go stale when classes are united; extraction through classes that contain themselves | the nodes of a class compute the same; the block returns what it returned; the pass ends |
| Loop passes: LICM, strength reduction, unrolling, vectorizing | loops, preheaders, hoisted instructions | one `run` each | dominators, phis | loops found before the first preheader is made; one set of hoisted instructions for all loops | the function stays in SSA form: operands are computed before they are read, phis match their predecessors |
| Liveness and intervals | loops, ranges in layout order, values alive after an instruction | `run` | allocator, code generation | layout order against execution order; loops | an interval covers every point at which the value is needed; what is held alive is what some path needs |
| Linear scan | active intervals, three pools of registers, frame | assign, expire, evict, spill | rewriter | pools run dry; touching ends; calls | no two overlapping intervals share a register; registers are conserved; slots are disjoint |
| Rewriter | spilled values and slots | reloads and stores around uses | allocator, use-def graph | phis, calls | a reload reads what was stored |
| Code generation, object writers, debug information, validation | byte buffers, symbol tables, relocations | emission | target descriptors | encodings | not a matter of control |
| Pipeline (`CompilerPipeline.cpp`) | `isSSAPrepared_`, `isOptimized_`, `isRegAllocated_` | `cloneModule`, `runValidation`, `runSSA`, `runOptimizations`, `runRegAlloc`, `run` | all passes | the flags belong to the pipeline and not to the module; a run that fails leaves some set | each module passes each stage, in order |
| Backend builder (`BackendBuilder.cpp`) | `config_`, `enableLTO_`, `preparedModule_`, `isPrepared_`, modules and link inputs | fluent setters, `ensurePrepared`, `invalidatePrepared`, nine `emit` calls | pipeline, IR linker, internal linker | setters, failing emissions and edits of the source in any order | an artifact is that of a new builder with the present settings |
| Target core, architectures, OS, capabilities | tables | lookup, selection, encoding | code generation | tables | not a matter of control |
| Internal linker, archives | symbol table, undefined set, extracted members, sections, thunks | extract, lay out, resolve, add a stub, relocate | object readers, executable writers | rounds of extraction; locals and globals in one table; thunks appended after the layout | members are linked when and only when needed; a reference gets the one definition; errors are deserved; nothing overlaps |
| Object, executable and package writers | byte buffers | write | linker | layout | file formats |
| Command line driver | options | dispatch | pipeline, builder | - | - |

The compiler is sequential: there are no threads, no persistence and no
messages. What is hard in it is the order of legal calls, stale pointers and
sets, fixpoints that must be reached, pools that run dry, and graphs nobody
wrote a test for. `PROJECT.json` lists these hazards at their lines.

## 2. Modules

| Module | Models | State and actions against the code |
|---|---|---|
| `UseDef` | values, uses, instructions, blocks, phis | `use_list[v][u]` counts the entries of `Value::use_list`, `val`/`user` are the two pointers of a `Use`, `operands` the vector of a `User`. `sweep` is a pass that hands one list of dead instructions to several blocks: the list, and the blocks still to be called. Actions: creation, `Use::set`, `replaceAllUsesWith`, `BeginSweep` and one `removeInstructions` for each of its blocks, `setIncomingValueForBlock`, `removeIncomingValue`, deletion of blocks, moving of instructions. Each is the whole call, with the destructors it runs. |
| `CFG` | graphs of blocks, successors as `CFGBuilder::run` finds them | and the path-based notions the analyses are measured against |
| `Dominators` | `DominatorTree::run`, `DominanceFrontier::run` | `VisitBlock` is one turn of the inner loop, `EndRound` the end of a turn of the `while`, `BuildTree` the immediate dominators, `StartRunner`/`Climb`/`Finish` the frontier loop. `Execute`/`Walk` run the function along any path, for the theorem about it. |
| `LoopMotion` | `LoopInvariantCodeMotion::performTransformation` on what `Dominators` has computed | `header`, `inLoop`, `preheader` are the `Loop` that is processed, `hoisted` is `hoistedInstructions_`. `FindLoops` finds all loops, `NextLoop` begins with one; `Hoist` moves one instruction and makes the preheader when it must. |
| `SSAConstruction` | `PhiInsertion::run`, `SSARenamer::run`, `Mem2Reg::run` | `calls` is the recursion of `renameBlock`, `stack` is `varStacks` of the variable. An access has a kind, which says what part of the memory it reads or writes (`Reads`, `Writes`); those the passes see are `Direct`, those `Mem2Reg` removes `Plain`. `ExecLoad`, `ExecStore`, `ExecCall`, `Jump` execute the function before and after conversion in lockstep. |
| `LinearScan` | `LinearScanAllocator::linearScan` and its helpers | `Assign`, `SpillLightest`, `SpillCurrent` are the three outcomes of a turn of the loop, expiry included. The intervals are not fixed beforehand: a behaviour is a run on some function. |
| `IRLinker` | `IRLinker::linkModules` as `ensurePrepared` calls it | `owner[o]` is the module whose list holds an object, `body[o]` whose blocks or initializer it has, `ref[s]` what an operand of a body refers to. A step merges the front of a list: `Add`, `Skip`, `Fill` and `Collide` are the four outcomes of a turn of the two `while` loops, each with the destructors it runs (`Destroy`). |
| `BuildSettings` | what a client gives to a `BackendBuilder`, and what a build from the start makes of it | `cfg` is `config_` and `enableLTO_`. A unit of code is described by the modules it was put together from and the settings its stages ran under. |
| `BuildContract` | nothing in the code: the abstract specification of a session, without cache and flags | `snap` is the source module a session has settled on |
| `BuildSession` | `BackendBuilder` and `CompilerPipeline` | `unit`, `done`, `prepared` are `preparedModule_`, the three flags of the pipeline and `isPrepared_`. One action per setter; `Emit` is a whole `emit` call with the `ensurePrepared` it makes. `MeetsContract` is the refinement of `BuildContract`. |
| `SCCP` | functions in SSA form, their execution, and the analysis of `SCCP.cpp` | `lat` is the lattice value of a phi or an instruction (the set of values it may have: all, one, none yet), `edges`, `reached` the executable edges and blocks, `blocks`, `instrs` the two worklists. `Raise` is the change of a value with the users it queues. |
| `Simplification` | what `GVN` and `InstCombinePass` make of one instruction, and the edits of functions that all scalar passes use | operators: `Redundant` is what value numbering replaces an instruction with (a copied value, a constant, an operand by an identity, an earlier instruction of the same key), `Combine` what combining leaves of the function. The identities each of them knows are constants. |
| `ScalarPasses` | the rounds of `CompilerPipeline::runOptimizations`: SCCP, `CopyElimination`, `GVN`, `ControlFlowSimplification`, `DeadInstructionElimination`, `InstCombinePass` | `before` is the function a round began with, `fn` what the passes have made of it; `phase` names the pass, or the loop of a pass, that is next: a step is a whole loop over the function, or one instruction for `GVN` and `InstCombinePass`. `table` is `exprTable`, each entry with the operands its key was made of; `turns` counts the turns of `GVN::run`. `here` and `there` are machines that execute the two in lockstep, with any argument and any results of loads and calls. |
| `LiveRanges` | `LivenessAnalysis::run` and the loops it takes from `LoopInvariantCodeMotion::findLoops` | operators on a function: `RangeEnd` is where the interval of a value ends, `AliveAtEnd` what is held alive after a block. They are evaluated on the functions that a round of the passes begins and ends with. |
| `EGraph` | `EGraphPass::performTransformation` on a block, with `EGraph` and `UnionFind` | `graph.rep` is `find`, `graph.memo`, `graph.classes` the two maps; `graph.val`, what a class was made for, is a history the code does not keep. `adding` and `extracting` are the recursions of `addValue` and `extractBest`; a step visits one node, one merge or one call. |
| `DivisionReduction` | what `DivisionStrengthReduction` computes for a divisor: the magic numbers and the instructions built with them | operators: `UnsignedMagic` and `SignedMagic` are the two functions of that name for 32 bits, `Quotient` and `Reduced` what the instructions that `processInstruction` builds compute from the numerator. |
| `ArithmeticPasses` | the two passes as `runOptimizations` calls them, one after the other, the first if it is enabled | `pass` is whose turn it is, `visit` the iterator over the block. `Visit` replaces a division: what is built in its place is one instruction here, with its result as a function of the numerator. `Evaluated` is the data flow of the instructions, wherever they stand; `Executed` executes them in order. |
| `InternalLinker` | `extractLazyArchiveMembers` and `link` as `emitExecutable` calls them | `linked` is the list of objects in the image, `undefined` the set of a round, `symbols` the table of names, `place`, `base`, `size` the layout, `bound` what a relocation was bound to: the definer, the stub, a thunk, a slot. A step looks at one member, one object, one section or one relocation. |
| `CFG_proofs` | the facts about the paths of a graph that the other proofs rest on | |
| `UseDef_proofs`, `Dominators_proofs`, `SSAConstruction_proofs`, `ScalarPasses_proofs`, `SameBehaviour_proofs`, `EGraph_proofs`, `Backend_proofs` | the theorems; `SameBehaviour_proofs` continues `ScalarPasses_proofs`, and the last is about `LinearScan`, `InternalLinker`, `BuildSession` and `IRLinker` | |
| `MC*` | the instances for TLC | |

Abstractions. Names of blocks are a constant function of `UseDef` (phis match
their blocks by name as well as by pointer). Between two calls of a sweep nothing
is allocated, in the code and in the model, so no new instruction lives where one of the
list has died; what its freed memory yields as a parent is the last one or no block. One variable stands for all in
`SSAConstruction`, for the passes treat each alloc on its own; opcode, width and address
of an access are its kind, and kinds are constants: which are direct, what a load of the
kind makes of the memory, what a store leaves there. A load that is replaced yields the
operand as it is, whatever the kind would have read. In `LinearScan`
the order of a pool and the preference for the operand's register only choose
one free register of a pool; any may be chosen. Statistics, printing, source
lines and the list of freed slots that nothing reads are left out. In
`IRLinker` the order of a list is any, every defined function has one call site
for each object of its module (operands do not influence each other), and
functions and globals have different names, as the code looks them up in
separate tables. In `BuildSession` the four switches of the loop passes are the
set `Switches`, target features are counted, and code generation and writing
succeed or fail at will; which parts clash or do not validate is a constant.
`EditSource` is the client's edit of the module that the builder refers to.

In `SCCP` and its users a parsed block has one phi at most, one other instruction
and a terminator; blocks get more by merging, and `body[b]` lists the pieces. A
"load" is any instruction whose outcome SCCP does not know and in which
`DeadInstructionElimination` sees no effect, calls of external functions among
them. The worklists are sets, from which any element may be taken: the stacks of
the code are one order. Left out are the folding of whole calls
(`evaluatePureFunctionCall`), dead stores, `Jz`, the rules for extensions,
truncations and selects, and the passes between these: the e-graph and division
(which have modules of their own), the loop passes, inlining. Spill weights,
`computeLiveSets` (whose sets nothing reads) and the rewriter are left out of
liveness.

`GVN` is modelled instruction by instruction: the table a block starts with is that
of its parent in the dominator tree, siblings come in any order, for they do not
see each other's tables, and the turns repeat until nothing changes or five are
over (`MaxTurns`). What the code removes at the end of a block is erased at once:
nothing reads it in between. `SimplificationAssumption` says that the identities hold in the
arithmetic of the model, that operations whose operands are sorted commute, and
that those whose constants are joined associate; how the code differs from that at
particular types is listed in 6. The first `InstCombinePass` of the first round is left out; that of round
n + 1 ends round n, so its effect is compared with what the round began with.

In `EGraph` arithmetic is that on integers with two operands. Arithmetic of other
blocks is expanded by `addValue` as that of the block itself and is not told apart
from it. Constants that a rule makes are never pointer-equal to the program's, as
they belong to another context. The arithmetic is a constant with the identities
of the rules as its assumption; `value` of a program lists what its instructions
amount to, for some assignments to the leaves. For every block of the instance
but those for the divisions the final block of the model was compared with that of the compiled pass, run
with the code's own depth and rounds, and is the same; the same blocks overflow.

In `DivisionReduction` a type has `Word` bits for the code's 32, and intermediate
products have twice as many. What the loops for the magic numbers double at each
turn is the quotient and the remainder of a power of two, and is written as that.
A constant may hold a number below zero or the number with the same bits above it,
which the code treats differently; `Visit` tries both. Divisions of 64 bits, of
which only those by powers of two are reduced, are left out, and so is
`computeSignedMagic64`, which nothing calls.

In `InternalLinker` a build says what each object holds of each name; an address
is the piece it lies in. The sections `.text`, `.rodata`, `.data`, `.bss` are placed
(two of them in the run); others are section 0. Debug sections, which all get one
address, and the symbol `$main` are left out. Whether a relocation can be
evaluated is any choice, for its bytes are not modelled. A target without thunks
is `ThunkSize = 0`. `ReferencesBind` assumes `LocalsAreOwn`: no object refers to a
name that another object has as a local (see 6).

In `LoopMotion` a block is parsed with one instruction besides its terminator, the
functions are those with every block reachable and each operand in a dominator
of its reader, and blocks of a loop are visited in any order, for they are a set
of pointers. Phis of a preheader are known by the edges they have values for.
Phis match blocks by name too and every preheader has the same one; but a
preheader leads to its own header only, which has one preheader at a time, so no
phi meets two of them in this pass.

`SSAConstruction` takes the result of the analyses from `CFG` (`DomSetOf`,
`JoinFrontierOf`); that these are what the code computes is `TreeExact` and
`FrontierExact` of `Dominators`.

## 3. Runs

| Run | Instance | What it shows |
|---|---|---|
| `usedef` | two instructions, a phi, two blocks, a constant, four uses | any sequence of calls keeps use lists exact, operands alive, phi entries paired, and destroys only what was asked, also where one list goes to both blocks and the second is asked about what the first destroyed. Four uses are two entries of a phi or an instruction and an entry: enough for every aliasing of `Use::set`, and for entries erased from the middle. |
| `linear_scan` | four vregs, two caller-saved, one callee-saved and one SIMD register, five positions, a call in the middle, two weights, two widths | no sharing, conservation, calls spared, slots aligned and disjoint. Every pool runs dry and refills; four vregs allow an eviction between two assignments. |
| `linear_scan_calls` | three vregs | violation: see 6 |
| `loop_motion` | every graph of four blocks with at most two targets each, fallthrough included; 19 bodies of them with phis, invariant and fixed instructions | exactness of the analyses, SSA form after each move, termination. Four blocks are the least with a loop under a condition, an unreachable cycle that jumps to a join, a diamond, a loop in a loop, a header with two ways in from outside. |
| `ssa` | functions of four blocks: all connected graphs with one load, functions with loads and stores of a byte and at computed addresses, and odd graphs with jumps to the entry, unreachable blocks and escaping addresses; a variable of two bits, of which a byte is one, and stores of its extreme values | the loads agree where the conversion is claimed to work, and the renamer's own invariants on all of them. A store that is not `Store` stays in the function; the narrow kinds are outside the premise of agreement, and are there for the renamer |
| `ssa_order` | one function | violation: see 6 |
| `ir_linker` | two modules linked into a third, two functions and a global, every way to declare and define them | definitions win over declarations before and after them, only double definitions are refused, the destination's own operands stay, operands never dangle, also after an error. Two linked modules are the least in which what one merge brought meets the next. |
| `build_session` | an alias, two targets and one that does not resolve, two levels, a switch, two additional modules that clash, a source that validates and one that does not | the session refines the contract under every order of setters, emissions, failures and edits; the leftovers of a failed run do no harm. Every error of `ensurePrepared` occurs, before and after a success. |
| `internal_linker` | 12,180 builds: the module's object, another object and two archive members over `main`, `_start`, a section name and two symbols; an import that is a function or data; a target of another kind | members are extracted when and only when they are needed, errors are reported for a reason, references get their definition, nothing overlaps, the linker ends. A member that needs the other, both that define one name, a local that meets a global later and a section that fills its page all occur. |
| `passes` | 1,092 functions of four blocks over two values: diamonds, loops, loops with two entries, dead cycles, operations done twice in a row, on the sides of a branch and around a loop; two rounds; any order of the worklists | the constants found hold on every path, the function computes and calls what it did, phis match edges, no operand is erased under its reader, the rounds end; live ranges of the functions before and after a round cover what is alive, and what is held alive at the end of a block is exact. Every pass changes some function, a replacement of `GVN` makes another possible in its next turn, and constants are joined; four blocks are the least with a branch in a loop, and the second round sees merged blocks. An original taken from a block that does not dominate, and constants joined wrongly, were tried and are found. |
| `egraph` | 548 blocks of one to five instructions over numbers of four bits, ten values of the leaves; depth 3 and 3 rounds for the code's 6 and 5; each block with and without the e-graph | what is united computes the same, the data flow of the block amounts to what it did, only what was built is read too early, where that does not happen executing the block returns what it returned, the passes end. Among the blocks are chains deeper than the depth, saturation that the rounds cut short, classes that contain themselves (overflow), a root whose list a rebuild leaves empty, operations extraction cannot build; divisions and remainders, signed and not, by every constant, and of what a division leaves. Four bits are enough for every correction of the numerator, with and without a shift, and for divisors that get no magic number. |
| `egraph_order` | the same blocks | violation: see 6 |

Deadlock is not checked where a model ends: the allocator when the vregs are
used up, an execution when it returns, the linkers after the last module or
relocation or an error, the motion after the last loop, the passes over a block when it is done or the stack of the
compiler ends. `UseDef` and `BuildSession` never end, and are checked.

Fairness. Each analysis, round of passes, link and e-graph is a loop that runs to
its end in one thread and is never interrupted, so a step that is enabled is
taken: `LoopMotion` assumes weak fairness of the steps of the analyses and of the
motion, `ScalarPasses` of the passes and the start of an execution,
`InternalLinker` and `ArithmeticPasses` of every step. Nothing is assumed of the walks and executions, which may
stop anywhere.

Type invariants are proved (section 4) and not repeated in the runs.

Bounds. `MaxOperands`, `MaxArgs` (length of an operand vector, arguments at
creation), `MaxPos`, `MaxWeight`, `Widths` (the intervals), `N` (blocks),
`MaxOps` (accesses of a block), `Data` (values of a variable), `Stored` (values that are stored in it), `Last` (modules
linked), `MaxModules`, `MaxFeatures` (how many of each a client adds), `Inputs`,
`Members`, `Placed` (objects, members, placed sections of a link), `Align`, `Page`,
`StubSize`, `ThunkSize` (bytes), `Rounds` (of the passes, of saturation), `MaxTurns` (of `GVN`, the code's own 5), `Depth` (of
`addValue`), `Width` (powers of two).

## 4. Proofs

All are proved for every value of the constants.

*Use-def graph.* `UseListsAreExact` and `OperandsNeverDangle` follow from an
invariant `IInv` that adds to them: the lists of destroyed values are empty
(`Linked`), a `Use` that does not exist reads nothing (`FreeIsNull`), the user of
a `Use` is alive (`UserLive`) and an operand vector holds distinct uses of its
own instruction (`Owned`), without which erasing one entry of a phi could break
another. `PhisStayPaired` uses it to place each `Use` in its vector: an edit reaches
only positions of its own kind, and pairs are erased whole. `DestructionStaysLocal`, about
steps, rests on the lists being exact: a use that reads a survivor is in no list of a dying
value, so the destructors do not come to it. For the calls of a sweep it needs
`StaleElsewhere`: while the list is used, the parent that a destroyed instruction of it
still shows is a block whose call is over, so no call takes it for its own. Every action is reduced to two lemmas, one
about `Use::set` on any set of uses, one about destruction.

*Paths.* `CFG_proofs` holds what the others need of `ReachAvoiding`, which is a
recursive function: its layers (`Unfold`) grow until they are closed under the
edges (`ReachClosed`), and what they end in is the least set that is closed
(`ReachLeast`). Induction is that of the naturals, in the form of a set that holds 0
and the successor of each of its elements. From these two facts follow the laws of
dominance: a dominator of a block dominates its predecessors, what dominates all of
them dominates the block, dominators form a chain, and of several the closest and
the farthest exist. Where edges vanish dominators remain (`ThinnerReach`); a block put behind
a single one changes no other path (`AppendedReach`); what is ahead of a path backwards
is the least set closed against the edges (`BackwardEnds`). `FrontiersAgree`: with every block reachable and no jump to the
entry the frontiers of the code are those of the textbook.

*Dominators.* `DominatorsOnEveryPath`: whatever path is taken, the dominators
computed for a block have been entered before it. The walk alone cannot carry
this; it needs `Stable`: the sets visited in a round without a change solve
their equations, so that all do when the rounds end, and along an edge an
equation adds at most the block entered. `SetsShrink` rests on `Above` (each set
holds what its equation yields) and monotonicity. `LargestSolution`: the sets
never fall below any solution, so the fixpoint is the largest one.
`TreeIsExactAlways` says what it is: the dominators that the paths define are a
solution, so the sets never fall below them (`AbovePaths`); a block that is reached
without passing d keeps d out of every solution, by `ReachLeast`, so the fixpoint
does not exceed them; and the code's choice of an immediate dominator takes the last
of the chain. `FrontierIsExactAlways` needs to know what is still missing while the
runners climb (`Marked`): nothing is marked that should not be, and for a pair of a join
and a predecessor that no longer waits every block in `Owed` is marked, but those
that the runner of this pair still has above it (`Under`).

*Loop motion.* `MotionKeepsSSAAlways` is about a graph that changes under the proof.
`ReachedIn` gets the laws that `ReachAvoiding` has in `CFG_proofs`, for a graph with any
number of blocks, and `Cuts` is dominance in it. Two facts about graphs carry the motion:
if only one edge comes into a header from where it has not been, its source is on
every way to the header (`OnlyWayIn`), and a new block on such edges takes no
path away and adds none (`InsertedBlock`). `MotionInv` keeps what was known when the loops were
found: dominators of the parsed graph are on every way of the graph there is, and an edge
that is gone leads to the header of a loop that has been processed (`Kept`). So a
loop that comes later still has its inner edges (`InnerEdges`), and a block outside that is on
every way to one inside is on every way to the header (`OutsideCutsHeader`): that is where
an operand of what is hoisted must be, for `Moved` says that what was hoisted before has left
this loop, too, where outer loops come first. What reads the hoisted value was behind it, and
is behind the preheader.

*SSA construction.* `SSATypeCorrect` holds for every graph, and contains that the
renamer never reads the top of an empty stack. Its invariant `Stacked` (the stack is
the concatenation of what the blocks of the activations define) gives
`StackFollowsTreeAlways`. Where every block is reachable the activations are a path of
the dominator tree, and the value on top is that of the nearest
definition among the dominators (`Nearest`). `ConversionInv` adds that
every operand written so far is the one that arrives (`Operands`), and that a block not
renamed yet is below a child that still waits (`Progress`); so when the recursion
is over every block has been renamed. This gives `DefsDominateUsesAlways` and
`PhisCompleteAlways`. `CoveredLoadsAgreeAlways` is about the execution: the value of
the nearest definition equals the memory at the start and the end of each block
(`Synced`). The step that carries it is an edge: if the definition at its source does
not dominate its target, the target is in the frontier of that definition and has a
phi, unless the frontiers would have to be iterated, which the premise `Covered`
excludes. The premise also asks every access to be of the whole variable and at the alloc
(`Full`); nothing else is assumed of `Reads` and `Writes`.

*Linear scan.* `RegistersAreNotShared` is not inductive by itself: it says nothing
of the pools. `ScanInv` adds that a register is free or held by one active interval
(`Held`, `Distinct`, `Conserved`) and that an interval in a register that is no
longer active has ended (`Past`). `RegistersAreConserved`, `CallsSpareValues` and
`EvictionsPay` follow along the same lines. `SlotsAreDisjoint` adds that every slot
ends below the top of the frame and that rounding up to a width never goes
below what was used.

*IR linker.* The invariants that `ir_linker` checks are proved for any
number of modules and names. `MergeInv` adds where an object can be (`Whereabouts`:
with its own module until that is merged, then in the destination or destroyed),
that a failed merge goes no further (`StopsAtFailure`), and whose blocks it has
(`Bodies`: its own until it is merged; in the destination those of a merged
definition of its name). Two definitions of one name that have both been merged
would thus be held by one object, which gives one half of `CollisionsOnly`; the
other follows from `Bodies` at the moment of the error. The theorems about operands
use a second invariant on top, `OInv`: an operand is null or refers to the object
it was built with, that object is not destroyed, and an operand is lost only
where an earlier module had the name.

*Build session.* `PreparedIsFresh` and `LeftoversAreHarmless` are inductive only
together, and with `HasUnit` (a prepared session has a unit). The refinement
`SessionMeetsContract` maps the snapshot to the source of the prepared unit: an
`Emit` on a prepared session is the contract's because the unit equals `Fresh`,
one on an unprepared session because marks left over force the very error that a
new builder reports.

*Internal linker.* `TypeCorrect` and `Control` (which lists are finished in which
phase) carry the rest. `OnlyNeededMembers` needs `Extraction`: a name is in the
undefined set of a round only if an object linked before mentions it, and a
member in the list is there once. `EnoughMembers` needs `Exhausted`: members
passed over in a round without extraction provide nothing that is undefined.
`DeservedErrors` needs `SymbolsSound` (an entry of the table is a global definition
if the objects seen have one) and `Reported`; `ReferencesBindAlways` adds `Binding`,
that each relocation passed is bound as the complete table says.
`NothingOverlapsAlways` needs `Layout`: the section that is laid out ends above every
piece it holds, the next one begins above the end of the last (rounding up to a page
or an alignment never goes below, `AlignUp`), and thunks are appended above everything
that `.text` holds, also what was appended before (`TextLaid`). That the sizes of
pieces are added up in any order needs no sum: each piece is above the one placed
before it.

*Scalar passes.* `TypeCorrect` says that folding, numbering, combining, merging and
erasing make functions of functions. It needs `Standing`: where in a block `GVN`
stands, and that a round is left when another one is combined for. `ConstantsHoldAlways` rests on `Fixpoint`: each value,
edge and block the analysis has handled agrees with what its operands have now,
or is on a worklist or still to be visited in the current block; when the lists
are empty every transfer function is satisfied, and an execution can then never
leave what the analysis allows. No order of the worklists is assumed.
`PhisMatchAlways` needs `Matching`: in the loops between the removal of an edge
and the last repair of the phis, the entries that are missing or too many are
those of the edges still to be visited, an erased block leads nowhere, and a
branch that is left has two targets.
`OperandsExistAlways` says that no code that can be executed reads what was
erased. That is not inductive: a pass that erases a block or an instruction needs
that it was read nowhere else, one that replaces needs that the replacement is
where the replaced value was. The invariant is `Strict`: an instruction stands in
one place (`Laid`), blocks that are reached are not erased, and whatever a place that is
reached wants (`Wanted`: operands, the value of a terminator, and at the end of a
block the entries that the phis of its successors have for it) is available there
(`Available`: a constant, a phi of a block that dominates this one, or an instruction
that stands in one, earlier if it is the same). Each pass keeps it for its own reason.
`GVN` needs `Tabled`: what the table holds stands before the instruction that
is numbered or in a block visited before. Copies are followed to the end of their
chains because each link read is available, with fewer results there (`Ready`) than
the link before, so that as many steps as there are blocks reach the end (`Linked`). Fewer edges make more dominators (`Thinned`), a block appended to
its only predecessor takes that block's place in every path (`Joined`), and the set
that `DeadInstructionElimination` marks contains what it reads (`NeededClosed`). The
laws of dominance are those of `CFG_proofs`. It is assumed of the first function
(`OperandsAssumption`), besides that it is well formed, that no variable is read where
it may not have been written: `SSARenamer` leaves a null there.

`SameBehaviourAlways` says that a round changes nothing that a caller can see, on
every function, for every argument and all results of loads and calls, up to the point
where the function before the round would have trapped. Equality of two results says nothing about the steps between, so the proof compares executions: g follows
f (`Follows`) if some relation holds of the two machines at the start, is
kept when both go on with the same inputs, and makes them load, call and return the same
wherever it holds (`Lockstep`). Following is transitive (`FollowsChain`), and the invariant
`Following` is that `fn` follows `before` between the passes; one lemma for each pass
(`...Follows`) keeps it. All but one of the relations are of one kind (`Beside`): both machines are
at the same place, in a set of places and environments that the first one cannot leave,
and each result that is still available in g has the same value in both. Preserving
a function (`Preserves`) is then a matter of single instructions. The set for the folding of constants is
what the analysis allows (`ConstantsHoldAlways`). For the other passes it is `Coherent`: every
result that is available is what its instruction would compute from what its operands are now
(`Fits`), also after any number of loop iterations. It holds because an operand is
available, and so not computed again, wherever the result is (`BasisAvailable`), which is where
`Strict` is needed. With it a copy has the value of what it copies, an expression numbered
earlier that of a later one with the same key (`RedundantValue`; `Keyed` says that the table
holds results under the keys they have now, while operands are replaced), and an identity that of
its operand. Merging blocks changes places, so it has a relation of its own (`Joint`): where the
first machine leaves one of the two blocks for the other, the second goes on in the joined one.
`DataAssumption` was found by this proof: with a single value the lattice would have
Bottom for a constant, and the call whose result is known would be erased.

*Liveness.* `LivenessExactAlways` and `RangesCoverAlways` are about every function that a
round begins or ends with (`SettledStep`), as far as all its code is reached
(`Trimmed`); both use `Strict`, that a value is made in one place which dominates its uses. A
set that grows in each of N + 1 rounds has more than N blocks (`GrowthEnds`), so for each value
the iteration has come to rest (`AliveSettles`), and what it rests in is the least set closed
against the edges: the blocks from which a path comes to a use (`AliveIsAwaited`).

For the ranges, every edge back in the list goes to a dominator of its source
(`Retreats`), so a dominator is never laid out behind what it dominates
(`DominatorEarlier`) and a range begins in front of every place where the value is alive. That
it does not end before such a place: a use further down is behind it (`KeptToUse`). If
the path goes up, it has a least block h (`LeastOnPath`), to which it comes
by an edge from further down; h is the header of a loop that holds the place and the
use, and not the definition, so the code extends the range to the latch
(`KeptAroundLoop`). The last step is what `Structured` is for. An attempt to prove it with only
one latch for each header failed, and TLC confirmed the counterexamples, which are
those of section 6.

*E-graph.* `ClassesAgreeAlways` rests on `Agreeing`: the graph is good (each node in
a list or in the table computes what its class was made for, from classes that
exist, and no rule that would be wrong for it matches it; a class and its
representative were made for the same), what is being added, the roots, the
merges queued and the half-built table of a rebuild agree with the graph, and a
graph that grows or unites classes goes on agreeing with all of them (`Extends`).
The stale table does no harm to this: an old node still computes what it did.
`PassesAgree` is the same for both passes: the second starts when the first is done
or does not run, and leaves the graph alone.

*What a block returns.* `ResultStays` is `SameResult` for both passes, every block,
arithmetic and width. It is about the data flow of the instructions first (`Evaluated`):
none is computed from itself, and the return is given what it was given. That says
nothing of their order, which the code does not preserve (`egraph_order`); about it the
theorem says what is left: nothing but what extraction built is read too early, and where the
instructions up to the return read none of that (`InPlace`), the block executed in order
(`Executed`) returns what the program returns. For the values, the invariant `Following` follows the code: until something is extracted it is the program's; from
then on there are results, one for each instruction, such that an original
instruction is what it was or has been replaced by what computes its value, one that
was built computes its own and is no division, and what was extracted for a class
amounts to what the class was made for. `Agreeing` provides the last. For the second
pass a visited division is a "Reduced" whose function is the division on the numerators
where that is exact (`ReductionRight`). Evaluation then finds these results, by
induction on its steps, provided that every instruction is reached.

*That a block can be computed* (`Acyclic`) is the hard half: extraction must never read
a class through itself, whatever the rules and the merges made of it. The invariant
`Arranging` gives each class a rank, the last instruction that it needs: the
instructions it holds, and the classes of the operands of its nodes, are not above it
(`Ranked`), except for `x - x` in the class of zero; a class that holds a constant
needs no instruction. The nodes of a class read the same classes, up to constants
(`Uniform`), but for those that say nothing of it: `x + 0` in the class of `x`, and `x - x`
in that of zero (`Spent`). This is what the rules and congruence can put into one class,
and it is kept because two classes are united only for a reason (`Reason`), which makes
the rank of one of them good for both (`UnitedForReason`, `OrderUnited`). The roots are below
the instructions they are for (`RootsLow`). In extraction, an instruction that is built
gets as its level the rank of its class. The node chosen is the cheapest: the constant
of a class that has one, and else a node whose operands are not above the class
(`BestLow`). No instruction then reads one of a higher level, or one behind it on its
own (`Arranged`), and each round of the evaluation computes one more (`ComputesMore`).
The level of an instruction of the program is its number, so one that reads what does not
stand before it reads what was built (`MisplacedIsBuilt`); and where none does, execution in
order finds the same results as the data flow (`ReturnsInOrder`).

The attempt to prove this without a premise failed where `extractBest` looks for the
constant of a class, and for a good reason: the constant can be gone from the list (section 6,
`EGraph.cpp:114`). `ConstantsListed` says that it is not, and is the premise of
`SameResult` for blocks of which an e-graph was built; every block of the run `egraph`
ends with it true, so the run checks both conjuncts for all of them.

*Division.* `UnsignedExact` says for every width where unsigned reduction is right.
With a divisor d below half of the numbers the loop stops at its first turn
(`CoversAtOnce`), so the magic number is P / d + 1 with P = 2^Word; n times that,
divided by P, is n / d plus less than 1 / d where n d < P (`MagicExact`). A larger
divisor is only met by numerators 0 and 1 then (`LargeQuotient`). `SignedExact` has no
such premise: every numerator is divided by every divisor as the machine would, but by
the lowest number written without a sign. Its loop ends when the error of the factor,
times the largest numerator, is below the power of two that the factor is taken from
(`Excess`); the factor fits Word bits, or a smaller exponent would have sufficed
(`FactorFits`). The corrections undo the sign that its highest bit gives it, and shifts
for powers of two round towards zero by what is added before them. What is used of powers of
two is `PowersAssumption`.

Assumptions are those named in the modules: block 1 .. N with N > 0, graphs with
at most two targets, a positive number of accesses in a block, finitely many names of
a link, pools that are disjoint, positive widths, functions and
globals of different names, a default triple that is one of the triples; values of
a program that differ from the marks of the model, and of which there are two; arithmetics in which the
identities of the rules hold, and programs whose arithmetic has two operands; a machine
whose divisions are those of numbers of Word bits, and blocks that end in an
instruction that is not arithmetic; blocks whose instructions read those before them, and
an e-graph that takes in at least the candidate itself (`Depth` of 1, 6 in the code).

## 5. Only model-checked

* Liveness: `MotionEnds`, `LinkEnds` and the two `PassesEnd`. The provers have neither
  liveness under fairness nor `ENABLED`.

What dominators mean for an execution (`DominatorsAreOnEveryPath`) is proved and not
run again. Theorems with an operator as a parameter, the usual form of induction,
cannot be instantiated by the provers; where induction is needed it is over a set of
naturals that is closed under successor (`Induction` in `CFG_proofs` and `EGraph_proofs`).

## 6. Where the code departs from what it says

* `LinearScanAllocator.cpp:283`: a general value that is alive across a call may
  take over an interval in a SIMD register (indices 100 and up pass the test
  `>= 8`), which every call clobbers (`linear_scan_calls`).
* `BasicBlock.cpp:47`: `removeInstructions` asks every instruction of its list for its
  parent. `CopyElimination.cpp:53` and `Mem2Reg.cpp:37` and `:45` hand the same list to every
  block of the function, so from the second block on instructions that have been destroyed
  are read: undefined behaviour, which a checking allocator reports. It does no harm
  where it is not reported, which is what `DestructionIsLocal` says: nothing is allocated
  meanwhile, so the memory yields the last parent, a block that is done, or no block.
* `DominanceFrontier.cpp:11`: two unreachable blocks that jump to each other, one
  of which also jumps to a join, keep the runner climbing for ever, where the
  comment has "Should not happen in a valid CFG with entry". `MotionEnds` holds
  where no cycle is cut off. `DominatorTree::dominates` (`DominatorTree.cpp:122`)
  climbs such a cycle for ever too.
* `SSARenamer.cpp:55`: a load after a store in its block is given the value from
  before the block (`ssa_order`).
* `SSARenamer.cpp:57-65` and `:79-84`: narrow loads are replaced by the value that was
  stored, and narrow stores push theirs, without the conversion: 300 stored with `storeb` and
  read with `loadub` is 44 before and 300 after. `Mem2Reg.cpp:29` removes only the
  opcode `Store`, so other stores stay, and the alloc with them. Loads and stores
  at computed addresses of the variable are not seen at all, so a load that is replaced misses what they
  wrote, and one that stays misses what `Store` would have. `Covered` asks for accesses
  of the whole variable at the alloc itself (`Full`); the kinds of the run have all the others.
* `PhiInsertion.cpp:46`: the frontiers are not iterated: a load behind a join that
  only another phi reaches has no phi of its own (in the premise `Covered`).
* `IRLinker.cpp:93` and `:79`: a function of the source module that is dropped, or
  emptied into a declaration of the destination, is destroyed, and `~Value` nulls
  the operands of merged code that called it: recursive calls of a body moved
  into a declaration, and calls of a helper that two modules declare. `OwnCallsSurvive` and `OnlySharedNamesAreLost` are what remains true: the
  destination's own calls are kept, and a call is lost only where its name was taken.
* Two more gaps bound the property `CoveredLoadsAgree`, and are visible in its
  premise `Covered`: a join that an unreachable block jumps to leaves the
  dominator tree and is never renamed, and stores to a variable whose address
  is passed to a call are removed. A loop back to the entry is no join for
  `DominanceFrontier.cpp:8`, which `FrontierExact` excludes.

* `DeadInstructionElimination.cpp:195`: `hasSideEffects` does not name `ExternCall`,
  so a call of an external function whose result is unused is removed, while
  `DeadInstructionElimination.h:20` promises to keep what has effects and
  `doc/capabilities.md` lists external calls as how a program reaches the system. In
  the model such a call is a "load".
* `ControlFlowSimplification.cpp:103`: when both targets of a conditional branch are
  one block, folding it removes the block's phi entry for an edge that is still
  there. `WellFormed` asks for different targets.
* `LivenessAnalysis.cpp:63-99`: "Extend live ranges across loop latches for non-Phi
  loop-invariant variables defined outside the loop". A range is extended to the latch only if an
  instruction in one of the loop's own blocks reads the value, and only to the loop's last
  position. So a value is not kept alive around a loop when its only use is in a block that
  is laid out inside the loop and leaves it (a `return v` under a condition); when
  its only use is a phi behind the loop, which takes it on an edge from inside the loop (the
  range ends with the block of that edge); or when an inner loop's blocks are laid
  out behind the outer latch. A loop with two edges back is treated as two, and a range is
  wrong where a use is laid out before its definition. `RangesCover` is about structured
  functions (`Structured`): an edge back in the list goes to the header of a loop whose blocks
  are those from the header to the latch, and phis behind it take nothing from it that was
  made before it. Code that enters the allocator need not be of this kind.
* `LoopInvariantCodeMotion.cpp:186`: an operand counts as invariant when it has
  been hoisted from any loop. With a loop in a loop, where the inner latch is
  usually laid out first, a value goes to the preheader of the inner loop and a
  value behind it that reads it goes to the preheader of the outer one, above its
  operand; so it was seen with the compiled pass, where `t = i + 1` went to the
  inner preheader and `u = t + 5` to the entry of the function. `OuterFirst`
  excludes the order. The header file promises "Safety checks for dominance"
  (`LoopInvariantCodeMotion.h:24`).
* `LoopInvariantCodeMotion.cpp:230`: when two latches lead back to the entry block,
  the other latch is the only predecessor outside of the loop and is taken for its
  preheader, although the function is entered elsewhere. `MotionKeepsSSA` is about
  functions in which nothing jumps to the entry.
* `InternalLinker.cpp:205`: a name that nobody defines globally is looked up in one
  table with the locals of all objects, so a reference may be bound to a local of
  a stranger, instead of being reported. `LocalsAreOwn` excludes it.
* `InternalLinker.cpp:122`: sections that are not in its list are not placed; the
  symbols in them get an address all the same. `.rdata`, which
  `BackendBuilder.cpp:280` writes for Windows, is one.
* `TargetRelocationEvaluator.cpp:96`: displacements of calls and branches are not
  tested against the width of their field.
* `BackendBuilder.cpp:797`: `emitWAT` and `emitWasm` lower whatever the unit was
  prepared for, registers of another target included.
* `GVN.cpp:25`: the key of a floating constant is `std::to_string` of it, which has
  six decimals. With the compiled pass, `x + 1e-9` and `x + 2e-9` became one
  value and their difference 0. The model's constants are told apart.
* `GVN.cpp:233` and `:225`: folding divides signed operands as unsigned and
  extends the operands of a comparison at the width of its result. With the
  compiled pass `-6 / 2` of 64 bits became 9223372036854775805, and
  `0x80000000 < 1` of 64 bits became true. Keys (`GVN.cpp:98`) do not hold the type
  of a result either. The model's operations are functions without types.
* `InstCombine.cpp:76-141`: the rules `(A + C1) + (B + C2)` and
  `(A + C1) - (A + C2)` stand inside the condition `isExt` and can never apply, nor
  did they with the compiled pass. They are not in the model.
* `EGraph.cpp:333`: `setInsertPoint(bb)` overrides the position that
  `EGraphPass.cpp:49` chose "to preserve SSA use-def dominance ordering"; what is
  built stands at the end of the block, behind its terminator and behind the
  instructions that now read it (`egraph_order`). So a block for which extraction builds
  something that is read cannot be executed as it stands. `SameResult` says what is left: the data
  flow is right, and a block in which nothing built is read returns what it did.
* `EGraph.cpp:187` and `:194`: a shift right by a power of two is rewritten like a
  division by it. `Shr(x, 4)` becomes `Shr(x, 2)`, a division by 16 ends up equal to
  one by 4, and a signed division becomes an arithmetic shift, which rounds
  differently for negative numbers. `Exact` is the class of programs without these.
* `EGraph.cpp:162-173` and `:328`: `(a * b + 0) * c` puts a product into a class of
  its own operands; `extractBest` then calls itself until the stack ends.
  `Progresses` excludes it.
* `EGraph.cpp:114`: `rebuild` throws its new table away, unites classes without
  joining their lists, and is not repeated. A root may be left with an empty list,
  and its candidate unchanged; nothing becomes wrong by it, which is what
  `ClassesAgree` shows. But a class can lose the list with its constant, and is then
  built from its other nodes, though instructions were found equal because of the
  constant. The pass leaves these eleven instructions (they end in a `Ret i11`) with
  `i3 = sub %4 %4`, `%3 = sub i3 i3` and `%4 = and 0 %3`:

        i1 = add 1 0      i5 = mul i3 1     i9  = xor y i8
        i2 = urem 0 1     i6 = sub i4 i5    i10 = mul i5 i1
        i3 = sub i2 i2    i7 = xor i6 y     i11 = urem 0 i9
        i4 = sub i3 0     i8 = xor i7 y

  No rule is wrong for them (`Exact`), TLC finds the same with `Depth = 6` and `Rounds = 5`,
  the numbers of the code, and the compiled pass does it: 2 of 14 instructions can
  be computed afterwards. `SameResult` leaves such blocks out (`ConstantsListed`), and is
  proved for the others.
* `DivisionStrengthReduction.cpp:38`: the loop for unsigned magic numbers goes on
  while `2^p <= delta * (q1 + 1)`, where that for signed ones goes on while
  `q1 < delta`, and stops at its first turn for every divisor below 2^31, with too
  few bits of the reciprocal. With the compiled function 2986 of
  the 2987 divisors below 3000 that are no powers of two give a wrong quotient for
  some numerator: for 3 it returns 1431655766 and shift 0, and 4294967294 / 3 comes
  out one too large. The test (`test_div_strength_reduction.cpp:28`) only looks for
  the division to be gone. `ReducesExactly` bounds the numerators; `UnsignedExact`
  is what remains true, and `SignedExact` that the signed loop is right.
* `DivisionStrengthReduction.cpp:247`: a signed divisor written as 2147483648 is
  taken for a power of two above zero and not negated, so the least number divided
  by itself gives -1. `ReducesExactly` excludes it.

## 7. Not modelled, and the plan

Left out for good: parsing, printing, instruction encoding, file formats, tables
of targets and system calls. They are data with little control, and the larger
part of the repository: the architectures, the writers of images, the
vectorizers, the parser and the operating systems' tables are more than half of
its lines, and a model of them would be a transcript of
tables. The share of the lines that the modules cover is low for that reason; it is high where there is control.

The order followed was: the use-def graph, on which every pass rests; the
analyses and SSA construction, which every function goes through; the motion of
invariant code, which rests on the analyses; register allocation; the linker and the session that call them all; the scalar passes,
the live ranges of what they leave, the internal linker, the e-graph and division; the
proofs after each. What is left, in the order planned:

1. The inliner in the rounds of `ScalarPasses`.
2. The other loop passes: trip counts of unrolling over numbers of a width,
   strength reduction after `LoopMotion`.
3. The rewriter of spilled values, composed with `LinearScan` and `LiveRanges`.
4. `Function::parent` in `IRLinker`, and the raw pointers outside the use lists
   (`PhiNode::variable`, `Use::originalValue`) in `UseDef`.
