# A verification development for bsim

bsim reads a flattened gate-level netlist in structural Verilog and infers from it the high-level structure:
words, adders, multiplexers, decoders, counters, shift registers, memories.  It is one sequential C++ process
(`src/verilog/`, about 30 000 lines; `src/cudd-2.4.2` and `src/minisat` are vendored libraries).  There are no
threads, messages or persistent state.  What is hard in it is of another kind:

* graph rewriting in place, by walks over the lists that the rewriting changes;
* fixpoints over netlists that may have loops, where the order of visits is that of names or of addresses;
* the same fact kept in two places (fanouts and inputs, the inside of a module in the module and in its nodes,
  driven and driving latches) and asserted to agree;
* results that later passes index without a test because an earlier pass was to have filled them;
* tables filled once under one of many equivalent keys and looked up under another.

The modules here describe those parts as state machines, model-check them on every small netlist, and prove the
properties that matter for all netlists.

## Inventory

| Component | State it keeps | Operations | Interacts with | Hard behaviour | Correct when | Here |
|---|---|---|---|---|---|---|
| Verilog parser (`structv.y`, `ast.cpp`) | syntax tree, `ast_words` | `yyparse`, `declare_objects` | constructor of `flat_module_t` | none | the tree is the text | no |
| Cell library (`library.cpp`) | `lib_elem_t`: pins, function, symmetric pins, memo tables | `createLib`, `compute_input_symmetry`, `is_buffer_compute` | everything | memo keyed by function pointer | closed forms are the cells' functions | no |
| Netlist construction (`flat_module.cpp` 39-121) | `map`, `gates`, `latches`, `inputs`, `macros`, `fanouts` | ports, pins, `create_latch_gates`, `create_nodelists`, `create_fanouts` | parser, clean-up | pins in the order of names | every pin is connected as written | as `Init` of the others |
| Netlist clean-up (2626-2790) | `node_t::inputs`, `fanouts`, `orig` | `rewriteInverters`, `rewriteBuffers`, `rewriteNodes`, `removeDeadNodes` | all later passes | edits the graph it walks; stale inverter map | signals are preserved, fanouts exact | `NetlistRewrite` |
| Topological order (3548-3630) | `node_t::level`, order of `gates`, loop marks | `topo_sort`, `update_level`, `mark_loop` | all one-pass walks | no levels on loops | what is left is sorted and loop-free | `TopoSort` |
| Latch connections (3632-3750) | `driven_latches`, `driving_latches`, `driving_latches_sp` | `compute_latch_connections` | shift registers, counters, words | two fixpoints, macros once | they agree; counts are of paths | `LatchConnections` |
| k-feasible covers (`kcover.cpp`) | `kcovers`, `k_inputs`, `internals` | `get_kcovers`, `compute_covers`, `simple_merge`, `prune` | order, function table | limits, lazy caches | each cover is a cut; none is lost | `KCover` |
| Function table (4095-4330) | `bdds`, permutation of each cover | `createFunction`, `getFunction`, `setPerm` | covers, aggregation | first come founds a class | leaves play the parts they are read in | `FunctionTable` |
| Words (3752-3860, 5001-5300) | `words`, `word_htbl` | `add_word`, `propagate_words`, `ip_fwdprop` | aggregation, output | work list over loops | closed under propagation | `WordPropagation` |
| Aggregation (`aggr.cpp`) | `id_module_t`, slices, `bitslice_graph_t` | `identifyRCAs` and some twenty other detectors | function table, not-relation, modules | signals are matched up to complement; a graph is pruned before its paths are followed | groups are the structure they claim; none is missed | `CarryChains` (the adders), others later |
| Not-relation (4040-4110) | `notRelation` | `create_not_relation`, `markNotRelation` | function table, adders | gives up without an inverter | pairs are complements | `CarryChains` |
| Modules and overlaps (5830-6480, `node.cpp` 580-616) | `modules`, `node_t::modules`, `conflicting_modules`, `dominator` | `compute_internals`, `merge_modules`, `cleanup_modules`, `eliminate_overlaps`, `eliminate_overlaps_glpk` | aggregation, solver, output | deletion while others point here; domination in the GLPK build only | disjoint at the end but for sibling gates, nothing lost | `ModuleOverlap` |
| Register analysis, merging (4822-4880, 8283-8570) | union-find over modules | `registerAnalysis`, `mergeMuxes`, `merge_modulelist` | modules, overlaps | representatives move, parts are deleted | equals are grouped; merging loses nothing and adds no overlap | `ModuleGrouping` |
| Tree marks, colours, distances (1142-1750) | `marks`, colours | `mark_tree`, `propagateTreeMarks`, `color_analysis`, `pinBackProp` | topological order | one pass each way | marks are reachability | later |
| RAM, FIFO, frame buffer (4455-4720, 6775-7250) | modules | `ramAnalysis` | decoders, muxes, latches | search | read and write side belong together | later |
| Shift registers (`shiftreg.cpp`) | `shiftregs`, union-find in them | `find_shiftregs`, `explore`, `identical`, `link` | latch connections, SAT, `is_covered_by_seq` | chains inside chains, trees hung wrongly | no chain lost, registers are classes | `ShiftRegisters` |
| Counters (`counter.cpp`) | `counterlist_t`, `next` | `lengthen`, `addOverlaps`, `elimDups`, `markContained` | shift registers before it, SAT | lists that overlap, in a circle or with the same latches | none lost, none of covered latches, an end | `Counters` |
| Prime covers, CNF (`simplify.cpp`, `sat.cpp`) | covers, clauses | `iterated_consensus`, `computeCovers` | library, MiniSat | greedy choice | cover equals function | later |
| Signatures, traversals (`gae.cpp`, `signature.h`, `ww_traversal.h`, `lib_match.h`) | `module_inputs`, maps | subgraph matching | modules | pointers to deleted modules | | later |
| VCD similarity (`vcd.cpp`, `simre.cpp`) | traces | separate program | none | | | no |
| Output, options (`main.cpp`, `main.h`) | `options` | dumps, configuration | everything | | | no |
| CUDD, MiniSat, GLPK | | | | | | external |

The hazards of what is modelled are listed in `PROJECT.json` with their lines and the properties that cover them, or a
note why none does; those of what is not are named under "Not modelled".

## Modules

Each component has a module with its state machine.  `...Props` holds definitions only TLC needs (reference
definitions, expensive predicates), `...Proofs` the theorems, `MC...` the instances.  In every module a node is a
number.  What the number stands for (rank by name, place in a list) is said at the top of the module, and every
instance checks all assignments of numbers that can make a difference.

**NetlistRewrite.**  State: `inputs`, `fanouts`, `orig`, `dead`, the `not_map` of `rewriteInverters`, the position of
the walk.  Actions: `RecordInverter`, `MergeInverter`, `PassOverInInverters`, `RepeatWalk`, `EndInverters` for
`rewriteInverters`; `Bypass`, `PassOverInBuffers`, `EndBuffers` for `rewriteBuffers`; `RemoveDeadNode`, `KeepNode`,
`EndRemoval` for `removeDeadNodes`; `Abort` for the asserts.  `rewriteNodes` is an operator used by both rewriters.

**TopoSort.**  State: levels, the counter and flag of the do-while, the marked gates, the sorted list, `k_inputs`.
Actions: `LevelSources`, `UpdateLevel`, `EndWalk`, `SortGates` for `topo_sort`; `CoverGate`, `CoverTooEarly`,
`PassOverGate`, `EndCover` for the walk of `kcover_analysis`.  `CoverTooEarly` is the read of an unfilled `k_inputs`.
`PassOverGate` passes over the marked gates and those that are set `aside`: dead ones and, without the analysis of
RAMs, latch gates.

**KCover.**  The recursion of `compute_covers` is a stack of frames.  `PassOverSource` and `TakeGate` are the walk over
the gates; `MergeNext` and `RefuseNext` merge the next cover of an input and call, or find the result too large;
`Return` leaves a call, `Keep` takes in what the last one has merged, `FinishGate` ends the search.  A cover is its set
of leaves with the cached `internals`.  Functions are abstracted to what `prune` asks of them.  Tie cells (gates
without inputs) are left out.

**FunctionTable.**  A function is the set of assignments it is true of; `bdds` maps functions to their class and
permutation.  A cover that is looked up founds a class (`FoundClass`) or joins one (`JoinClass`).  A founder enters its
function in one order after another: `EnterOrder` takes the first of those left, in the order of `next_permutation`,
which is that of the dictionary (`NextOf`).

**LatchConnections.**  `UpdateDriven`, `UpdateDriving` and `ComputePaths` update one node; `WalkAgain` and `EndWalk`
are the ends of the do-whiles.  `Place` gives the order of each walk.

**ShiftRegisters** extends it with `find_shiftregs`.  `path` is `latch_out` and `rest` holds the loop of each call of
`explore`: `StartAt`, `TryNext`, `Backtrack`.  `MarkContained` is the loop of that name's flag; `LinkPair` one pair of
the loops with `identical` and `link`, path compression included; `CreateRegisters` the modules, which cover their
latches from then on.  A SAT query is the equality of two functions, which `Value` computes.

**Counters** extends that with `find_counters`.  `CountFrom`, `Lengthen` and `Shorten` are the search, with the tests
t0 to t3 as `LoadsLikeFirst` and `LoadAlike`; `AddOverlaps`, `Merge` and `EndMerge` the loops of `addOverlaps`;
`OutputCounters` the rest.  `AnalysesNext` composes the three machines as the program does: the connections are
computed once, the registers found along them, and the counters among the latches that no register covers.

**WordPropagation.**  `TryPin` and `TryType` are one round of the inner loops of `propagate_back` and
`propagate_forward`; `EndWord` and `NextRound` the loops around them; `Abort` is the assert of `propagate_back`.
`interactive` is true of a run of `ip_fwdprop`, on a word that is typed in.  It starts from any table of `earlier`
words, those of the constructor's `create_words` and of other such runs, and does not go over them.  `WordClosure` is its abstract specification: the table only grows, by
words that a rule gives, and the end comes when no rule gives another, earlier words not counted.  Rounds, the words to do, shadowed lists and
the order in which bits are tried are invisible there; `Implements` is the refinement.

**ModuleOverlap.**  State: the list `modules` of modules by address with their `internals` and their `number`,
`node_modules`, `dominator`, `is_bad`, `conflicting`, the nested loops of `node_t::merge_modules`, the loop of
`cleanup_modules`.  Actions: `CreateModule`; `StartMerge`, `TakeOuter`, `Compare`, `EndNode`; `StartCleanup`,
`KeepModule`, `DeleteModule`, `AbortDelete`, `EndCleanup`; `MarkConflicting`, `Solve`, `AbortSolve`.

`config` says which program it is: the build and the option `eliminateOverlaps`.  The makefile's default is the CPLEX
build (`makefile:4`, `USECPLEX?=1`).  It does not compare modules at all (`StartMerge` goes straight to the clean-up),
and `eliminate_overlaps` lets CPLEX choose among modules that share no node; what is best depends on weights and on
a coverage to reach, so `Solve` takes any such choice.  The GLPK build (`USECPLEX=0`) has the domination, and
`eliminate_overlaps_glpk` returns a choice within 2.5 % of the best or ends the process (`AbortSolve`).  Therefore
`DominatedIsCovered`, the part of `GoodStaysCovered` that is about dominated modules, `MatrixInRange` and findings 3 and
16 say something of the GLPK build only; of the CPLEX build, `GoodStaysCovered` says that no good module goes before
the integer program, where `DominatedIsCovered` holds trivially.  `TypeOK`, `ViewsAgree`, `OverlapsResolved` and
`RemoveSucceeds` are about both.  Not modelled: the sliced program of the CPLEX build, which may cut
nodes out of modules (`sliceableILP`, on by default and in `configs/default.xml`, off in `unsliceable_default.xml`;
the models and what they say are of the option off), the exit of CPLEX when the coverage cannot be reached, and what `MODULE_CONSTRAINTS` would
compile, which is defined nowhere.

**ModuleGrouping.**  State: the list of modules, the registers made of them, union-find as it is stored (`repr`,
`level`).  Actions: `Analyse` makes a register of a multiplexer held in latches; `StartLinks`, `Compare`,
`NextRegister`, `StartGroups` are the pairwise linking, with the path compression of `uf_get_rep` and a `uf_link` that
takes the registers themselves; `MergeGroup`, `KeepRegisters` end `registerAnalysis`.  `MergeBeside` and
`MergeInPlace` are `mergeMuxes(false)` and `(true)`; between them `ResolveOverlaps` is what `ModuleOverlap` shows of
`flat_module_t::merge_modules`, in either build (`Survivors`): good modules that share no node, whichever they are, if
overlaps are eliminated; otherwise all good ones (CPLEX) or those that lie in no other (GLPK).  The modules here are
made by `compute_internals`, which takes in no sibling gates, so those shared by others (finding 6) do not occur.

**CarryChains** extends it with `identifyRCAs`, and `Aggregate` composes the two as `aggregate()` does.  A slice is its
cover.  `CreateNotRelation` and `FindPartners` match sums with carries up to complement; `CreateGraph` and
`RemoveContained` build the graph of carries and prune it; `StartChain`, `Follow`, `Return` are the recursion of
`enumerateChains` with its stack in `chain` and `rest`; `UseChain` is `adder_creator_t::use` at the end of a path and makes
the module.  The function of a cover is its class, one of nine.

Connections, shift registers and counters share the latches they have covered and are composed; so are the adders with the grouping, over the list of modules.  The other modules
are not: the program runs its passes one after the other, and each takes the netlist that the pass before it left.  So each module starts from every netlist that its `IsNetlist` allows, and what a pass
relies on is proved of the pass before it: `KCover` assumes that a gate comes after what it reads, which is
`TopoOrder` of `TopoSort`; `TopoSort` contains the walk of `kcover_analysis`, where the two meet; `LatchConnections`
and `WordPropagation` read the fanouts that `FanoutsTrackReaders` of `NetlistRewrite` shows exact.

## Runs

| Run | Instance | Shows |
|---|---|---|
| `rewrite` | 3 buffers or inverters, an input, a latch that reads one of them, in every wiring and order; chains into a gate or NOR2XB under every choice of outputs; inverters behind inverters that are merged, 6 nodes in every order of names | signals kept, fanouts exact, nothing left to merge or bypass, removal is safe, termination |
| `rewrite_twice` | 7 inverters and every swap of two names | **violated**: a node is rewritten twice and the process aborts |
| `topo_sort` | 4 nodes, every wiring and order, gates set aside, limit 3 | order, levels, and when covers are ready |
| `kcovers` | 3 sources, 3 gates, `kcoverSize` 2, `kcoverTh` 3 | covers are cuts, their insides exact, none is lost |
| `function_table` | 3 covers of 3 leaves, 16 functions | classes are orbits, leaves in role |
| `function_table_founder` | the same | **violated**: the founder's leaves are in other places |
| `sequential` | 2 gates, 2 latches, macro, every wiring, with scan inputs from either latch; 4 latches that load from any other, two rows of three, counters of three latches up and down, with and without a carry gate | both fixpoints agree; a latch counted as single-path has one path, scan inputs left out, and where the gates are sorted the converse; chains and counters are all reported, registers are classes, every counter of latches that were free is reported and no other; an end |
| `words` | 2 two-pin cells, 2 one-pin cells or macros; words to begin with, or one typed in beside a table of earlier words or none | the rounds implement `WordClosure`: nothing is entered that no rule gives, nothing is lost; what a shadowed list leaves out is dealt with; termination |
| `grouping` | adders of 3 bits (5 with a fork) with every choice of complements in the first bits; registers of data inputs in every combination, linked, and one whose select is hidden behind data inputs; 3 multiplexers or decoders that feed each other in netlists of 4 gates, with any result of the overlap resolution in either build | the asserts of `registerAnalysis` hold but for hidden selects; every chain of carries is in an adder, adders add and take in nothing else; equal registers share a group; merging adds no overlap and loses no node |
| `overlap` | 3 modules over 6 nodes in insides of all kinds, any addresses, a two-output cell, a latch and its gate; both builds, with and without the integer program | disjoint at the end but for sibling gates, nothing lost without reason |
| `overlap_siblings_delete` | the same | **violated**: deleting a module asserts |
| `overlap_matrix` | 3 modules over 4 nodes, GLPK build | **violated**: an assert on the matrix |

Runs marked **violated** check one property each: what an assert or a comment of the code says.  The finding in
`PROJECT.json` quotes it.

*Bounds.*  `NumNodes`, `NumModules` and `NumCovers` bound the instances; there is no other cap, all state is finite.
`Paths` of carries are as long as `NumNodes` at most, which leaves none out: without a loop no path meets a root twice.
Rewriting needs chains of two inverters and a reader (5 nodes); a merge that arrives after the walk has passed needs
two inverters on either side behind two that are merged (6), and one that has a node rewritten again needs 7.  Three gates make
every loop that a fourth node can disturb.  Refusal by `kcoverTh` and removal by `kcoverSize` need 3 gates in a row
with limits 3 and 2, and 3 sources to exceed them; larger limits only need larger netlists.  Domination chains and conflicts need 3 modules.  A
function of 3 inputs is the smallest with an order that is not its own inverse.  A path counted twice needs two gates
between two latches.  Chains that are alike need two rows of
three latches, and a counter that others overlap with three latches.  `HeadDiff` and `ChainDiff` stand for the 256 and
16 driving latches in which neighbours may differ, `CounterDiff` for the 16 of counters; the small values are those at
which some designs of the run pass and others do not.  `MaxCounterSize` is an option and larger than any list here.
`MinChain` is 4 in the code and 3 here: one carry that starts a chain, one in the middle, one at the end, each of
which may read complements.  Union-find goes wrong first where links cross: four registers in any combination of two
data inputs, five whose lists begin each other.  Merging in chains needs three modules, the middle one an input of one
and an output of another.
Designs for the searches have no combinational loop in front of latches of one clock: what the solver answers there
depends on which of the loop's states it takes.

*Deadlock* is not checked because every one of these passes ends.  That they end is a property (`Terminates`,
`AnalysesEnd`) where it is not obvious: in the repeated walks of rewriting, the fixpoints of the latch connections,
the searches and merges along them, and the work list of the words.  The other passes are loops over lists that do not grow, or end by a counter.

*Fairness.*  One process runs one pass at a time and nothing blocks, so weak fairness of the whole next-state
relation is what the machine gives.  No property needs more.

*Choice.*  What the code leaves open is a choice in the model: the order of `std::set` of pointers, of elements that
are equal for `std::sort`, which of the feasible choices the solver returns.

## Proofs

The theorems are of the form `Spec => []P`, or of the same form over the machine that composes a component with others
(`Analyses`, `Aggregate`), but for three action properties (`LoopsFinishTheirWork`, `MergingAddsNone`, `MergingLosesNothing`), one
refinement (`GrowthImplementsClosure`) and the projection of the composed analyses on the connections
(`ConnectionsUndisturbed`).  They hold for all values of the constants.  TLAPS checks them.

* `NetlistRewriteProofs`.  A pin keeps its signal: the polarity along the chain of buffers and inverters.
  The invariant relates the netlist as it is to the netlist as it was through a *potential*, any assignment of
  signals to nodes that respects the inverters; rewiring keeps every potential.  `FanoutsStayExact` needs in addition
  that a rewritten node has no fanouts until it is recorded again.  `LoopsFinishTheirWork` needs of the last walk what
  it has passed: of two live inverters behind the walk none shares an input, unless the walk has changed something.
* `TopoSortProofs`.  A gate that did not move in the last walk is one above its inputs that did not move either,
  so a loop must contain a gate that moved, and that was marked.  `LevelsAreExact` follows the walks: after `k` of them
  every gate behind no loop whose longest path has at most `k` gates is at that level, and the running walk leaves
  behind it those one deeper.
* `KCoverProofs`.  The frames of the recursion hold leaves that the root meets; `internals` that `prune` collects are
  those the remaining leaves enclose, by an argument on paths of decreasing place.  `SearchLeavesNothingOut` says of
  each choice of covers where it stands: it is still ahead of the loops on the stack, or what came of it is in the list.
* `ModuleOverlapProofs`.  `NoMergeLosesNodes` is the one whose strengthening is not obvious: an outer module that is
  dominated in the middle of its own loop goes on dominating, so the invariant says it lies strictly inside another.
  (In the CPLEX build no module is dominated; the theorems hold of every `Configs`.)
  `GoodIsKeptOrCovered` follows a module that the clean-up deletes to the one that dominates it, which is listed or bad.
* `FunctionTableProofs`.  The table is closed under reordering but for the class that is being entered, whose orders
  still to come are in the state; two functions in one class are therefore reorderings of each other and conversely.
  That leaves play their parts is a fact of permutations: the one that is stored inverts the one that was applied.
* `WordPropagationProofs`.  A step either enters a word some rule gives or stutters in `WordClosure`.  What makes the
  end of the rounds the end of the closure is that every word of the table has been tried in full or is to be, and that
  the words at the pins of readers come back by back-propagation of the word that forward propagation gave.
* `AnalysesProofs`, of the connections.  Neither fixpoint is least by itself.  What one has driven so far stays inside
  every family of sets that is closed under the rules of the other; when it ends it is itself such a family; so the two
  are included in each other (`FixpointsAgree`).  `SpIsExact` needs the paths themselves.  Its invariant bounds
  them from both sides along the order of the walk: of a node that has been computed, a latch counted once has no second
  path, and a latch with one path was counted once if what the node reads was computed before.
* `AnalysesProofs`, of the searches.  Chains run forward along the connections: `OneOrder` says that no two take two
  latches in opposite order.  The invariant adds to the chains the path of the running search and what each call of
  `explore` has yet to try, all of which may follow the path up to that call.  So chains of the same latches are one
  chain, none is found twice, and each that `markContained` leaves out lies in one that is kept (`NoChainIsLost`).
  Of the forest of `link`, which hangs the root of a chain and not of its tree, the invariant says that every chain
  that was compared with the founder of its class hangs below it (`ForestClassesChains`).  Counters have no test for
  order: a counter is lost only with one that is there in two orders (`CountersReported`, finding 9), and the lists
  hold latches that are free and none twice (`AnalysesTypeCorrect`, `CountersTakeFreeLatches`).
* `AggregationProofs`.  What a module takes in is the least set that holds its outputs and what they read up to its
  inputs; the modules that hang together are the least set closed under edges.  So the merged module lies inside its
  parts, groups are the same or disjoint, and a node that is in two modules after the merging was in two before
  (`MergingAddsNone`); the converse inclusion, that the parts lie in it, needs what `CutsNothing` says (`MergingLosesNothing`).
  `EqualsStayTogether` is about `uf_link`, which moves the register it is called on wherever that hangs.  The invariant
  says that within a class of registers of which one list begins the next, levels do not fall with the place; so it is
  always the first of a pair that moves, and a register hangs at the last of those it was linked with.
  `AggregateTypeCorrect` contains the asserts of `registerAnalysis`.  That a register is no larger than its
  multiplexer, its latches and as many latch gates again is two injections, from latches and from latch gates to bits,
  which exist because a latch gate is made for one latch.
* `AggregationProofs`, of the adders.  `ChainsBecomeAdders` has three parts.  A carry for which there is a sum up to
  complement finds a partner (`MatchInv`).  `inv_contained` orders the carries of a root, so below each that is taken
  out there is one that stays and leads to the same; a path is lifted from its end back to carries that stay, at each
  place to the node or to what it inverts (`PathIsLifted`).  The walk forgets no path from end to end: one that has not
  become an adder is the one being followed, starts at a carry still to come, or branches off by an edge not yet taken
  (`WalkInv`).  A lifted path is a part of one from end to end because the graph has no rings (`NodesInOrder`,
  `LongestPath`).  `AddersAdd` needs of the chain only that each carry is read by the next and of the sums that they
  match (`Fits`).  Each leaf of a sum stands for one node of the bit (`BitsOfSums`), and so does each leaf of the carry;
  hence two bits of its own for each slice, words without gaps, and `SlicesAdd`.  What is put in carry by carry is
  sound: a leaf that is no input is the carry before, an inverter of an input, or opposite to an input in another way
  (`EnteredIsSound`).  What lies behind the sums' outputs is bounded by a set that is closed under reads
  (`BehindIsDriven`).

The two theorems on adders hold of designs that are `WellCovered`, and `AddersAdd` of those that are also
`WellMatched`; the assumption `AddersAreCovered` of `MCAggregation` has TLC evaluate both predicates on every adder of
the run.  What they ask for has three sources.  Some of it is what earlier passes leave: no cover twice (`NoCoverTwice`),
no inverter of an inverter (`NothingLeftToRewrite`), leaves that cut the root off from what reads nothing
(`CoversAreCuts`).  Some is what the function table finds as long as its limits are not reached: an inverter has the
cover that says so, and the carries of what it inverts are its carries too.  The rest is about the design: no
combinational loop, no carry that reads a node and its inverter, no two leaves of one cover that are the same or
opposite to a third node, and nodes opposite to a carry that are next to it or read the same.  Without these, matching up
to complement can pair leaves in more than one way; the code does not test for them, and nothing is claimed of designs
that lack them.

The assumptions are those named in the modules: mostly the sort of the constants and the shape of a netlist.  But for
the two theorems above nothing is assumed about loops, order or size, except that a chain that counts has two carries
(`MinChainAssumption`; it is four in the code).  Three say more.  `SearchesAssumption`: the select inputs of a module that was found
are inputs of it.  `LatchGatesAssumption`: a latch gate is read by one latch and a latch reads one latch gate, as
`create_latch_gate` makes them.  `CoversAssumption`: a cover of a function has as many leaves as that function.

Recursive functions are shown to exist before anything is said of them, by the step at which a partial one could not be
extended.  Induction is by the least counterexample.

Some theorems are of facts that no run checks by itself: `NoCoverTwice`, `LoopsAreBroken`, `ColumnsArePlaces`,
`LatchTypeCorrect`, `PathAssertHolds` (the assert of `compute_driving_latches_mp`, of which `EveryDriverHasAPin` is the
statement), `ConnectionsUndisturbed`, `OneOrder` and `CountersTakeFreeLatches`.

*Only model-checked:* termination (`Terminates`, `AnalysesEnd`), since liveness under fairness and `ENABLED` are out of
TLAPS's reach; and that every step can happen, which the runs show.  Every invariant that a passing run checks is
stated by a theorem.

## Findings

Each of the first four is a run that TLC finds violated.

1. `rewriteInverters` keeps its map over all its walks; a node can be rewritten twice and `set_orig` asserts.
2. `compute_internals2` adds siblings after it told the nodes of the module; deleting the module asserts.
3. In the GLPK build (`USECPLEX=0`), `eliminate_overlaps_glpk` compares a column with the number of entries, and asserts on legal input.
4. `createFunction` leaves the founder of a class with the permutation of another order.

The others are visible in the models (`CoverTooEarly`, `Abort`) or in the comments there; the hazards name the lines.

5. `topo_sort` marks the gates that move in one walk, not those of the loop; a cover may then be read before it
   exists.
6. Two modules of `compute_internals2` that take in each other's gate do not meet in any node and both survive.
7. Macros get no driven latches, and the check of `driving_latches_sp` disagrees with the result behind macros.
8. `can_propagate_back` lets inputs mix with gates and `propagate_back` asserts.  `createFanoutTypeIntersection`
   looks at bit 0 only.  `create_fwdprop_words` leaves out the pins of the readers, which the next round of
   `propagate_words` makes up for (`InputsDealtWith`) and `ip_fwdprop` does not.

9. Two counters of the same latches in different orders are each inside the other, and `markContained` leaves out
   both.  Such orders are found where latches read others in vain (the D input does not depend on them), and also where
   every read counts.  All other counters are reported (`CountersReported`).
10. In the same designs counters can overlap in a circle, and the `while` of `addOverlaps` does not end.  `AnalysesEnd`
   says that this is the only way not to end.
11. Where registers are compared, a comment says "group modules with the same ungrouped inputs"
    (`flat_module.cpp:4837`).  `same_ungrouped_inputs` also holds of a list that only begins the other, which depends
    on addresses, and `uf_link` can move a register away from those that it was linked with.  Equals stay together all
    the same (`EqualsGrouped`, proved as `EqualsStayTogether`): the levels make it so that the later register stays.
12. `create_not_relation` returns when no cover is an inverter, so pairs of AND and NAND or of OR and NOR are not
    related either, and an adder that needs them is missed.
13. `createAdderModule` replaces an inverter by what it reads in the two words but not as the carry in.  What drives
    that inverter is then put inside the module, be it a primary input.  A complement that is a gate of its own (a NOR
    beside an OR) is put inside without what it reads.
14. `registerAnalysis` asserts that a group of registers has select inputs (`assert(sel != NULL)`,
    `flat_module.cpp:4865`).  The select of a bit is found by a walk that stops at the inputs of the whole multiplexer.
    Where the data inputs of each bit lie between the gates of the others and the select, as complements of it do, no
    walk meets it, the registers have no select inputs, and the assert fails (instance `HiddenSelect`, phase "abort").
    `AggregateTypeCorrect` says that this is the only way to that assert.
15. Modules that feed each other in a ring are merged into one without outputs, and in place of its parts that one
    holds no node (`CutsNothing` names the case).
16. In the GLPK build, `eliminate_overlaps_glpk` ends the process when no two modules overlap or no module is left:
    `glp_add_rows` and `glp_add_cols` (`flat_module.cpp:6042`) do not accept zero (`AddsNone`, phase "aborted").

## Not modelled, and plan

The order below is that of importance.

1. The rest of module merging: the decoders that `registerAnalysis` looks for at select inputs, merges with
   `knownMergesOnly` off, `analyzeRegisters`, `compute_repr`.
2. Aggregation: multiplexers, decoders (`finalTag`, aggr.cpp:2270, is carried over from cover to cover), parity trees,
   as groups over a function table that is given.
3. Tree marks, colours and distances: one-pass walks against reachability.
4. Construction of the netlist, latch gates and ports.
5. Prime covers and the CNF of gates as pure algorithms.
6. RAM and frame-buffer analysis.
7. Proofs: the function table's share of `WellCovered`, from covers with the functions of their gates.

Left out for good: the sliced integer program of the CPLEX build (`sliceableILP`; it cuts nodes out of modules, a
data structure of its own), the vendored libraries, generated scanners,
printing, the experiments in `gae.cpp` that the shipped configurations turn off, and the separate program `simre`.
