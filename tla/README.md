# KINT in LLVM, specified in TLA+

This directory is the verification project of the KINT reimplementation under
`src/kint`: LLVM passes that look for integer errors in C programs.  It holds
TLA+ modules of the passes' algorithms, configurations that model-check them
with TLC, and theorems about them that TLAPS proves.  Line numbers are those of
the files under `src/kint`.

## 1. The system

`opt` loads the plugin and runs the passes one after the other on an LLVM
module, in one thread.  Nothing is concurrent and nothing is persisted.  What is
hard about the code is elsewhere: a fixed point over maps that are written from
several handlers on several visits, cyclic control flow, a search over a graph
that the same pass is changing, copies that look like references, and bit
vectors at their boundaries.

| Component | Files | State | Operations | Modelled |
|---|---|---|---|---|
| Back-edge analysis | `smt_solving.cpp:34-52` | `backEdges`, the worklist | `backEdgeAnalysis` | `BackEdges` |
| Range analysis | `range.cpp`, `range_helper.cpp`, `init_range.cpp`, `range.h` | `functionsToRangeInfo`, `globalValueRangeMap`, `functionReturnRangeMap`, `impossibleBranches` | `run`, `initRange`, `rangeAnalysis`, `analyzeFunction` and one handler per instruction, `printRanges` | `RangeAnalysis` |
| Constant ranges | `kint_constant_range.h` | none | constructors over `llvm::ConstantRange` | `ConstantRange` |
| Check insertion | `check_insertion.cpp` | the function's instructions, `Visited`, `Worklist` | `visitBinaryOperator`, `isObservable`, `insert*Check` | `CheckInsertion` |
| SMT queries | `smt_query.cpp` | Z3 solver, `VC`, `PC` | `visitCallInst`, `CheckFunction`, `Solve` | `SMTQuery` |
| Path and value constraints | `constraint.cpp` | `BackEdges` (of LLVM) | `ValueConstraint::Get*`, `PathConstraint::Get`, `EdgeCondition`, `PhiAssignment` | `Constraints`, `SMTQuery` |
| Taint and sink marking | `tainted.cpp` | metadata and inserted calls in the module, `functionsToTaintSources` | `getTaintSource`, `markSinkedFuncs`; `sinkedReachable` and `funcSinkCheck` are called by nothing | `TaintMarking`, in part |
| Path solver | `smt_solving.cpp:24-32, 54-261` | Z3 solver stack, `argValuetoSymbolicVar` | `smtSolver`, `pathSolver`, `addRangeConstaints` | no: never reached |
| Registration, function and module passes | `kint.cpp`, `kint_function.cpp`, `kint_module.cpp` | none | print names | no |
| HelloWorld | `src/HelloWorld` | none | the tutorial's example | no |

How they interact.  There are two pipelines (`README.md` of the repository):

* `kint-range-analysis`: `KintRangeAnalysisPass::run` calls, for every function,
  `backEdgeAnalysis`, `getTaintSource` and `markSinkedFuncs`; then `initRange`
  (which calls the last two again, then initialises globals and functions); then
  up to ten iterations of `rangeAnalysis` over all functions with a body; then
  `smtSolver` and `printRanges`.  All share the members of the pass object.
  `smtSolver` loops over `taintedFunctions`, which only `sinkedReachable` adds
  to; nothing calls that, so neither it nor `pathSolver` does anything today.
* `check-insertion-pass,smt-query-pass`: the first inserts calls of
  `__kint_overflow.N` and `__kint_check`, the second finds them by name, builds
  the condition of the path and of the error, and asks Z3.

What makes each correct, and where it is hard:

* *Back edges*: must end on cyclic graphs, must cut every cycle and no edge off a
  cycle.  What is cut is skipped: an edge too many costs the ranges values.  Of the
  later walks only `pathSolver`, which is never reached, would need the cycles cut in
  order to end; `rangeAnalysis` even follows self loops, which are never recorded, and
  ends anyway.
* *Range analysis*: the ranges printed at the end should contain what the program
  can do; they may only climb; the fixed point must be reached, not the bound of
  ten; a comparison printed as impossible must be impossible.  Handlers assign or
  emplace, on a map that is sometimes a copy; ranges of different widths meet.
* *Check insertion*: whether an operation is checked is decided on a function that
  already has earlier checks in it, and those are observable calls; the decision
  must not depend on it.  The conditions must be exact at all widths.
* *SMT queries*: the formula must be satisfiable exactly when some execution without
  a back edge reaches the check with operands that go wrong; the recursion over
  predecessors must end; a check must not keep later ones from an answer.
* *Taint marking*: runs twice on a module that it changes, over a list that it
  extends; each use of a tainted argument must end up with the call that is on
  record, and the list must come to an end.

`PROJECT.json` lists the hazards line by line, with the properties that watch
each of them.

## 2. The modules

| Module | What it is |
|---|---|
| `CFG` | control-flow graphs: reachability (as a least closed set), the predecessors on a cycle, the graph with edges cut |
| `BackEdgesAbs` | what `backEdgeAnalysis` promises: one step per block, no worklist |
| `BackEdges` | the code: one step per block started, per turn of the worklist, per block finished |
| `BitVectors` | integers of a width: what LLVM's operations compute and when they go wrong, and the total operations of SMT-LIB (external) |
| `ConstantRange` | `llvm::ConstantRange` (external) and the default `KintConstantRange` |
| `KintIR` | the LLVM modules the range analysis reads (external), and what LLVM's verifier guarantees of them |
| `RangeAnalysis` | the range analysis: one step per phase, per edge and per instruction |
| `CheckInsertion` | check insertion: one step per visited instruction and per turn of the search |
| `FunctionIR` | functions with checks in them, what running one means, and which runs go wrong (external) |
| `Constraints` | `ValueConstraint`, the constraint of one edge, the condition of one check |
| `Exactness` | which constraints may answer a check, and the code on which they are not exact |
| `SMTQueryAbs` | what the queries promise: one step per check, no recursion; which constraints are allowed is a parameter |
| `SMTQuery` | the code: one step per call, and per activation, edge and return of `PathConstraint::Get` |
| `TaintMarking` | both loops over the module: one step per function and per argument |
| `MCBackEdges`, `MCRangeAnalysis`, `MCCheckInsertion`, `MCSMTQuery`, `MCTaintMarking` | instances for TLC |
| `CFGProofs`, `BitVectorsProofs`, `ConstantRangeProofs` | lemmas about the operators the models share, with proofs |
| `BackEdgesProofs`, `RangeAnalysisProofs`, `CheckInsertionProofs`, `SMTQueryProofs`, `TaintMarkingProofs` | the theorems about each component, with proofs |

`RangeAnalysis` uses what `BackEdges` establishes: by `SearchInv`, `backEdges[b]`
is `CyclePreds(succ, b)` when `backEdgeAnalysis` is over, and that is what
`RangeAnalysis!BackEdges` says.  The operators named in the text `Mutant:` are
wrong on purpose: each is a plausible bug that its property must notice, and no
specification uses them.

### BackEdges

`bb` is the loop variable of the outer loop, `searching` says that the inner one
runs, `remoteSuccessors` is the vector.  The code takes its back element; the
model takes any, which adds behaviours and loses none.  Since a block is put on
the vector only when it is new, the vector is a set.  Self loops (`successor !=
BB`, line 44) are never recorded: `KeptEdges` drops them, and every statement
about acyclicity is "apart from self loops".

### RangeAnalysis

* `prog` is the module.  `pc`, `iteration`, `fi`, `bb`, `preds`, `ip` are where the
  code is: the phase, the loop counter of `run`, the function, the block of
  `rangeAnalysis`, its predecessors still to take, the instruction of
  `analyzeFunction`.  `map` is the argument `globalRangeMap` of the handlers,
  `saved` the three copies `run` compares with.  The other four are the pass's
  members, under shorter names: `rangeInfo`, `gvRange`, `retRange`, `impossible`.
* A step is a whole handler.  `FollowEdge` refines the copy of the predecessor's
  map and begins the visit of the function with it; `VisitEntry` and `EndVisit`
  work on the entry block's map in place, as `sumRange` does.
* `MemberKeys` is empty.  It stands for the member `globalRangeMap`, which all
  handlers shadow with their parameter and nothing adds to; `getRange` asks it
  first (line 153), so a recorded range is never read back, and a range is either
  one constant or full.  This shapes most results below.
* A range is a width and a set of values.  Unions and intersections that are not
  intervals are covered by a smallest interval, as in LLVM; `Shapes` lists the
  intervals of a width.  A binary operation carries its relation (`computes`), a
  cast its function (`converts`); the result is the smallest range holding all
  outcomes, one of the ranges LLVM may return.
* `Asserts`, a field of the module, says whether LLVM was built with assertions: then ranges of two widths
  end the process, else an operand is lost.  `Abort` is that, or the exception of
  `at()` (handleSelectInst, line 276).
* The IR is well formed (`KintIR!WellFormed`): operands have the widths the verifier
  asks for, PHI nodes and binary operators are on integers (others are undefined
  behaviour of `getIntegerBitWidth`), integer globals have an initializer, and an
  array is one of at least one integer.  An integer may be stored to a global of
  another width, which the verifier allows: a build with assertions then ends in the
  union of two widths (`Abort`), and `Programs` may hold such modules for it.  Of a
  build without assertions only modules with stores of the global's width are
  modelled, since what such a union gives is not defined by LLVM.  A value is defined in one place
  (`SingleAssignment`), a select does not use itself, and branches on one comparison
  agree on its predicate and operands (`OneComparison`): the record of a branch is
  kept under its comparison.
* `predecessors()` gives an edge once per use; the model takes each predecessor
  once, in any order.
* Left out because nothing can be seen of it: the GEP branches of store and load,
  which look for an array in a map that never has one; the branch on
  `sinkedFunctions`, which is never filled; the taint test of line 50, whose two
  outcomes go into the same copy.

### CheckInsertion

`fn` is the function as it was, `checks` what has been inserted before which
operation; together they are the function as it is (`Nodes`, `Uses`).  The
comparisons, `and`, `or` and call of one check are one node that reads the same
operands: each of them leads to the call, which is observable.  LLVM's
`isSafeToSpeculativelyExecute` is a given of each instruction (`direct`).
`Worklist` is a set, with any element taken.  Users of an instruction are
instructions, so line 185 never warns.  What a check's call is given is in
`DivCondition` and `ShiftCondition`.

### Constraints and SMTQuery

* `fn` is the function, `at` the visitor's place among its calls, `pc` the part of
  `visitCallInst` it is in, `stack` the activations of `PathConstraint::Get` with
  the predecessors still to take and `Union` so far, `path` what the outermost one
  returned, `report` what `Solve` printed.
* A Z3 expression is what it is under each assignment to the symbols: `Get(f, sigma)`
  gives the value of every expression, a Boolean is the set of assignments that
  make it true, so `||` is a union and `&&` an intersection.  `Solve` is then exact:
  Z3 answers `sat` when the negated set is not empty, with any of its members.
* Symbols are arguments, loads, results of calls, constants of other kinds and PHI
  nodes.  A block is entered once in an execution that takes no back edge, so one
  assignment is one such execution, and `FunctionIR!Runs` are those that come to a
  block.  `Failures`, the runs in which the operation behind a check goes wrong, is
  defined from the instruction itself and not from the check.
* `GetOf` is what `ValueConstraint::Get` makes of a value, given the results for its
  operands, and `Get` the function it defines by recursion over the operands
  (`OperandsOf`; a PHI node is a symbol and has none).  `ValueOf` and `Values` are
  LLVM's meaning of the same instructions.  They differ where the code does: the
  divisions are SMT-LIB's, `zext` and `sext` append bits, a GEP multiplies with an
  index that has no sign where LLVM's has one, and a select has the expression of its
  first value for both outcomes.
* `Refused` and `Untranslatable` are the expressions Z3 refuses (bit vector for a
  Boolean, operands of two widths) and those that contain one; `z3::exception` is
  caught nowhere: `Abort`.
* `f.back` is what LLVM's `FindFunctionBackedges` reports: edges between reachable
  blocks without which those have no cycle.  Cycles that cannot be reached keep
  their edges; there the recursion uses up the stack (`StackOverflow` at
  `MaxDepth` activations, a bound larger than any function's number of blocks).
* `predecessors()` gives an edge once per use; taking it again adds nothing to a
  union, so each predecessor is taken once, in any order.
* `Exactness` names the shapes of code on which the answer is not exact.
  `MayMiss`: a branch whose two outcomes have one destination (line 280 takes the
  condition), a terminator the pass does not know (line 308).  `MayInvent`: a PHI
  node with a floating-point operand (line 321).  `WidensPointer`: an integer made
  a wider pointer or the reverse is sign-extended (line 108), where LLVM extends
  with zeros.  Everywhere else both inclusions are required.
* The function is well formed (`FunctionIR!WellFormed`): what LLVM's verifier guarantees of
  terminators, PHI nodes and types (`WellTyped`), an order of the values in which
  operands come first (`order`, `WellOrdered`), and of each check what `CheckInsertion` guarantees
  (`Guards`): a call of `__kint_overflow` has the operation's opcode, flag and operands,
  the argument of `__kint_check` is true exactly when the operation goes wrong.
* Not in the model: a value that uses itself without a PHI node, which LLVM allows
  in unreachable code only and on which `ValueConstraint::Get` recurs for ever
  (`WellOrdered` leaves it out); pointers whose index type is narrower than they are; GEPs
  whose offset `collectOffset` does not find (vectors).

### TaintMarking

* `functions` is the module's list, `at` the position of the loop, `round` 1 in `run`
  and 2 in `initRange`, `arg` the argument `getTaintSource` is at.  A function has
  the instructions of its entry block in order, the terminator last, with the values
  each defines and uses, and the set of values used in later blocks, all of which the
  entry block dominates.  A value is an argument or the call put in for it.
* A name is the name of a function of the program (`base`) and the numbers added to it
  for its callees (`path`), so that a callee's name contains (or begins with) its
  function's, which is all `isTaintSource` looks at.
* `backEdgeAnalysis`, which the first loop calls as well, is `BackEdges`; the calls that
  are put in leave the control-flow graph alone, so the two do not interfere.
* `markSinkedFuncs` is no action since it changes nothing: the result of
  `itaniumDemangle` is a copy or null, and line 69 compares its address with the
  name's.  With that no instruction has the metadata `kint.sink`, and
  `sinkedReachable` would find nothing, if it were called.

## 3. What the runs check

| Run | Instance | Shows |
|---|---|---|
| `back_edges` | all graphs of 4 blocks (smaller ones have unreachable blocks) | types; the worklist invariant; `KeptEdgesAcyclic`; `StraightEdgesKept`; that `BackEdges` implements `BackEdgesAbs`; that it returns |
| `range_analysis` | 2-bit integers; straight code in two functions, diamonds on all ten predicates, loops, switches, calls, casts, selects; loops and programs on which ranges of two widths meet also without assertions | the invariants and action properties below; the pass ends |
| `check_insertion` | all functions of 3 instructions of 5 kinds with every shape of uses; all opcodes in pairs; widths 1 to 4 for the conditions | the properties below |
| `smt_query` | 1- to 3-bit operations of every opcode, flag and kind of operand; diamonds with PHI nodes, switches with shared destinations, other terminators, simple, nested and irreducible loops, unreachable code; three checks in each function | the properties below |
| `taint_marking` | one to four functions with up to two arguments, with uses in every combination of places; declared taint sources, other functions, callees that exist already | the properties below |

Properties of the range analysis:

* `GlobalsCovered`, `ReturnsCovered`: at the end the range of a global integer or
  array, and of a function's result, holds all that the stores straight to it and
  the returns of that function can write.  What a value can be is what one
  instruction tells: its constant, or anything of its width.
* `RangesInv`: why it is so (see the proofs).
* `RangesGrow`, `RecordedStays`: no visit takes away from a range; what is recorded
  for a value of a block stays as it is.
* `ConvergesInTwo`: the second iteration changes nothing; ten is never reached.
* `OnlyEntryRecorded`: refinements of branches never reach a block's map.
* `ImpossibleAreInfeasible`: what `impossibleBranches` holds is impossible, for
  comparisons whose left operand is not a constant.  With a constant there, a false
  edge can be recorded wrongly, as its right operand is refined with the inverse
  predicate unswapped (`range_helper.cpp:89`).  Nothing that is reached reads the
  records of false edges.
* `PrintedExact`: what `printRanges` shows of the record, the comparisons with `true`
  (`range.cpp:88`), is exact, also with a constant on the left and though both edges
  of a branch write to one record: a comparison is shown if and only if no values of
  its operands make it true.

Properties of check insertion: `ChecksIffObservable` (checks are exactly where the
*original* function observes the operation), `ObservabilityKept` (checks make
nothing observable that was not), `WorklistInv`, `ConditionsExact` (against
LLVM's definition of undefined division and shift), `VisitorReturns`.

Properties of the queries:

* `ImplementsAbs`: every check is answered once, in layout order, and its constraint is
  exactly the set of runs that go wrong, up to the exceptions above.
* `WalkInv`: at every moment of the recursion each activation's `Union` holds the runs
  through the predecessors it has taken; a forward search from the entry says so.
* `RecursionBounded`: no reachable block is on the stack twice.
* `TranslationExact`: values are translated to what LLVM computes, at their own width, and
  symbols to themselves.
* `AllAnswered`: the pass ends, and with an answer to every check unless Z3 refuses
  something or there is an unreachable cycle.

Properties of the taint marking:

* `MarkingTerminates`, `DeclarationsExact`: the walks end, with one function per name
  and no callee of a callee.
* `RecordedCallsUsed`: call n of the record is for argument n, as
  `range_helper.cpp:190` takes it, and everything that used the argument uses it.
* `SecondRoundIdle`: `initRange`'s walk changes neither the list nor the record, and adds
  to a function at most a call that nothing uses.
* `DominanceExact`: the module violates dominance exactly where the entry block of a
  taint source used an argument before its terminator.  This describes what the
  code does to LLVM's rules; it is not something to be content with.

Runs that end with a counterexample, each on a sentence of the source the code
does not live up to (quoted under "findings" in `PROJECT.json`):

| Run | Sentence at | What the code does |
|---|---|---|
| `array_initializers` | `init_range.cpp:91` | the range of a constant array is its last element |
| `parameters` | `init_range.cpp:45` | parameters' ranges go into a copy and are lost |
| `loaded_globals` | `range_helper.cpp:354` | a load gets the initializer, not the global's range |
| `loop_phis` | `range_helper.cpp:341` | a PHI node in a loop misses values from forward edges |
| `selects` | `range_helper.cpp:278` | a select on a constant or argument ends the process |
| `smt_verdicts` | `smt_query.cpp:92` | the negated formula is solved: an "Error example" is a run without an error |
| `refused_values` | `constraint.cpp:34` | a select, or an address with an index narrower than the pointer, makes no bit vector but ends the process |

Three more sentences that one step of the model contradicts at sight have no run: a
load from an unknown address gets no range (`range_helper.cpp:409` says the full
one), a cast of a value without an entry gets a 0-bit range (`:298`), and no global's
range is printed (`range.cpp:60`).

Bounds and why they are enough.

* `NumBlocks = 4`: two disjoint or nested cycles, a cycle behind a branch, and
  unreachable cycles all exist with four blocks; the proofs cover every number.
* Two bits: every predicate has proper, full and empty regions, and signed and
  unsigned orders differ; wrapped intervals and unions that are not intervals
  exist.  One bit is the width of a comparison.
* Programs: each family varies the operands of one shape of control flow over
  constants at the borders (0, 1, 3), arguments and computed values.
* `MaxIterations = 10` is the code's own.
* `SMTQuery`: 2 bits tell signed from unsigned and the two borders apart, 1 and 3 bits
  are there for the operations alone; 5 blocks hold two loops one in the other, and
  an irreducible one, 4 an unreachable cycle.  `MaxDepth = 7` is more than the blocks
  of any instance.
* `TaintMarking`: two arguments are needed for an order among them, and two functions
  for one that follows the function being changed; the callees appended are the
  functions after that.
* Three instructions in check insertion: an operation, a user that is checked and
  reads it, and what observes that user, in any layout order and on any cycle.

Fairness.  All specifications have weak fairness of the whole next step and nothing
more: one thread that keeps running.  Where the model chooses (an element of a
worklist, a predecessor), no choice is assumed fair.  The systems stop; their last
state stutters (`Terminated`), so deadlock stays checked.  For `SMTQuery` it also says
that Z3 answers; on formulas without quantifiers over bit vectors it is a decision
procedure, and the code sets no timeout.

## 4. What is proved

All theorems hold for every value of the constants that meets the named
assumptions; TLC checks those assumptions on every run.

* `BackEdgesProofs` (any number of blocks, `NumBlocksAssumption`): `TypeOK` and
  `SearchInv` are inductive together.  `SearchInv` is needed because "the entry is
  the set of reachable blocks" is only true when a search ends; during it, what is
  found plus what waits is closed under successors, and what is found is
  reachable.  From it follow `KeptEdgesAcyclic` (a cycle of kept edges would start
  with an edge b -> y whose y reaches b, and that edge is cut),
  `StraightEdgesKept`, and the refinement of `BackEdgesAbs`.
* `CFGProofs`: `Reachable(succ, B)` is the least set that holds `B` and is closed under
  successors, whatever the graph: it is closed, and it is part of every closed set
  (`ReachableLeast`).  This takes the place of an induction over paths, which the
  provers cannot do.
* `BitVectorsProofs`: signed values, quotients and the powers of two.  `2^n` is the
  number of subsets of `1 .. n`, which gives `2^(n+1) = 2 * 2^n` and with it the borders
  of a width without unfolding the recursion behind `^`.  `Induction` is induction over
  the members of a set of numbers, from the least number outside it (`LeastNat`); it
  replaces the library's theorem, whose parameter is an operator.  With it: division
  with rest is unique, `Wrap` keeps what fits and forgets multiples of `2^n`, every set
  of bits is a number's (`FromOnesType`), the signed division and remainder of SMT-LIB,
  which divide magnitudes and then fix the sign, are the truncated quotient and rest of
  the signed values (`SignedDivisionsAgree`), and both kinds of extension keep the value
  (`Extension`).
* `ConstantRangeProofs` (`WidthsAssumption`): a smallest cover exists, holds what it
  covers and is part of every range that does (`SmallestCover`, a table by width and
  set, has it).  So the union of two ranges of one width is a range of that width that
  holds both, and the union with a range that is already inside changes nothing
  (`UnionAbsorbs`).  `AllowedICmpRegion` is spelled out predicate by predicate.
* `RangeAnalysisProofs` (every set of well-formed programs, with or without
  assertions):
  * `TypeOK`; `RangesGrow`; `OnlyEntryRecorded`.
  * `RangesInv`, and with it `GlobalsCovered` and `ReturnsCovered`.  `GlobalsCovered`
    speaks of the end only and is not inductive.  `RangesInv` adds (a) `WidthsKept`:
    every integer global and every function with a body keeps an entry of its own
    width, for at two widths a union loses an operand (a store of another width ends
    the process if there are assertions, and is excluded if not: `StoredWidth`); and (b) `VisitedCovered`: the
    code the first iteration has passed, which is an initial part of all code since
    the entry block comes first and its visit takes the whole function, is covered.
    A handler covers its instruction, later ones only add to the ranges, and at the
    end all code has been passed.
  * `ImpossibleAreInfeasible` is inductive with `TypeOK`.  A branch goes on record when
    one of its operands has nothing left, which means that no values the operands'
    ranges hold satisfy what restricted it.  On the edge for "false" the right operand
    is restricted by the wrong predicate (inverted but not swapped).  That does no harm
    here: only an operand that is not a constant loses values, and if both can be
    anything, it does not matter in which order they are compared.  `OneComparison` is
    needed because the record is kept under the comparison and not under the branch.
  * `PrintedExact`, for constants on either side.  On the true edge both operands are
    restricted by the right predicate, so that one of them has nothing left exactly if
    the comparison cannot be true; and in that case the false edge leaves something to
    both and the record alone (`TrueEdgeExact`).  The inductive
    parts are `PrintedInfeasible`, and `FollowedPrinted` about the edges already taken,
    which is why it needs `VisitedCovered`'s account of how far the walk has come.
  * `RecordedStays`, from `EntryInv`: the entry map's keys are values whose handlers
    always record them, calls never record there, a PHI node's range does not depend
    on the map, and a select's is the union of its operands' ranges.  So a second visit
    records what the first one did.
  * `ConvergesInTwo`, from `SettledInv` and `IdleInv`.  `SettledInv`: behind the place
    the first iteration has come to, every block has its map, an entry block's map is
    complete, and each global stored to and each callee asked about has a range that
    holds what is added there.  `IdleInv`: in the second iteration the three maps `run`
    compares are those it saved; a union with what is inside already absorbs it.
    `BuildAssumption` (`MaxIterations > 1`; the code has ten) is needed so that there
    is a second iteration.
* `CheckInsertionProofs` (every set of well-formed functions of any length): `TypeOK`,
  `ChecksIffObservable` and `WorklistInv` are inductive together, and imply
  `ObservabilityKept`.  The point: a check stands only where the operation is
  observable, so all it reads is observable already; then an observable set of the
  original function plus the checks is one of the function as it is, and a search
  that ends leaves an observable set without the operator.  `ConditionsExact`: at every
  width, by the borders of `BitVectorsProofs`, with each condition compared with
  LLVM's definition for each opcode.
* `SMTQueryProofs` (every set of well-formed functions, `FunctionsAssumption`,
  `DepthAssumption`): `TypeOK`, `WalkInv` and `ChainInv` are inductive together.
  `WalkInv` says what each activation has found; that a return hands the caller all
  the runs through the predecessor is `Runs` unfolded once, by the closure lemma of
  `CFGProofs`.  `ChainInv` says what the stack is: each activation waits on a
  translatable forward edge from the one above it, so lower blocks are reached
  from higher ones over forward edges only.  Since forward edges between reachable
  blocks have no cycle, no reachable block is there twice (`RecursionBounded`), and by the
  pigeonhole principle the stack never overflows while the block asked about is reachable.

  `SMTQueryTranslationExact`: of every well-formed function, at all widths, what
  `ValueConstraint::Get` builds is what LLVM computes, unless a pointer is widened.
  * `TranslationFaithful` goes by induction over ranks (`RanksExist`: the first place of
    a value in the order; operands have lower ones).  `ValueExact` is its step, kind by
    kind: signed divisions by `SignedDivisionsAgree`, conversions by `Extension`, and an
    address by `OffsetExact`, since a product with an index that has lost its sign is
    off by a multiple of `2^n`, which `Wrap` forgets.
  * That `Get`, `Values`, `Untranslatable` and `Total` obey their recursive equations is
    proved, not assumed (`GetSolved`, `ValuesSolved`, `UntranslatableValues`,
    `TotalSolved`): a recursive function is by definition *some* solution of its
    equation, if there is one, and the lemmas build one, rank by rank.  These
    definitions are only ever expanded for Zenon, which sees that choice; the SMT
    translation takes the equation itself for granted, even where it has no solution.

  `SMTQueryImplementsAbs` is the refinement, without further hypothesis.  On top of
  `TranslationFaithful`:
  * along each edge that can be translated, what LLVM does satisfies the edge's
    constraint unless `MayMiss`, and the converse holds unless `MayInvent`
    (`EdgeFaithful`, by kind of terminator, and over the PHI nodes);
  * `CleanInv`: whatever leads, over forward edges, to a predecessor the recursion has
    returned from has been translated, since otherwise Z3 would have ended the process.
    Without it the paths of the constraint could lack one that a run takes.  With it,
    `PathTo` and `Runs` are two least fixed points, each inside the other
    (`PathFaithful`);
  * a condition is true exactly when the operation goes wrong: for an overflow by
    arithmetic, at every width (`OverflowConditionExact`), for the others by `Guards`;
  * `OrderInv`: the checks answered are those the visitor is past.
* `TaintMarkingProofs` (every well-formed module): `TypeOK`, `DeclarationsExact`,
  `RecordedCallsUsed`, `DominanceExact` and the action property `SecondRoundIdle`, from
  one invariant.  It says, function by function, how far the walks have come: a
  function ahead of the loop is as it was, one behind has all its calls in order
  before its terminator and no use of an argument left, the one at hand has this for the
  arguments before `arg`.  The last part of it is what makes the second round idle: there
  are no users left to hand over, and all callees' names are declared.

Only model-checked: liveness (`Returns`, `Terminates`, `VisitorReturns`, `AllAnswered`,
`MarkingTerminates`), which is beyond the prover.

## 5. What is not modelled, and the plan

Not modelled: memory (a reference into a `DenseMap` that grows, hazard
`range_helper.cpp:47`), externs without initializer, vector and floating-point
operations, printing other than which globals are printed, registration, HelloWorld.

The path solver (`smt_solving.cpp:24-32, 54-261`) is left out although it is a large part
of its file: `smtSolver` iterates over `taintedFunctions`, only `sinkedReachable` adds to
that, and nothing calls `sinkedReachable`.  No execution of the program reaches
`pathSolver` or `addRangeConstaints`, so every initial state of a model of them would be
one the program is never in.  `getSinkFuncs`, `funcSinkCheck` and `sinkedReachable` are
left out for the same reason.

The plan is carried out as far as the tools reach.  What is left is under "Only
model-checked" above.
