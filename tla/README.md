# Verification of bitpack-hls

bitpack-hls turns an LLVM function into a Verilog module: it builds the
dependencies of the instructions, schedules them with a linear program, makes a
state machine of the schedule, binds instructions to functional units and
variables to registers, and prints the result.  This directory holds TLA+ models
of its parts, TLC configurations that check them on small functions, and proofs
that TLAPS checks for all functions.

## Inventory

The program is sequential and keeps nothing on disk: a run of `BitpackHls::run`
calls the parts below in order, each reading the data structures the earlier
ones left.  What is hard is not concurrency inside the compiler but

* the order of several passes over one program of constraints, where a row
  added, kept or deleted at the wrong moment changes the schedule silently;
* nondeterminism of the host: maps and sets keyed by addresses, sorts that leave
  equal elements unordered, a solver that may return any optimum;
* limits and off-by-ones: last states of blocks, ends of lifetimes, unit counts;
* the hardware that comes out: a clocked controller whose inputs `start` and
  `reset` change in any cycle.

| Part | State | Operations | Talks to | Correct when |
|---|---|---|---|---|
| `Dag`, `InstructionNode` | dependencies and memory dependencies of every instruction | `create`, `constructDependencies`, `filterInstructions` | rewrites the LLVM function; read by the scheduler | dependencies cover every operand of the same block, and nothing refers to an erased cast |
| `SdcScheduler` | columns and rows of the program, the last solution | `schedule`: add rows, solve three times, delete rows, map | `Dag`, lp_solve, `HardwareConstraints`; fills `SchedulerMapping` | never aborts, respects dependencies and unit limits |
| `HardwareConstraints` | constant tables | look up a unit, its number | scheduler, binder | - |
| `SchedulerMapping`, `Fsm`, `FsmState` | states, their order, transitions, instructions | `createFsm` | read by everything behind it | a chain per block that follows the schedule; unique names and encodings |
| `RtlModule`, `RtlSignal`, `RtlOperation` | signals by name; a signal's drivers and conditions, in parallel | `addWire`, `addReg`, `connectWithOperation`, `addCondition`, `find` | filled by `RtlGenerator`, read by `VerilogWriter` | a name finds the signal that was meant, drivers and conditions stay parallel |
| `RtlGenerator` | the module under construction, the units in use | `generate`: declarations, signals, binding, data path, shared registers | everything before it; fills `RtlModule` | operands are there when an instruction executes |
| `VerilogWriter` | text | `print` | reads `RtlModule`; asserts that operands exist | what it prints means what the signals say |
| the generated module: controller | registers `cur_state`, `finish` | a clock edge | `start`, `reset`, the data path | executes the schedule, signals the end once |
| the generated module: data path | a register for every result that is used, `return_val` | a clock edge | `cur_state`, the arguments | returns what the function computes |
| `BitpackRegBinding` | lifetimes, pools, sub-registers, registers, fields | `bindRegisters` | `Fsm`; read by `RtlGenerator` | variables alive together use different bits, every variable fits its field |
| `LifetimeAnalysis` | live-in and live-out masks of the blocks | `analize` | `Binding` | masks are the least fixpoint |
| `Binding`, `HungarianMethod` | units of the instructions, weights, an assignment | `bindFuInState`, `solve` | `Fsm`, `LifetimeAnalysis`; read by `RtlGenerator` | two instructions of one state have different units; the assignment is cheapest |
| `Allocation`, `NetList` | - | stubs, not called | - | - |

`PROJECT.json` lists all parts, and under `hazards` every place where this code
can go wrong in a way a test would hardly reach, with the properties that look
for it.

## Modules

| Module | Models | Notes |
|---|---|---|
| `Dag` | `Dag::create`: nodes, dependencies, rewritten operands, erased extensions | one action per iteration of its loops; `Delivered` is the function in the form of `Ir` |
| `Ir` | the LLVM function the back end reads, what LLVM and `Dag` guarantee of it, and what a schedule must satisfy (`IsSchedule`) | instructions and blocks are numbers in layout order |
| `HardwareConstraints` | the tables of units and limits | |
| `LinearProgram` | lp_solve, as far as the scheduler uses it (external) | difference constraints: least and greatest solutions |
| `LinearProgramReference` | an optimum, by its definition, and the assumption that `LinearProgram` finds it | evaluated in the run of the scheduler |
| `SdcScheduler` | `SdcScheduler.cpp`: one action per method, or per iteration of its outer loop | `pc` is the method, `cursor` its loop variable, `rows` the program, `sol` the columns |
| `Schedule` | abstract: a schedule is delivered in one step | implemented by `SdcScheduler` |
| `SchedulerMapping` | `createFsm`, `setFsmStateTransitions`, `Fsm::createState` | states are numbers in order of creation, `list` is `state_list` |
| `Controller` | what the generated controller has to do, on the machine `SchedulerMapping` built | `Clock` is a clock edge |
| `Execution` | abstract: a function executed state by state | implemented by `Controller` |
| `Rtl` | `RtlModule`, `RtlSignal`, `RtlOperation`, and which driver of a signal the printed text takes | operators, no variables |
| `RtlGenerator` | `generate`: one action per method it calls, whose loops over instructions take one at a time | `part` is the method, `rest` what its loop still has to take, `module` the signals |
| `Datapath` | the printed module at work | `Clock` is a clock edge; implements `Controller` |
| `BitpackRegBinding` | `bindRegisters` | one action per method, loops as iterations |
| `LifetimeAnalysis` | `analize`: `visitBlock` is one iteration of its inner loop | instantiated by `Binding`; a mask is the set of values whose bits are set |
| `HungarianMethod` | `hungarian_init`, `hungarian_solve`: one action per labelled section of the C code | the arrays keep their names |
| `Binding` | `assignInstructions`, `findIndependantInstructions`, `shareRegistersForFu` | runs `SchedulerMapping`, then `LifetimeAnalysis`, then binds; `phase` says which |
| `FiniteSetLemmas` | lemmas about maxima, images, ranks, orders and sums of finite sets, and induction and recursion up to a bound | |
| `SchedulerMappingProofs`, `ControllerProofs`, `SdcSchedulerProofs`, `DagProofs`, `BitpackRegBindingProofs` | theorems about the modules they are named after | the last also those about `HungarianMethod` |
| `DatapathProofs` | theorems about `Binding`, `LifetimeAnalysis`, `RtlGenerator` and `Datapath` | one module, since each invariant extends the one before it |
| `DataflowProofs` | theorems about the values in the module that `Datapath` runs | extends `DatapathProofs` |
| `MC*` | instances for TLC; `MCFunctions` and `MCSchedules` enumerate functions and schedules | |

`SdcScheduler` extends `Ir`, `HardwareConstraints` and `LinearProgram`;
`Controller` extends `SchedulerMapping`; `Binding` extends `SchedulerMapping` and
instantiates `LifetimeAnalysis` on the same function; `RtlGenerator` extends `Binding` and
`Rtl`, and `Datapath` extends `RtlGenerator`.  `Schedule`, `Execution` and, as what `Datapath`
promises, `Controller` are instantiated with a refinement mapping at the end of the modules
that implement them: `SdcScheduler` implements `Schedule`, `Datapath` implements
`Controller`, and `Controller` implements `Execution`.  Definitions named `...Without...`, `...Shifted` and the like whose comment
starts with "Mutant of" are faulty versions of the definition that follows: with
one put in the place of its original, the property named for it in
`PROJECT.json` fails, which shows that the property can tell.

### The scheduler

A function is a record (see `Ir`).  Every instruction has a column for its first
state and one more for each further cycle; only loads and stores take one.  The
rows are sequences in the order in which the code adds them; within one
instruction's dependencies the order is that of an arbitrary enumeration, which
no property depends on.  The three solves are `scheduleAsap`, `scheduleAlap` and
`scheduleResourseConstrained`; `deleteAlapConstraints` is the loop that removes
the rows of the second one.  The order in which `std::sort` leaves instructions of
equal ALAP states is not determined by the code (the tie-break subtracts unsigned
numbers), so `addResourseConstraint` chooses any.

lp_solve is trusted to return an optimum and, after rows have been added or
deleted, the columns of the last solve.  All rows are bounds or differences of
two columns, so the least solution minimises every objective with positive
coefficients, and the greatest, when columns are bounded, maximises it: the model
computes these by as many rounds over the rows as there are columns, after which nothing
changes if there is a solution at all, and reports that there is none otherwise.
`LinearProgramReference` compares it with the definition of an optimum on small programs;
`SdcSchedulerProofs` proves that the rounds suffice (`LeastRounds`, `GreatestRounds`) and
what a solve returns (`SolveMinimises`, `SolveMaximises`) for all of them.

### The state machine and the controller

`createFsm` is four actions: the first states of the blocks, the transition of
the wait state, the chain of each block, the names.  An instruction's end state is
where its register is written.  `Controller` adds the hardware: `Clock` is one
positive edge, with `start`, `reset` and the branch condition chosen freely for
the next one.  The hardware starts as an edge with `reset` leaves it; `finish` is
not reset, so it starts arbitrary.  `Execution` says what is promised: one cycle per
state of the schedule, the successor selected by the condition, idle after a
return or `unreachable`.

A switch with two cases or more is `llvm_unreachable` for the generator
(`RtlGenerator.cpp:344`): the machine is built and the program stops (`Stopped`).  One with
a single case is generated as a branch on a bit; `NoSingleCaseAssumption` leaves it out.

### The data path

`RtlGenerator` follows `generate` from the declaration of the ports to the shared registers,
for both values of the build option `REG_OPT`.  `module` is a function from names to signals,
as `RtlModule::find` looks them up; a signal has a width, drivers and conditions, which
`addCondition` extends together.  The generator's loops over instructions take one in each
step, so that `rest`, with `part` and `visited`, the number of states done, is all that is to be
known of where it is; the data path visits a state's instructions (`visit`) and then
generates its transition (`generateDatapath`).  What the text of a signal means is taken from the writer
(`WireDriver`, `RegisterDriver`): the last condition of a wire is printed as a comment, so
that its driver is taken in every state that has no condition, and of a register the last
condition that holds assigns.

`Datapath` runs what was printed.  Values are terms: a value is the operation and the values
it was computed from, with the number of bits it was cut to, so that a value that was computed
from the wrong operand, or lost bits, differs from the right one whatever the arithmetic.  A
condition may therefore come out either way.  `PowerUp` is the state after an edge with
`reset`: `cur_state` is the wait state, and every other register holds something unknown, as
none is reset.  `reset` may come again in any cycle; the arguments are those of one of two calls
and stay while a call runs.

The expected value of an instruction is its operation applied to the expected values of its
operands (`Meaning`).  Two premises of `OperandsArrive` and `ResultCorrect` say what the code
leaves open or gets wrong elsewhere: `Supported`, that the value is not computed from a load
or a PHI node, whose visitors are empty, and `Undisturbed`, that instructions of one unit or one
shared register have results of one width (`WidthsAgree`, see below) and that no two instructions
that share a register clash (`SharedNeverClash`, finding 4).  An instruction that nobody reads has no register; when it
shares a unit, `shareRegistersForFu` looks the register up and uses the null it gets
(`RtlGenerator.cpp:433`): the program ends there, the part `"assertion"` of the model.  The functions `Unread` of the run
are such.  `AbortsAreKnown` says that this, a comparison with a unit (finding 5) and a state with
more instructions of a unit than there are units are all that ends the program.

`TypesAssumption` states what LLVM guarantees of the operands and the types: `type` is the width
of a result, below 256 as `RtlWidth` keeps it in a byte; `reads` is the width of what an instruction
reads in LLVM, which a constant has, whereas `Dag` may have put something narrower in the place
of an extension; and `result` is the width of what the function returns.

### Packed registers

The model follows `bindRegisters` for functions of one block ("For now only first
basic block").  The tables are sequences in the order of the addresses of LLVM's
objects, which is chosen at the start.  `std::sort` keeps equal elements in order up
to 16 elements in the implementations it is built with (insertion sort); the model
relies on it.  `IsProgram` says that every instruction has a user: the functions
are compiled with `-O1` before (`run-hls.sh`).  Variables without a width (pointers,
stores) are excluded, the code divides by their width, and widths are multiples of the
least one, without which the division that counts the pools leaves bits without one.

### Dependencies

`Dag` collects, for every instruction, the operands of its own block and the earlier
accesses through the same pointer, and replaces an operand that is an extension by
the value before it.  Operands are rewritten as the instructions are visited, which
`operands` follows; `func` keeps what was passed.  An operand dominates its reader
(`Dominating`), which is what LLVM's verifier demands; it need not come before it in the
layout of the blocks.  `DeliversFunction` closes the gap to the
scheduler: what is left satisfies `IsFunction`, the assumption of the scheduler's runs
and proofs.

### Units and shared registers

`Binding` takes a schedule, lets `createFsm` build its machine and `analize` the masks,
and binds the units of one state after another.  The states and units are visited in
the order of the code as far as it can matter: a unit's data are read only by its own
assignments, so the order of units within a state is left open.  `bindFuInState` chooses
any cheapest assignment, which is what `HungarianMethod` is shown to find; with the one or
two instances the tables allow, the choice covers every order in which the solver may
meet equal costs.  `isRegOptimized` is true of every instruction that has a unit:
`checkPhiSuccessors` casts the use, which is the instruction itself, and never looks at
the users.  Addresses, which order the pairs that are tested and the groups that share a
register, are chosen at the start.  `shareRegisters` builds the groups of
`shareRegistersForFu`.

Whether two instructions clash is stated on the machine, without the masks: one of them
is written in a state from which a read of the other is reachable before it is written
anew.  `NeededAfter` is the least set of states closed under that.  Theorems about it use
`ReadersAssumption`: what an instruction reads, PHI nodes apart, is in its block and among its
dependencies, or in a block that dominates its block (`StrictlyDominates`), and comes before it
(`IsDominated`).

## Runs

| Run | Shows |
|---|---|
| `sdc_scheduler` | All functions of four shapes (`MCFunctions` enumerates operands, addresses and kinds): one block with memory accesses, four competing additions, two blocks with dependencies across them, and a conditional branch. The scheduler never reaches `report_fatal_error`, its buffers are long enough, the last block respects the limits applied, ALAP moves nothing to an earlier state, and it implements `Schedule`. The run also evaluates `OptimumAssumption`: `Solve` returns the optimum, or fails when there is none, for all programs of up to three rows (30 to choose from, over three columns); a bounded column cannot exceed 4 with such rows, so values up to `LargestValue` = 4 suffice. |
| `sdc_earlier_block` | Counterexample to the assertion `n_share <= n_available` of the binder: see Findings. |
| `controller` | All schedules with last states up to `Horizon` = 2 of six small functions (a straight block, a conditional, a loop, an empty entry block, a dead end, a switch with two cases), so that chains have a first, an inner and a last state: states have unique names and encodings, the states of a block lead to one another in the order of their names, every instruction is in the states its schedule says, no state lacks a transition. Then, with arbitrary inputs in every cycle: implements `Execution`, raises `finish` only after a return, comes to rest. |
| `datapath` | The generated modules of nine functions (three additions for one unit or two; with one of four results unread; products of 8 bits with results of 8 or 16; additions whose results were extended before they are used and returned; a branch on a comparison; a loop; a load and a PHI node; a comparison that has a unit; nothing) for all schedules with last states up to `Horizon` = 1, `FarHorizon` = 3 for one block: every signal a driver names exists, the program is ended by nothing but what `AbortsAreKnown` lists, operands arrive in the cycle their reader executes whatever earlier calls left in the registers, the result is that of the function, and the printed module implements `Controller`. |
| `datapath_comparison` | Counterexample: see Findings. |
| `bitpack` | All functions of two arguments and three instructions over three states, three choices of widths (one to three pools per variable), and all 120 orders of addresses: lifetimes are positive, the first pool of a sub-register is never overlapped, every sub-register gets a register that holds it, and distinct sub-registers keep distinct bits. |
| `bitpack_gap` | Counterexample: see Findings. |
| `dag` | All well-typed functions of three layouts: arithmetic through extensions, memory accesses and calls, and a loop whose PHI node may read an extension of either block. Dependencies cover reads, accesses are ordered, what an instruction waits for dominates it so that nothing waits for itself, every use is recorded with its dependence, and what is left is a function for the scheduler. |
| `dag_erased` | Counterexample: see Findings. |
| `hungarian` | All matrices of 3 rows over 3 costs (19 683), of 2 by 3 and 3 by 2 over 3 costs in both modes, one of them negative, and 4 rows chosen of 5 (625), which need paths through three columns. The solver ends, never fails its double check, and the assignment is optimal. |
| `binding` | All schedules of five shapes (three overlapping additions for one unit; for two units; a branch around a block; two arms and a PHI node; a loop) with `Horizon` = 1 states per block after the first, `FarHorizon` = 3 for one block, and all orders of the addresses of the instructions that have a unit. The masks are the least solution of their equations, the iteration ends, instructions that start together have different instances, the weights count the inputs there are, every pair in a shared register was found independent, and instructions alive in no common block never clash. |
| `binding_shared` | Counterexample: see Findings. |

Fairness.  The scheduler, `createFsm` and the binder of packed registers are sequential
methods whose loops are bounded by `cursor`: they return as soon as they do not stop at
`"fatal"`, which is `AlwaysSolvable`, and no liveness is claimed of them.  Two sequential
methods loop until a condition of the data holds, and there weak fairness of the next
step says only that the program goes on: `Terminates` of `HungarianMethod`, and `AnalysisEnds`
of `Binding`, for the `while` of `analize`.  In `Controller` the fairness is that of the
clock (`WF_vars(Next)`): `Completes` says that, without a loop in the function and with `reset`
inactive from some time on, a started machine comes to rest.  `Datapath` states no fairness: it
implements `Controller` without its own.  Deadlock is checked in all runs; the methods'
specifications stutter explicitly when they have returned, and those that end in an assertion of
the code (`"assertion"`, `Stopped`) stutter there.

The schedules of `binding` fit the units (`FitsUnits`): that the scheduler does not always
deliver such schedules is what `sdc_earlier_block` shows, and the assertion they would meet
is modelled by the phase `"assertion"`.  They contain no PHI node in a state that branches,
for which `visitTransitionStates` (`Binding.cpp:475`) reads past the end of the transitions.

## Findings

1. `addResourseConstraint` clears its list for every block and sorts it after the
   loop (`SdcScheduler.cpp:222-240`): only the last block is constrained
   (`sdc_earlier_block`), contrary to the assertion in `Binding.cpp:103`.
   `LastBlockWithinLimit` states the limit that is respected.
2. `performLeftEdge` advances the edge by the length of a lifetime instead of to its
   end (`BitpackRegBinding.cpp:358`): after a gap, overlapping variables, even two
   pools of one variable, share a sub-register (`bitpack_gap`).  `OpenerExclusive` is
   what remains true.
3. `Dag` erases every extension, but only readers in the extension's own block are
   redirected (`Dag.cpp:111`, `:71`): a reader in another block, or a PHI node, keeps an
   erased operand (`dag_erased`).
4. The independence test uses `max_element` for a minimum and pushes what is known of
   the second instruction to the first (`Binding.cpp:427`, `:622-627`): instructions whose
   lives overlap share a register (`binding_shared`).  `DisjointBlocksNeverClash` holds:
   instructions that are alive in no common block never clash.

5. A comparison of 8, 16 or 32 bits has a unit, but only an instruction that `isBinaryOp()`
   gets a second operand (`RtlGenerator.cpp:247`): the writer meets its assertion on a null
   signal (`VerilogWriter.cpp:319`; `datapath_comparison`).  Comparisons of 64 bits and of
   one bit have no unit and are computed.

More disagreements were seen in reading, and no run is spent on them: the limit
of an opcode is that of the unit of its first instruction, also for other widths
(`SdcScheduler.cpp:287`); the field of a packed variable is the span of its sub-registers,
which may contain another variable's bits (`BitpackRegBinding.cpp:510`); merging leaves a
moved sub-register among the fields of its old register (`:437`), so the field of a
variable may be joined from two registers; a unit, and a register that is shared, is as wide as
the result of the first of its instructions by address, and cuts those of the others
(`RtlGenerator.cpp:250`, `:458`); the name of a unit contains the block (`verilog_utility.cpp:63`),
so that every block has units of its own and the limits hold per block; an erased sign
extension becomes one by zeros, and all comparisons are unsigned; the generator has no case for
a pointer argument and asserts; two names of LLVM may become one name of Verilog; a state whose
only transition leads to itself is printed as an empty case item.

## Proofs

Eight modules hold theorems or lemmas, each for every value of the constants that satisfies the
assumption of the module it is about.

**The scheduler.**  `SdcSchedulerProofs` proves, for every set of functions that satisfies
`FunctionsAssumption` (what LLVM and `Dag` guarantee of each):

* `TypeCorrect`: `Spec => []TypeOK`;
* `SchedulerImplementsSchedule`: `Spec => ImplementsSchedule`, so that what the
  scheduler returns is a schedule in the sense of `IsSchedule`;
* `NeverFails`: `Spec => []AlwaysSolvable`, `report_fatal_error` is never reached;
* `MobilityStaysNonNegative`: `Spec => MobilityNonNegative`;
* `BuffersAlwaysFit` and `LastBlockStaysWithinLimit`: `Spec => []BuffersFit` and
  `Spec => []LastBlockWithinLimit`.

These are all the properties of the run `sdc_scheduler`.

`TypeOK` is not enough for the second: nothing in the types says that the columns
copied into the schedule satisfy the dependencies.  The inductive invariant `IInv` adds

* `CursorOK`: the loops are at an instruction or block that exists;
* `RowsPresent`: the row of every dependency the loops have passed is among the
  rows that will be kept (`Kept`: while the ALAP rows are there, the first `nAsap`);
* `Solved`: after the last solve the columns satisfy every dependency;
* `Mapped`: the blocks that were mapped have the states of the columns.

The step that matters is `scheduleResourseConstrained`: `Solve` returns OPTIMAL only
for columns that are feasible for all rows, among them, by `RowsPresent`, one per
dependency.  Up to here nothing else of the solver is used: the proof does not depend on the
way the model computes an optimum, nor on the limits of the units, nor on the order
the sort chooses.

The other theorems need the solver and the rows of the resources.  That the rounds of the
solver suffice is `RoundFinishesColumn`: as long as a column is short of its value in the least
solution, a round gives one more column that value, or else all columns that are short could be
one lower.  So a solve fails only if there is no solution, and `NeverFails` is about rows.  Numbers
of the instructions by which whatever an instruction depends on comes before it (`Sorts`) give
a solution, two states for every number (`KeysSolve`).  The first solve has one because depth in
the dominator tree, and the place within a block, sort the instructions (`DominanceSorts`); the second because the
columns of the first satisfy the rows added for it, which bound every column
(`AlapRowsSolvable`); and the third because the columns of the second, and the places in the order chosen for a
limit, sort the instructions as well (`SolutionSorts`), so that the rows between an instruction
and the one a limit behind it go along with the dependencies instead of against them.
`LastBlockStaysWithinLimit` follows those rows: of the instructions of one state, none is the limit or more
behind another (`NoMoreThanLimit`).  `BuffersAlwaysFit`, that there are never fewer rows than
columns, is that every column keeps a row of its own (`RowsStaySufficient`).

**The state machine.**  `SchedulerMappingProofs` proves, for every set of schedules that
satisfies `SchedulesAssumption` (LLVM's control flow, `IsControlFlow`, and `IsSchedule`, which is
what the theorem about the scheduler delivers): `MapTypeCorrect`, `StatesAreDistinguished`,
`NoTransitionIsMissing` and `InstructionsArePlaced`.  The properties speak of names, and a name is
a rank in a list into which chains have been inserted behind states that were already there.  So
the invariant `IInv` says, beside the types (`ShapeOK`, `MapTypeOK`):

* `Listed`: the list has every state once, the wait state first;
* `Runs`: the states of a block are one run of consecutive places, only the first of them
  before its chain is built; a finished run has the instructions of the schedule and leads from
  each state to the next (`LinkedAt`), and the lookups of its instructions point into it
  (`PlacedAt`);
* `Owned`, `WaitOK`: no other state belongs to a block, and the wait state leads to the
  entry block or beyond it;
* `Numbered`, `NamesGiven`: blocks have the number of the blocks with states before them, and
  names are ranks.

The step that matters is `createChains`: the insertion moves the runs behind it and
lengthens one, and no run is split, since what is inserted follows a first state that is still
alone.  Two blocks with states never have one number, because counting up to a larger
block counts one more.

**The controller.**  `ControllerProofs` proves, for the same schedules, `TypesCorrect`,
`FinishIsPulse` and `ExecutionImplemented`, that is `Spec => ImplementsExecution`.  `HwInv` adds to
the invariant of `createFsm` only that a raised `finish` is seen in the wait state: `WaitOrAt` and
`PositionIs` turn a place in the list into the block and the state of its schedule that
`Execution` speaks of, and `ClockAdvances` compares one clock edge with one step of the execution.
`NoSingleCaseAssumption` is needed here and only here: a state with at most one transition must
be that of a branch on a bit.

**Dependencies.**  `DagProofs` proves `TypeCorrect`, `DependenciesAreOrdered` (from
`ReadsAreCovered`, `AccessesAreOrdered` and `WaitsNeverForItself`), `NoneDependsOnErased` and `FunctionDelivered` for every set of functions that satisfies
`HasOperands`: operands exist, an extension has one, and operands dominate their readers, PHI
nodes apart.  The difficulty is that operands are rewritten while
dependencies are collected from them.  The invariant says what the loop has made of the
instructions it has passed in terms of the function as it was passed (`Seen`), and that the
others are as they were; an access compares its pointer with earlier accesses only, whose
operands no longer change.  `TypeCorrect` says that dependences are nodes and users their inverse,
not more: through an extension a dependence may be in another block.  What holds of it there is
`WaitsNeverForItself`: it dominates the instruction, so that no chain of dependencies comes back.  `NoneDependsOnErased` has the premise that no extension extends an
extension, for the code looks through one level (`Dag.cpp:128`).  `FunctionDelivered` is the
joint of two components: what remains, renumbered in the order of the layout (`LayoutOrder`),
satisfies `IsFunction`.  That every instruction that remains has one number, and the numbers
keep the order (`InOrderLists`), comes before it; the rest is that dominance survives the erasing of
extensions, because the value before an extension dominates all that the extension does.

**The binder.**  `DatapathProofs` proves, for every set of schedules that also satisfies
`OperandsAssumption` (an operand that is an instruction is one of the function) and
`ReadersAssumption`, all the invariants of the run `binding`:

* `MasksAreLeast`: the masks `analize` ends with are the least solution of its equations.  A round that
  has changed nothing so far leaves the blocks it has passed solved (`Settled`), and what is live
  into a block is so in every solution (`Below`);
* `ReadValuesAreLive`, from the equations by induction along the way to the reader;
* `UnitsAreExclusive`: an instruction has an instance if and only if its state and its unit are no
  longer in `todo`, and no two of a state have the same (`Assigned`).  Of the assignment by costs
  only that it gives no instance twice is used, so the theorem holds for any weights;
* `InputsAreCounted`: the operands and the count of inputs kept for an instance are those of the
  instructions bound to it (`Known`), for `bindFuInState` is the only step that adds any, and an
  instruction is bound once;
* `GroupsAreIndependent`: the groups are built by joining one instruction after another to the
  first group that takes it, which keeps them independent and loses none;
* `DisjointBlocksClashNever`: instructions that are alive in no common block never clash.  This
  joins three components: `Lva`'s equations, the machine of `createFsm` and `NeededAfter`.  A
  state in which a value is needed lies in a block in which the value is alive: that set of
  states holds every state from which a read is next (`Needing`), as the successors of a state
  are the next of its block's chain or, from its last state on, the first states of the
  blocks that follow (`SuccessorLocated`), so the least such set is within it.  A block without
  states, as an entry block with no instruction has none, is passed through;
* `BindingTypeCorrect`.

The addresses, and with them the order of pairs and groups, are any sequence of the
instructions that have units (`Addressed`).

**The generator.**  `DatapathTypeCorrect`, `DatapathSpec => []DatapathTypeOK`: whatever is
generated, a condition has its driver and every signal that a driver names is in the
module.  So what `RtlModule::find` returns is not null, with one exception, the register of an
unread result; `AbortsAreAlwaysKnown` (below) says that there is no other.  The specification runs
`createFsm`, `analize`, the binder, the generator and the hardware in turn, so the invariant
`GenInv` (`GeneratorInvariance`) has that of the binder, `BInv`, and

* `PartOf`, `Remaining`: which phase of the binder goes with which part of `generate`, and
  what its loops still have to take;
* `Contents`: the ports are there, the wire and the register of every instruction the first
  loop has passed, and the operation of every unit; and `ModuleOK`, that each signal has as many
  drivers as conditions, all of them connected to what exists (`SignalOK`).

The step that matters is `shareRegistersForFu`, which turns the register of an instruction that
joins a group into a wire with one driver and no condition (`Joining`), while the register of
the group's first instruction gets one condition more.  Were the first one to join another in
its turn, it would have drivers and conditions of different lengths; it never does
(`LeaderLeads`), because an instruction is in one group of its instance only.

**The generated module.**  `DatapathImplementsController`, `DatapathSpec => ImplementsController`:
with its registers, shared or not, the module that was printed is the controller that the state
machine describes, and by `ExecutionImplemented` an execution of the function.  The
invariant is `CtlInv` (`ControlInvariance`):

* `FinishDriven`, `FinishRises`: `finish` is cleared in the wait state, set in states with a
  return only, and in all of those the generator has passed (`Passed`);
* `CurStateOK`: the entries of `cur_state` for a state are exactly those of its transition
  (`Leaving`), and none before the state is visited;
* `HardwareOK`: where the hardware is.

The first three are about drivers that later methods must not touch; `ControlKept` says so of
each.  While the generator runs, the module implements `Controller`'s `createFsm` and then
stutters.  `ClockRefines` compares an edge with `Controller`'s `Clock`: the first entry of
`cur_state` whose condition holds leads where the transition leads, also where the writer leaves
out the entry of a state that leads to itself.  The definitions of the instance of `Controller`
are shown equal to those of the module one by one, from the bottom up.  `SupportedAssumption` has no
switch among the instructions, so nothing of `Stopped` has to be shown.

**The values.**  `DataflowProofs` proves `AbortsAreAlwaysKnown`, `OperandsArriveAlways` and
`ResultIsCorrect`, that is `DatapathSpec => []AbortsAreKnown`, `[]OperandsArrive` and
`ResultCorrect`, for every set of schedules and both values of `REG_OPT`; with them all
properties of the run `datapath` are proved.  There are two invariants.

`DataInv` (`DatapathInvariance`) is about the module: `AllProper`, that every signal has drivers of
the form its kind has; `Linked`, that the register which holds an instruction takes its wire in the state
the instruction ends in; and `DrivenIn`, that the instructions of the states visited are driven there, by
their operands or through their unit.  Every method but one only adds to what is there (`Extends`);
the exception is the sharing of registers, which replaces two signals and moves one condition
(`SharingKeeps`).  `AbortsAreAlwaysKnown` follows, since a name is looked up only after
it has been added, and an operation is printed without its operand only in a unit.

`ValueInv` (`ValueInvariance`) adds `Arriving`: a value that was computed since the wait state was
left (`ComputedBefore`), and is read in this state or needed after it (`HeldIn`), is in the
register of its holder.  No claim is made about the other registers, which hold what earlier calls or
the power-up left there.  The step is one clock edge (`ClockArrives`).  What an instruction reads
was computed before, because it dominates the reader (`ReadIsComputed`), and is held
(`ReadIsHeld`); so its operands arrive (`ReaderSupplied`), its wire has its meaning
(`WireValue`), also through a unit whose other instructions are in other states; and the register takes it
(`LatchedValue`).  A value that is held already stays: only the instructions that share the register
write it, and if one of them were computed in a state after which the value is needed,
the two would clash (`LedDoNotClash`), which `SharedNeverClash`, a premise of the properties, excludes.
`Meaning` and `Supported` are defined by recursion along what dominates, `Signal` along the names a
driver refers to.  That their equations hold is shown by numbering the instructions so that
operands come first (`OperandsOrdered`) and the names by kind (`Rank`), and by what each
equation looks at (`MeaningLocal`, `SignalFromLocal`).

**Packed registers.**  `BitpackRegBindingProofs` proves, for every set of programs, all the
properties of the run `bitpack`:

* `LifetimesArePositive`, the assertion of `performLeftEdge`: the stages of states with
  instructions ascend with the states, and a value is read in a later state than it is written in;
* `OpenersAreExclusive`: the edge never goes back, so a pool that joins a sub-register is
  written after the last use of the one that opened it.  Only of that one: finding 2 is that
  the edge falls behind the others;
* `SubRegistersAreMerged`: a sub-register that has a register is among its fields, and after the
  loop over the variables, which hold every sub-register, all have one;
* `SubRegistersAreDisjoint`: two sub-registers have no bit in common, provided that no register is
  wider than 256 bits: a field's bounds are bytes (`UChar`) and wrap.  The run stays below;
* `TypeCorrect`.

The table of pools is a sort.  It is modelled by what it yields (`Listed`: the k-th element has
k elements up to it), from which the proofs derive that it is a permutation in the order of
`DefinedUpTo`.

**The Hungarian method.**  `BitpackRegBindingProofs` proves too, for every matrix whose costs are within
`CostLimit` (so that no sum reaches `INF`): `HungarianTypeCorrect`, `DoubleCheckHolds` (the test at the end
never calls `exit`), `WaysLeadBack` and `MatchingStaysTight`.  The invariant has a part per array:

* `Dual`: reduced costs and dual values are not negative, and a column without a row was never
  raised;
* `Mates`, `Counted`: the two arrays are one matching along entries of reduced cost zero, and
  `unmatched` counts the rows without a column;
* `Forest`: no row is in the forest twice, every column reached has its parent there before its
  own row;
* `Slack`: a slack is at most the reduced cost of every explored row, and is attained.

When the dual values change, each row of the forest is lowered once because it is there
once; the change is the least slack, so no reduced cost becomes negative.  It is never `INF`,
because some column is still free, was never raised, and so bounds the dual values of the rows.
Tightness and feasibility are what makes the final assignment optimal: `SolutionIsOptimal`
compares the sums.  An assignment of the padded matrix costs at least the sum of the dual
values, the matching costs just that (`SumOf` is shown to respect order, sums and permutations
of its terms), and an assignment of the matrix that was passed extends to one of the padded one
whose other rows or columns cost nothing.

Induction.  The library's induction theorems take an operator as a parameter, which the provers
cannot instantiate.  `FiniteSetLemmas` states the two forms that are needed about sets and
functions instead: `InductionUpTo`, of a set of numbers that contains 0 and with every number
below the bound its successor, and `RecursionUpTo`, that a function defined by recursion up to a
bound satisfies its equations.  The rounds of the solver, the chain of a sub-register, the sums of
the Hungarian method, the ways through a function and the groups that share a register are
recursive functions for that reason.

Only model-checked: the liveness properties `Completes`, `Terminates` and `AnalysisEnds`, which need
fairness, and the five counterexamples.

## Plan

Done: the scheduler with its solver, the dependencies, the state machine, the controller, the
packed registers, the lifetimes, the binder and its solver, the generator and the data path it
prints; proofs about each of them.  In order of importance, what later work adds:

1. `Dag`, scheduler, state machine and generator composed end to end.
2. Loads and PHI nodes in the data path, when their visitors are written.
3. The data path with packed registers (`BITPACK`), and functions of several blocks for them,
   when the code supports them.

All safety properties of the passing runs are proved for all values of the constants.

## Not modelled

* Of `VerilogWriter`, the declarations, the indentation and the text itself: what is modelled is
  what the text means.
* Of `RtlGenerator`, the code behind `BITPACK`, allocations, casts that `Dag` has not erased and
  units that take cycles; signs and bit ranges of signals; the removal of unconnected signals,
  which nothing calls.
* `Allocation` and `NetList`, which nothing calls.
* The driver, the dumps and the debug output, which only read.
* Delays of the units: `Dag` stores them and nothing reads them.
