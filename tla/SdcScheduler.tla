---------------------------- MODULE SdcScheduler ----------------------------
(***************************************************************************)
(* The scheduler (scheduling/SdcScheduler.cpp): it turns the dependencies  *)
(* of a function into a linear program over the start and end state of     *)
(* every instruction, solves it as soon as possible, again as late as      *)
(* possible to obtain an order of the instructions that compete for a      *)
(* functional unit, adds a row for every pair of that order that is one    *)
(* unit count apart, and solves it a last time.  The result is a state for *)
(* every instruction, counted from the first state of its basic block.     *)
(*                                                                         *)
(* An action is one method, or one iteration of a method's outer loop.     *)
(***************************************************************************)
EXTENDS Ir, HardwareConstraints, LinearProgram

CONSTANTS
    Functions,  \* the functions to schedule
    Opcodes,    \* their opcodes
    Widths      \* their operand widths

ASSUME FunctionsAssumption ==
    \A f \in Functions : IsFunction(f, Opcodes, Widths)

VARIABLES
    func,       \* SdcScheduler::function with its dag
    pc,         \* the method being executed
    cursor,     \* the instruction the method's loop is at
    rows,       \* the rows of lp_solver, in order
    nAsap,      \* n_lpvar_asap, the number of rows of the first solve
    sol,        \* the columns as the last solve left them
    seen,       \* seen_opcodes
    start,      \* SchedulerMapping::instr_state_lookup
    statesNum   \* SchedulerMapping::bb_states_num_lookup

vars == <<func, pc, cursor, rows, nAsap, sol, seen, start, statesNum>>

-----------------------------------------------------------------------------
(* createLpVariables: an instruction has a column for its first state and  *)
(* one for each further cycle.                                             *)

First(i) == <<i, 0>>

End(f, i) == <<i, Cycles(f, i)>>

Cols(f) == {First(i) : i \in Instrs(f)} \cup {End(f, i) : i \in Instrs(f)}

(* addMulticycleConstraints, the rows of one instruction. *)
MulticycleRows(f, i) ==
    [k \in 1..Cycles(f, i) |-> Row(<<i, k>>, <<i, k - 1>>, "EQ", 1)]

(* addDependencyConstraints, the rows of one instruction.  The order of    *)
(* the two sets is the order of the nodes' addresses.                      *)
StartRow(i) == Row(First(i), Zero, "GE", 0)

(* Mutant of DependencyRow: a register may be read as it is written. *)
DependencyRowWithoutGap(f, i, d) == Row(First(i), End(f, d), "GE", 0)

DependencyRow(f, i, d) == Row(First(i), End(f, d), "GE", 1)

MemoryRow(f, i, d) == Row(First(i), End(f, d), "GE", 0)

(* Mutant of DependencyRows: the first column has no row of its own. *)
DependencyRowsWithoutStart(f, i) ==
    LET deps == SetToSeq(f.deps[i])
        mem  == SetToSeq(f.mem[i])
    IN [k \in DOMAIN deps |-> DependencyRow(f, i, deps[k])]
       \o [k \in DOMAIN mem |-> MemoryRow(f, i, mem[k])]

DependencyRows(f, i) ==
    LET deps == SetToSeq(f.deps[i])
        mem  == SetToSeq(f.mem[i])
    IN <<StartRow(i)>>
       \o [k \in DOMAIN deps |-> DependencyRow(f, i, deps[k])]
       \o [k \in DOMAIN mem |-> MemoryRow(f, i, mem[k])]

(* addAlapConstraints: nothing ends after the last end of its block in the *)
(* first schedule, and what starts at once and needs no register stays.    *)
LastEnd(f, x, b) == Max({x[End(f, i)] : i \in BlockInstrs(f, b)})

(* Mutant of StaysFirst: whatever needs no register stays where it is not. *)
StaysFirstAnywhere(f, x, i) ==
    /\ ~IsTerminator(f, i)
    /\ f.deps[i] = {}

StaysFirst(f, x, i) ==
    /\ ~IsTerminator(f, i)
    /\ f.deps[i] = {}
    /\ x[First(i)] = 0

AlapRow(f, x, i) ==
    IF StaysFirst(f, x, i)
    THEN Row(End(f, i), Zero, "EQ", Cycles(f, i))
    ELSE Row(End(f, i), Zero, "LE", LastEnd(f, x, f.bb[i]))

(* addResourseConstraint: constrained_instr_nodes is cleared for every     *)
(* block and used after the loop over the blocks, so it holds what the     *)
(* last block left in it.                                                  *)
LastBlock(f) == Len(f.succ)

Constrained(f, op) == {i \in BlockInstrs(f, LastBlock(f)) : f.op[i] = op}

(* Mutant of predicateAlap: the latest instruction comes first. *)
predicateAlapReversed(x, i, j) == x[First(i)] > x[First(j)]

(* predicateAlap compares the states of the last solve; the difference of  *)
(* two unsigned columns is never negative, so equal states are unordered.  *)
predicateAlap(x, i, j) == x[First(i)] < x[First(j)]

SortedByAlap(f, x, op) ==
    { q \in SetToSeqs(Constrained(f, op)) :
        \A j, k \in DOMAIN q : j < k => ~predicateAlap(x, q[k], q[j]) }

(* Mutant of ResourceRows: the last pair has no row. *)
ResourceRowsButLast(q, limit) ==
    [k \in 1..(Len(q) - limit - 1) |-> Row(First(q[k + limit]), First(q[k]), "GE", 1)]

ResourceRows(q, limit) ==
    [k \in 1..(Len(q) - limit) |-> Row(First(q[k + limit]), First(q[k]), "GE", 1)]

(* The limit scheduleResourseConstrained finds for an opcode is that of    *)
(* the unit of the instruction it meets first.                             *)
UnitOf(f, i) == getInstructionFu(f.op[i], f.width[i])

(* Mutant of BlockStates: the last state is not counted. *)
BlockStatesButLast(f, x, b) ==
    Max({x[First(i)] + Cycles(f, i) : i \in BlockInstrs(f, b)}) - 1

(* mapSchedule, for one block. *)
BlockStates(f, x, b) ==
    Max({x[First(i)] + Cycles(f, i) : i \in BlockInstrs(f, b)})

MappedState(f, x, i) ==
    IF f.op[i] = "Ret" THEN BlockStates(f, x, f.bb[i]) ELSE x[First(i)]

-----------------------------------------------------------------------------
Init ==
    /\ func \in Functions
    /\ pc = "addMulticycleConstraints"
    /\ cursor = 1
    /\ rows = << >>
    /\ nAsap = 0
    /\ sol = [c \in Cols(func) |-> 0]
    /\ seen = {}
    /\ start = [i \in Instrs(func) |-> 0]
    /\ statesNum = [b \in Blocks(func) |-> 0]

(* The loop of pc moves to the next of n elements, or pc to what follows. *)
Advance(n, following) ==
    IF cursor < n
    THEN cursor' = cursor + 1 /\ pc' = pc
    ELSE cursor' = 1 /\ pc' = following

addMulticycleConstraints ==
    /\ pc = "addMulticycleConstraints"
    /\ rows' = rows \o MulticycleRows(func, cursor)
    /\ Advance(Len(func.op), "addDependencyConstraints")
    /\ UNCHANGED <<func, nAsap, sol, seen, start, statesNum>>

addDependencyConstraints ==
    /\ pc = "addDependencyConstraints"
    /\ rows' = rows \o DependencyRows(func, cursor)
    /\ Advance(Len(func.op), "scheduleAsap")
    /\ UNCHANGED <<func, nAsap, sol, seen, start, statesNum>>

(* scheduleAxap: report_fatal_error ends the program if solve fails. *)
scheduleAxap(goal, following) ==
    LET result == Solve(goal, Cols(func), rows)
    IN /\ sol' = result.vars
       /\ pc' = IF result.status = OPTIMAL THEN following ELSE "fatal"

scheduleAsap ==
    /\ pc = "scheduleAsap"
    /\ scheduleAxap("minim", "addAlapConstraints")
    /\ UNCHANGED <<func, cursor, rows, nAsap, seen, start, statesNum>>

addAlapConstraints ==
    /\ pc = "addAlapConstraints"
    /\ nAsap' = Len(rows)
    /\ rows' = rows \o [i \in Instrs(func) |-> AlapRow(func, sol, i)]
    /\ pc' = "scheduleAlap"
    /\ UNCHANGED <<func, cursor, sol, seen, start, statesNum>>

scheduleAlap ==
    /\ pc = "scheduleAlap"
    /\ scheduleAxap("maxim", "deleteAlapConstraints")
    /\ UNCHANGED <<func, cursor, rows, nAsap, seen, start, statesNum>>

(* The loop of scheduleResourseConstrained that deletes rows from the end. *)
deleteAlapConstraints ==
    /\ pc = "deleteAlapConstraints"
    /\ rows' = SubSeq(rows, 1, nAsap)
    /\ pc' = "addResourseConstraint"
    /\ UNCHANGED <<func, cursor, nAsap, sol, seen, start, statesNum>>

(* One iteration of the loop over the instructions: the first of each      *)
(* opcode adds the rows of that opcode if its unit has a limit.            *)
addResourseConstraint ==
    /\ pc = "addResourseConstraint"
    /\ LET op   == func.op[cursor]
           unit == UnitOf(func, cursor)
       IN /\ seen' = seen \cup {op}
          /\ IF op \notin seen /\ IsLimited(unit)
             THEN \E q \in SortedByAlap(func, sol, op) :
                     rows' = rows \o ResourceRows(q, FuLimit(unit))
             ELSE rows' = rows
    /\ Advance(Len(func.op), "scheduleResourseConstrained")
    /\ UNCHANGED <<func, nAsap, sol, start, statesNum>>

(* The last solve of scheduleResourseConstrained. *)
scheduleResourseConstrained ==
    /\ pc = "scheduleResourseConstrained"
    /\ scheduleAxap("minim", "mapSchedule")
    /\ UNCHANGED <<func, cursor, rows, nAsap, seen, start, statesNum>>

mapSchedule ==
    /\ pc = "mapSchedule"
    /\ start' = [i \in Instrs(func) |->
                   IF func.bb[i] = cursor THEN MappedState(func, sol, i) ELSE start[i]]
    /\ statesNum' = [statesNum EXCEPT ![cursor] = BlockStates(func, sol, cursor)]
    /\ Advance(Len(func.succ), "done")
    /\ UNCHANGED <<func, rows, nAsap, sol, seen>>

(* schedule() has returned. *)
Returned == pc = "done" /\ UNCHANGED vars

Next ==
    \/ addMulticycleConstraints
    \/ addDependencyConstraints
    \/ scheduleAsap
    \/ addAlapConstraints
    \/ scheduleAlap
    \/ deleteAlapConstraints
    \/ addResourseConstraint
    \/ scheduleResourseConstrained
    \/ mapSchedule
    \/ Returned

Spec == Init /\ [][Next]_vars

-----------------------------------------------------------------------------
Steps == {"addMulticycleConstraints", "addDependencyConstraints", "scheduleAsap",
          "addAlapConstraints", "scheduleAlap", "deleteAlapConstraints",
          "addResourseConstraint", "scheduleResourseConstrained", "mapSchedule",
          "done", "fatal"}

(* The types of the scheduler's data structures. *)
TypeOK ==
    /\ IsFunction(func, Opcodes, Widths)
    /\ pc \in Steps
    /\ cursor \in Nat
    /\ rows \in Seq(RowsOver(Cols(func)))
    /\ nAsap \in Nat
    /\ sol \in [Cols(func) -> Nat]
    /\ seen \subseteq Opcodes
    /\ start \in [Instrs(func) -> Nat]
    /\ statesNum \in [Blocks(func) -> Nat]

(* Every program the scheduler builds has a solution: neither the ALAP rows *)
(* nor an order of the instructions that compete for a unit, whatever the   *)
(* sort makes of equal states, contradicts a dependency, so the call of     *)
(* report_fatal_error in scheduleAxap is never reached.                     *)
AlwaysSolvable == pc # "fatal"

(* The buffers into which get_variables copies one value per column are     *)
(* allocated with one element per row: there are never fewer rows than      *)
(* columns where one is allocated.                                          *)
BuffersFit ==
    pc \in {"addAlapConstraints", "addResourseConstraint", "mapSchedule"}
        => Len(rows) >= Cardinality(Cols(func))

(* In the last basic block no state starts more instructions of an opcode   *)
(* than the limit the scheduler applied to that opcode, that of the unit of *)
(* the function's first instruction of the opcode.                          *)
FirstOf(op) == Min({i \in Instrs(func) : func.op[i] = op})

StartedIn(b, t) == {i \in BlockInstrs(func, b) : start[i] = t}

LastBlockWithinLimit ==
    pc = "done" =>
        \A i \in BlockInstrs(func, LastBlock(func)) :
            LET unit == UnitOf(func, FirstOf(func.op[i]))
            IN IsLimited(unit) =>
                 Cardinality({j \in StartedIn(LastBlock(func), start[i]) :
                                func.op[j] = func.op[i]}) <= FuLimit(unit)

(* bindFuInState asserts n_share <= n_available: the instructions of any    *)
(* state that need a unit are not more than the units of that kind.         *)
SharesFit ==
    pc = "done" =>
        \A i \in Instrs(func) :
            LET unit == UnitOf(func, i)
            IN IsLimited(unit) =>
                 Cardinality({j \in StartedIn(func.bb[i], start[i]) :
                                UnitOf(func, j) = unit}) <= FuLimit(unit)

(* Solving as late as possible moves no instruction to an earlier state     *)
(* than solving as soon as possible did: mobility is never negative.        *)
MobilityNonNegative ==
    [][pc = "scheduleAlap" => \A c \in Cols(func) : sol'[c] >= sol[c]]_vars

-----------------------------------------------------------------------------
(* What the scheduler promises to its caller. *)
Promise == INSTANCE Schedule WITH
    scheduled <- pc = "done",
    start     <- IF pc = "done" THEN start ELSE [i \in Instrs(func) |-> 0],
    statesNum <- IF pc = "done" THEN statesNum ELSE [b \in Blocks(func) |-> 0]

(* The scheduler implements Schedule. *)
ImplementsSchedule == Promise!Spec

=============================================================================
