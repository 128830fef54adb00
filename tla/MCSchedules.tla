---------------------------- MODULE MCSchedules ----------------------------
(***************************************************************************)
(* Enumerates scheduled functions for TLC: every schedule, with the last   *)
(* state of a block at most Horizon, of a few small functions.             *)
(***************************************************************************)
EXTENDS MCFunctions

CONSTANT Horizon

(* Every block ends with its last instruction, as in mapSchedule. *)
EndsWith(f, s) ==
    [b \in Blocks(f) |-> Max({s[i] + Cycles(f, i) : i \in BlockInstrs(f, b)})]

SchedulesOf(f) ==
    {r \in {[func |-> f, start |-> s, statesNum |-> EndsWith(f, s)] :
              s \in Tuples([i \in Instrs(f) |-> 0..Horizon])} :
        /\ IsSchedule(f, r.start, r.statesNum)
        /\ \A b \in Blocks(f) : r.statesNum[b] <= Horizon}

Scheduled(fs) == UNION {SchedulesOf(f) : f \in fs}

-----------------------------------------------------------------------------
(* A block with two instructions and a return. *)
Straight ==
    FunctionsOf(<<1, 1, 1>>, << << >> >>,
                <<{Add32, Load}, {Add32, Store}, Ret>>)

(* A conditional branch around a block. *)
Conditional ==
    FunctionsOf(<<1, 1, 2, 3>>, << <<2, 3>>, <<3>>, << >> >>, <<{ICmp32}, Br, Br, Ret>>)

(* A loop of one block, entered unconditionally. *)
Loop ==
    FunctionsOf(<<1, 2, 2, 3>>, << <<2>>, <<2, 3>>, << >> >>, <<Br, {ICmp32}, Br, Ret>>)

(* An entry block that is a switch without cases. *)
EmptyEntry ==
    FunctionsOf(<<1, 2, 2>>, << <<2>>, << >> >>, <<{<<"Switch", 32>>}, {Add32, Load}, Ret>>)

(* A block that cannot be left. *)
DeadEnd ==
    FunctionsOf(<<1, 1, 2, 3>>, << <<3, 2>>, << >>, << >> >>,
                <<{ICmp32}, Br, {<<"Unreachable", 32>>}, Ret>>)

(* A switch with two cases. *)
Cases ==
    FunctionsOf(<<1, 1, 2, 3>>, << <<3, 2, 3>>, <<3>>, << >> >>,
                <<{Add32}, {<<"Switch", 32>>}, Br, Ret>>)

=============================================================================
