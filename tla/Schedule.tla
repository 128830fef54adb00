------------------------------ MODULE Schedule ------------------------------
(***************************************************************************)
(* What a scheduler promises to SchedulerMapping::createFsm and to the     *)
(* generator behind it: in one step, a state for every instruction and the *)
(* number of the last state of every block, such that a register is        *)
(* written before the state that reads it, accesses to one address keep    *)
(* their order, and a block lasts until its last instruction has ended.    *)
(***************************************************************************)
EXTENDS Ir

CONSTANTS Functions

VARIABLES func, scheduled, start, statesNum

vars == <<func, scheduled, start, statesNum>>

-----------------------------------------------------------------------------
Init ==
    /\ func \in Functions
    /\ scheduled = FALSE
    /\ start = [i \in Instrs(func) |-> 0]
    /\ statesNum = [b \in Blocks(func) |-> 0]

Deliver ==
    /\ ~scheduled
    /\ scheduled' = TRUE
    /\ IsSchedule(func, start', statesNum')
    /\ UNCHANGED func

Next == Deliver

Spec == Init /\ [][Next]_vars

=============================================================================
