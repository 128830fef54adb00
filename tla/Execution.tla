----------------------------- MODULE Execution -----------------------------
(***************************************************************************)
(* What the generated controller promises: it executes a scheduled         *)
(* function.  Started when idle, it takes one clock cycle for every state  *)
(* of the schedule of a block, in order, then goes to the successor the    *)
(* terminator selects, and after the last state of a returning block it is *)
(* idle again.  A reset makes it idle from anywhere.                       *)
(***************************************************************************)
EXTENDS Ir

CONSTANTS Schedules

VARIABLES
    input,  \* the scheduled function, an element of Schedules
    at,     \* the block and the state of its schedule being executed, or Idle
    start, reset,   \* the inputs sampled by the next clock edge
    cond    \* the value the condition of a branch has at the next clock edge

vars == <<input, at, start, reset, cond>>

Idle == <<0, 0>>

(* A switch without cases is all there is in an entry block that no state  *)
(* stands for.                                                             *)
Entry(f) ==
    IF BlockInstrs(f, 1) = {Terminator(f, 1)} /\ f.op[Terminator(f, 1)] = "Switch"
       /\ Len(f.succ[1]) = 1
    THEN f.succ[1][1]
    ELSE 1

Inputs == start' \in BOOLEAN /\ reset' \in BOOLEAN /\ cond' \in BOOLEAN

-----------------------------------------------------------------------------
Init ==
    /\ input \in Schedules
    /\ at = Idle
    /\ start \in BOOLEAN /\ reset \in BOOLEAN /\ cond \in BOOLEAN

Begin ==
    /\ at = Idle /\ start
    /\ at' = <<Entry(input.func), 0>>

Remain ==
    /\ at = Idle /\ ~start
    /\ at' = Idle

Step ==
    /\ at # Idle
    /\ at[2] < input.statesNum[at[1]]
    /\ at' = <<at[1], at[2] + 1>>

Leave ==
    /\ at # Idle
    /\ at[2] = input.statesNum[at[1]]
    /\ LET succ == input.func.succ[at[1]]
       IN at' = IF Len(succ) = 0 THEN Idle
                ELSE IF Len(succ) = 1 \/ cond THEN <<succ[1], 0>>
                ELSE <<succ[2], 0>>

Cycle ==
    /\ IF reset THEN at' = Idle ELSE Begin \/ Remain \/ Step \/ Leave
    /\ Inputs
    /\ UNCHANGED input

Next == Cycle

Spec == Init /\ [][Next]_vars

=============================================================================
