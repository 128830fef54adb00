----------------------------- MODULE Controller -----------------------------
(***************************************************************************)
(* The controller of the generated module, on the state machine createFsm  *)
(* builds: what RtlGenerator (generateDeclaration, setUpFsmControllerStates,*)
(* generateStateTransition, visitReturnInst) and VerilogWriter             *)
(* (printFsmController) make of an Fsm, a process clocked by clk that has  *)
(* the registers cur_state and finish and the inputs start and reset.  A   *)
(* state is encoded by its place in the list of the states.                *)
(***************************************************************************)
EXTENDS SchedulerMapping

VARIABLES
    cur_state,  \* the FsmState whose encoding the register holds
    finish,     \* the output "finish"
    start,      \* the inputs that the next clock edge samples
    reset,
    cond        \* the value of the transition variable at the next clock edge

hwVars == <<cur_state, finish, start, reset, cond>>

vars == <<mapVars, hwVars>>

(* A switch of one case is a state of two transitions, and is taken for a   *)
(* conditional branch, though its variable is not a bit.                    *)
ASSUME NoSingleCaseAssumption ==
    \A s \in Schedules : \A b \in Blocks(s.func) :
        s.func.op[Terminator(s.func, b)] = "Switch" => Len(s.func.succ[b]) # 2

-----------------------------------------------------------------------------
(* The value BPHLS of cur_state, where reset leads: encoding 0. *)
BPHLS == list[1]

Transitions(s) == state[s].transitions

(* The transition signal of the wait state is start, that of a branch its   *)
(* condition.                                                               *)
Operand == IF cur_state = BPHLS THEN start ELSE cond

(* getTransitionsNum() <= 2: generateStateTransition stops at any other     *)
(* state, and there is no module.                                           *)
Generated == \A s \in DOMAIN state : Len(Transitions(s)) <= 1

(* Mutant of NextState: the polarity of a branch is swapped. *)
NextStateSwapped ==
    IF Transitions(cur_state) # << >> /\ ~Operand
    THEN Transitions(cur_state)[1][1]
    ELSE state[cur_state].default

NextState ==
    IF Transitions(cur_state) # << >> /\ Operand
    THEN Transitions(cur_state)[1][1]
    ELSE state[cur_state].default

(* The returns in a state: visitReturnInst drives finish.                   *)
Returns(s) == {i \in ToSet(state[s].instrs) : F.op[i] = "Ret"}

-----------------------------------------------------------------------------
(* The hardware after an edge with reset: cur_state is BPHLS, no other      *)
(* register is reset.                                                       *)
Init ==
    /\ MapInit
    /\ cur_state = Wait
    /\ finish \in BOOLEAN
    /\ start \in BOOLEAN /\ reset \in BOOLEAN /\ cond \in BOOLEAN

Build == MapNext /\ pc # "done" /\ UNCHANGED hwVars

(* Mutant of Clock: the wait state does not clear finish. *)
ClockWithoutClear ==
    /\ pc = "done" /\ Generated
    /\ cur_state' = IF reset THEN BPHLS ELSE NextState
    /\ finish' = IF Returns(cur_state) # {} THEN TRUE ELSE finish
    /\ start' \in BOOLEAN /\ reset' \in BOOLEAN /\ cond' \in BOOLEAN
    /\ UNCHANGED mapVars

(* A positive edge of clk. *)
Clock ==
    /\ pc = "done" /\ Generated
    /\ cur_state' = IF reset THEN BPHLS ELSE NextState
    /\ finish' = IF cur_state = BPHLS THEN FALSE
                 ELSE IF Returns(cur_state) # {} THEN TRUE ELSE finish
    /\ start' \in BOOLEAN /\ reset' \in BOOLEAN /\ cond' \in BOOLEAN
    /\ UNCHANGED mapVars

(* llvm_unreachable("Switch branch unsupported") *)
Stopped == pc = "done" /\ ~Generated /\ UNCHANGED vars

Next == Build \/ Clock \/ Stopped

Spec == Init /\ [][Next]_vars

(* The clock runs. *)
FairSpec == Spec /\ WF_vars(Next)

-----------------------------------------------------------------------------
(* The types of the state machine's data structures and of the registers.   *)
TypeOK ==
    /\ MapTypeOK
    /\ cur_state \in DOMAIN state
    /\ finish \in BOOLEAN

(* The output finish is 1 only in the cycle after a state that returns:     *)
(* whatever start and reset do, it is a pulse.                              *)
FinishAfterReturn ==
    [][pc = "done" /\ finish' => Returns(cur_state) # {}]_vars

-----------------------------------------------------------------------------
(* Where the controller is in the execution of the function. *)
Running == cur_state # Wait

Position ==
    <<state[cur_state].block,
      Cardinality({k \in 1..(SelectInSeq(list, LAMBDA x : x = cur_state) - 1) :
                     state[list[k]].block = state[cur_state].block})>>

Promise == INSTANCE Execution WITH at <- IF Running THEN Position ELSE <<0, 0>>

(* The generated controller executes the scheduled function. *)
ImplementsExecution == Promise!Spec

(* Without a loop in the function and with reset inactive, what is started  *)
(* ends: no state is a trap.                                                *)
Forward == \A b \in Blocks(F) : \A k \in DOMAIN F.succ[b] : F.succ[b][k] > b

Completes == Forward /\ <>[]~reset => (Running ~> ~Running)

=============================================================================
