-------------------------- MODULE SchedulerMapping --------------------------
(***************************************************************************)
(* SchedulerMapping::createFsm (scheduling/SchedulerMapping.cpp with       *)
(* scheduling/fsm): it turns a schedule into the state machine of the      *)
(* generated controller.  The machine has a wait state, which the input    *)
(* "start" leaves, and for every basic block a chain of states, one per    *)
(* state of the schedule, whose last one branches to the first states of   *)
(* the successors.                                                         *)
(*                                                                         *)
(* An FsmState is a number, in order of creation; 0 is the null pointer.   *)
(* Fsm::state_list, whose order names and encodes the states, is list.     *)
(***************************************************************************)
EXTENDS Ir, SequencesExt

CONSTANTS
    Schedules   \* records [func, start, statesNum], what mapSchedule delivers

ASSUME SchedulesAssumption ==
    \A s \in Schedules : IsControlFlow(s.func) /\ IsSchedule(s.func, s.start, s.statesNum)

VARIABLES
    input,      \* the element of Schedules being mapped
    pc,         \* the part of createFsm being executed
    cursor,     \* the block its loop is at
    list,       \* Fsm::state_list
    state,      \* the fields of every FsmState
    firstState, \* bb_first_states
    startState, \* Fsm::start_state_lookup
    endState,   \* Fsm::end_state_lookup
    bbIds       \* bb_ids

mapVars == <<input, pc, cursor, list, state, firstState, startState, endState, bbIds>>

-----------------------------------------------------------------------------
Null == 0

Wait == 1

F == input.func

(* A transition variable is the operand 0 of a terminator: a value, or, for *)
(* an unconditional branch, the successor itself, which nothing reads.      *)
NoVariable == "none"

NewState ==
    [block |-> Null, default |-> Null, transitions |-> << >>,
     variable |-> NoVariable, terminating |-> FALSE, instrs |-> << >>, name |-> << >>]

(* utility::isBasicBlockEmpty: only an entry block that is a switch without *)
(* cases is empty.                                                          *)
isBasicBlockEmpty(f, b) ==
    /\ Cardinality(BlockInstrs(f, b)) = 1
    /\ b = 1
    /\ f.op[Terminator(f, b)] \notin {"Ret", "Br"}
    /\ Len(f.succ[b]) = 1

(* The number of the last state of a block: the loop that extends the chain *)
(* for an access that ends late included.                                   *)
LastState(b) ==
    Max({input.statesNum[b]} \cup
        {input.start[i] + Cycles(F, i) : i \in BlockInstrs(F, b)})

(* Mutant of StateOrder: one state too far. *)
StateOrderShifted(b, k) == IF k = 0 THEN firstState[b] ELSE Len(state) + k + 1

(* bb_states_order: the k-th state of block b, if the states after the      *)
(* first one are created now.                                               *)
StateOrder(b, k) == IF k = 0 THEN firstState[b] ELSE Len(state) + k

(* createState(after), repeated: the new states follow the first one.       *)
ChainInserted(b) ==
    LET at == SelectInSeq(list, LAMBDA s : s = firstState[b])
    IN SubSeq(list, 1, at)
       \o [k \in 1..LastState(b) |-> StateOrder(b, k)]
       \o SubSeq(list, at + 1, Len(list))

(* Mutant of InstrsIn: an instruction is listed where it ends. *)
InstrsEndingIn(b, k) ==
    LayoutOrder({i \in BlockInstrs(F, b) : input.start[i] + Cycles(F, i) = k})

(* pushInstruction in layout order. *)
InstrsIn(b, k) ==
    LayoutOrder({i \in BlockInstrs(F, b) : input.start[i] = k})

-----------------------------------------------------------------------------
(* setFsmStateTransitions on the last state of block b. *)
Branch(b, s) ==
    LET t    == Terminator(F, b)
        succ == F.succ[b]
        to(k) == firstState[succ[k]]
    IN CASE F.op[t] \in {"Ret", "Unreachable"} ->
              [s EXCEPT !.terminating = TRUE, !.default = Wait]
         [] F.op[t] = "Switch" ->
              [s EXCEPT !.terminating = TRUE, !.default = to(1), !.variable = t,
                        !.transitions = [k \in 1..(Len(succ) - 1) |-> <<to(k + 1), k>>]]
         [] F.op[t] = "Br" /\ Len(succ) = 2 ->
              [s EXCEPT !.terminating = TRUE, !.default = to(2), !.variable = t,
                        !.transitions = <<<<to(1), Null>>>>]
         [] OTHER ->
              [s EXCEPT !.terminating = TRUE, !.default = to(1), !.variable = t]

(* Mutant of ChainState: a state that does not branch leads to itself. *)
ChainStateStuck(b, k) ==
    LET s == [NewState EXCEPT !.block = b, !.instrs = InstrsIn(b, k)]
    IN IF k = LastState(b)
       THEN Branch(b, s)
       ELSE [s EXCEPT !.default = StateOrder(b, k)]

(* The k-th state of block b when its loop iteration ends. *)
ChainState(b, k) ==
    LET s == [NewState EXCEPT !.block = b, !.instrs = InstrsIn(b, k)]
    IN IF k = LastState(b)
       THEN Branch(b, s)
       ELSE [s EXCEPT !.default = StateOrder(b, k + 1)]

-----------------------------------------------------------------------------
MapInit ==
    /\ input \in Schedules
    /\ pc = "createFirstStates"
    /\ cursor = 1
    /\ list = <<Wait>>
    /\ state = <<[NewState EXCEPT !.default = Wait]>>
    /\ firstState = [b \in Blocks(F) |-> Null]
    /\ startState = [i \in Instrs(F) |-> Null]
    /\ endState = [i \in Instrs(F) |-> Null]
    /\ bbIds = [b \in Blocks(F) |-> 0]

Advance(following) ==
    IF cursor < Len(F.succ)
    THEN cursor' = cursor + 1 /\ pc' = pc
    ELSE cursor' = 1 /\ pc' = following

(* The first loop: a state for every block that is not empty. *)
createFirstStates ==
    /\ pc = "createFirstStates"
    /\ bbIds' = [bbIds EXCEPT ![cursor] =
                    Cardinality({b \in 1..(cursor - 1) : ~isBasicBlockEmpty(F, b)})]
    /\ IF isBasicBlockEmpty(F, cursor)
       THEN UNCHANGED <<list, state, firstState>>
       ELSE LET new == Len(state) + 1
            IN /\ list' = Append(list, new)
               /\ state' = Append(state, [NewState EXCEPT !.block = cursor])
               /\ firstState' = [firstState EXCEPT ![cursor] = new]
    /\ Advance("linkWaitState")
    /\ UNCHANGED <<input, startState, endState>>

(* Mutant of linkWaitState: an empty entry block is not skipped. *)
linkWaitStateToEntry ==
    /\ pc = "linkWaitState"
    /\ state' = [state EXCEPT ![Wait].transitions = <<<<firstState[1], Null>>>>]
    /\ pc' = "createChains"
    /\ UNCHANGED <<input, cursor, list, firstState, startState, endState, bbIds>>

(* The wait state leads to the entry block or, if that is empty, beyond it. *)
linkWaitState ==
    /\ pc = "linkWaitState"
    /\ state' = [state EXCEPT ![Wait] =
         IF isBasicBlockEmpty(F, 1)
         THEN [@ EXCEPT !.terminating = TRUE, !.block = 1,
                        !.transitions = <<<<firstState[F.succ[1][1]], Null>>>>]
         ELSE [@ EXCEPT !.transitions = <<<<firstState[1], Null>>>>]]
    /\ pc' = "createChains"
    /\ UNCHANGED <<input, cursor, list, firstState, startState, endState, bbIds>>

(* One iteration of the loop that builds the chain of a block. *)
createChains ==
    /\ pc = "createChains"
    /\ IF isBasicBlockEmpty(F, cursor)
       THEN UNCHANGED <<list, state, startState, endState>>
       ELSE /\ list' = ChainInserted(cursor)
            /\ state' = [state EXCEPT ![firstState[cursor]] = ChainState(cursor, 0)]
                        \o [k \in 1..LastState(cursor) |-> ChainState(cursor, k)]
            /\ startState' = [i \in Instrs(F) |->
                 IF F.bb[i] = cursor
                 THEN StateOrder(cursor, input.start[i]) ELSE startState[i]]
            /\ endState' = [i \in Instrs(F) |->
                 IF F.bb[i] = cursor
                 THEN StateOrder(cursor, input.start[i] + Cycles(F, i)) ELSE endState[i]]
    /\ Advance("nameStates")
    /\ UNCHANGED <<input, firstState, bbIds>>

(* Mutant of RankInBlock: the state just before is not counted. *)
RankInBlockShifted(k) ==
    Cardinality({j \in 1..(k - 2) : state[list[j]].block = state[list[k]].block})

(* The last loop: a state is named by its block and its rank, in the order  *)
(* of the list, among the states of the block; the first one is the wait    *)
(* state, whose name is fixed.                                              *)
RankInBlock(k) ==
    Cardinality({j \in 1..(k - 1) : state[list[j]].block = state[list[k]].block})

nameStates ==
    /\ pc = "nameStates"
    /\ state' = [s \in DOMAIN state |->
         LET k == SelectInSeq(list, LAMBDA x : x = s)
         IN [state[s] EXCEPT !.name =
               IF k = 1 THEN <<"BPHLS">> ELSE <<bbIds[state[s].block], RankInBlock(k)>>]]
    /\ pc' = "done"
    /\ UNCHANGED <<input, cursor, list, firstState, startState, endState, bbIds>>

(* createFsm has returned. *)
Returned == pc = "done" /\ UNCHANGED mapVars

MapNext == createFirstStates \/ linkWaitState \/ createChains \/ nameStates \/ Returned

MapSpec == MapInit /\ [][MapNext]_mapVars

-----------------------------------------------------------------------------
(* The types of the data structures of the state machine. *)
MapTypeOK ==
    /\ input \in Schedules
    /\ cursor \in Nat \ {0}
    /\ list \in Seq(DOMAIN state)
    /\ \A s \in DOMAIN state :
         /\ state[s].default \in DOMAIN state \cup {Null}
         /\ \A k \in DOMAIN state[s].transitions :
              state[s].transitions[k][1] \in DOMAIN state \cup {Null}
         /\ state[s].instrs \in Seq(Instrs(F))
    /\ firstState \in [Blocks(F) -> DOMAIN state \cup {Null}]
    /\ startState \in [Instrs(F) -> DOMAIN state \cup {Null}]
    /\ endState \in [Instrs(F) -> DOMAIN state \cup {Null}]
    /\ bbIds \in [Blocks(F) -> Nat]

(* The parameters of the generated module tell the states apart: the list   *)
(* that encodes them holds every state once, and no two have one name.      *)
StatesDistinguished ==
    pc = "done" =>
        /\ Len(list) = Len(state) /\ ToSet(list) = DOMAIN state
        /\ \A s, t \in DOMAIN state : state[s].name = state[t].name => s = t

(* The state a chain of n default transitions leads to from s. *)
FollowIn(states, s, n) == FoldLeft(LAMBDA x, k : states[x].default, s, [k \in 1..n |-> k])

Follow(s, n) == FollowIn(state, s, n)

(* The states that have the name of the k-th state of block b. *)
NamedStates(b, k) == {s \in DOMAIN state : state[s].name = <<bbIds[b], k>>}

(* The states of a block, from its first state on, lead to one another in   *)
(* the order of their names.  Every instruction of the block is in the list *)
(* of exactly one state, which is as many transitions from the first state  *)
(* as the schedule says; the one it ends in, where its register is written, *)
(* is as many further as it takes cycles.                                   *)
InstructionsPlaced ==
    pc = "done" =>
        \A b \in {c \in Blocks(F) : ~isBasicBlockEmpty(F, c)} :
          /\ firstState[b] \in NamedStates(b, 0)
          /\ \A k \in 1..input.statesNum[b] :
               \E s \in NamedStates(b, k - 1) : state[s].default \in NamedStates(b, k)
          /\ \A i \in BlockInstrs(F, b) :
               /\ startState[i] \in NamedStates(b, input.start[i])
               /\ endState[i] \in NamedStates(b, input.start[i] + Cycles(F, i))
               /\ {s \in DOMAIN state : i \in ToSet(state[s].instrs)} = {startState[i]}

(* Every transition of a finished machine leads to a state, one that waits  *)
(* or the first of a block: exportDot and generateStateTransition assert    *)
(* that the default transition of a state is not null.                      *)
NoTransitionMissing ==
    pc = "done" =>
        \A s \in DOMAIN state :
          /\ state[s].default # Null
          /\ \A k \in DOMAIN state[s].transitions :
               \E b \in Blocks(F) : /\ firstState[b] # Null
                                    /\ state[s].transitions[k][1] = firstState[b]

=============================================================================
