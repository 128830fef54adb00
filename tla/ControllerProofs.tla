-------------------------- MODULE ControllerProofs --------------------------
(***************************************************************************)
(* Proofs about the generated controller, for every set of scheduled       *)
(* functions: it executes the function it was built for, state by state,   *)
(* and its output finish is a pulse.  They rest on the inductive invariant *)
(* of createFsm, which says where the states of a block are in the list    *)
(* and what they lead to.                                                  *)
(***************************************************************************)
EXTENDS Controller, SchedulerMappingProofs

-----------------------------------------------------------------------------
(* The inductive invariant: beside that of createFsm, the registers have   *)
(* their types, and finish is 1 in the wait state only.                    *)
HwInv ==
    /\ IInv
    /\ cur_state \in DOMAIN state
    /\ finish \in BOOLEAN /\ start \in BOOLEAN /\ reset \in BOOLEAN /\ cond \in BOOLEAN
    /\ pc # "done" => cur_state = Wait
    /\ finish => cur_state = Wait

(* The state s is the k-th one of block b.                                 *)
IsAt(s, b, k) ==
    /\ b \in Blocks(F) /\ HasStates(b) /\ k \in 0..input.statesNum[b]
    /\ \E p \in Nat : FinishedRun(b, p) /\ s = list[p + k]

(* Where the state s is in the execution.                                  *)
PositionOf(s) ==
    <<state[s].block,
      Cardinality({k \in 1..(Place(list, s) - 1) : state[list[k]].block = state[s].block})>>

-----------------------------------------------------------------------------
(* The finished state machine.                                             *)

(* The blocks and the lengths of their chains.                             *)
LEMMA BlocksFinished ==
    ASSUME IInv
    PROVE  /\ input \in Schedules /\ IsControlFlow(F) /\ firstState \in [Blocks(F) -> Nat]
           /\ list \in Seq(Nat) /\ Len(list) \in Nat /\ DOMAIN state = 1..Len(list)
           /\ list[1] = 1 /\ 1 \in DOMAIN state
           /\ \A q \in 1..Len(list) : list[q] \in 1..Len(list)
           /\ \A q, r \in 1..Len(list) : list[q] = list[r] => q = r
           /\ \A b \in Blocks(F) : b \in Nat /\ b # 0 /\ input.statesNum[b] \in Nat
<1>1. ShapeOK /\ Listed
  BY DEF IInv
<1>2. input \in Schedules /\ firstState \in [Blocks(F) -> Nat] /\ list \in Seq(Nat)
      /\ state \in Seq(StateRecords)
  BY <1>1 DEF ShapeOK
<1>3. IsControlFlow(F)
  BY <1>2, SchedulesAssumption DEF F
<1>4. Len(list) \in Nat /\ DOMAIN state = 1..Len(state) /\ Len(state) \in Nat
  BY <1>2
<1>5. /\ Len(list) = Len(state) /\ Len(list) > 0 /\ list[1] = 1
      /\ \A q \in 1..Len(list) : list[q] \in 1..Len(list)
      /\ \A q, r \in 1..Len(list) : list[q] = list[r] => q = r
  BY <1>1 DEF Listed, Wait
<1>6. 1 \in 1..Len(list)
  BY <1>4, <1>5
<1>7. \A b \in Blocks(F) : b \in Nat /\ b # 0
  <2>1. Blocks(F) = 1..Len(F.succ)
    BY <1>3, ControlFlowShape
  <2> QED BY <2>1
<1>8. \A b \in Blocks(F) : input.statesNum[b] \in Nat
  BY <1>2, LastStateIs
<1> QED BY <1>2, <1>3, <1>4, <1>5, <1>6, <1>7, <1>8

(* A state is the wait state or that of a block.                           *)
LEMMA WaitOrAt ==
    ASSUME IInv, pc = "done", NEW s \in DOMAIN state
    PROVE  s = 1 \/ \E b \in Blocks(F) : \E k \in 0..input.statesNum[b] : IsAt(s, b, k)
<1>1. CASE s # 1
  <2>1. PICK b \in Blocks(F) : /\ HasStates(b) /\ \E p \in Nat : FinishedRun(b, p)
                               /\ \A p \in Nat : FinishedRun(b, p) =>
                                    \E k \in 0..input.statesNum[b] : s = list[p + k]
    BY <1>1, PlaceFinished
  <2>2. PICK p \in Nat : FinishedRun(b, p)
    BY <2>1
  <2>3. PICK k \in 0..input.statesNum[b] : s = list[p + k]
    BY <2>1, <2>2
  <2> QED BY <2>1, <2>2, <2>3 DEF IsAt
<1> QED BY <1>1

(* The position of a state of a block is that of the schedule.             *)
LEMMA PositionIs ==
    ASSUME IInv, pc = "done", NEW s, NEW b, NEW k, IsAt(s, b, k)
    PROVE  PositionOf(s) = <<b, k>> /\ s # 1 /\ s \in DOMAIN state
<1>1. PICK p \in Nat : FinishedRun(b, p) /\ s = list[p + k]
  BY DEF IsAt
<1>2. b \in Blocks(F) /\ k \in 0..input.statesNum[b] /\ input.statesNum[b] \in Nat
  BY BlocksFinished DEF IsAt
<1>3. /\ p \in 2..Len(list) /\ p + input.statesNum[b] \in 2..Len(list)
      /\ \A q \in 2..Len(list) :
           state[list[q]].block = b <=> q \in p..(p + input.statesNum[b])
      /\ RankInBlock(p + k) = k
  BY <1>1, <1>2 DEF FinishedRun
<1>4. PICK q : q = p + k
  OBVIOUS
<1>5. q \in 2..Len(list) /\ q \in 1..Len(list) /\ q # 1 /\ q \in p..(p + input.statesNum[b])
  <2>1. Len(list) \in Nat
    BY BlocksFinished
  <2> QED BY <2>1, <1>2, <1>3, <1>4
<1>6. state[s].block = b
  BY <1>1, <1>3, <1>4, <1>5
<1>7. Place(list, s) = q
  BY <1>1, <1>4, <1>5, BlocksFinished, PlaceIs
<1>8. PositionOf(s) = <<b, k>>
  <2>1. RankInBlock(q) = k
    BY <1>3, <1>4
  <2> QED BY <2>1, <1>1, <1>4, <1>6, <1>7 DEF PositionOf, RankInBlock
<1>9. s # 1 /\ s \in DOMAIN state
  <2>1. 1 \in 1..Len(list) /\ list[1] = 1
    BY BlocksFinished
  <2> QED BY <2>1, <1>1, <1>4, <1>5, BlocksFinished
<1> QED BY <1>8, <1>9

(* The first state of a block is the 0-th.                                 *)
LEMMA FirstIsAt ==
    ASSUME IInv, pc = "done", NEW b \in Blocks(F), HasStates(b)
    PROVE  IsAt(firstState[b], b, 0)
<1>1. PICK p \in Nat : FinishedRun(b, p)
  BY RunFinished
<1>2. firstState[b] = list[p + 0]
  BY <1>1 DEF FinishedRun
<1>3. 0 \in 0..input.statesNum[b]
  BY BlocksFinished
<1> QED BY <1>1, <1>2, <1>3 DEF IsAt

(* Where the wait state leads. *)
LEMMA NextOfWait ==
    ASSUME IInv, pc = "done", cur_state = 1, start \in BOOLEAN
    PROVE  NextState = IF start THEN firstState[EntryBlock] ELSE 1
<1>1. state[1].default = 1 /\ state[1].transitions = <<<<firstState[EntryBlock], Null>>>>
  BY DEF IInv, WaitOK, Wait
<1>2. BPHLS = 1
  BY BlocksFinished DEF BPHLS
<1>3. Transitions(cur_state) # << >> /\ Transitions(cur_state)[1][1] = firstState[EntryBlock]
  BY <1>1 DEF Transitions
<1> QED BY <1>1, <1>2, <1>3 DEF NextState, Operand

(* A state that is not the last of its block leads to the next one.        *)
LEMMA NextInBlock ==
    ASSUME IInv, pc = "done", NEW b, NEW k, IsAt(cur_state, b, k), k < input.statesNum[b]
    PROVE  IsAt(NextState, b, k + 1)
<1>1. PICK p \in Nat : FinishedRun(b, p) /\ cur_state = list[p + k]
  BY DEF IsAt
<1>2. b \in Blocks(F) /\ HasStates(b) /\ k \in 0..input.statesNum[b] /\ input.statesNum[b] \in Nat
  BY BlocksFinished DEF IsAt
<1>3. state[cur_state].transitions = << >> /\ state[cur_state].default = list[p + k + 1]
  BY <1>1, <1>2 DEF FinishedRun, LinkedAt
<1>4. NextState = list[p + (k + 1)]
  <2>1. p + k + 1 = p + (k + 1)
    BY <1>2
  <2> QED BY <2>1, <1>3 DEF NextState, Transitions
<1>5. k + 1 \in 0..input.statesNum[b]
  BY <1>2
<1> QED BY <1>1, <1>2, <1>4, <1>5 DEF IsAt

(* The last state of a block leads to the wait state or to the first state *)
(* of the successor that the condition selects.                            *)
LEMMA NextOfBlock ==
    ASSUME IInv, pc = "done", Generated, cond \in BOOLEAN, cur_state \in DOMAIN state,
           NEW b, IsAt(cur_state, b, input.statesNum[b])
    PROVE  /\ Len(F.succ[b]) = 0 => NextState = 1
           /\ Len(F.succ[b]) # 0 => /\ F.succ[b][1] \in Blocks(F) /\ F.succ[b][1] # 1
                                    /\ Len(F.succ[b]) = 1 \/ cond =>
                                         NextState = firstState[F.succ[b][1]]
           /\ Len(F.succ[b]) \notin {0, 1} /\ ~cond =>
                /\ F.succ[b][2] \in Blocks(F) /\ F.succ[b][2] # 1
                /\ NextState = firstState[F.succ[b][2]]
<1> DEFINE m == input.statesNum[b]
           succ == F.succ[b]
           r == Branch(b, NewState)
<1>1. PICK p \in Nat : FinishedRun(b, p) /\ cur_state = list[p + m]
  BY DEF IsAt
<1>2. b \in Blocks(F) /\ HasStates(b) /\ m \in Nat /\ m \in 0..m
  BY BlocksFinished DEF IsAt
<1>3. state[cur_state].transitions = r.transitions /\ state[cur_state].default = r.default
  BY <1>1, <1>2 DEF FinishedRun, LinkedAt
<1>4. cur_state # 1 /\ BPHLS = 1
  BY PositionIs, BlocksFinished DEF BPHLS
<1>5. Operand = cond
  BY <1>4 DEF Operand
<1>6. input \in Schedules /\ IsControlFlow(F) /\ firstState \in [Blocks(F) -> Nat]
  BY BlocksFinished
<1>7. succ \in Seq(Blocks(F)) /\ Len(succ) \in Nat
      /\ \A n \in 1..Len(succ) : succ[n] \in Blocks(F) /\ succ[n] # 1
  <2>1. succ \in Seq(Blocks(F)) /\ \A n \in DOMAIN succ : succ[n] \in Blocks(F) /\ succ[n] # 1
    BY <1>2, <1>6, ControlFlowShape
  <2>2. DOMAIN succ = 1..Len(succ) /\ Len(succ) \in Nat
    BY <2>1
  <2> QED BY <2>1, <2>2
<1>8. /\ Len(succ) = 0 => r.default = 1 /\ r.transitions = << >>
      /\ Len(succ) = 1 => r.default = firstState[succ[1]] /\ r.transitions = << >>
      /\ Len(succ) >= 1 /\ F.op[Terminator(F, b)] = "Switch" =>
           r.transitions = [k \in 1..(Len(succ) - 1) |-> <<firstState[succ[k + 1]], k>>]
      /\ Len(succ) = 2 /\ F.op[Terminator(F, b)] = "Br" =>
           /\ r.default = firstState[succ[2]]
           /\ r.transitions = <<<<firstState[succ[1]], Null>>>>
      /\ Len(succ) >= 2 => F.op[Terminator(F, b)] \in {"Br", "Switch"}
  <2>1. NewState \in StateRecords /\ NewState.transitions = << >>
    BY DEF NewState, StateRecords, Null, NoVariable
  <2> QED BY <2>1, <1>2, <1>6, BranchFields DEF Wait
<1>9. F.op[Terminator(F, b)] = "Br" => Len(succ) \in 1..2
  BY <1>2, <1>6, TerminatorOf
<1>10. F.op[Terminator(F, b)] = "Switch" => Len(succ) # 2
  BY <1>2, <1>6, NoSingleCaseAssumption DEF F
<1>11. Len(state[cur_state].transitions) <= 1
  BY DEF Generated, Transitions
<1> HIDE DEF m, succ, r
<1>12. CASE Len(succ) = 0
  <2>1. NextState = 1
    BY <1>3, <1>8, <1>12 DEF NextState, Transitions
  <2> QED BY <2>1, <1>12 DEF succ
<1>13. CASE Len(succ) = 1
  <2>1. NextState = firstState[succ[1]]
    BY <1>3, <1>8, <1>13 DEF NextState, Transitions
  <2>2. 1 \in 1..Len(succ)
    BY <1>13
  <2> QED BY <2>1, <2>2, <1>7, <1>13 DEF succ
<1>14. CASE Len(succ) >= 2
  <2>1. F.op[Terminator(F, b)] # "Switch"
    <3> SUFFICES ASSUME F.op[Terminator(F, b)] = "Switch" PROVE FALSE
      OBVIOUS
    <3>1. Len(succ) - 1 \in Nat /\ Len(succ) - 1 > 1
      <4>1. Len(succ) # 2
        BY <1>10 DEF succ
      <4>2. \A z \in Nat : z >= 2 /\ z # 2 => z - 1 \in Nat /\ z - 1 > 1
        OBVIOUS
      <4> QED BY <4>1, <4>2, <1>7, <1>14
    <3>2. r.transitions = [k \in 1..(Len(succ) - 1) |-> <<firstState[succ[k + 1]], k>>]
      BY <1>7, <1>8, <1>14
    <3>3. Len(r.transitions) = Len(succ) - 1
      BY <3>1, <3>2
    <3> QED BY <3>1, <3>3, <1>3, <1>11
  <2>2. F.op[Terminator(F, b)] = "Br" /\ Len(succ) = 2
    <3>1. F.op[Terminator(F, b)] = "Br"
      BY <2>1, <1>8, <1>14
    <3> QED BY <3>1, <1>7, <1>9, <1>14
  <2>3. r.default = firstState[succ[2]] /\ r.transitions = <<<<firstState[succ[1]], Null>>>>
    BY <2>2, <1>8
  <2>4. r.transitions # << >> /\ r.transitions[1][1] = firstState[succ[1]]
    BY <2>3
  <2>5. NextState = IF cond THEN firstState[succ[1]] ELSE firstState[succ[2]]
    BY <2>3, <2>4, <1>3, <1>5 DEF NextState, Transitions
  <2>6. 1 \in 1..Len(succ) /\ 2 \in 1..Len(succ)
    BY <2>2
  <2> QED BY <2>2, <2>5, <2>6, <1>7 DEF succ
<1>15. Len(succ) = 0 \/ Len(succ) = 1 \/ Len(succ) >= 2
  <2>1. \A z \in Nat : z = 0 \/ z = 1 \/ z >= 2
    OBVIOUS
  <2> QED BY <2>1, <1>7
<1> QED BY <1>12, <1>13, <1>14, <1>15

-----------------------------------------------------------------------------
(* The invariant.                                                          *)

(* NextState is a state, and the wait state after one that returns.        *)
LEMMA NextStateIs ==
    ASSUME HwInv, pc = "done", Generated
    PROVE  NextState \in DOMAIN state /\ (Returns(cur_state) # {} => NextState = 1)
<1>1. /\ IInv /\ cur_state \in DOMAIN state /\ cond \in BOOLEAN /\ start \in BOOLEAN
  BY DEF HwInv
<1>2. 1 \in DOMAIN state
  BY <1>1, BlocksFinished
<1>3. \A x \in Blocks(F) : HasStates(x) => firstState[x] \in DOMAIN state
  BY <1>1, FirstStateExists
<1>4. input \in Schedules
  BY <1>1, BlocksFinished
<1>5. EntryBlock \in Blocks(F) /\ HasStates(EntryBlock)
      /\ \A x \in Blocks(F) : x # 1 => HasStates(x)
  BY <1>4, EntryHasStates
<1>6. CASE cur_state = 1
  <2>1. NextState \in DOMAIN state
    BY <1>1, <1>2, <1>3, <1>5, <1>6, NextOfWait
  <2>2. Returns(cur_state) = {}
    <3>1. state[1].instrs = << >>
      BY <1>1 DEF IInv, WaitOK, Wait
    <3>2. ToSet(<< >>) = {}
      BY DEF ToSet
    <3> QED BY <3>1, <3>2, <1>6 DEF Returns
  <2> QED BY <2>1, <2>2
<1>7. CASE cur_state # 1
  <2>0. PICK b \in Blocks(F) : \E k \in 0..input.statesNum[b] : IsAt(cur_state, b, k)
    BY <1>1, <1>7, WaitOrAt
  <2>1. PICK k \in 0..input.statesNum[b] : IsAt(cur_state, b, k)
    BY <2>0
  <2>2. input.statesNum[b] \in Nat
    BY <1>1, BlocksFinished
  <2>3. CASE k < input.statesNum[b]
    <3>1. IsAt(NextState, b, k + 1)
      BY <1>1, <2>1, <2>3, NextInBlock
    <3>2. NextState \in DOMAIN state
      BY <1>1, <3>1, PositionIs
    <3>3. Returns(cur_state) = {}
      <4> SUFFICES ASSUME NEW i \in ToSet(state[cur_state].instrs), F.op[i] = "Ret" PROVE FALSE
        BY DEF Returns
      <4>1. PICK p \in Nat : FinishedRun(b, p) /\ cur_state = list[p + k]
        BY <2>1 DEF IsAt
      <4>2. state[cur_state].instrs = InstrsIn(b, k)
        BY <4>1 DEF FinishedRun, LinkedAt
      <4>3. i \in BlockInstrs(F, b) /\ input.start[i] = k
        BY <4>2, <1>4, InstrsInRange
      <4>4. input.start[i] = input.statesNum[b]
        BY <4>3, <1>4, LastStateIs
      <4> QED BY <4>3, <4>4, <2>2, <2>3
    <3> QED BY <3>2, <3>3
  <2>4. CASE k = input.statesNum[b]
    <3>1. IsAt(cur_state, b, input.statesNum[b])
      BY <2>1, <2>4
    <3>2. /\ Len(F.succ[b]) = 0 => NextState = 1
          /\ Len(F.succ[b]) # 0 => /\ F.succ[b][1] \in Blocks(F) /\ F.succ[b][1] # 1
                                   /\ Len(F.succ[b]) = 1 \/ cond =>
                                        NextState = firstState[F.succ[b][1]]
          /\ Len(F.succ[b]) \notin {0, 1} /\ ~cond =>
               /\ F.succ[b][2] \in Blocks(F) /\ F.succ[b][2] # 1
               /\ NextState = firstState[F.succ[b][2]]
      BY <1>1, <3>1, NextOfBlock
    <3>3. NextState \in DOMAIN state
      BY <3>2, <1>2, <1>3, <1>5
    <3>4. ASSUME Returns(cur_state) # {} PROVE NextState = 1
      <4>1. PICK i \in ToSet(state[cur_state].instrs) : F.op[i] = "Ret"
        BY <3>4 DEF Returns
      <4>2. PICK p \in Nat : FinishedRun(b, p) /\ cur_state = list[p + k]
        BY <2>1 DEF IsAt
      <4>3. state[cur_state].instrs = InstrsIn(b, k)
        BY <4>2 DEF FinishedRun, LinkedAt
      <4>4. i \in BlockInstrs(F, b)
        BY <4>1, <4>3, <1>4, InstrsInRange
      <4>5. IsControlFlow(F)
        BY <1>1, BlocksFinished
      <4>6. i = Terminator(F, b)
        BY <4>1, <4>4, <4>5, TerminatorOf DEF Terminators
      <4>7. Len(F.succ[b]) = 0
        BY <4>1, <4>5, <4>6, TerminatorOf
      <4> QED BY <4>7, <3>2
    <3> QED BY <3>3, <3>4
  <2> QED BY <2>2, <2>3, <2>4
<1> QED BY <1>6, <1>7

(* The invariant holds in every state.                                     *)
THEOREM HwInvariance == Spec => []HwInv
<1>1. Init => HwInv
  <2> SUFFICES ASSUME Init PROVE HwInv
    OBVIOUS
  <2>1. IInv
    BY InitIInv DEF Init
  <2>2. cur_state = 1 /\ 1 \in DOMAIN state
    BY <2>1, BlocksFinished DEF Init, Wait
  <2> QED BY <2>1, <2>2 DEF Init, HwInv, Wait
<1>2. HwInv /\ [Next]_vars => HwInv'
  <2> SUFFICES ASSUME HwInv, [Next]_vars PROVE HwInv'
    OBVIOUS
  <2>1. IInv'
    <3>1. [MapNext]_mapVars
      BY DEF Next, Build, Clock, Stopped, vars
    <3> QED BY <3>1, IInvKept DEF HwInv
  <2>2. CASE Build
    <3>1. cur_state' = 1
      BY <2>2 DEF Build, hwVars, HwInv, Wait
    <3>2. 1 \in DOMAIN state'
      <4>1. Listed' /\ ShapeOK'
        BY <2>1 DEF IInv
      <4>2. Len(list') = Len(state') /\ Len(list') > 0
        BY <4>1 DEF Listed
      <4>3. Len(state') \in Nat /\ DOMAIN state' = 1..Len(state')
        <5>1. state' \in Seq(StateRecords)
          BY <4>1 DEF ShapeOK
        <5> QED BY <5>1
      <4> QED BY <4>2, <4>3
    <3>3. finish' = finish /\ start' = start /\ reset' = reset /\ cond' = cond
      BY <2>2 DEF Build, hwVars
    <3> QED BY <2>1, <3>1, <3>2, <3>3 DEF HwInv, Wait
  <2>3. CASE Clock
    <3>1. UNCHANGED mapVars /\ pc = "done" /\ Generated
      BY <2>3 DEF Clock
    <3>2. pc' = "done" /\ state' = state
      BY <3>1 DEF mapVars
    <3>3. NextState \in DOMAIN state /\ (Returns(cur_state) # {} => NextState = 1)
      BY <3>1, NextStateIs
    <3>4. BPHLS = 1 /\ 1 \in DOMAIN state
      BY BlocksFinished DEF HwInv, BPHLS
    <3>5. cur_state' = IF reset THEN 1 ELSE NextState
      BY <2>3, <3>4 DEF Clock
    <3>6. finish' = IF cur_state = 1 THEN FALSE
                    ELSE IF Returns(cur_state) # {} THEN TRUE ELSE finish
      BY <2>3, <3>4 DEF Clock
    <3>7. /\ start' \in BOOLEAN /\ reset' \in BOOLEAN /\ cond' \in BOOLEAN
      BY <2>3 DEF Clock
    <3>8. cur_state' \in DOMAIN state'
      BY <3>2, <3>3, <3>4, <3>5
    <3>9. finish' \in BOOLEAN /\ (finish' => cur_state' = 1)
      <4>1. finish \in BOOLEAN /\ (finish => cur_state = 1)
        BY DEF HwInv, Wait
      <4>2. CASE cur_state = 1
        BY <4>2, <3>6
      <4>3. CASE cur_state # 1 /\ Returns(cur_state) # {}
        BY <4>3, <3>3, <3>5, <3>6
      <4>4. CASE cur_state # 1 /\ Returns(cur_state) = {}
        BY <4>1, <4>4, <3>6
      <4> QED BY <4>2, <4>3, <4>4
    <3> QED BY <2>1, <3>2, <3>7, <3>8, <3>9 DEF HwInv, Wait
  <2>4. CASE Stopped \/ UNCHANGED vars
    <3>1. UNCHANGED <<state, pc, cur_state, finish, start, reset, cond>>
      BY <2>4 DEF Stopped, vars, mapVars, hwVars
    <3> QED BY <2>1, <3>1 DEF HwInv, Wait
  <2> QED BY <2>2, <2>3, <2>4 DEF Next
<1> QED BY <1>1, <1>2, PTL DEF Spec

(* The data structures and the registers have their types.                 *)
THEOREM TypesCorrect == Spec => []TypeOK
<1>1. HwInv => TypeOK
  BY DEF HwInv, IInv, TypeOK
<1> QED BY <1>1, HwInvariance, PTL

(* The output finish is 1 only in the cycle after a state that returns.    *)
THEOREM FinishIsPulse == Spec => FinishAfterReturn
<1>1. HwInv /\ [Next]_vars => [pc = "done" /\ finish' => Returns(cur_state) # {}]_vars
  <2> SUFFICES ASSUME HwInv, Next, pc = "done", finish'
               PROVE  Returns(cur_state) # {} \/ UNCHANGED vars
    OBVIOUS
  <2>1. CASE Clock
    <3>1. BPHLS = 1
      BY BlocksFinished DEF HwInv, BPHLS
    <3>2. finish => cur_state = 1
      BY DEF HwInv, Wait
    <3> QED BY <2>1, <3>1, <3>2 DEF Clock
  <2>2. CASE Build
    BY <2>2 DEF Build
  <2>3. CASE Stopped
    BY <2>3 DEF Stopped
  <2> QED BY <2>1, <2>2, <2>3 DEF Next
<1> QED BY <1>1, HwInvariance, PTL DEF Spec, FinishAfterReturn

-----------------------------------------------------------------------------
(* The refinement.                                                         *)

(* A step of the clock, without a reset, is one of the execution: from the *)
(* position of the state of this cycle to that of the next one.            *)
LEMMA ClockAdvances ==
    ASSUME HwInv, pc = "done", Generated,
           NEW here, here = (IF cur_state # 1 THEN PositionOf(cur_state) ELSE <<0, 0>>),
           NEW there, there = (IF NextState # 1 THEN PositionOf(NextState) ELSE <<0, 0>>)
    PROVE  \/ here = <<0, 0>> /\ start /\ there = <<EntryBlock, 0>>
           \/ here = <<0, 0>> /\ ~start /\ there = <<0, 0>>
           \/ /\ here # <<0, 0>> /\ here[2] < input.statesNum[here[1]]
              /\ there = <<here[1], here[2] + 1>>
           \/ /\ here # <<0, 0>> /\ here[2] = input.statesNum[here[1]]
              /\ there = IF Len(F.succ[here[1]]) = 0 THEN <<0, 0>>
                         ELSE IF Len(F.succ[here[1]]) = 1 \/ cond THEN <<F.succ[here[1]][1], 0>>
                         ELSE <<F.succ[here[1]][2], 0>>
<1>1. /\ IInv /\ cur_state \in DOMAIN state /\ cond \in BOOLEAN /\ start \in BOOLEAN
  BY DEF HwInv
<1>2. input \in Schedules /\ IsControlFlow(F) /\ \A x \in Blocks(F) : x \in Nat /\ x # 0
  BY <1>1, BlocksFinished
<1>3. EntryBlock \in Blocks(F) /\ HasStates(EntryBlock)
      /\ \A x \in Blocks(F) : x # 1 => HasStates(x)
  BY <1>2, EntryHasStates
<1>4. ASSUME NEW x \in Blocks(F), HasStates(x), NextState = firstState[x]
      PROVE  there = <<x, 0>>
  <2>1. IsAt(NextState, x, 0)
    BY <1>1, <1>4, FirstIsAt
  <2>2. PositionOf(NextState) = <<x, 0>> /\ NextState # 1
    BY <1>1, <2>1, PositionIs
  <2> QED BY <2>2
<1>5. CASE cur_state = 1
  <2>1. here = <<0, 0>>
    BY <1>5
  <2>2. NextState = IF start THEN firstState[EntryBlock] ELSE 1
    BY <1>1, <1>5, NextOfWait
  <2>3. CASE start
    <3>1. there = <<EntryBlock, 0>>
      BY <2>2, <2>3, <1>3, <1>4
    <3> QED BY <3>1, <2>1, <2>3
  <2>4. CASE ~start
    BY <2>1, <2>2, <2>4
  <2> QED BY <2>3, <2>4, <1>1
<1>6. CASE cur_state # 1
  <2>1. PICK b \in Blocks(F) : \E k \in 0..input.statesNum[b] : IsAt(cur_state, b, k)
    BY <1>1, <1>6, WaitOrAt
  <2>2. PICK k \in 0..input.statesNum[b] : IsAt(cur_state, b, k)
    BY <2>1
  <2>3. here = <<b, k>>
    BY <2>2, <1>1, <1>6, PositionIs
  <2>4. here # <<0, 0>> /\ here[1] = b /\ here[2] = k
    BY <2>3, <1>2
  <2>5. input.statesNum[b] \in Nat
    BY <1>1, BlocksFinished
  <2>6. CASE k < input.statesNum[b]
    <3>1. IsAt(NextState, b, k + 1)
      BY <2>2, <2>6, <1>1, NextInBlock
    <3>2. PositionOf(NextState) = <<b, k + 1>> /\ NextState # 1
      BY <3>1, <1>1, PositionIs
    <3>3. there = <<b, k + 1>>
      BY <3>2
    <3> QED BY <3>3, <2>4, <2>6
  <2>7. CASE k = input.statesNum[b]
    <3>1. IsAt(cur_state, b, input.statesNum[b])
      BY <2>2, <2>7
    <3>2. /\ Len(F.succ[b]) = 0 => NextState = 1
          /\ Len(F.succ[b]) # 0 => /\ F.succ[b][1] \in Blocks(F) /\ F.succ[b][1] # 1
                                   /\ Len(F.succ[b]) = 1 \/ cond =>
                                        NextState = firstState[F.succ[b][1]]
          /\ Len(F.succ[b]) \notin {0, 1} /\ ~cond =>
               /\ F.succ[b][2] \in Blocks(F) /\ F.succ[b][2] # 1
               /\ NextState = firstState[F.succ[b][2]]
      BY <1>1, <3>1, NextOfBlock
    <3>3. there = IF Len(F.succ[b]) = 0 THEN <<0, 0>>
                  ELSE IF Len(F.succ[b]) = 1 \/ cond THEN <<F.succ[b][1], 0>>
                  ELSE <<F.succ[b][2], 0>>
      <4>1. CASE Len(F.succ[b]) = 0
        BY <4>1, <3>2
      <4>2. CASE Len(F.succ[b]) # 0 /\ (Len(F.succ[b]) = 1 \/ cond)
        <5>1. there = <<F.succ[b][1], 0>>
          BY <4>2, <3>2, <1>3, <1>4
        <5> QED BY <5>1, <4>2
      <4>3. CASE Len(F.succ[b]) # 0 /\ ~(Len(F.succ[b]) = 1 \/ cond)
        <5>1. there = <<F.succ[b][2], 0>>
          BY <4>3, <3>2, <1>3, <1>4
        <5> QED BY <5>1, <4>3
      <4> QED BY <4>1, <4>2, <4>3
    <3> QED BY <3>3, <2>4, <2>7
  <2> QED BY <2>5, <2>6, <2>7
<1> QED BY <1>5, <1>6

(* The entry of the execution is the block the wait state leads to.        *)
LEMMA EntryIs ==
    ASSUME input \in Schedules
    PROVE  Promise!Entry(input.func) = EntryBlock
<1>1. Promise!Entry(input.func) =
        IF BlockInstrs(F, 1) = {Terminator(F, 1)} /\ F.op[Terminator(F, 1)] = "Switch"
           /\ Len(F.succ[1]) = 1
        THEN F.succ[1][1] ELSE 1
  BY DEF Promise!Entry, F, Promise!BlockInstrs, Promise!Terminator, Promise!IsTerminator,
         Promise!Instrs, Promise!Terminators, BlockInstrs, Terminator, IsTerminator, Instrs,
         Terminators
<1>2. Cardinality(BlockInstrs(F, 1)) = 1 <=> BlockInstrs(F, 1) = {Terminator(F, 1)}
  <2> IsControlFlow(F)
    BY SchedulesAssumption DEF F
  <2> IsFiniteSet(Instrs(F)) /\ 1 \in Blocks(F)
    BY ControlFlowShape
  <2>1. IsFiniteSet(BlockInstrs(F, 1))
    BY FS_Subset DEF BlockInstrs
  <2>2. Terminator(F, 1) \in BlockInstrs(F, 1)
    BY TerminatorOf
  <2> QED BY <2>1, <2>2, FS_Singleton
<1>3. CASE HasStates(1)
  <2>1. ~(Cardinality(BlockInstrs(F, 1)) = 1 /\ F.op[Terminator(F, 1)] = "Switch"
          /\ Len(F.succ[1]) = 1)
    BY <1>3, EntryHasStates
  <2>2. EntryBlock = 1
    BY <1>3, EntryHasStates
  <2> QED BY <1>1, <1>2, <2>1, <2>2
<1>4. CASE ~HasStates(1)
  <2>1. Len(F.succ[1]) = 1 /\ F.op[Terminator(F, 1)] = "Switch"
        /\ EntryBlock = F.succ[1][1] /\ Cardinality(BlockInstrs(F, 1)) = 1
    BY <1>4, EntryHasStates
  <2> QED BY <1>1, <1>2, <2>1
<1> QED BY <1>3, <1>4

(* The position of the current state.                                      *)
LEMMA AtIs == Position = PositionOf(cur_state)
BY DEF Position, PositionOf, Place

(* The generated controller executes the scheduled function.               *)
THEOREM ExecutionImplemented == Spec => ImplementsExecution
<1>1. Init => Promise!Init
  <2> SUFFICES ASSUME Init PROVE Promise!Init
    OBVIOUS
  <2>1. input \in Schedules /\ ~Running
    BY DEF Init, MapInit, Running
  <2> QED BY <2>1 DEF Init, Promise!Init, Promise!Idle
<1>2. HwInv /\ [Next]_vars => [Promise!Next]_(Promise!vars)
  <2> SUFFICES ASSUME HwInv, [Next]_vars
               PROVE  Promise!Next \/ UNCHANGED Promise!vars
    OBVIOUS
  <2>1. CASE Build
    <3>1. ~Running /\ ~Running'
      BY <2>1 DEF Build, hwVars, HwInv, Running
    <3>2. input' = input
      BY <2>1 DEF Build, MapNext, createFirstStates, linkWaitState, createChains, nameStates,
                  Returned, mapVars
    <3>3. UNCHANGED <<start, reset, cond>>
      BY <2>1 DEF Build, hwVars
    <3> QED BY <3>1, <3>2, <3>3 DEF Promise!vars
  <2>2. CASE Clock
    <3>1. UNCHANGED <<input, list, state>> /\ pc = "done" /\ Generated
      BY <2>2 DEF Clock, mapVars
    <3>2. start' \in BOOLEAN /\ reset' \in BOOLEAN /\ cond' \in BOOLEAN
      BY <2>2 DEF Clock
    <3>3. cur_state' = IF reset THEN 1 ELSE NextState
      <4>1. BPHLS = 1
        BY BlocksFinished DEF HwInv, BPHLS
      <4> QED BY <4>1, <2>2 DEF Clock
    <3>4. PICK s : s = cur_state'
      OBVIOUS
    <3>5. Position' = PositionOf(s)
      BY <3>1, <3>4 DEF Position, PositionOf, Place, SelectInSeq
    <3>6. PICK here : here = (IF cur_state # 1 THEN PositionOf(cur_state) ELSE <<0, 0>>)
      OBVIOUS
    <3>7. here = (IF Running THEN Position ELSE <<0, 0>>)
      BY <3>6, AtIs DEF Running, Wait
    <3>8. PICK there : there = (IF s # 1 THEN PositionOf(s) ELSE <<0, 0>>)
      OBVIOUS
    <3>9. there = (IF Running THEN Position ELSE <<0, 0>>)'
      BY <3>4, <3>5, <3>8 DEF Running, Wait
    <3>10. CASE reset
      <4>1. there = <<0, 0>>
        BY <3>3, <3>4, <3>8, <3>10
      <4> QED BY <4>1, <3>1, <3>2, <3>9, <3>10
              DEF Promise!Next, Promise!Cycle, Promise!Inputs, Promise!Idle
    <3>11. CASE ~reset
      <4>1. s = NextState
        BY <3>3, <3>4, <3>11
      <4>2. there = (IF NextState # 1 THEN PositionOf(NextState) ELSE <<0, 0>>)
        BY <4>1, <3>8
      <4>3. \/ here = <<0, 0>> /\ start /\ there = <<EntryBlock, 0>>
            \/ here = <<0, 0>> /\ ~start /\ there = <<0, 0>>
            \/ /\ here # <<0, 0>> /\ here[2] < input.statesNum[here[1]]
               /\ there = <<here[1], here[2] + 1>>
            \/ /\ here # <<0, 0>> /\ here[2] = input.statesNum[here[1]]
               /\ there = IF Len(F.succ[here[1]]) = 0 THEN <<0, 0>>
                          ELSE IF Len(F.succ[here[1]]) = 1 \/ cond THEN <<F.succ[here[1]][1], 0>>
                          ELSE <<F.succ[here[1]][2], 0>>
        BY <3>1, <3>6, <4>2, ClockAdvances
      <4>4. Promise!Entry(input.func) = EntryBlock
        BY EntryIs, BlocksFinished DEF HwInv
      <4>5. Promise!Begin \/ Promise!Remain \/ Promise!Step \/ Promise!Leave
        BY <4>3, <4>4, <3>7, <3>9
           DEF Promise!Begin, Promise!Remain, Promise!Step, Promise!Leave, Promise!Idle, F
      <4> QED BY <4>5, <3>1, <3>2, <3>11 DEF Promise!Next, Promise!Cycle, Promise!Inputs
    <3> QED BY <3>10, <3>11
  <2>3. CASE Stopped \/ UNCHANGED vars
    <3>1. UNCHANGED <<input, list, state, cur_state, start, reset, cond>>
      BY <2>3 DEF Stopped, vars, mapVars, hwVars
    <3>2. Running' = Running
      BY <3>1 DEF Running, Wait
    <3>3. Position' = Position
      BY <3>1 DEF Position, SelectInSeq
    <3> QED BY <3>1, <3>2, <3>3 DEF Promise!vars
  <2> QED BY <2>1, <2>2, <2>3 DEF Next
<1> QED BY <1>1, <1>2, HwInvariance, PTL DEF Spec, ImplementsExecution, Promise!Spec

=============================================================================
