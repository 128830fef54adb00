----------------------- MODULE SchedulerMappingProofs -----------------------
(***************************************************************************)
(* Proofs about createFsm, for every set of scheduled functions: the       *)
(* states of a block form a chain that follows its schedule, no two states *)
(* have one name, and no transition is missing.                            *)
(*                                                                         *)
(* The inductive invariant says where the states of a block are: in one    *)
(* run of the list, in the order of the schedule.  It is needed because a  *)
(* chain is inserted after the first state of its block while the first    *)
(* states of later blocks, and the chains of earlier ones, are in the list *)
(* already, and because the name of a state is its rank in this list.      *)
(***************************************************************************)
EXTENDS SchedulerMapping, FiniteSetLemmas

-----------------------------------------------------------------------------
(* The inductive invariant.                                                *)

HasStates(b) == ~isBasicBlockEmpty(F, b)

(* Blocks the first loop has given a state. *)
Begun(b) == HasStates(b) /\ (pc = "createFirstStates" => b < cursor)

(* Blocks whose chain is built. *)
Chained(b) ==
    /\ HasStates(b)
    /\ pc \in {"createChains", "nameStates", "done"}
    /\ pc = "createChains" => b < cursor

(* How many states a block has beyond its first one. *)
Beyond(b) == IF Chained(b) THEN input.statesNum[b] ELSE 0

(* The block the wait state leads to. *)
EntryBlock == IF isBasicBlockEmpty(F, 1) THEN F.succ[1][1] ELSE 1

StateRecords ==
    [block : Nat, default : Nat, transitions : Seq(Nat \X Nat),
     variable : Nat \cup {NoVariable}, terminating : BOOLEAN, instrs : Seq(Nat),
     name : {<< >>, <<"BPHLS">>} \cup Nat \X Nat]

ShapeOK ==
    /\ input \in Schedules
    /\ pc \in {"createFirstStates", "linkWaitState", "createChains", "nameStates", "done"}
    /\ cursor \in Blocks(F) /\ (pc = "linkWaitState" => cursor = 1)
    /\ list \in Seq(Nat)
    /\ state \in Seq(StateRecords)
    /\ firstState \in [Blocks(F) -> Nat]
    /\ startState \in [Instrs(F) -> Nat]
    /\ endState \in [Instrs(F) -> Nat]
    /\ bbIds \in [Blocks(F) -> Nat]

(* The list has every state once, the wait state first. *)
Listed ==
    /\ Len(list) = Len(state) /\ Len(list) > 0 /\ list[1] = Wait
    /\ \A q \in 1..Len(list) : list[q] \in 1..Len(list)
    /\ \A s \in 1..Len(list) : \E q \in 1..Len(list) : list[q] = s
    /\ \A q, r \in 1..Len(list) : list[q] = list[r] => q = r

(* The states of block b are at the places from p to p + Beyond(b).        *)
RunAt(b, p) ==
    /\ p \in 2..Len(list) /\ p + Beyond(b) \in 2..Len(list)
    /\ list[p] = firstState[b]
    /\ \A q \in 2..Len(list) : state[list[q]].block = b <=> q \in p..(p + Beyond(b))

(* They have the instructions of the schedule and lead to one another.     *)
LinkedAt(b, p) ==
    \A k \in 0..input.statesNum[b] :
        LET s == state[list[p + k]]
        IN /\ s.instrs = InstrsIn(b, k)
           /\ k < input.statesNum[b] =>
                s.transitions = << >> /\ s.default = list[p + k + 1]
           /\ k = input.statesNum[b] =>
                /\ s.transitions = Branch(b, NewState).transitions
                /\ s.default = Branch(b, NewState).default
                /\ s.transitions # << >> => s.variable = Terminator(F, b)

(* The states that are looked up for the instructions of block b.          *)
PlacedAt(b, p) ==
    \A i \in BlockInstrs(F, b) :
        /\ startState[i] = list[p + input.start[i]]
        /\ endState[i] = list[p + input.start[i] + Cycles(F, i)]

Runs ==
    \A b \in Blocks(F) : Begun(b) =>
        \E p \in Nat : RunAt(b, p) /\ (Chained(b) => LinkedAt(b, p) /\ PlacedAt(b, p))

(* Only blocks with states own any. *)
Owned ==
    \A q \in 2..Len(list) : state[list[q]].block \in Blocks(F) /\ Begun(state[list[q]].block)

WaitOK ==
    /\ state[Wait].default = Wait /\ state[Wait].instrs = << >>
    /\ \A b \in Blocks(F) : HasStates(b) => state[Wait].block # b
    /\ IF pc \in {"createFirstStates", "linkWaitState"}
       THEN state[Wait].transitions = << >>
       ELSE state[Wait].transitions = <<<<firstState[EntryBlock], Null>>>>

Numbered ==
    \A b \in Blocks(F) : (pc = "createFirstStates" => b < cursor) =>
        bbIds[b] = Cardinality({c \in 1..(b - 1) : HasStates(c)})

NamesGiven ==
    pc = "done" =>
        /\ state[Wait].name = <<"BPHLS">>
        /\ \A q \in 2..Len(list) :
             state[list[q]].name = <<bbIds[state[list[q]].block], RankInBlock(q)>>

IInv ==
    /\ ShapeOK /\ MapTypeOK /\ Listed /\ Runs /\ Owned /\ WaitOK /\ Numbered /\ NamesGiven

-----------------------------------------------------------------------------
(* The functions, the schedules and the operators over them.               *)

(* The blocks and the instructions of a function are intervals.            *)
LEMMA ControlFlowShape ==
    ASSUME NEW f, IsControlFlow(f)
    PROVE  /\ Len(f.succ) \in Nat \ {0} /\ Blocks(f) = 1..Len(f.succ) /\ 1 \in Blocks(f)
           /\ Len(f.op) \in Nat /\ Instrs(f) = 1..Len(f.op) /\ IsFiniteSet(Instrs(f))
           /\ \A b \in Blocks(f) : \A n \in DOMAIN f.succ[b] :
                 f.succ[b][n] \in Blocks(f) /\ f.succ[b][n] # 1
           /\ \A b \in Blocks(f) : f.succ[b] \in Seq(Blocks(f))
           /\ \A i \in Instrs(f) : f.bb[i] \in Blocks(f)
<1>1. Len(f.succ) \in Nat \ {0} /\ Blocks(f) = 1..Len(f.succ)
  BY DEF IsControlFlow, Blocks
<1>2. Len(f.op) \in Nat /\ Instrs(f) = 1..Len(f.op)
  BY DEF IsControlFlow, Instrs
<1>3. IsFiniteSet(Instrs(f))
  BY <1>2, FS_Interval
<1>4. \A b \in Blocks(f) : f.succ[b] \in Seq(Blocks(f))
  BY DEF IsControlFlow, Blocks
<1>5. ASSUME NEW b \in Blocks(f), NEW n \in DOMAIN f.succ[b]
      PROVE  f.succ[b][n] \in Blocks(f) /\ f.succ[b][n] # 1
  <2>1. f.succ[b] \in Seq(Blocks(f))
    BY <1>4
  <2>2. f.succ[b][n] \in Blocks(f)
    BY <2>1
  <2> QED BY <2>2 DEF IsControlFlow
<1> QED BY <1>1, <1>2, <1>3, <1>4, <1>5 DEF IsControlFlow

(* The terminator of a block is one, and has its successors.               *)
LEMMA TerminatorOf ==
    ASSUME NEW f, IsControlFlow(f), NEW b \in Blocks(f)
    PROVE  /\ Terminator(f, b) \in BlockInstrs(f, b)
           /\ f.op[Terminator(f, b)] \in Terminators
           /\ f.op[Terminator(f, b)] \in {"Ret", "Unreachable"} => Len(f.succ[b]) = 0
           /\ f.op[Terminator(f, b)] = "Br" => Len(f.succ[b]) \in 1..2
           /\ f.op[Terminator(f, b)] = "Switch" => Len(f.succ[b]) >= 1
           /\ \A i \in BlockInstrs(f, b) : f.op[i] \in Terminators => i = Terminator(f, b)
<1>1. PICK t \in BlockInstrs(f, b) :
         IsTerminator(f, t) /\ \A j \in BlockInstrs(f, b) : IsTerminator(f, j) => j = t
  BY DEF IsControlFlow, IsLaidOut
<1>2. Terminator(f, b) = t
  BY <1>1 DEF Terminator
<1>3. f.op[t] \in Terminators
  BY <1>1 DEF IsTerminator
<1>4. \A i \in BlockInstrs(f, b) : f.op[i] \in Terminators => i = t
  BY <1>1 DEF IsTerminator
<1>5. HasSuccessors(f)
  BY DEF IsControlFlow
<1>6. /\ f.op[t] \in {"Ret", "Unreachable"} => Len(f.succ[b]) = 0
      /\ f.op[t] = "Br" => Len(f.succ[b]) \in 1..2
      /\ f.op[t] = "Switch" => Len(f.succ[b]) >= 1
  BY <1>5, <1>2 DEF HasSuccessors
<1> QED BY <1>1, <1>2, <1>3, <1>4, <1>6

(* Only the entry block may be without states, and then its successor has  *)
(* some.                                                                   *)
LEMMA EntryHasStates ==
    ASSUME input \in Schedules
    PROVE  /\ EntryBlock \in Blocks(F) /\ HasStates(EntryBlock)
           /\ \A b \in Blocks(F) : b # 1 => HasStates(b)
           /\ ~HasStates(1) => /\ Len(F.succ[1]) = 1
                               /\ F.op[Terminator(F, 1)] = "Switch"
                               /\ EntryBlock = F.succ[1][1]
                               /\ Cardinality(BlockInstrs(F, 1)) = 1
           /\ Cardinality(BlockInstrs(F, 1)) = 1 /\ F.op[Terminator(F, 1)] = "Switch"
              /\ Len(F.succ[1]) = 1 => ~HasStates(1)
           /\ HasStates(1) => EntryBlock = 1
<1>1. IsControlFlow(F)
  BY SchedulesAssumption DEF F
<1>2. \A b \in Blocks(F) : b # 1 => HasStates(b)
  BY DEF HasStates, isBasicBlockEmpty
<1>3. 1 \in Blocks(F) /\ F.succ[1] \in Seq(Blocks(F))
      /\ \A n \in DOMAIN F.succ[1] : F.succ[1][n] \in Blocks(F) /\ F.succ[1][n] # 1
  BY <1>1, ControlFlowShape
<1>4. /\ F.op[Terminator(F, 1)] \in {"Ret", "Br", "Switch", "Unreachable"}
      /\ F.op[Terminator(F, 1)] = "Unreachable" => Len(F.succ[1]) = 0
  BY <1>1, <1>3, TerminatorOf DEF Terminators
<1>5. ~HasStates(1) => /\ Len(F.succ[1]) = 1
                       /\ F.op[Terminator(F, 1)] = "Switch"
                       /\ EntryBlock = F.succ[1][1]
                       /\ Cardinality(BlockInstrs(F, 1)) = 1
  <2> SUFFICES ASSUME ~HasStates(1)
               PROVE  /\ Len(F.succ[1]) = 1 /\ F.op[Terminator(F, 1)] = "Switch"
                      /\ EntryBlock = F.succ[1][1] /\ Cardinality(BlockInstrs(F, 1)) = 1
    OBVIOUS
  <2>1. isBasicBlockEmpty(F, 1)
    BY DEF HasStates
  <2>2. EntryBlock = F.succ[1][1]
    BY <2>1 DEF EntryBlock
  <2>3. /\ Len(F.succ[1]) = 1 /\ Cardinality(BlockInstrs(F, 1)) = 1
        /\ F.op[Terminator(F, 1)] \notin {"Ret", "Br"}
    BY <2>1 DEF isBasicBlockEmpty
  <2>4. F.op[Terminator(F, 1)] = "Switch"
    BY <1>4, <2>3
  <2> QED BY <2>2, <2>3, <2>4
<1>6. HasStates(1) => EntryBlock = 1
  BY DEF HasStates, EntryBlock
<1>7. EntryBlock \in Blocks(F) /\ HasStates(EntryBlock)
  <2>1. CASE HasStates(1)
    BY <2>1, <1>3, <1>6
  <2>2. CASE ~HasStates(1)
    <3>1. 1 \in DOMAIN F.succ[1]
      BY <2>2, <1>5, <1>3
    <3> QED BY <3>1, <2>2, <1>5, <1>3, <1>2
  <2> QED BY <2>1, <2>2
<1>8. Cardinality(BlockInstrs(F, 1)) = 1 /\ F.op[Terminator(F, 1)] = "Switch"
      /\ Len(F.succ[1]) = 1 => ~HasStates(1)
  BY DEF HasStates, isBasicBlockEmpty
<1> QED BY <1>2, <1>5, <1>6, <1>7, <1>8

(* The chain of a block has a state for every state of its schedule: none  *)
(* is appended for an access that ends late.                               *)
LEMMA LastStateIs ==
    ASSUME input \in Schedules, NEW b \in Blocks(F)
    PROVE  /\ LastState(b) = input.statesNum[b] /\ input.statesNum[b] \in Nat
           /\ \A i \in BlockInstrs(F, b) :
                /\ i \in Instrs(F) /\ F.bb[i] = b
                /\ input.start[i] \in Nat /\ Cycles(F, i) \in {0, 1}
                /\ input.start[i] + Cycles(F, i) <= input.statesNum[b]
                /\ F.op[i] = "Ret" => input.start[i] = input.statesNum[b]
<1>1. IsControlFlow(F) /\ IsSchedule(F, input.start, input.statesNum)
  BY SchedulesAssumption DEF F
<1>2. input.statesNum[b] \in Nat
  BY <1>1 DEF IsSchedule
<1>3. \A i \in BlockInstrs(F, b) :
        /\ i \in Instrs(F) /\ F.bb[i] = b
        /\ input.start[i] \in Nat /\ Cycles(F, i) \in {0, 1}
        /\ input.start[i] + Cycles(F, i) <= input.statesNum[b]
        /\ F.op[i] = "Ret" => input.start[i] = input.statesNum[b]
  BY <1>1 DEF IsSchedule, WithinBlock, BlockInstrs, Cycles
<1> DEFINE W == BlockInstrs(F, b)
           e == [i \in W |-> input.start[i] + Cycles(F, i)]
           R == {e[i] : i \in W}
           S == {input.statesNum[b]} \cup R
<1>4. IsFiniteSet(S)
  <2>1. IsFiniteSet(W)
    BY <1>1, ControlFlowShape, FS_Subset DEF BlockInstrs
  <2>2. e = [i \in W |-> e[i]]
    OBVIOUS
  <2>3. IsFiniteSet(R)
    <3> HIDE DEF e, W
    <3> QED BY <2>1, <2>2, FiniteRange
  <2>4. IsFiniteSet({input.statesNum[b]})
    BY FS_Singleton
  <2> HIDE DEF R
  <2> QED BY <2>3, <2>4, FS_Union
<1>5. \A x \in S : x \in Int /\ x <= input.statesNum[b]
  BY <1>2, <1>3
<1>6. LastState(b) = Max(S)
  <2>1. R = {input.start[i] + Cycles(F, i) : i \in BlockInstrs(F, b)}
    OBVIOUS
  <2> QED BY <2>1 DEF LastState
<1>7. Max(S) \in S /\ Max(S) >= input.statesNum[b]
  <2>1. input.statesNum[b] \in S /\ S # {}
    OBVIOUS
  <2>2. S \subseteq Int
    BY <1>5
  <2> HIDE DEF S
  <2> QED BY <2>1, <2>2, <1>4, MaxIsGreatest
<1>8. LastState(b) = input.statesNum[b]
  <2> HIDE DEF S
  <2> QED BY <1>5, <1>6, <1>7, <1>2
<1> QED BY <1>2, <1>3, <1>8

(* LayoutOrder enumerates a finite set of instructions.                    *)
LEMMA LayoutOrderRange ==
    ASSUME NEW S, S \subseteq Nat, IsFiniteSet(S)
    PROVE  LayoutOrder(S) \in Seq(S) /\ ToSet(LayoutOrder(S)) = S
<1> DEFINE n == Cardinality(S)
           o == LayoutOrder(S)
<1>1. /\ n \in Nat
      /\ \A x \in S : CountUpTo(S, x) \in 1..n
      /\ \A x, y \in S : x < y => CountUpTo(S, x) < CountUpTo(S, y)
      /\ \A k \in 1..n : \E x \in S : CountUpTo(S, x) = k
  <2>1. S \subseteq Int
    OBVIOUS
  <2> QED BY <2>1, RanksAreBijective
<1>2. o = [k \in 1..n |-> CHOOSE i \in S : CountUpTo(S, i) = k]
  BY DEF LayoutOrder, CountUpTo
<1>3. \A k \in 1..n : o[k] \in S /\ CountUpTo(S, o[k]) = k
  BY <1>1, <1>2
<1> HIDE DEF o, n
<1>4. o \in [1..n -> S]
  BY <1>2, <1>3
<1>5. o \in Seq(S) /\ DOMAIN o = 1..n
  BY <1>1, <1>4
<1>6. ASSUME NEW x \in S PROVE \E k \in 1..n : o[k] = x
  <2>1. PICK k \in 1..n : k = CountUpTo(S, x)
    BY <1>1
  <2>2. o[k] \in S /\ CountUpTo(S, o[k]) = CountUpTo(S, x)
    BY <2>1, <1>3
  <2>3. o[k] \in Int /\ x \in Int
    <3>1. \A m \in S : m \in Int
      OBVIOUS
    <3> QED BY <2>2, <3>1
  <2>4. CountUpTo(S, x) \in Int
    BY <2>1
  <2>5. ~(o[k] < x) /\ ~(x < o[k])
    <3>1. o[k] < x => CountUpTo(S, o[k]) < CountUpTo(S, x)
      BY <2>2, <1>1
    <3>2. x < o[k] => CountUpTo(S, x) < CountUpTo(S, o[k])
      BY <2>2, <1>1
    <3> QED BY <3>1, <3>2, <2>2, <2>4
  <2> QED BY <2>3, <2>5
<1>7. ToSet(o) = S
  <2>1. ToSet(o) = {o[k] : k \in 1..n}
    BY <1>5 DEF ToSet
  <2>2. \A x \in S : x \in {o[k] : k \in 1..n}
    BY <1>6
  <2>3. \A k \in 1..n : o[k] \in S
    BY <1>3
  <2> QED BY <2>1, <2>2, <2>3
<1> QED BY <1>5, <1>7 DEF o

(* The list of a state has the instructions that start in it.              *)
LEMMA InstrsInRange ==
    ASSUME input \in Schedules, NEW b, NEW k
    PROVE  /\ InstrsIn(b, k) \in Seq(Instrs(F)) /\ InstrsIn(b, k) \in Seq(Nat)
           /\ ToSet(InstrsIn(b, k)) = {i \in BlockInstrs(F, b) : input.start[i] = k}
<1> DEFINE S == {i \in BlockInstrs(F, b) : input.start[i] = k}
<1>1. IsControlFlow(F)
  BY SchedulesAssumption DEF F
<1>2. Instrs(F) = 1..Len(F.op) /\ IsFiniteSet(Instrs(F))
  BY <1>1, ControlFlowShape
<1>3. S \subseteq Instrs(F)
  BY DEF BlockInstrs
<1>4. S \subseteq Nat /\ IsFiniteSet(S)
  BY <1>2, <1>3, FS_Subset
<1>5. InstrsIn(b, k) = LayoutOrder(S)
  BY DEF InstrsIn
<1> HIDE DEF S
<1>6. LayoutOrder(S) \in Seq(S) /\ ToSet(LayoutOrder(S)) = S
  BY <1>4, LayoutOrderRange
<1>7. LayoutOrder(S) \in Seq(Instrs(F)) /\ LayoutOrder(S) \in Seq(Nat)
  <2>1. ASSUME NEW o \in Seq(S), NEW T, S \subseteq T PROVE o \in Seq(T)
    <3>1. \A n \in 1..Len(o) : o[n] \in T
      BY <2>1
    <3> QED BY <3>1
  <2> QED BY <1>3, <1>4, <1>6, <2>1
<1> QED BY <1>5, <1>6, <1>7 DEF S

(* The last state of a block leads back to the wait state or to the first  *)
(* states of the successors.                                               *)
LEMMA BranchFields ==
    ASSUME input \in Schedules, NEW b \in Blocks(F),
           firstState \in [Blocks(F) -> Nat],
           NEW r \in StateRecords, r.transitions = << >>
    PROVE  /\ Branch(b, r) \in StateRecords
           /\ Branch(b, r).instrs = r.instrs /\ Branch(b, r).block = r.block
           /\ Branch(b, r).default = Branch(b, NewState).default
           /\ Branch(b, r).transitions = Branch(b, NewState).transitions
           /\ Branch(b, r).transitions # << >> => Branch(b, r).variable = Terminator(F, b)
           /\ Len(F.succ[b]) = 0 => Branch(b, r).default = Wait /\ Branch(b, r).transitions = << >>
           /\ Len(F.succ[b]) = 1 => /\ Branch(b, r).default = firstState[F.succ[b][1]]
                                    /\ Branch(b, r).transitions = << >>
           /\ Len(F.succ[b]) >= 1 /\ F.op[Terminator(F, b)] = "Switch" =>
                /\ Branch(b, r).default = firstState[F.succ[b][1]]
                /\ Branch(b, r).transitions =
                     [k \in 1..(Len(F.succ[b]) - 1) |-> <<firstState[F.succ[b][k + 1]], k>>]
           /\ Len(F.succ[b]) = 2 /\ F.op[Terminator(F, b)] = "Br" =>
                /\ Branch(b, r).default = firstState[F.succ[b][2]]
                /\ Branch(b, r).transitions = <<<<firstState[F.succ[b][1]], Null>>>>
           /\ Len(F.succ[b]) >= 2 => F.op[Terminator(F, b)] \in {"Br", "Switch"}
<1> DEFINE t == Terminator(F, b)
           succ == F.succ[b]
<1>1. IsControlFlow(F)
  BY SchedulesAssumption DEF F
<1>2. /\ t \in BlockInstrs(F, b)
      /\ F.op[t] \in {"Ret", "Br", "Switch", "Unreachable"}
      /\ F.op[t] \in {"Ret", "Unreachable"} => Len(succ) = 0
      /\ F.op[t] = "Br" => Len(succ) \in 1..2
      /\ F.op[t] = "Switch" => Len(succ) >= 1
  BY <1>1, TerminatorOf DEF Terminators
<1>3. succ \in Seq(Blocks(F)) /\ Len(succ) \in Nat
  BY <1>1, ControlFlowShape
<1>4. t \in Nat
  BY <1>1, <1>2, ControlFlowShape DEF BlockInstrs
<1>5. \A k \in 1..Len(succ) : firstState[succ[k]] \in Nat
  BY <1>3
<1>6. /\ r = [r EXCEPT !.transitions = << >>]
      /\ NewState \in StateRecords /\ NewState.transitions = << >> /\ NewState.default = Null
  <2>1. NewState.transitions = << >> /\ NewState.default = Null
    BY DEF NewState
  <2>2. NewState \in StateRecords
    BY DEF NewState, StateRecords, Null, NoVariable
  <2>3. r = [r EXCEPT !.transitions = << >>]
    BY DEF StateRecords
  <2> QED BY <2>1, <2>2, <2>3
<1>7. ASSUME NEW x \in StateRecords, x.transitions = << >>
      PROVE  /\ F.op[t] \in {"Ret", "Unreachable"} =>
                  Branch(b, x) = [x EXCEPT !.terminating = TRUE, !.default = Wait]
             /\ F.op[t] = "Switch" =>
                  Branch(b, x) = [x EXCEPT !.terminating = TRUE, !.default = firstState[succ[1]],
                     !.variable = t,
                     !.transitions = [k \in 1..(Len(succ) - 1) |-> <<firstState[succ[k + 1]], k>>]]
             /\ F.op[t] = "Br" /\ Len(succ) = 2 =>
                  Branch(b, x) = [x EXCEPT !.terminating = TRUE, !.default = firstState[succ[2]],
                     !.variable = t, !.transitions = <<<<firstState[succ[1]], Null>>>>]
             /\ F.op[t] = "Br" /\ Len(succ) = 1 =>
                  Branch(b, x) = [x EXCEPT !.terminating = TRUE, !.default = firstState[succ[1]],
                     !.variable = t]
  BY <1>2 DEF Branch
<1> HIDE DEF t, succ
<1>8. CASE F.op[t] \in {"Ret", "Unreachable"}
  <2>1. /\ Branch(b, r) = [r EXCEPT !.terminating = TRUE, !.default = Wait]
        /\ Branch(b, NewState) = [NewState EXCEPT !.terminating = TRUE, !.default = Wait]
        /\ Len(succ) = 0
    BY <1>2, <1>6, <1>7, <1>8
  <2>2. /\ Branch(b, r) \in StateRecords
        /\ Branch(b, r).instrs = r.instrs /\ Branch(b, r).block = r.block
        /\ Branch(b, r).transitions = << >> /\ Branch(b, r).default = Wait
    <3>1. Wait \in Nat
      BY DEF Wait
    <3> QED BY <2>1, <3>1 DEF StateRecords
  <2>3. Branch(b, NewState).transitions = << >> /\ Branch(b, NewState).default = Wait
    BY <2>1, <1>6 DEF StateRecords
  <2> QED BY <2>1, <2>2, <2>3, <1>8 DEF succ, t
<1>9. CASE F.op[t] = "Switch"
  <2> DEFINE cases == [k \in 1..(Len(succ) - 1) |-> <<firstState[succ[k + 1]], k>>]
             d == firstState[succ[1]]
  <2>1. /\ Branch(b, r) = [r EXCEPT !.terminating = TRUE, !.default = d,
                                    !.variable = t, !.transitions = cases]
        /\ Branch(b, NewState) = [NewState EXCEPT !.terminating = TRUE, !.default = d,
                                    !.variable = t, !.transitions = cases]
        /\ Len(succ) >= 1
    BY <1>2, <1>6, <1>7, <1>9
  <2>2. cases \in Seq(Nat \X Nat) /\ d \in Nat
    <3>1. \A k \in 1..(Len(succ) - 1) : k + 1 \in 1..Len(succ) /\ k \in Nat
      BY <1>3
    <3>2. \A k \in 1..(Len(succ) - 1) : cases[k] \in Nat \X Nat
      BY <3>1, <1>5
    <3>3. Len(succ) - 1 \in Nat /\ 1 \in 1..Len(succ)
      BY <2>1, <1>3
    <3> QED BY <3>2, <3>3, <1>5
  <2>3. Len(succ) = 1 => cases = << >>
    OBVIOUS
  <2> HIDE DEF cases, d
  <2>4. /\ Branch(b, r) \in StateRecords
        /\ Branch(b, r).instrs = r.instrs /\ Branch(b, r).block = r.block
        /\ Branch(b, r).transitions = cases /\ Branch(b, r).default = d
        /\ Branch(b, r).variable = t
    BY <2>1, <2>2, <1>4 DEF StateRecords
  <2>5. Branch(b, NewState).transitions = cases /\ Branch(b, NewState).default = d
    BY <2>1, <1>6 DEF StateRecords
  <2>6. /\ Branch(b, r).default = firstState[F.succ[b][1]]
        /\ Branch(b, r).transitions =
             [k \in 1..(Len(F.succ[b]) - 1) |-> <<firstState[F.succ[b][k + 1]], k>>]
    BY <2>4 DEF succ, cases, d
  <2>7. Len(F.succ[b]) = 1 => Branch(b, r).transitions = << >>
    BY <2>3, <2>4 DEF succ
  <2>8. Len(F.succ[b]) # 0 /\ F.op[Terminator(F, b)] = "Switch"
    BY <2>1, <1>3, <1>9 DEF succ, t
  <2>9. Branch(b, r).variable = Terminator(F, b)
    BY <2>4 DEF t
  <2> QED BY <2>4, <2>5, <2>6, <2>7, <2>8, <2>9
<1>10. CASE F.op[t] = "Br" /\ Len(succ) = 2
  <2> DEFINE to == <<<<firstState[succ[1]], Null>>>>
             d == firstState[succ[2]]
  <2>1. /\ Branch(b, r) = [r EXCEPT !.terminating = TRUE, !.default = d,
                                    !.variable = t, !.transitions = to]
        /\ Branch(b, NewState) = [NewState EXCEPT !.terminating = TRUE, !.default = d,
                                    !.variable = t, !.transitions = to]
    BY <1>6, <1>7, <1>10
  <2>2. to \in Seq(Nat \X Nat) /\ d \in Nat
    BY <1>5, <1>10 DEF Null
  <2> HIDE DEF to, d
  <2>4. /\ Branch(b, r) \in StateRecords
        /\ Branch(b, r).instrs = r.instrs /\ Branch(b, r).block = r.block
        /\ Branch(b, r).transitions = to /\ Branch(b, r).default = d
        /\ Branch(b, r).variable = t
    BY <2>1, <2>2, <1>4 DEF StateRecords
  <2>5. Branch(b, NewState).transitions = to /\ Branch(b, NewState).default = d
    BY <2>1, <1>6 DEF StateRecords
  <2> QED BY <2>4, <2>5, <1>10 DEF succ, t, to, d
<1>11. CASE F.op[t] = "Br" /\ Len(succ) = 1
  <2> DEFINE d == firstState[succ[1]]
  <2>1. /\ Branch(b, r) = [r EXCEPT !.terminating = TRUE, !.default = d, !.variable = t]
        /\ Branch(b, NewState) = [NewState EXCEPT !.terminating = TRUE, !.default = d, !.variable = t]
    BY <1>6, <1>7, <1>11
  <2>2. d \in Nat
    BY <1>5, <1>11
  <2> HIDE DEF d
  <2>4. /\ Branch(b, r) \in StateRecords
        /\ Branch(b, r).instrs = r.instrs /\ Branch(b, r).block = r.block
        /\ Branch(b, r).transitions = << >> /\ Branch(b, r).default = d
    BY <2>1, <2>2, <1>4 DEF StateRecords
  <2>5. Branch(b, NewState).transitions = << >> /\ Branch(b, NewState).default = d
    BY <2>1, <1>6 DEF StateRecords
  <2> QED BY <2>4, <2>5, <1>11 DEF succ, t, d
<1>12. F.op[t] \in {"Ret", "Unreachable"} \/ F.op[t] = "Switch"
       \/ (F.op[t] = "Br" /\ Len(succ) = 2) \/ (F.op[t] = "Br" /\ Len(succ) = 1)
  <2>1. F.op[t] \in {"Ret", "Br", "Switch", "Unreachable"}
        /\ (F.op[t] = "Br" => Len(succ) \in 1..2)
    BY <1>2 DEF t, succ
  <2>2. \A n \in 1..2 : n = 1 \/ n = 2
    OBVIOUS
  <2> QED BY <2>1, <2>2
<1> QED BY <1>8, <1>9, <1>10, <1>11, <1>12

(* A chain leads to the wait state or to first states of the successors of *)
(* its block.                                                              *)
LEMMA BranchLeads ==
    ASSUME input \in Schedules, NEW b \in Blocks(F),
           firstState \in [Blocks(F) -> Nat]
    PROVE  /\ \/ Branch(b, NewState).default = Wait
              \/ \E n \in DOMAIN F.succ[b] :
                    Branch(b, NewState).default = firstState[F.succ[b][n]]
           /\ \A k \in DOMAIN Branch(b, NewState).transitions :
                \E n \in DOMAIN F.succ[b] :
                   Branch(b, NewState).transitions[k][1] = firstState[F.succ[b][n]]
<1> DEFINE r == Branch(b, NewState)
           succ == F.succ[b]
<1>1. IsControlFlow(F)
  BY SchedulesAssumption DEF F
<1>2. succ \in Seq(Blocks(F)) /\ Len(succ) \in Nat
  BY <1>1, ControlFlowShape
<1>3. \A n \in 1..Len(succ) : n \in DOMAIN F.succ[b] /\ succ[n] = F.succ[b][n]
  BY <1>2
<1>4. /\ NewState \in StateRecords /\ NewState.transitions = << >>
  BY DEF NewState, StateRecords, Null, NoVariable
<1>5. /\ Len(succ) = 0 => r.default = Wait /\ r.transitions = << >>
      /\ Len(succ) = 1 => r.default = firstState[succ[1]] /\ r.transitions = << >>
      /\ Len(succ) >= 1 /\ F.op[Terminator(F, b)] = "Switch" =>
           /\ r.default = firstState[succ[1]]
           /\ r.transitions = [k \in 1..(Len(succ) - 1) |-> <<firstState[succ[k + 1]], k>>]
      /\ Len(succ) = 2 /\ F.op[Terminator(F, b)] = "Br" =>
           /\ r.default = firstState[succ[2]]
           /\ r.transitions = <<<<firstState[succ[1]], Null>>>>
      /\ Len(succ) >= 2 => F.op[Terminator(F, b)] \in {"Br", "Switch"}
  BY <1>4, BranchFields
<1>6. F.op[Terminator(F, b)] = "Br" => Len(succ) \in 1..2
  BY <1>1, TerminatorOf
<1> HIDE DEF r, succ
<1>7. CASE Len(succ) = 0
  BY <1>5, <1>7 DEF r
<1>8. CASE Len(succ) = 1
  <2>1. 1 \in 1..Len(succ)
    BY <1>8
  <2>2. r.default = firstState[succ[1]] /\ r.transitions = << >>
    BY <1>5, <1>8
  <2> QED BY <2>1, <2>2, <1>3 DEF r
<1>9. CASE Len(succ) >= 2 /\ F.op[Terminator(F, b)] = "Switch"
  <2>1. 1 \in 1..Len(succ) /\ \A k \in 1..(Len(succ) - 1) : k + 1 \in 1..Len(succ)
    BY <1>2, <1>9
  <2>2. /\ r.default = firstState[succ[1]]
        /\ r.transitions = [k \in 1..(Len(succ) - 1) |-> <<firstState[succ[k + 1]], k>>]
    BY <1>2, <1>5, <1>9
  <2>3. \A k \in DOMAIN r.transitions :
           k \in 1..(Len(succ) - 1) /\ r.transitions[k][1] = firstState[succ[k + 1]]
    BY <2>2
  <2>4. \A k \in DOMAIN r.transitions :
           \E n \in DOMAIN F.succ[b] : r.transitions[k][1] = firstState[F.succ[b][n]]
    <3> TAKE k \in DOMAIN r.transitions
    <3>1. k + 1 \in DOMAIN F.succ[b] /\ r.transitions[k][1] = firstState[F.succ[b][k + 1]]
      BY <2>1, <2>3, <1>3
    <3> QED BY <3>1
  <2>5. 1 \in DOMAIN F.succ[b] /\ r.default = firstState[F.succ[b][1]]
    BY <2>1, <2>2, <1>3
  <2> QED BY <2>4, <2>5 DEF r
<1>10. CASE Len(succ) = 2 /\ F.op[Terminator(F, b)] = "Br"
  <2>1. 1 \in 1..Len(succ) /\ 2 \in 1..Len(succ)
    BY <1>10
  <2>2. r.default = firstState[succ[2]] /\ r.transitions = <<<<firstState[succ[1]], Null>>>>
    BY <1>5, <1>10
  <2>3. \A k \in DOMAIN r.transitions : r.transitions[k][1] = firstState[succ[1]]
    BY <2>2
  <2> QED BY <2>1, <2>2, <2>3, <1>3 DEF r
<1>11. \/ Len(succ) = 0 \/ Len(succ) = 1
       \/ Len(succ) >= 2 /\ F.op[Terminator(F, b)] = "Switch"
       \/ Len(succ) = 2 /\ F.op[Terminator(F, b)] = "Br"
  <2>1. Len(succ) = 0 \/ Len(succ) = 1 \/ Len(succ) >= 2
    <3>1. \A z \in Nat : z = 0 \/ z = 1 \/ z >= 2
      OBVIOUS
    <3> QED BY <3>1, <1>2
  <2>2. Len(succ) >= 2 /\ F.op[Terminator(F, b)] = "Br" => Len(succ) = 2
    <3>1. \A z \in Nat : z >= 2 /\ z \in 1..2 => z = 2
      OBVIOUS
    <3> QED BY <3>1, <1>2, <1>6
  <2> QED BY <2>1, <2>2, <1>5
<1> QED BY <1>7, <1>8, <1>9, <1>10, <1>11

(* A chain leads to the wait state or to first states of blocks after the  *)
(* entry block.                                                            *)
LEMMA BranchTargets ==
    ASSUME input \in Schedules, NEW b \in Blocks(F),
           firstState \in [Blocks(F) -> Nat]
    PROVE  /\ \/ Branch(b, NewState).default = Wait
              \/ \E x \in Blocks(F) : x # 1 /\ Branch(b, NewState).default = firstState[x]
           /\ \A k \in DOMAIN Branch(b, NewState).transitions :
                \E x \in Blocks(F) :
                   x # 1 /\ Branch(b, NewState).transitions[k][1] = firstState[x]
<1>1. \A n \in DOMAIN F.succ[b] : F.succ[b][n] \in Blocks(F) /\ F.succ[b][n] # 1
  BY SchedulesAssumption, ControlFlowShape DEF F
<1> QED BY <1>1, BranchLeads

(* The state made for the k-th state of a block.                           *)
LEMMA ChainStateFields ==
    ASSUME input \in Schedules, NEW b \in Blocks(F), Len(state) \in Nat,
           firstState \in [Blocks(F) -> Nat], NEW k \in 0..input.statesNum[b]
    PROVE  /\ ChainState(b, k) \in StateRecords
           /\ ChainState(b, k).block = b /\ ChainState(b, k).instrs = InstrsIn(b, k)
           /\ k < input.statesNum[b] =>
                /\ ChainState(b, k).transitions = << >>
                /\ ChainState(b, k).default = StateOrder(b, k + 1)
           /\ k = input.statesNum[b] =>
                /\ ChainState(b, k).transitions = Branch(b, NewState).transitions
                /\ ChainState(b, k).default = Branch(b, NewState).default
                /\ ChainState(b, k).transitions # << >> => ChainState(b, k).variable = Terminator(F, b)
<1> DEFINE r == [NewState EXCEPT !.block = b, !.instrs = InstrsIn(b, k)]
           i == InstrsIn(b, k)
<1>1. LastState(b) = input.statesNum[b] /\ input.statesNum[b] \in Nat
  BY LastStateIs
<1>2. i \in Seq(Nat)
  BY InstrsInRange
<1>3. b \in Nat
  <2>1. IsControlFlow(F)
    BY SchedulesAssumption DEF F
  <2> QED BY <2>1, ControlFlowShape
<1>4. NewState \in StateRecords /\ NewState.transitions = << >>
  BY DEF NewState, StateRecords, Null, NoVariable
<1> HIDE DEF i
<1>5. r = [NewState EXCEPT !.block = b, !.instrs = i]
  BY DEF i
<1> HIDE DEF r
<1>6. r \in StateRecords /\ r.transitions = << >> /\ r.block = b /\ r.instrs = i
  BY <1>2, <1>3, <1>4, <1>5 DEF StateRecords
<1>7. CASE k = input.statesNum[b]
  <2>1. ChainState(b, k) = Branch(b, r)
    BY <1>1, <1>7 DEF ChainState, r
  <2>2. /\ Branch(b, r) \in StateRecords
        /\ Branch(b, r).instrs = r.instrs /\ Branch(b, r).block = r.block
        /\ Branch(b, r).default = Branch(b, NewState).default
        /\ Branch(b, r).transitions = Branch(b, NewState).transitions
        /\ Branch(b, r).transitions # << >> => Branch(b, r).variable = Terminator(F, b)
    BY <1>6, BranchFields
  <2>3. ~(k < input.statesNum[b])
    BY <1>1, <1>7
  <2> QED BY <2>1, <2>2, <2>3, <1>6, <1>7 DEF i
<1>8. CASE k # input.statesNum[b]
  <2> DEFINE d == StateOrder(b, k + 1)
  <2>1. ChainState(b, k) = [r EXCEPT !.default = d]
    BY <1>1, <1>8 DEF ChainState, r
  <2>2. d \in Nat
    BY <1>1 DEF StateOrder
  <2> HIDE DEF d
  <2>3. /\ ChainState(b, k) \in StateRecords
        /\ ChainState(b, k).block = b /\ ChainState(b, k).instrs = i
        /\ ChainState(b, k).transitions = << >> /\ ChainState(b, k).default = d
    BY <2>1, <2>2, <1>6 DEF StateRecords
  <2> QED BY <2>3, <1>8 DEF i, d
<1> QED BY <1>7, <1>8

-----------------------------------------------------------------------------
(* Lists.                                                                  *)

(* Where x is in a list. *)
Place(l, x) == SelectInSeq(l, LAMBDA y : y = x)

(* It is where it is found. *)
LEMMA PlaceIs ==
    ASSUME NEW l \in Seq(Nat), \A q, r \in 1..Len(l) : l[q] = l[r] => q = r,
           NEW q \in 1..Len(l)
    PROVE  Place(l, l[q]) = q
<1> DEFINE I == {i \in 1..Len(l) : l[i] = l[q]}
<1>1. I = {q}
  OBVIOUS
<1>2. Place(l, l[q]) = IF I # {} THEN Min(I) ELSE 0
  BY DEF Place, SelectInSeq
<1>3. Min({q}) = q
  <2>1. IsFiniteSet({q})
    BY FS_Singleton
  <2>2. {q} \subseteq Int /\ {q} # {}
    OBVIOUS
  <2> QED BY <2>1, <2>2, MinIsLeast
<1> HIDE DEF I
<1> QED BY <1>1, <1>2, <1>3

(* The sequence w has the elements of u, then those of v. *)
Follows(w, u, v) ==
    /\ Len(w) = Len(u) + Len(v) /\ Len(u) \in Nat /\ Len(v) \in Nat
    /\ \A x \in 1..Len(u) : w[x] = u[x]
    /\ \A x \in 1..Len(v) : w[Len(u) + x] = v[x]

(* A concatenation has. *)
LEMMA Concatenated ==
    ASSUME NEW S, NEW u \in Seq(S), NEW v \in Seq(S)
    PROVE  u \o v \in Seq(S) /\ Follows(u \o v, u, v)
<1> DEFINE w == u \o v
<1>1. Len(u) \in Nat /\ Len(v) \in Nat
  OBVIOUS
<1>2. w \in Seq(S) /\ Len(w) = Len(u) + Len(v)
  OBVIOUS
<1>3. \A x \in 1..(Len(u) + Len(v)) : w[x] = IF x <= Len(u) THEN u[x] ELSE v[x - Len(u)]
  BY <1>1
<1>4. \A x \in 1..Len(u) : x \in 1..(Len(u) + Len(v)) /\ x <= Len(u)
  BY <1>1
<1>5. \A x \in 1..Len(v) : /\ Len(u) + x \in 1..(Len(u) + Len(v)) /\ ~(Len(u) + x <= Len(u))
                           /\ (Len(u) + x) - Len(u) = x
  BY <1>1
<1> HIDE DEF w
<1>6. Follows(w, u, v)
  BY <1>1, <1>2, <1>3, <1>4, <1>5 DEF Follows
<1> QED BY <1>2, <1>6 DEF w

(* An element of a sequence is replaced. *)
LEMMA Updated ==
    ASSUME NEW S, NEW u \in Seq(S), NEW e \in S, NEW i \in 1..Len(u)
    PROVE  /\ [u EXCEPT ![i] = e] \in Seq(S) /\ Len([u EXCEPT ![i] = e]) = Len(u)
           /\ [u EXCEPT ![i] = e][i] = e
           /\ \A x \in 1..Len(u) : x # i => [u EXCEPT ![i] = e][x] = u[x]
<1> DEFINE w == [u EXCEPT ![i] = e]
<1>1. DOMAIN u = 1..Len(u) /\ Len(u) \in Nat
  OBVIOUS
<1>2. w = [x \in 1..Len(u) |-> IF x = i THEN e ELSE u[x]]
  BY <1>1
<1>3. \A x \in 1..Len(u) : w[x] \in S
  BY <1>2
<1>4. w \in [1..Len(u) -> S]
  BY <1>2, <1>3
<1>5. w \in Seq(S) /\ Len(w) = Len(u)
  <2> HIDE DEF w
  <2> QED BY <1>1, <1>4
<1> QED BY <1>2, <1>5

(* The list r is the list l with those from n + 1 to n + m inserted after  *)
(* place at.                                                               *)
Inserted(l, r, at, m) ==
    /\ r \in Seq(Nat) /\ Len(r) = Len(l) + m
    /\ \A q \in 1..at : r[q] = l[q]
    /\ \A q \in 1..m : r[at + q] = Len(l) + q
    /\ \A q \in (at + 1)..Len(l) : r[q + m] = l[q]

(* What the concatenation of createState makes of the list.                *)
LEMMA InsertionIs ==
    ASSUME NEW l \in Seq(Nat), NEW at \in 1..Len(l), NEW m \in Nat,
           NEW new, new = [k \in 1..m |-> Len(l) + k]
    PROVE  Inserted(l, SubSeq(l, 1, at) \o new \o SubSeq(l, at + 1, Len(l)), at, m)
<1> DEFINE a == SubSeq(l, 1, at)
           c == SubSeq(l, at + 1, Len(l))
           r == a \o new \o c
<1>1. Len(l) \in Nat /\ at \in Nat /\ at <= Len(l)
  OBVIOUS
<1>2. a \in Seq(Nat) /\ Len(a) = at /\ \A q \in 1..at : a[q] = l[q]
  BY <1>1
<1>3. c \in Seq(Nat) /\ Len(c) = Len(l) - at /\ \A q \in 1..(Len(l) - at) : c[q] = l[at + q]
  BY <1>1
<1>4. new \in Seq(Nat) /\ Len(new) = m /\ \A q \in 1..m : new[q] = Len(l) + q
  BY <1>1
<1> HIDE DEF a, c
<1> DEFINE d == a \o new
<1>5. /\ d \in Seq(Nat) /\ Len(d) = at + m
      /\ \A q \in 1..at : d[q] = a[q]
      /\ \A q \in 1..m : d[at + q] = new[q]
  <2>1. d \in Seq(Nat) /\ Follows(d, a, new)
    BY <1>2, <1>4, Concatenated
  <2> HIDE DEF d
  <2> QED BY <2>1, <1>2, <1>4 DEF Follows
<1> HIDE DEF d
<1>6. r = d \o c
  BY DEF d
<1> HIDE DEF r
<1>7. /\ r \in Seq(Nat) /\ Len(r) = at + m + (Len(l) - at)
      /\ \A q \in 1..(at + m) : r[q] = d[q]
      /\ \A q \in 1..(Len(l) - at) : r[at + m + q] = c[q]
  <2>1. d \o c \in Seq(Nat) /\ Follows(d \o c, d, c)
    BY <1>3, <1>5, Concatenated
  <2>2. r \in Seq(Nat) /\ Follows(r, d, c)
    BY <2>1, <1>6
  <2> QED BY <2>2, <1>3, <1>5 DEF Follows
<1>8. Len(r) = Len(l) + m
  BY <1>1, <1>7
<1>9. \A q \in 1..at : r[q] = l[q]
  <2>1. \A q \in 1..at : q \in 1..(at + m)
    BY <1>1
  <2> QED BY <2>1, <1>2, <1>5, <1>7
<1>10. \A q \in 1..m : r[at + q] = Len(l) + q
  <2>1. \A q \in 1..m : at + q \in 1..(at + m)
    BY <1>1
  <2> QED BY <2>1, <1>4, <1>5, <1>7
<1>11. \A q \in (at + 1)..Len(l) : r[q + m] = l[q]
  <2> SUFFICES ASSUME NEW q \in (at + 1)..Len(l) PROVE r[q + m] = l[q]
    OBVIOUS
  <2>1. q - at \in 1..(Len(l) - at) /\ at + m + (q - at) = q + m /\ at + (q - at) = q
    BY <1>1
  <2>2. r[at + m + (q - at)] = c[q - at]
    BY <2>1, <1>7
  <2>3. c[q - at] = l[at + (q - at)]
    BY <2>1, <1>3
  <2> QED BY <2>1, <2>2, <2>3
<1> QED BY <1>7, <1>8, <1>9, <1>10, <1>11 DEF Inserted, r, a, c

(* A place of the longer list is one before, in or after the insertion.    *)
PlacedIn(l, r, at, m, q) ==
    \/ q \in 1..at /\ r[q] = l[q]
    \/ \E k \in 1..m : q = at + k /\ r[q] = Len(l) + k
    \/ \E x \in (at + 1)..Len(l) : q = x + m /\ r[q] = l[x]

(* Every place is. *)
LEMMA InsertedPlaces ==
    ASSUME NEW l \in Seq(Nat), NEW r, NEW at \in 1..Len(l), NEW m \in Nat,
           Inserted(l, r, at, m)
    PROVE  \A q \in 1..Len(r) : PlacedIn(l, r, at, m, q)
<1> SUFFICES ASSUME NEW q \in 1..Len(r) PROVE PlacedIn(l, r, at, m, q)
  OBVIOUS
<1> USE DEF PlacedIn
<1>1. Len(l) \in Nat /\ at \in Nat /\ at <= Len(l) /\ Len(r) = Len(l) + m
  BY DEF Inserted
<1>2. CASE q <= at
  BY <1>1, <1>2 DEF Inserted
<1>3. CASE at < q /\ q <= at + m
  <2>1. q - at \in 1..m /\ at + (q - at) = q
    BY <1>1, <1>3
  <2>2. r[at + (q - at)] = Len(l) + (q - at)
    BY <2>1 DEF Inserted
  <2> QED BY <2>1, <2>2
<1>4. CASE at + m < q
  <2>1. q - m \in (at + 1)..Len(l) /\ (q - m) + m = q
    BY <1>1, <1>4
  <2>2. r[(q - m) + m] = l[q - m]
    BY <2>1 DEF Inserted
  <2> QED BY <2>1, <2>2
<1> QED BY <1>1, <1>2, <1>3, <1>4

(* A list has the numbers up to its length, each once.                     *)
Enumerates(l) ==
    /\ \A q \in 1..Len(l) : l[q] \in 1..Len(l)
    /\ \A s \in 1..Len(l) : \E q \in 1..Len(l) : l[q] = s
    /\ \A q, x \in 1..Len(l) : l[q] = l[x] => q = x

(* An insertion makes such a list of such a list.                          *)
LEMMA InsertedListed ==
    ASSUME NEW l \in Seq(Nat), NEW r, NEW at \in 1..Len(l), NEW m \in Nat,
           Inserted(l, r, at, m), Enumerates(l)
    PROVE  Enumerates(r) /\ r[1] = l[1]
<1> DEFINE n == Len(l)
<1>1. n \in Nat /\ at \in Nat /\ 1 <= at /\ at <= n /\ Len(r) = n + m /\ 1 \in 1..at
  BY DEF Inserted
<1>2. \A q \in 1..(n + m) :
           \/ q \in 1..at /\ r[q] = l[q]
           \/ \E k \in 1..m : q = at + k /\ r[q] = n + k
           \/ \E x \in (at + 1)..n : q = x + m /\ r[q] = l[x]
  <2>1. \A q \in 1..Len(r) : PlacedIn(l, r, at, m, q)
    BY InsertedPlaces
  <2> QED BY <2>1, <1>1 DEF PlacedIn
<1>3. /\ \A q \in 1..at : r[q] = l[q]
      /\ \A k \in 1..m : r[at + k] = n + k
      /\ \A q \in (at + 1)..n : r[q + m] = l[q]
  BY DEF Inserted
<1>4. /\ \A q \in 1..n : l[q] \in 1..n
      /\ \A s \in 1..n : \E q \in 1..n : l[q] = s
      /\ \A q, x \in 1..n : l[q] = l[x] => q = x
  BY DEF Enumerates
<1> HIDE DEF n
<1>5. ASSUME NEW q \in 1..(n + m) PROVE r[q] \in 1..(n + m)
  <2>0. \A z \in 1..n : z \in 1..(n + m)
    BY <1>1
  <2>1. CASE q \in 1..at /\ r[q] = l[q]
    <3>1. q \in 1..n
      BY <2>1, <1>1
    <3> QED BY <2>1, <3>1, <2>0, <1>4
  <2>2. CASE \E k \in 1..m : q = at + k /\ r[q] = n + k
    BY <2>2, <1>1
  <2>3. CASE \E x \in (at + 1)..n : q = x + m /\ r[q] = l[x]
    <3>1. PICK x \in (at + 1)..n : q = x + m /\ r[q] = l[x]
      BY <2>3
    <3>2. x \in 1..n
      BY <1>1
    <3> QED BY <3>1, <3>2, <2>0, <1>4
  <2> QED BY <2>1, <2>2, <2>3, <1>2
<1>6. ASSUME NEW s \in 1..(n + m) PROVE \E q \in 1..(n + m) : r[q] = s
  <2>1. CASE s \in 1..n
    <3>1. PICK q \in 1..n : l[q] = s
      BY <2>1, <1>4
    <3>2. CASE q \in 1..at
      <4>1. q \in 1..(n + m)
        BY <1>1
      <4> QED BY <3>1, <3>2, <4>1, <1>3
    <3>3. CASE q \in (at + 1)..n
      <4>1. q + m \in 1..(n + m)
        BY <1>1
      <4> QED BY <3>1, <3>3, <4>1, <1>3
    <3> QED BY <3>2, <3>3, <1>1
  <2>2. CASE s \notin 1..n
    <3>1. s - n \in 1..m /\ n + (s - n) = s /\ at + (s - n) \in 1..(n + m)
      BY <2>2, <1>1
    <3> QED BY <3>1, <1>3
  <2> QED BY <2>1, <2>2
<1>7. ASSUME NEW q \in 1..(n + m), NEW y \in 1..(n + m), r[q] = r[y] PROVE q = y
  <2> DEFINE At(z, x) == x \in 1..n /\ r[z] = l[x] /\ (z = x \/ z = x + m) /\ (z = x <=> x <= at \/ m = 0)
             New(z, k) == k \in 1..m /\ z = at + k /\ r[z] = n + k
  <2>1. ASSUME NEW z \in 1..(n + m)
        PROVE  (\E x \in 1..n : At(z, x)) \/ (\E k \in 1..m : New(z, k))
    <3>1. CASE z \in 1..at /\ r[z] = l[z]
      <4>1. z \in 1..n /\ z <= at
        BY <3>1, <1>1
      <4> QED BY <4>1, <3>1
    <3>2. CASE \E x \in (at + 1)..n : z = x + m /\ r[z] = l[x]
      <4>1. PICK x \in (at + 1)..n : z = x + m /\ r[z] = l[x]
        BY <3>2
      <4>2. x \in 1..n /\ ~(x <= at) /\ (z = x <=> m = 0)
        BY <4>1, <1>1
      <4> QED BY <4>1, <4>2
    <3> QED BY <3>1, <3>2, <1>2
  <2>2. CASE (\E x \in 1..n : At(q, x)) /\ (\E x \in 1..n : At(y, x))
    <3>1. PICK u \in 1..n : At(q, u)
      BY <2>2
    <3>2. PICK v \in 1..n : At(y, v)
      BY <2>2
    <3>3. u = v
      BY <3>1, <3>2, <1>4, <1>7
    <3> QED BY <3>1, <3>2, <3>3
  <2>3. CASE (\E k \in 1..m : New(q, k)) /\ (\E k \in 1..m : New(y, k))
    <3>1. PICK u \in 1..m : New(q, u)
      BY <2>3
    <3>2. PICK v \in 1..m : New(y, v)
      BY <2>3
    <3>3. n + u = n + v
      BY <3>1, <3>2, <1>7
    <3>4. u = v
      BY <3>3, <1>1
    <3> QED BY <3>1, <3>2, <3>4
  <2>4. ASSUME NEW z \in 1..(n + m), NEW w \in 1..(n + m), NEW x \in 1..n, NEW k \in 1..m,
               At(z, x), New(w, k), r[z] = r[w]
        PROVE  FALSE
    <3>1. l[x] \in 1..n /\ l[x] = n + k
      BY <2>4, <1>4
    <3> QED BY <3>1, <1>1
  <2> HIDE DEF At, New
  <2> QED BY <2>1, <2>2, <2>3, <2>4, <1>7
<1> QED BY <1>1, <1>3, <1>5, <1>6, <1>7 DEF n, Enumerates

-----------------------------------------------------------------------------
(* The first state of createFsm.                                           *)

LEMMA InitIInv == MapInit => IInv
<1> SUFFICES ASSUME MapInit PROVE IInv
  OBVIOUS
<1> DEFINE r == [NewState EXCEPT !.default = Wait]
<1>1. IsControlFlow(F) /\ input \in Schedules
  BY SchedulesAssumption DEF MapInit, F
<1>2. /\ Len(F.succ) \in Nat \ {0} /\ Blocks(F) = 1..Len(F.succ) /\ 1 \in Blocks(F)
      /\ Len(F.op) \in Nat /\ Instrs(F) = 1..Len(F.op)
  BY <1>1, ControlFlowShape
<1>3. /\ r \in StateRecords /\ r.default = 1 /\ r.transitions = << >> /\ r.instrs = << >>
      /\ r.block = 0
  <2>1. NewState \in StateRecords
    BY DEF NewState, StateRecords, Null, NoVariable
  <2>2. NewState.transitions = << >> /\ NewState.instrs = << >> /\ NewState.block = 0
    BY DEF NewState, Null
  <2>3. r = [NewState EXCEPT !.default = 1]
    BY DEF Wait
  <2> HIDE DEF r
  <2> QED BY <2>1, <2>2, <2>3 DEF StateRecords
<1> HIDE DEF r
<1>4. /\ pc = "createFirstStates" /\ cursor = 1 /\ list = <<1>> /\ state = <<r>>
      /\ firstState = [b \in Blocks(F) |-> 0] /\ bbIds = [b \in Blocks(F) |-> 0]
      /\ startState = [i \in Instrs(F) |-> 0] /\ endState = [i \in Instrs(F) |-> 0]
  BY DEF MapInit, Wait, Null, r
<1>5. /\ Len(list) = 1 /\ Len(state) = 1 /\ list[1] = 1 /\ state[1] = r
      /\ DOMAIN state = {1} /\ DOMAIN list = {1}
      /\ list \in Seq(Nat) /\ list \in Seq({1}) /\ state \in Seq(StateRecords)
      /\ 1..1 = {1} /\ 2..1 = {}
  BY <1>3, <1>4
<1>6. ShapeOK
  BY <1>1, <1>2, <1>4, <1>5 DEF ShapeOK
<1>7. MapTypeOK
  <2>1. list \in Seq(DOMAIN state)
    BY <1>5
  <2>2. ASSUME NEW s \in DOMAIN state
        PROVE  /\ state[s].default \in DOMAIN state \cup {Null}
               /\ \A k \in DOMAIN state[s].transitions :
                    state[s].transitions[k][1] \in DOMAIN state \cup {Null}
               /\ state[s].instrs \in Seq(Instrs(F))
    <3>1. s = 1 /\ state[s] = r
      BY <1>5
    <3>2. r.transitions = << >> /\ DOMAIN r.transitions = {}
      BY <1>3
    <3> QED BY <3>1, <3>2, <1>3, <1>5
  <2>3. /\ firstState \in [Blocks(F) -> DOMAIN state \cup {Null}]
        /\ startState \in [Instrs(F) -> DOMAIN state \cup {Null}]
        /\ endState \in [Instrs(F) -> DOMAIN state \cup {Null}]
        /\ bbIds \in [Blocks(F) -> Nat]
    BY <1>4 DEF Null
  <2> QED BY <1>1, <1>2, <1>4, <2>1, <2>2, <2>3 DEF MapTypeOK
<1>8. Listed
  BY <1>5 DEF Listed, Wait
<1>9. Runs /\ Numbered
  <2>1. \A b \in Blocks(F) : ~(b < 1)
    BY <1>2
  <2> QED BY <2>1, <1>4 DEF Runs, Numbered, Begun
<1>10. Owned
  BY <1>5 DEF Owned
<1>11. WaitOK
  <2>1. \A b \in Blocks(F) : b # 0
    BY <1>2
  <2> QED BY <2>1, <1>3, <1>4, <1>5 DEF WaitOK, Wait
<1>12. NamesGiven
  BY <1>4 DEF NamesGiven
<1> QED BY <1>6, <1>7, <1>8, <1>9, <1>10, <1>11, <1>12 DEF IInv

-----------------------------------------------------------------------------
(* The step of createFirstStates.                                          *)

(* A step of the first loop passes the block of the cursor. *)
LEMMA FirstAdvance ==
    ASSUME ShapeOK, createFirstStates
    PROVE  /\ input' = input /\ F' = F /\ cursor' \in Blocks(F)
           /\ pc' \in {"createFirstStates", "linkWaitState"}
           /\ pc' = "linkWaitState" => cursor' = 1
           /\ \A b \in Blocks(F) :
                /\ HasStates(b)' <=> HasStates(b)
                /\ (pc' = "createFirstStates" => b < cursor') <=> b <= cursor
                /\ Begun(b)' <=> Begun(b) \/ (HasStates(b) /\ b = cursor)
                /\ ~Chained(b) /\ ~Chained(b)' /\ Beyond(b) = 0 /\ Beyond(b)' = 0
<1>1. IsControlFlow(F) /\ input' = input /\ F' = F /\ pc = "createFirstStates"
  BY SchedulesAssumption DEF ShapeOK, createFirstStates, F
<1>2. Len(F.succ) \in Nat \ {0} /\ Blocks(F) = 1..Len(F.succ)
  BY <1>1, ControlFlowShape
<1>3. cursor \in 1..Len(F.succ)
  BY <1>2 DEF ShapeOK
<1>4. \/ cursor < Len(F.succ) /\ cursor' = cursor + 1 /\ pc' = "createFirstStates"
      \/ cursor = Len(F.succ) /\ cursor' = 1 /\ pc' = "linkWaitState"
  BY <1>1, <1>2, <1>3 DEF createFirstStates, Advance
<1>5. /\ cursor' \in Blocks(F) /\ pc' \in {"createFirstStates", "linkWaitState"}
      /\ pc' = "linkWaitState" => cursor' = 1
  BY <1>2, <1>3, <1>4
<1>6. ASSUME NEW b \in Blocks(F)
      PROVE  /\ HasStates(b)' <=> HasStates(b)
             /\ (pc' = "createFirstStates" => b < cursor') <=> b <= cursor
  BY <1>1, <1>2, <1>3, <1>4 DEF HasStates
<1>7. ASSUME NEW b \in Blocks(F)
      PROVE  Begun(b)' <=> Begun(b) \/ (HasStates(b) /\ b = cursor)
  <2>1. b <= cursor <=> b < cursor \/ b = cursor
    BY <1>2, <1>3
  <2> QED BY <2>1, <1>1, <1>6 DEF Begun
<1>8. ASSUME NEW b \in Blocks(F)
      PROVE  ~Chained(b) /\ ~Chained(b)' /\ Beyond(b) = 0 /\ Beyond(b)' = 0
  BY <1>1, <1>5 DEF Chained, Beyond
<1> QED BY <1>1, <1>5, <1>6, <1>7, <1>8

(* A block with states gets its first one, at the end of the list.         *)
LEMMA FirstStateMade ==
    ASSUME IInv, createFirstStates, HasStates(cursor)
    PROVE  /\ Len(list) \in Nat /\ Len(list) > 0
           /\ list' \in Seq(Nat) /\ state' \in Seq(StateRecords)
           /\ Len(list') = Len(list) + 1 /\ Len(state') = Len(list) + 1
           /\ \A q \in 1..Len(list) :
                list'[q] = list[q] /\ list[q] \in 1..Len(list) /\ state'[q] = state[q]
           /\ list'[Len(list) + 1] = Len(list) + 1
           /\ state'[Len(list) + 1] = [NewState EXCEPT !.block = cursor]
           /\ state'[Len(list) + 1] \in StateRecords
           /\ state'[Len(list) + 1].block = cursor /\ state'[Len(list) + 1].default = 0
           /\ state'[Len(list) + 1].transitions = << >>
           /\ state'[Len(list) + 1].instrs = << >>
           /\ firstState' = [firstState EXCEPT ![cursor] = Len(list) + 1]
<1>1. /\ list \in Seq(Nat) /\ state \in Seq(StateRecords) /\ Len(list) = Len(state)
      /\ Len(list) > 0 /\ \A q \in 1..Len(list) : list[q] \in 1..Len(list)
      /\ cursor \in Blocks(F) /\ IsControlFlow(F)
  BY SchedulesAssumption DEF IInv, ShapeOK, Listed, F
<1>2. cursor \in Nat
  BY <1>1, ControlFlowShape
<1> DEFINE r == [NewState EXCEPT !.block = cursor]
           n == Len(state) + 1
<1>3. /\ list' = Append(list, n) /\ state' = Append(state, r)
      /\ firstState' = [firstState EXCEPT ![cursor] = n]
  BY DEF createFirstStates, HasStates
<1>4. /\ r \in StateRecords /\ r.block = cursor /\ r.default = 0 /\ r.transitions = << >>
      /\ r.instrs = << >>
  <2>1. NewState \in StateRecords
    BY DEF NewState, StateRecords, Null, NoVariable
  <2>2. NewState.transitions = << >> /\ NewState.instrs = << >> /\ NewState.default = 0
    BY DEF NewState, Null
  <2>3. r = [NewState EXCEPT !.block = cursor]
    OBVIOUS
  <2> HIDE DEF r
  <2> QED BY <2>1, <2>2, <2>3, <1>2 DEF StateRecords
<1> HIDE DEF r
<1>5. n \in Nat /\ n = Len(list) + 1
  BY <1>1
<1> HIDE DEF n
<1>6. /\ list' \in Seq(Nat) /\ Len(list') = Len(list) + 1 /\ list'[Len(list) + 1] = n
      /\ \A q \in 1..Len(list) : list'[q] = list[q]
  BY <1>1, <1>3, <1>5
<1>7. /\ state' \in Seq(StateRecords) /\ Len(state') = Len(list) + 1 /\ state'[Len(list) + 1] = r
      /\ \A q \in 1..Len(list) : state'[q] = state[q]
  BY <1>1, <1>3, <1>4
<1> QED BY <1>1, <1>3, <1>4, <1>5, <1>6, <1>7 DEF r

(* The list stays a list of all states, and the blocks keep their places.  *)
LEMMA FirstStateListed ==
    ASSUME IInv, createFirstStates, HasStates(cursor)
    PROVE  Listed' /\ Runs' /\ Owned'
<1>5. PICK n : n = Len(list)
  OBVIOUS
<1>1. /\ n \in Nat /\ n > 0 /\ Len(list') = n + 1 /\ Len(state') = n + 1
      /\ \A q \in 1..n : list'[q] = list[q] /\ list[q] \in 1..n /\ state'[q] = state[q]
      /\ list'[n + 1] = n + 1 /\ state'[n + 1].block = cursor
      /\ firstState' = [firstState EXCEPT ![cursor] = n + 1]
  BY <1>5, FirstStateMade
<1>2. /\ F' = F
      /\ \A b \in Blocks(F) :
           /\ Begun(b)' <=> Begun(b) \/ (HasStates(b) /\ b = cursor)
           /\ ~Chained(b)' /\ Beyond(b) = 0 /\ Beyond(b)' = 0
  BY FirstAdvance DEF IInv
<1>3. Listed /\ Runs /\ Owned /\ ShapeOK
  BY DEF IInv
<1>4. cursor \in Blocks(F) /\ firstState \in [Blocks(F) -> Nat] /\ ~Begun(cursor)
  <2>1. cursor \in Nat
    <3>1. IsControlFlow(F) /\ cursor \in Blocks(F)
      BY <1>3, SchedulesAssumption DEF ShapeOK, F
    <3> QED BY <3>1, ControlFlowShape
  <2> QED BY <1>3, <2>1 DEF ShapeOK, Begun, createFirstStates
<1>6. Listed'
  <2>1. n + 1 > 0 /\ 1 \in 1..n /\ \A q \in 1..(n + 1) : q \in 1..n \/ q = n + 1
    BY <1>1
  <2>2. list'[1] = Wait
    BY <2>1, <1>1, <1>3 DEF Listed
  <2>3. \A q \in 1..(n + 1) : list'[q] \in 1..(n + 1)
    BY <2>1, <1>1
  <2>4. \A s \in 1..(n + 1) : \E q \in 1..(n + 1) : list'[q] = s
    <3>1. ASSUME NEW s \in 1..n PROVE \E q \in 1..(n + 1) : list'[q] = s
      <4>1. PICK q \in 1..n : list[q] = s
        BY <1>3, <1>5 DEF Listed
      <4>2. q \in 1..(n + 1)
        BY <1>1
      <4> QED BY <4>1, <4>2, <1>1
    <3>2. n + 1 \in 1..(n + 1)
      BY <1>1
    <3> QED BY <3>1, <3>2, <2>1, <1>1
  <2>5. \A q, r \in 1..(n + 1) : list'[q] = list'[r] => q = r
    <3> SUFFICES ASSUME NEW q \in 1..(n + 1), NEW r \in 1..(n + 1), list'[q] = list'[r]
                 PROVE  q = r
      OBVIOUS
    <3>1. \A x \in 1..n : list'[x] # n + 1
      BY <1>1
    <3>2. CASE q \in 1..n /\ r \in 1..n
      BY <3>2, <1>1, <1>3, <1>5 DEF Listed
    <3> QED BY <3>1, <3>2, <2>1, <1>1
  <2> QED BY <2>1, <2>2, <2>3, <2>4, <2>5, <1>1 DEF Listed
<1>7. \A q \in 2..n : /\ q \in 1..n /\ state'[list'[q]] = state[list[q]]
                        /\ state[list[q]].block \in Blocks(F) /\ Begun(state[list[q]].block)
                        /\ state[list[q]].block # cursor
  <2>1. \A q \in 2..n : q \in 1..n
    BY <1>1
  <2> QED BY <2>1, <1>1, <1>3, <1>4, <1>5 DEF Owned
<1>8. state'[list'[n + 1]].block = cursor /\ n + 1 \in 2..(n + 1)
      /\ \A q \in 2..(n + 1) : q \in 2..n \/ q = n + 1
  BY <1>1
<1>9. Owned'
  <2>1. \A c \in Blocks(F) : Begun(c) \/ (HasStates(c) /\ c = cursor) =>
           ~isBasicBlockEmpty(F', c) /\ (pc' = "createFirstStates" => c < cursor')
    <3>1. \A c \in Blocks(F) :
             Begun(c)' => ~isBasicBlockEmpty(F', c) /\ (pc' = "createFirstStates" => c < cursor')
      BY DEF Begun, HasStates
    <3> QED BY <3>1, <1>2
  <2>2. \A q \in 2..(n + 1) : \E c \in Blocks(F) :
           c = state'[list'[q]].block /\ (Begun(c) \/ (HasStates(c) /\ c = cursor))
    BY <1>4, <1>7, <1>8
  <2>3. \A q \in 2..Len(list') :
           /\ state'[list'[q]].block \in Blocks(F')
           /\ ~isBasicBlockEmpty(F', state'[list'[q]].block)
           /\ pc' = "createFirstStates" => state'[list'[q]].block < cursor'
    BY <2>1, <2>2, <1>1, <1>2
  <2> QED BY <2>3 DEF Owned, Begun, HasStates
<1>10. Runs'
  <2> SUFFICES ASSUME NEW b \in Blocks(F), Begun(b)'
               PROVE  \E p \in Nat : RunAt(b, p)' /\ (Chained(b) => LinkedAt(b, p) /\ PlacedAt(b, p))'
    BY <1>2 DEF Runs
  <2>1. ~Chained(b)' /\ Beyond(b)' = 0 /\ Beyond(b) = 0
    BY <1>2
  <2>2. CASE b = cursor
    <3>1. RunAt(b, n + 1)'
      <4>1. \A q \in 2..(n + 1) : state'[list'[q]].block = b <=> q \in (n + 1)..(n + 1)
        <5>1. \A q \in 2..n : q \notin (n + 1)..(n + 1)
          BY <1>1
        <5>2. n + 1 \in (n + 1)..(n + 1)
          BY <1>1
        <5> QED BY <5>1, <5>2, <1>7, <1>8, <2>2
      <4>2. list'[n + 1] = firstState'[b] /\ n + 1 \in 2..(n + 1) /\ n + 1 + 0 = n + 1
        BY <1>1, <1>4, <1>8, <2>2
      <4> QED BY <4>1, <4>2, <2>1, <1>1 DEF RunAt
    <3> QED BY <3>1, <2>1, <1>1
  <2>3. CASE b # cursor
    <3>1. PICK p \in Nat : RunAt(b, p)
      BY <2>3, <1>2, <1>3 DEF Runs
    <3>2. /\ p \in 2..n /\ list[p] = firstState[b] /\ p + 0 = p
          /\ \A q \in 2..n : state[list[q]].block = b <=> q \in p..p
      BY <3>1, <2>1, <1>5 DEF RunAt
    <3>3. p \in 2..(n + 1) /\ list'[p] = firstState'[b]
      BY <3>2, <1>1, <1>4, <1>7, <2>3
    <3>4. \A q \in 2..(n + 1) : state'[list'[q]].block = b <=> q \in p..p
      <4>1. n + 1 \notin p..p
        BY <3>2, <1>1
      <4> QED BY <4>1, <3>2, <1>7, <1>8, <2>3
    <3>5. RunAt(b, p)'
      BY <3>2, <3>3, <3>4, <2>1, <1>1 DEF RunAt
    <3> QED BY <3>5, <2>1
  <2> QED BY <2>2, <2>3
<1> QED BY <1>6, <1>9, <1>10

(* The invariant is kept. *)
LEMMA createFirstStatesStep == IInv /\ createFirstStates => IInv'
<1> SUFFICES ASSUME IInv, createFirstStates PROVE IInv'
  OBVIOUS
<1> USE DEF HasStates
<1>1. PICK n : n = Len(list)
  OBVIOUS
<1>2. /\ ShapeOK /\ MapTypeOK /\ Listed /\ Runs /\ Owned /\ WaitOK /\ Numbered /\ NamesGiven
      /\ Len(state) = n /\ n \in Nat /\ n > 0 /\ 1 \in 1..n
      /\ DOMAIN list = 1..n /\ DOMAIN state = 1..n
  BY <1>1 DEF IInv, ShapeOK, Listed
<1>3. IsControlFlow(F) /\ cursor \in Blocks(F)
  BY <1>2, SchedulesAssumption DEF ShapeOK, F
<1>4. Len(F.succ) \in Nat \ {0} /\ Blocks(F) = 1..Len(F.succ)
  BY <1>3, ControlFlowShape
<1>5. /\ input' = input /\ F' = F /\ cursor' \in Blocks(F)
      /\ pc' \in {"createFirstStates", "linkWaitState"}
      /\ pc' = "linkWaitState" => cursor' = 1
      /\ \A b \in Blocks(F) :
           /\ (pc' = "createFirstStates" => b < cursor') <=> b <= cursor
           /\ Begun(b)' <=> Begun(b) \/ (HasStates(b) /\ b = cursor)
           /\ ~Chained(b) /\ ~Chained(b)' /\ Beyond(b) = 0 /\ Beyond(b)' = 0
  BY <1>2, FirstAdvance
<1>6. /\ pc = "createFirstStates" /\ startState' = startState /\ endState' = endState
      /\ bbIds' = [bbIds EXCEPT ![cursor] =
                      Cardinality({b \in 1..(cursor - 1) : ~isBasicBlockEmpty(F, b)})]
  BY DEF createFirstStates
<1>7. Numbered' /\ bbIds' \in [Blocks(F) -> Nat]
  <2> DEFINE Before(b) == {c \in 1..(b - 1) : ~isBasicBlockEmpty(F, c)}
  <2>1. ASSUME NEW b \in Blocks(F) PROVE Cardinality(Before(b)) \in Nat
    <3>1. b - 1 \in Int /\ 1 \in Int /\ Before(b) \in SUBSET (1..(b - 1))
      BY <1>4
    <3>2. IsFiniteSet(1..(b - 1))
      BY <3>1, FS_Interval
    <3> HIDE DEF Before
    <3> QED BY <3>1, <3>2, FS_Subset, FS_CardinalityType
  <2>2. bbIds' = [bbIds EXCEPT ![cursor] = Cardinality(Before(cursor))]
    BY <1>6
  <2>3. \A b \in Blocks(F) : b < cursor => bbIds[b] = Cardinality(Before(b))
    BY <1>2, <1>6 DEF Numbered
  <2> HIDE DEF Before
  <2>4. bbIds' \in [Blocks(F) -> Nat]
    BY <2>1, <2>2, <1>2, <1>3 DEF ShapeOK
  <2>5. \A b \in Blocks(F) : b <= cursor => b < cursor \/ b = cursor
    BY <1>3, <1>4
  <2>6. \A b \in Blocks(F) : b <= cursor => bbIds'[b] = Cardinality(Before(b))
    BY <2>2, <2>3, <2>5, <1>2, <1>3 DEF ShapeOK
  <2>7. \A b \in Blocks(F) : (pc' = "createFirstStates" => b < cursor') =>
           bbIds'[b] = Cardinality({c \in 1..(b - 1) : ~isBasicBlockEmpty(F', c)})
    BY <2>6, <1>5 DEF Before
  <2> QED BY <2>4, <2>7, <1>5 DEF Numbered
<1>8. NamesGiven'
  BY <1>5 DEF NamesGiven
<1>9. CASE HasStates(cursor)
  <2>1. /\ list' \in Seq(Nat) /\ state' \in Seq(StateRecords)
        /\ Len(list') = n + 1 /\ Len(state') = n + 1
        /\ \A q \in 1..n :
             list'[q] = list[q] /\ list[q] \in 1..n /\ state'[q] = state[q]
        /\ list'[n + 1] = n + 1
        /\ state'[n + 1] \in StateRecords
        /\ state'[n + 1].block = cursor /\ state'[n + 1].default = 0
        /\ state'[n + 1].transitions = << >>
        /\ state'[n + 1].instrs = << >>
        /\ firstState' = [firstState EXCEPT ![cursor] = n + 1]
    BY <1>1, <1>9, FirstStateMade
  <2>2. /\ DOMAIN state' = 1..(n + 1) /\ n + 1 \in 1..(n + 1)
        /\ \A s \in 1..(n + 1) : s \in 1..n \/ s = n + 1
        /\ \A s \in 1..n : s \in 1..(n + 1)
    BY <2>1, <1>2
  <2>3. list' \in Seq(DOMAIN state')
    <3>1. \A q \in 1..(n + 1) : list'[q] \in 1..(n + 1)
      BY <2>1, <2>2
    <3> QED BY <3>1, <2>1, <2>2
  <2>4. \A s \in DOMAIN state' :
           /\ state'[s].default \in DOMAIN state' \cup {Null}
           /\ \A k \in DOMAIN state'[s].transitions :
                state'[s].transitions[k][1] \in DOMAIN state' \cup {Null}
           /\ state'[s].instrs \in Seq(Instrs(F))
    <3>1. ASSUME NEW s \in 1..n
          PROVE  /\ state'[s].default \in 1..(n + 1) \cup {Null}
                 /\ \A k \in DOMAIN state'[s].transitions :
                      state'[s].transitions[k][1] \in 1..(n + 1) \cup {Null}
                 /\ state'[s].instrs \in Seq(Instrs(F))
      <4>1. /\ state[s].default \in 1..n \cup {Null}
            /\ \A k \in DOMAIN state[s].transitions :
                 state[s].transitions[k][1] \in 1..n \cup {Null}
            /\ state[s].instrs \in Seq(Instrs(F))
        BY <1>2 DEF MapTypeOK
      <4> QED BY <4>1, <2>1, <2>2
    <3>2. /\ state'[n + 1].default \in 1..(n + 1) \cup {Null}
          /\ DOMAIN state'[n + 1].transitions = {}
          /\ state'[n + 1].instrs \in Seq(Instrs(F))
      BY <2>1 DEF Null
    <3> QED BY <3>1, <3>2, <2>2
  <2>5. /\ firstState' \in [Blocks(F) -> DOMAIN state' \cup {Null}]
        /\ startState' \in [Instrs(F) -> DOMAIN state' \cup {Null}]
        /\ endState' \in [Instrs(F) -> DOMAIN state' \cup {Null}]
        /\ firstState' \in [Blocks(F) -> Nat]
    <3>1. /\ firstState \in [Blocks(F) -> 1..n \cup {Null}]
          /\ startState \in [Instrs(F) -> 1..n \cup {Null}]
          /\ endState \in [Instrs(F) -> 1..n \cup {Null}]
          /\ firstState \in [Blocks(F) -> Nat]
      BY <1>2 DEF MapTypeOK, ShapeOK
    <3> QED BY <3>1, <2>1, <2>2, <1>2, <1>3, <1>6
  <2>6. cursor' \in Nat \ {0}
    BY <1>4, <1>5
  <2>7. MapTypeOK'
    BY <2>3, <2>4, <2>5, <2>6, <1>2, <1>5, <1>7 DEF MapTypeOK, ShapeOK
  <2>8. ShapeOK'
    BY <2>1, <2>5, <1>2, <1>5, <1>6, <1>7 DEF ShapeOK
  <2>9. WaitOK'
    <3>1. state'[1] = state[1]
      BY <2>1, <1>2
    <3> QED BY <3>1, <1>2, <1>5, <1>6 DEF WaitOK, Wait
  <2>10. Listed' /\ Runs' /\ Owned'
    BY <1>9, FirstStateListed
  <2> QED BY <2>7, <2>8, <2>9, <2>10, <1>7, <1>8 DEF IInv
<1>10. CASE ~HasStates(cursor)
  <2>1. list' = list /\ state' = state /\ firstState' = firstState
    BY <1>10 DEF createFirstStates
  <2>2. \A b \in Blocks(F) : Begun(b)' <=> Begun(b)
    BY <1>5, <1>10
  <2>3. ShapeOK'
    BY <2>1, <1>2, <1>5, <1>6, <1>7 DEF ShapeOK
  <2>4. cursor' \in Nat \ {0}
    BY <1>4, <1>5
  <2>5. MapTypeOK'
    BY <2>1, <2>4, <1>2, <1>5, <1>6, <1>7 DEF MapTypeOK
  <2>6. Listed'
    BY <2>1, <1>2 DEF Listed
  <2>7. Runs'
    <3> SUFFICES ASSUME NEW b \in Blocks(F), Begun(b)'
                 PROVE  \E p \in Nat : RunAt(b, p)' /\ (Chained(b) => LinkedAt(b, p) /\ PlacedAt(b, p))'
      BY <1>5 DEF Runs
    <3>1. PICK p \in Nat : RunAt(b, p)
      BY <2>2, <1>2 DEF Runs
    <3>2. RunAt(b, p)'
      BY <3>1, <2>1, <1>5 DEF RunAt
    <3> QED BY <3>2, <1>5
  <2>8. Owned'
    <3>1. \A c \in Blocks(F) : Begun(c) =>
             ~isBasicBlockEmpty(F', c) /\ (pc' = "createFirstStates" => c < cursor')
      <4>1. \A c \in Blocks(F) :
               Begun(c)' => ~isBasicBlockEmpty(F', c) /\ (pc' = "createFirstStates" => c < cursor')
        BY DEF Begun
      <4> QED BY <4>1, <2>2
    <3>2. \A q \in 2..Len(list) : state[list[q]].block \in Blocks(F) /\ Begun(state[list[q]].block)
      BY <1>2 DEF Owned
    <3> QED BY <3>1, <3>2, <2>1, <1>5 DEF Owned, Begun
  <2>9. WaitOK'
    BY <2>1, <1>2, <1>5, <1>6 DEF WaitOK
  <2> QED BY <2>3, <2>5, <2>6, <2>7, <2>8, <2>9, <1>7, <1>8 DEF IInv
<1> QED BY <1>9, <1>10

-----------------------------------------------------------------------------
(* The step of linkWaitState.                                              *)

(* Only the wait state changes. *)
LEMMA WaitLinked ==
    ASSUME IInv, linkWaitState
    PROVE  /\ state' \in Seq(StateRecords) /\ Len(state') = Len(state)
           /\ \A s \in 1..Len(state) : s # 1 => state'[s] = state[s]
           /\ state'[1].transitions = <<<<firstState[EntryBlock], 0>>>>
           /\ state'[1].default = 1 /\ state'[1].instrs = << >>
           /\ \A b \in Blocks(F) : HasStates(b) => state'[1].block # b
<1>1. /\ ShapeOK /\ WaitOK /\ input \in Schedules /\ state \in Seq(StateRecords)
      /\ Len(state) \in Nat /\ Len(state) > 0 /\ 1 \in 1..Len(state)
      /\ firstState \in [Blocks(F) -> Nat]
  BY DEF IInv, ShapeOK, Listed
<1>2. EntryBlock \in Blocks(F)
  BY <1>1, EntryHasStates
<1> DEFINE to == <<<<firstState[EntryBlock], 0>>>>
           w == state[1]
           v == state'[1]
<1>3. to \in Seq(Nat \X Nat)
  <2>1. firstState[EntryBlock] \in Nat
    BY <1>1, <1>2
  <2> QED BY <2>1
<1>4. w \in StateRecords /\ w.default = 1 /\ w.instrs = << >>
      /\ \A b \in Blocks(F) : HasStates(b) => w.block # b
  BY <1>1 DEF WaitOK, Wait
<1>5. state' = [state EXCEPT ![1] =
         IF isBasicBlockEmpty(F, 1)
         THEN [w EXCEPT !.terminating = TRUE, !.block = 1, !.transitions = to]
         ELSE [w EXCEPT !.transitions = to]]
  BY <1>1 DEF linkWaitState, EntryBlock, Wait, Null
<1> HIDE DEF to, w
<1>6. /\ v \in StateRecords /\ v.transitions = to /\ v.default = 1 /\ v.instrs = << >>
      /\ \A b \in Blocks(F) : HasStates(b) => v.block # b
  <2>1. CASE isBasicBlockEmpty(F, 1)
    <3>1. v = [w EXCEPT !.terminating = TRUE, !.block = 1, !.transitions = to]
      BY <1>1, <1>5, <2>1
    <3>2. /\ v \in StateRecords /\ v.transitions = to /\ v.default = 1 /\ v.instrs = << >>
          /\ v.block = 1
      <4> HIDE DEF v
      <4> QED BY <3>1, <1>3, <1>4 DEF StateRecords
    <3>3. \A b \in Blocks(F) : HasStates(b) => b # 1
      BY <2>1 DEF HasStates
    <3> QED BY <3>2, <3>3
  <2>2. CASE ~isBasicBlockEmpty(F, 1)
    <3>1. v = [w EXCEPT !.transitions = to]
      BY <1>1, <1>5, <2>2
    <3>2. /\ v \in StateRecords /\ v.transitions = to /\ v.default = 1 /\ v.instrs = << >>
          /\ v.block = w.block
      <4> HIDE DEF v
      <4> QED BY <3>1, <1>3, <1>4 DEF StateRecords
    <3> QED BY <3>2, <1>4
  <2> QED BY <2>1, <2>2
<1>7. PICK e : state' = [state EXCEPT ![1] = e]
  BY <1>5
<1>8. e = v
  BY <1>1, <1>7
<1>9. /\ state' \in Seq(StateRecords) /\ Len(state') = Len(state)
      /\ \A s \in 1..Len(state) : s # 1 => state'[s] = state[s]
  <2> HIDE DEF v
  <2> QED BY <1>1, <1>6, <1>7, <1>8, Updated
<1> QED BY <1>6, <1>9 DEF to

(* The invariant is kept. *)
LEMMA linkWaitStateStep == IInv /\ linkWaitState => IInv'
<1> SUFFICES ASSUME IInv, linkWaitState PROVE IInv'
  OBVIOUS
<1> USE DEF HasStates
<1>1. PICK n : n = Len(list)
  OBVIOUS
<1>2. /\ ShapeOK /\ MapTypeOK /\ Listed /\ Runs /\ Owned /\ WaitOK /\ Numbered /\ NamesGiven
      /\ Len(state) = n /\ n \in Nat /\ n > 0 /\ 1 \in 1..n
      /\ DOMAIN list = 1..n /\ DOMAIN state = 1..n
      /\ input \in Schedules
  BY <1>1 DEF IInv, ShapeOK, Listed
<1>3. IsControlFlow(F) /\ EntryBlock \in Blocks(F)
  BY <1>2, SchedulesAssumption, EntryHasStates DEF F
<1>4. Len(F.succ) \in Nat \ {0} /\ Blocks(F) = 1..Len(F.succ)
  BY <1>3, ControlFlowShape
<1>5. /\ UNCHANGED <<input, cursor, list, firstState, startState, endState, bbIds>>
      /\ F' = F /\ pc = "linkWaitState" /\ pc' = "createChains" /\ cursor = 1
  BY <1>2 DEF linkWaitState, F, ShapeOK
<1>6. /\ state' \in Seq(StateRecords) /\ Len(state') = n /\ DOMAIN state' = 1..n
      /\ \A s \in 1..n : s # 1 => state'[s] = state[s]
      /\ state'[1].transitions = <<<<firstState[EntryBlock], 0>>>>
      /\ state'[1].default = 1 /\ state'[1].instrs = << >>
      /\ \A b \in Blocks(F) : HasStates(b) => state'[1].block # b
  BY <1>2, WaitLinked
<1>7. ShapeOK'
  BY <1>2, <1>5, <1>6 DEF ShapeOK
<1>8. MapTypeOK'
  <2>1. firstState[EntryBlock] \in 1..n \cup {Null}
    BY <1>2, <1>3 DEF MapTypeOK
  <2>2. ASSUME NEW s \in 1..n
        PROVE  /\ state'[s].default \in 1..n \cup {Null}
               /\ \A k \in DOMAIN state'[s].transitions :
                    state'[s].transitions[k][1] \in 1..n \cup {Null}
               /\ state'[s].instrs \in Seq(Instrs(F))
    <3>1. CASE s = 1
      BY <3>1, <2>1, <1>2, <1>6
    <3>2. CASE s # 1
      BY <3>2, <1>2, <1>6 DEF MapTypeOK
    <3> QED BY <3>1, <3>2
  <2> QED BY <2>2, <1>2, <1>5, <1>6 DEF MapTypeOK
<1>9. Listed'
  BY <1>1, <1>2, <1>5, <1>6 DEF Listed
<1>10. \A b \in Blocks(F) : /\ Begun(b) <=> HasStates(b)
                            /\ Begun(b)' <=> HasStates(b)
                            /\ ~Chained(b) /\ ~Chained(b)' /\ Beyond(b) = 0 /\ Beyond(b)' = 0
  <2>1. \A b \in Blocks(F) : ~(b < cursor)
    BY <1>4, <1>5
  <2> QED BY <2>1, <1>5 DEF Begun, Chained, Beyond
<1>11. \A q \in 2..n : q \in 1..n /\ state'[list[q]] = state[list[q]]
  <2>1. \A q \in 2..n : q \in 1..n /\ q # 1
    BY <1>2
  <2>2. \A q \in 2..n : list[q] \in 1..n /\ list[q] # 1
    BY <2>1, <1>1, <1>2 DEF Listed, Wait
  <2> QED BY <2>1, <2>2, <1>6
<1>12. Runs'
  <2> SUFFICES ASSUME NEW b \in Blocks(F), Begun(b)'
               PROVE  \E p \in Nat : RunAt(b, p)' /\ (Chained(b) => LinkedAt(b, p) /\ PlacedAt(b, p))'
    BY <1>5 DEF Runs
  <2>1. PICK p \in Nat : RunAt(b, p)
    BY <1>2, <1>10 DEF Runs
  <2>2. RunAt(b, p)'
    BY <2>1, <1>1, <1>5, <1>10, <1>11 DEF RunAt
  <2> QED BY <2>2, <1>10
<1>13. Owned'
  <2>1. \A q \in 2..n :
           state[list[q]].block \in Blocks(F) /\ ~isBasicBlockEmpty(F, state[list[q]].block)
    BY <1>1, <1>2 DEF Owned, Begun
  <2> QED BY <2>1, <1>1, <1>5, <1>11 DEF Owned, Begun
<1>14. WaitOK'
  <2>1. EntryBlock' = EntryBlock
    BY <1>5 DEF EntryBlock
  <2> QED BY <2>1, <1>5, <1>6 DEF WaitOK, Wait, Null
<1>15. Numbered' /\ NamesGiven'
  BY <1>2, <1>5 DEF Numbered, NamesGiven
<1> QED BY <1>7, <1>8, <1>9, <1>12, <1>13, <1>14, <1>15 DEF IInv

-----------------------------------------------------------------------------
(* The step of createChains.                                               *)

(* A step of the second loop passes the block of the cursor. *)
LEMMA ChainAdvance ==
    ASSUME ShapeOK, createChains
    PROVE  /\ input' = input /\ F' = F /\ cursor \in Blocks(F) /\ cursor' \in Blocks(F)
           /\ pc' \in {"createChains", "nameStates"} /\ pc = "createChains"
           /\ \A b \in Blocks(F) :
                /\ HasStates(b)' <=> HasStates(b)
                /\ Begun(b) <=> HasStates(b)
                /\ Begun(b)' <=> HasStates(b)
                /\ Chained(b)' <=> Chained(b) \/ (HasStates(b) /\ b = cursor)
           /\ ~Chained(cursor) /\ Beyond(cursor) = 0
<1>1. IsControlFlow(F) /\ input' = input /\ F' = F /\ pc = "createChains"
  BY SchedulesAssumption DEF ShapeOK, createChains, F
<1>2. Len(F.succ) \in Nat \ {0} /\ Blocks(F) = 1..Len(F.succ)
  BY <1>1, ControlFlowShape
<1>3. cursor \in 1..Len(F.succ)
  BY <1>2 DEF ShapeOK
<1>4. \/ cursor < Len(F.succ) /\ cursor' = cursor + 1 /\ pc' = "createChains"
      \/ cursor = Len(F.succ) /\ cursor' = 1 /\ pc' = "nameStates"
  BY <1>1, <1>2, <1>3 DEF createChains, Advance
<1>5. cursor' \in Blocks(F) /\ pc' \in {"createChains", "nameStates"}
  BY <1>2, <1>3, <1>4
<1>6. ASSUME NEW b \in Blocks(F)
      PROVE  /\ HasStates(b)' <=> HasStates(b)
             /\ (pc' = "createChains" => b < cursor') <=> b <= cursor
  BY <1>1, <1>2, <1>3, <1>4 DEF HasStates
<1>7. ASSUME NEW b \in Blocks(F)
      PROVE  /\ Chained(b)' <=> Chained(b) \/ (HasStates(b) /\ b = cursor)
             /\ (Begun(b) <=> HasStates(b)) /\ (Begun(b)' <=> HasStates(b))
  <2>1. b <= cursor <=> b < cursor \/ b = cursor
    BY <1>2, <1>3
  <2> QED BY <2>1, <1>1, <1>5, <1>6 DEF Chained, Begun
<1>8. ~Chained(cursor) /\ Beyond(cursor) = 0
  <2>1. ~(cursor < cursor)
    BY <1>3
  <2> QED BY <2>1, <1>1 DEF Chained, Beyond
<1> QED BY <1>1, <1>2, <1>3, <1>5, <1>6, <1>7, <1>8

(* The chain of the cursor's block is in the list from place p.            *)
ChainMade(p) ==
    LET m == input.statesNum[cursor]
    IN /\ m \in Nat /\ p \in 2..Len(list) /\ list[p] = firstState[cursor]
       /\ RunAt(cursor, p)
       /\ Inserted(list, list', p, m)
       /\ state' \in Seq(StateRecords) /\ Len(state') = Len(list) + m
       /\ \A s \in 1..Len(list) : s # list[p] => state'[s] = state[s]
       /\ \A k \in 0..m : list'[p + k] = StateOrder(cursor, k)
                          /\ state'[StateOrder(cursor, k)] = ChainState(cursor, k)
                          /\ ChainState(cursor, k) \in StateRecords

(* The step does that. *)
LEMMA createChainsMakes ==
    ASSUME IInv, createChains, HasStates(cursor)
    PROVE  \E p \in Nat : ChainMade(p)
<1>1. PICK n : n = Len(list)
  OBVIOUS
<1>2. PICK m : m = input.statesNum[cursor]
  OBVIOUS
<1>3. /\ ShapeOK /\ Listed /\ Runs /\ list \in Seq(Nat) /\ state \in Seq(StateRecords)
      /\ Len(state) = n /\ n \in Nat /\ n > 0
      /\ firstState \in [Blocks(F) -> Nat] /\ input \in Schedules
      /\ \A q \in 1..n : list[q] \in 1..n
      /\ \A q, r \in 1..n : list[q] = list[r] => q = r
  BY <1>1 DEF IInv, ShapeOK, Listed
<1>4. cursor \in Blocks(F) /\ Begun(cursor) /\ Beyond(cursor) = 0
  BY <1>3, ChainAdvance
<1>5. PICK p \in Nat : RunAt(cursor, p)
  BY <1>3, <1>4 DEF Runs
<1>6. p \in 2..n /\ p \in 1..n /\ list[p] = firstState[cursor]
  <2>1. p \in 2..n /\ list[p] = firstState[cursor]
    BY <1>1, <1>5 DEF RunAt
  <2> QED BY <2>1, <1>3
<1>7. LastState(cursor) = m /\ m \in Nat
  BY <1>2, <1>3, <1>4, LastStateIs
<1>8. PICK at : at = SelectInSeq(list, LAMBDA s : s = firstState[cursor])
  OBVIOUS
<1>9. at = p
  <2>1. Place(list, list[p]) = p
    BY <1>1, <1>3, <1>6, PlaceIs
  <2>2. Place(list, firstState[cursor]) = at
    BY <1>8 DEF Place
  <2> QED BY <2>1, <2>2, <1>6
<1>10. /\ StateOrder(cursor, 0) = list[p]
       /\ \A k \in 1..m : StateOrder(cursor, k) = n + k
  BY <1>3, <1>6, <1>7 DEF StateOrder
<1>11. PICK new : new = [k \in 1..m |-> n + k]
  OBVIOUS
<1>12. Inserted(list, list', p, m)
  <2>1. [k \in 1..LastState(cursor) |-> StateOrder(cursor, k)] = new
    BY <1>7, <1>10, <1>11
  <2>2. list' = SubSeq(list, 1, p) \o new \o SubSeq(list, p + 1, n)
    BY <2>1, <1>1, <1>8, <1>9 DEF createChains, HasStates, ChainInserted
  <2> QED BY <2>2, <1>1, <1>3, <1>6, <1>7, <1>11, InsertionIs
<1>13. \A k \in 0..m : ChainState(cursor, k) \in StateRecords
  BY <1>2, <1>3, <1>4, <1>7, ChainStateFields
<1>14. PICK e : e = ChainState(cursor, 0)
  OBVIOUS
<1>15. PICK u : u = [state EXCEPT ![list[p]] = e]
  OBVIOUS
<1>16. PICK v : v = [k \in 1..m |-> ChainState(cursor, k)]
  OBVIOUS
<1>17. state' = u \o v
  BY <1>6, <1>7, <1>14, <1>15, <1>16 DEF createChains, HasStates
<1>18. /\ u \in Seq(StateRecords) /\ Len(u) = n /\ u[list[p]] = e
       /\ \A s \in 1..n : s # list[p] => u[s] = state[s]
       /\ list[p] \in 1..n
  <2>1. e \in StateRecords
    BY <1>7, <1>13, <1>14
  <2>2. list[p] \in 1..n
    BY <1>3, <1>6
  <2> QED BY <2>1, <2>2, <1>3, <1>15, Updated
<1>19. v \in Seq(StateRecords) /\ Len(v) = m /\ \A k \in 1..m : v[k] = ChainState(cursor, k)
  <2>1. \A k \in 1..m : v[k] = ChainState(cursor, k) /\ v[k] \in StateRecords
    <3>1. \A k \in 1..m : k \in 0..m
      BY <1>7
    <3> QED BY <3>1, <1>13, <1>16
  <2>2. v \in [1..m -> StateRecords]
    BY <2>1, <1>16
  <2> QED BY <2>1, <2>2, <1>7
<1>20. /\ state' \in Seq(StateRecords) /\ Len(state') = n + m
       /\ \A s \in 1..n : state'[s] = u[s]
       /\ \A k \in 1..m : state'[n + k] = v[k]
  <2>1. u \o v \in Seq(StateRecords) /\ Follows(u \o v, u, v)
    BY <1>18, <1>19, Concatenated
  <2> QED BY <2>1, <1>17, <1>18, <1>19 DEF Follows
<1>21. \A s \in 1..n : s # list[p] => state'[s] = state[s]
  BY <1>18, <1>20
<1>22. ASSUME NEW k \in 0..m
       PROVE  /\ list'[p + k] = StateOrder(cursor, k)
              /\ state'[StateOrder(cursor, k)] = ChainState(cursor, k)
  <2>1. CASE k = 0
    <3>1. p + 0 = p /\ p \in 1..p /\ list'[p] = list[p]
      BY <1>6, <1>12 DEF Inserted
    <3>2. state'[list[p]] = e
      BY <1>18, <1>20
    <3> QED BY <3>1, <3>2, <2>1, <1>10, <1>14
  <2>2. CASE k # 0
    <3>1. k \in 1..m
      BY <2>2, <1>7
    <3>2. list'[p + k] = n + k
      BY <3>1, <1>1, <1>12 DEF Inserted
    <3> QED BY <3>1, <3>2, <1>10, <1>19, <1>20
  <2> QED BY <2>1, <2>2
<1> QED BY <1>1, <1>2, <1>5, <1>6, <1>7, <1>12, <1>13, <1>20, <1>21, <1>22 DEF ChainMade

(* Where the state at place x is once m states are inserted after place p. *)
Moved(x, p, m) == IF x < p THEN x ELSE x + m

(* The list of the next state, which had n places, has the chain of m + 1  *)
(* states and, moved, the other states, which are as they were.            *)
ChainPlaced(p, n, m) ==
    /\ n \in Nat /\ m \in Nat /\ p \in 2..n /\ Len(list') = n + m
    /\ \A x \in 2..n : x # p =>
         /\ Moved(x, p, m) \in 2..(n + m) /\ list'[Moved(x, p, m)] = list[x]
         /\ state'[list[x]] = state[list[x]]
    /\ \A q \in 2..(n + m) :
         \/ q \in p..(p + m) /\ state'[list'[q]].block = cursor
         \/ \E x \in 2..n : x # p /\ q = Moved(x, p, m)
    /\ state'[1] = state[1] /\ list'[p] = list[p]
    /\ \A k \in 0..m : /\ state'[list'[p + k]] = ChainState(cursor, k)
                       /\ k < m => list'[p + k + 1] = StateOrder(cursor, k + 1)

(* The step makes it so. *)
LEMMA ChainPlaces ==
    ASSUME IInv, createChains, HasStates(cursor), NEW p \in Nat, ChainMade(p)
    PROVE  Listed' /\ ChainPlaced(p, Len(list), input.statesNum[cursor])
<1>12. PICK n : n = Len(list)
  OBVIOUS
<1>13. PICK m : m = input.statesNum[cursor]
  OBVIOUS
<1>0. ShapeOK /\ Listed
  BY DEF IInv
<1>1. /\ list \in Seq(Nat) /\ Len(state) = n /\ n \in Nat /\ n > 0 /\ list[1] = 1
      /\ \A q \in 1..n : list[q] \in 1..n
      /\ \A s \in 1..n : \E q \in 1..n : list[q] = s
      /\ \A q, r \in 1..n : list[q] = list[r] => q = r
  <2>1. list \in Seq(Nat) /\ n \in Nat
    BY <1>0, <1>12 DEF ShapeOK
  <2> QED BY <2>1, <1>0, <1>12 DEF Listed, Wait
<1>11. input \in Schedules /\ cursor \in Blocks(F) /\ firstState \in [Blocks(F) -> Nat]
  BY <1>0 DEF ShapeOK
<1>2. /\ m \in Nat /\ p \in 2..n /\ list[p] = firstState[cursor]
      /\ Inserted(list, list', p, m)
      /\ Len(state') = n + m
      /\ \A s \in 1..n : s # list[p] => state'[s] = state[s]
      /\ \A k \in 0..m : list'[p + k] = StateOrder(cursor, k)
                         /\ state'[StateOrder(cursor, k)] = ChainState(cursor, k)
  BY <1>12, <1>13 DEF ChainMade
<1>3. /\ Len(list') = n + m
      /\ \A q \in 1..p : list'[q] = list[q]
      /\ \A q \in (p + 1)..n : list'[q + m] = list[q]
  BY <1>2, <1>12 DEF Inserted
<1>4. n \in Nat /\ m \in Nat /\ p \in Nat /\ 2 <= p /\ p <= n /\ p \in 1..n
  <2>1. n \in Nat /\ m \in Nat /\ p \in 2..n
    BY <1>1, <1>2
  <2> QED BY <2>1
<1>5. /\ \A q \in 1..(n + m) : list'[q] \in 1..(n + m)
      /\ \A s \in 1..(n + m) : \E q \in 1..(n + m) : list'[q] = s
      /\ \A q, x \in 1..(n + m) : list'[q] = list'[x] => q = x
      /\ list'[1] = list[1]
  <2>1. Enumerates(list) /\ p \in 1..Len(list) /\ list \in Seq(Nat)
    BY <1>1, <1>4, <1>12 DEF Enumerates
  <2>2. Enumerates(list') /\ list'[1] = list[1]
    BY <2>1, <1>2, <1>4, InsertedListed
  <2> QED BY <2>2, <1>3 DEF Enumerates
<1>6. Listed'
  <2>1. n + m > 0
    BY <1>4
  <2> QED BY <2>1, <1>1, <1>2, <1>3, <1>5 DEF Listed, Wait
<1>7. ASSUME NEW x \in 2..n, x # p
      PROVE  /\ Moved(x, p, m) \in 2..(n + m) /\ list'[Moved(x, p, m)] = list[x]
             /\ state'[list[x]] = state[list[x]]
  <2>2. state'[list[x]] = state[list[x]]
    <3>1. x \in 1..n
      BY <1>4
    <3> QED BY <3>1, <1>1, <1>2, <1>4, <1>7
  <2>1. CASE x < p
    <3>1. x \in 1..p /\ x \in 2..(n + m)
      BY <2>1, <1>4
    <3>2. Moved(x, p, m) = x
      BY <2>1 DEF Moved
    <3> QED BY <3>1, <3>2, <1>3, <2>2
  <2>3. CASE ~(x < p)
    <3>1. x \in (p + 1)..n /\ x + m \in 2..(n + m)
      BY <2>3, <1>4, <1>7
    <3>2. Moved(x, p, m) = x + m
      BY <2>3 DEF Moved
    <3> QED BY <3>1, <3>2, <1>3, <2>2
  <2> QED BY <2>1, <2>3
<1>8. \A k \in 0..m : /\ state'[list'[p + k]] = ChainState(cursor, k)
                      /\ k < m => list'[p + k + 1] = StateOrder(cursor, k + 1)
  <2> SUFFICES ASSUME NEW k \in 0..m
               PROVE  /\ state'[list'[p + k]] = ChainState(cursor, k)
                      /\ k < m => list'[p + k + 1] = StateOrder(cursor, k + 1)
    OBVIOUS
  <2>1. k < m => k + 1 \in 0..m /\ p + (k + 1) = p + k + 1
    BY <1>4
  <2>2. k < m => list'[p + (k + 1)] = StateOrder(cursor, k + 1)
    BY <2>1, <1>2
  <2> QED BY <2>1, <2>2, <1>2
<1>9. ASSUME NEW q \in 2..(n + m)
      PROVE  \/ q \in p..(p + m) /\ state'[list'[q]].block = cursor
             \/ \E x \in 2..n : x # p /\ q = Moved(x, p, m)
  <2>1. CASE q < p
    <3>1. q \in 2..n /\ q # p /\ q = Moved(q, p, m)
      BY <2>1, <1>4 DEF Moved
    <3> QED BY <3>1
  <2>2. CASE q \in p..(p + m)
    <3>1. q - p \in 0..m /\ p + (q - p) = q
      BY <2>2, <1>4
    <3>2. state'[list'[p + (q - p)]] = ChainState(cursor, q - p)
      BY <3>1, <1>8
    <3>3. ChainState(cursor, q - p).block = cursor
      BY <3>1, <1>1, <1>2, <1>11, <1>13, ChainStateFields
    <3> QED BY <3>1, <3>2, <3>3, <2>2
  <2>3. CASE q > p + m
    <3>1. q - m \in 2..n /\ q - m # p /\ q = Moved(q - m, p, m)
      <4>1. q - m \in 2..n /\ q - m # p /\ ~(q - m < p) /\ q = (q - m) + m
        BY <2>3, <1>4
      <4> QED BY <4>1 DEF Moved
    <3> QED BY <3>1
  <2>4. q < p \/ q \in p..(p + m) \/ q > p + m
    BY <1>4
  <2> QED BY <2>1, <2>2, <2>3, <2>4
<1>10. state'[1] = state[1] /\ list'[p] = list[p]
  <2>1. 1 \in 1..n /\ 1 # p /\ p \in 1..p
    BY <1>4
  <2>2. list[p] # 1
    BY <2>1, <1>1, <1>4
  <2> QED BY <2>1, <2>2, <1>2, <1>3
<1>14. ChainPlaced(p, n, m)
  BY <1>1, <1>2, <1>3, <1>7, <1>8, <1>9, <1>10 DEF ChainPlaced
<1> QED BY <1>6, <1>12, <1>13, <1>14

(* What a step of the loop leaves alone. *)
LEMMA ChainUnchanged ==
    ASSUME IInv, createChains
    PROVE  /\ input' = input /\ F' = F /\ firstState' = firstState /\ bbIds' = bbIds
           /\ \A b \in Blocks(F) :
                /\ Branch(b, NewState)' = Branch(b, NewState)
                /\ Terminator(F, b)' = Terminator(F, b)
                /\ \A k : InstrsIn(b, k)' = InstrsIn(b, k)
<1>1. UNCHANGED <<input, firstState, bbIds>> /\ F' = F
  BY DEF createChains, F
<1>2. \A b \in Blocks(F) : Branch(b, NewState)' = Branch(b, NewState)
  BY <1>1 DEF Branch
<1>3. \A b \in Blocks(F) : \A k : InstrsIn(b, k)' = InstrsIn(b, k)
  BY <1>1 DEF InstrsIn
<1>4. \A b \in Blocks(F) : Terminator(F, b)' = Terminator(F, b)
  BY <1>1
<1> QED BY <1>1, <1>2, <1>3, <1>4

(* The chain is the run of its block.                                      *)
LEMMA ChainRuns ==
    ASSUME IInv, createChains, HasStates(cursor), NEW p \in Nat, ChainMade(p),
           NEW b \in Blocks(F), b = cursor
    PROVE  RunAt(b, p)' /\ LinkedAt(b, p)' /\ PlacedAt(b, p)'
<1>1. PICK n : n = Len(list)
  OBVIOUS
<1>2. PICK m : m = input.statesNum[cursor]
  OBVIOUS
<1>3. /\ n \in Nat /\ m \in Nat /\ p \in 2..n /\ Len(list') = n + m
      /\ \A x \in 2..n : x # p =>
           /\ Moved(x, p, m) \in 2..(n + m) /\ list'[Moved(x, p, m)] = list[x]
           /\ state'[list[x]] = state[list[x]]
      /\ \A q \in 2..(n + m) :
           \/ q \in p..(p + m) /\ state'[list'[q]].block = cursor
           \/ \E x \in 2..n : x # p /\ q = Moved(x, p, m)
      /\ list'[p] = list[p]
      /\ \A k \in 0..m : /\ state'[list'[p + k]] = ChainState(cursor, k)
                         /\ k < m => list'[p + k + 1] = StateOrder(cursor, k + 1)
  <2>1. ChainPlaced(p, n, m)
    BY <1>1, <1>2, ChainPlaces
  <2> QED BY <2>1 DEF ChainPlaced
<1>4. /\ input' = input /\ F' = F /\ firstState' = firstState
      /\ Branch(b, NewState)' = Branch(b, NewState)
      /\ Terminator(F, b)' = Terminator(F, b)
      /\ \A k : InstrsIn(b, k)' = InstrsIn(b, k)
  BY ChainUnchanged
<1>5. ShapeOK /\ input \in Schedules /\ firstState \in [Blocks(F) -> Nat] /\ Len(state) \in Nat
  BY DEF IInv, ShapeOK
<1>6. Beyond(b) = 0 /\ Beyond(b)' = m
  <2>1. ~Chained(cursor) /\ Chained(b)'
    BY <1>5, ChainAdvance
  <2> QED BY <2>1, <1>2, <1>4 DEF Beyond
<1>7. RunAt(b, p)'
  <2>1. RunAt(b, p)
    BY DEF ChainMade
  <2>2. /\ list[p] = firstState[b]
        /\ \A x \in 2..n : state[list[x]].block = b <=> x \in p..(p + 0)
    BY <2>1, <1>1, <1>6 DEF RunAt
  <2>3. p \in 2..(n + m) /\ p + m \in 2..(n + m)
    BY <1>3
  <2>4. \A x \in 2..n : x # p => x \notin p..(p + 0) /\ Moved(x, p, m) \notin p..(p + m)
    <3> SUFFICES ASSUME NEW x \in 2..n, x # p
                 PROVE  x \notin p..(p + 0) /\ Moved(x, p, m) \notin p..(p + m)
      OBVIOUS
    <3>1. x < p \/ x > p
      BY <1>3
    <3>2. x + m \notin p..(p + m) \/ x < p
      BY <3>1, <1>3
    <3> QED BY <3>1, <3>2, <1>3 DEF Moved
  <2>5. ASSUME NEW q \in 2..(n + m)
        PROVE  state'[list'[q]].block = b <=> q \in p..(p + m)
    <3>1. CASE q \in p..(p + m) /\ state'[list'[q]].block = cursor
      BY <3>1
    <3>2. CASE \E x \in 2..n : x # p /\ q = Moved(x, p, m)
      <4>1. PICK x \in 2..n : x # p /\ q = Moved(x, p, m)
        BY <3>2
      <4>2. q \notin p..(p + m) /\ x \notin p..(p + 0)
        BY <4>1, <2>4
      <4>3. state'[list'[q]] = state[list[x]]
        BY <4>1, <1>3
      <4> QED BY <4>2, <4>3, <2>2
    <3> QED BY <3>1, <3>2, <1>3
  <2> QED BY <2>2, <2>3, <2>5, <1>3, <1>4, <1>6 DEF RunAt
<1>8. LinkedAt(b, p)'
  <2> SUFFICES ASSUME NEW k \in 0..m
               PROVE  LET s == state'[list'[p + k]]
                      IN /\ s.instrs = InstrsIn(b, k)
                         /\ k < m => s.transitions = << >> /\ s.default = list'[p + k + 1]
                         /\ k = m =>
                              /\ s.transitions = Branch(b, NewState).transitions
                              /\ s.default = Branch(b, NewState).default
                              /\ s.transitions # << >> => s.variable = Terminator(F, b)
    BY <1>2, <1>4 DEF LinkedAt
  <2>1. /\ state'[list'[p + k]] = ChainState(b, k)
        /\ k < m => list'[p + k + 1] = StateOrder(b, k + 1)
    BY <1>3
  <2>2. k \in 0..input.statesNum[b]
    BY <1>2
  <2>3. /\ ChainState(b, k).instrs = InstrsIn(b, k)
        /\ k < input.statesNum[b] =>
             /\ ChainState(b, k).transitions = << >>
             /\ ChainState(b, k).default = StateOrder(b, k + 1)
        /\ k = input.statesNum[b] =>
             /\ ChainState(b, k).transitions = Branch(b, NewState).transitions
             /\ ChainState(b, k).default = Branch(b, NewState).default
             /\ ChainState(b, k).transitions # << >> => ChainState(b, k).variable = Terminator(F, b)
    BY <2>2, <1>5, ChainStateFields
  <2> QED BY <2>1, <2>3, <1>2
<1>9. PlacedAt(b, p)'
  <2> SUFFICES ASSUME NEW i \in BlockInstrs(F, b)
               PROVE  /\ startState'[i] = list'[p + input.start[i]]
                      /\ endState'[i] = list'[p + input.start[i] + Cycles(F, i)]
    BY <1>4 DEF PlacedAt
  <2>1. /\ i \in Instrs(F) /\ F.bb[i] = b
        /\ input.start[i] \in Nat /\ Cycles(F, i) \in {0, 1}
        /\ input.start[i] + Cycles(F, i) <= m
    BY <1>2, <1>5, LastStateIs
  <2>2. /\ startState'[i] = StateOrder(b, input.start[i])
        /\ endState'[i] = StateOrder(b, input.start[i] + Cycles(F, i))
    BY <2>1 DEF createChains, HasStates
  <2>3. \A k \in 0..m : list'[p + k] = StateOrder(b, k)
    BY <1>2 DEF ChainMade
  <2>4. /\ input.start[i] \in 0..m /\ input.start[i] + Cycles(F, i) \in 0..m
        /\ p + (input.start[i] + Cycles(F, i)) = p + input.start[i] + Cycles(F, i)
    BY <2>1, <1>3
  <2> QED BY <2>2, <2>3, <2>4
<1> QED BY <1>7, <1>8, <1>9

(* The run of another block is as it was, and moves if it is behind.       *)
LEMMA ChainKept ==
    ASSUME IInv, createChains, HasStates(cursor), NEW p \in Nat, ChainMade(p),
           NEW b \in Blocks(F), b # cursor, NEW a \in Nat, RunAt(b, a),
           Chained(b) => LinkedAt(b, a) /\ PlacedAt(b, a)
    PROVE  \E d \in Nat : RunAt(b, d)' /\ (Chained(b) => LinkedAt(b, d) /\ PlacedAt(b, d))'
<1>1. PICK n : n = Len(list)
  OBVIOUS
<1>2. PICK m : m = input.statesNum[cursor]
  OBVIOUS
<1>3. PICK e : e = Beyond(b)
  OBVIOUS
<1>4. /\ n \in Nat /\ m \in Nat /\ p \in 2..n /\ Len(list') = n + m
      /\ \A x \in 2..n : x # p =>
           /\ Moved(x, p, m) \in 2..(n + m) /\ list'[Moved(x, p, m)] = list[x]
           /\ state'[list[x]] = state[list[x]]
      /\ \A q \in 2..(n + m) :
           \/ q \in p..(p + m) /\ state'[list'[q]].block = cursor
           \/ \E x \in 2..n : x # p /\ q = Moved(x, p, m)
  <2>1. ChainPlaced(p, n, m)
    BY <1>1, <1>2, ChainPlaces
  <2> QED BY <2>1 DEF ChainPlaced
<1>5. /\ input' = input /\ F' = F /\ firstState' = firstState
      /\ Branch(b, NewState)' = Branch(b, NewState)
      /\ Terminator(F, b)' = Terminator(F, b)
      /\ \A k : InstrsIn(b, k)' = InstrsIn(b, k)
  BY ChainUnchanged
<1>6. /\ ShapeOK /\ input \in Schedules /\ cursor \in Blocks(F)
      /\ input.statesNum[b] \in Nat
  <2>1. ShapeOK
    BY DEF IInv
  <2>2. input \in Schedules /\ cursor \in Blocks(F)
    BY <2>1 DEF ShapeOK
  <2> QED BY <2>1, <2>2, LastStateIs
<1>7. (Chained(b)' <=> Chained(b)) /\ Beyond(b)' = e /\ e \in Nat
      /\ (Chained(b) => e = input.statesNum[b])
  <2>1. Chained(b)' <=> Chained(b)
    BY <1>6, ChainAdvance
  <2> QED BY <2>1, <1>3, <1>5, <1>6 DEF Beyond
<1>8. /\ a \in 2..n /\ a + e \in 2..n /\ list[a] = firstState[b]
      /\ \A x \in 2..n : state[list[x]].block = b <=> x \in a..(a + e)
  BY <1>1, <1>3 DEF RunAt
<1>9. state[list[p]].block # b
  <2>1. /\ p \in 2..n /\ \A x \in 2..n : state[list[x]].block = cursor <=> x \in p..(p + Beyond(cursor))
    BY <1>1 DEF ChainMade, RunAt
  <2>2. Beyond(cursor) = 0
    BY <1>6, ChainAdvance
  <2>3. p \in p..(p + 0)
    BY <1>4
  <2> QED BY <2>1, <2>2, <2>3
<1>10. PICK d : d = Moved(a, p, m)
  OBVIOUS
<1>11. d \in Nat /\ p \notin a..(a + e)
       /\ \A k \in 0..e : a + k \in 2..n /\ a + k # p /\ d + k = Moved(a + k, p, m)
  <2>1. p \notin a..(a + e)
    BY <1>4, <1>8, <1>9
  <2>2. a \in Nat /\ p \in Nat /\ e \in Nat /\ m \in Nat /\ (a + e < p \/ p < a)
    BY <2>1, <1>4, <1>7, <1>8
  <2>3. d \in Nat /\ \A k \in 0..e : a + k # p /\ d + k = Moved(a + k, p, m)
    BY <2>2, <1>10 DEF Moved
  <2>4. \A k \in 0..e : a + k \in 2..n
    BY <1>4, <1>7, <1>8
  <2> QED BY <2>1, <2>3, <2>4
<1>12. \A k \in 0..e : /\ d + k \in 2..(n + m) /\ list'[d + k] = list[a + k]
                       /\ state'[list[a + k]] = state[list[a + k]]
  BY <1>4, <1>11
<1>13. RunAt(b, d)'
  <2>1. d \in 2..(n + m) /\ d + e \in 2..(n + m) /\ list'[d] = list[a]
    <3>1. 0 \in 0..e /\ e \in 0..e /\ d + 0 = d /\ a + 0 = a
      BY <1>7, <1>11
    <3> QED BY <3>1, <1>12
  <2>2. ASSUME NEW q \in 2..(n + m)
        PROVE  state'[list'[q]].block = b <=> q \in d..(d + e)
    <3>1. CASE q \in p..(p + m) /\ state'[list'[q]].block = cursor
      <4>1. ASSUME q \in d..(d + e) PROVE FALSE
        <5>1. q - d \in 0..e /\ d + (q - d) = q
          BY <4>1, <1>7, <1>11
        <5>2. /\ a + (q - d) # p /\ q = Moved(a + (q - d), p, m) /\ a + (q - d) \in Nat
          BY <5>1, <1>7, <1>11
        <5>3. ~(Moved(a + (q - d), p, m) \in p..(p + m))
          <6>1. \A x \in Nat : x # p => ~(Moved(x, p, m) \in p..(p + m))
            BY <1>4 DEF Moved
          <6> QED BY <6>1, <5>2
        <5> QED BY <5>2, <5>3, <3>1
      <4> QED BY <4>1, <3>1
    <3>2. CASE \E x \in 2..n : x # p /\ q = Moved(x, p, m)
      <4>1. PICK x \in 2..n : x # p /\ q = Moved(x, p, m)
        BY <3>2
      <4>2. state'[list'[q]] = state[list[x]]
        BY <4>1, <1>4
      <4>3. x \in a..(a + e) <=> q \in d..(d + e)
        <5>1. /\ a \in Nat /\ p \in Nat /\ e \in Nat /\ m \in Nat /\ x \in Nat
              /\ (a + e < p \/ p < a)
          BY <1>4, <1>7, <1>8, <1>11
        <5> QED BY <5>1, <4>1, <1>10 DEF Moved
      <4> QED BY <4>2, <4>3, <1>8
    <3> QED BY <3>1, <3>2, <1>4
  <2> QED BY <2>1, <2>2, <1>4, <1>5, <1>7, <1>8 DEF RunAt
<1>14. ASSUME Chained(b) PROVE LinkedAt(b, d)'
  <2> SUFFICES ASSUME NEW k \in 0..e
               PROVE  LET s == state'[list'[d + k]]
                      IN /\ s.instrs = InstrsIn(b, k)
                         /\ k < e => s.transitions = << >> /\ s.default = list'[d + k + 1]
                         /\ k = e =>
                              /\ s.transitions = Branch(b, NewState).transitions
                              /\ s.default = Branch(b, NewState).default
                              /\ s.transitions # << >> => s.variable = Terminator(F, b)
    BY <1>5, <1>7, <1>14 DEF LinkedAt
  <2>1. state'[list'[d + k]] = state[list[a + k]]
    BY <1>12
  <2>2. LET s == state[list[a + k]]
        IN /\ s.instrs = InstrsIn(b, k)
           /\ k < e => s.transitions = << >> /\ s.default = list[a + k + 1]
           /\ k = e =>
                /\ s.transitions = Branch(b, NewState).transitions
                /\ s.default = Branch(b, NewState).default
                /\ s.transitions # << >> => s.variable = Terminator(F, b)
    BY <1>7, <1>14 DEF LinkedAt
  <2>3. k < e => list'[d + k + 1] = list[a + k + 1]
    <3>1. k < e => k + 1 \in 0..e /\ d + (k + 1) = d + k + 1 /\ a + (k + 1) = a + k + 1
      BY <1>7, <1>11
    <3>2. k < e => list'[d + (k + 1)] = list[a + (k + 1)]
      BY <3>1, <1>12
    <3> QED BY <3>1, <3>2
  <2> QED BY <2>1, <2>2, <2>3
<1>15. ASSUME Chained(b) PROVE PlacedAt(b, d)'
  <2> SUFFICES ASSUME NEW i \in BlockInstrs(F, b)
               PROVE  /\ startState'[i] = list'[d + input.start[i]]
                      /\ endState'[i] = list'[d + input.start[i] + Cycles(F, i)]
    BY <1>5 DEF PlacedAt
  <2>1. /\ i \in Instrs(F) /\ F.bb[i] = b
        /\ input.start[i] \in Nat /\ Cycles(F, i) \in {0, 1}
        /\ input.start[i] + Cycles(F, i) <= e
    BY <1>6, <1>7, <1>15, LastStateIs
  <2>2. startState'[i] = startState[i] /\ endState'[i] = endState[i]
    BY <2>1 DEF createChains, HasStates
  <2>3. /\ startState[i] = list[a + input.start[i]]
        /\ endState[i] = list[a + input.start[i] + Cycles(F, i)]
    BY <1>15 DEF PlacedAt
  <2>4. /\ input.start[i] \in 0..e /\ input.start[i] + Cycles(F, i) \in 0..e
        /\ d + (input.start[i] + Cycles(F, i)) = d + input.start[i] + Cycles(F, i)
        /\ a + (input.start[i] + Cycles(F, i)) = a + input.start[i] + Cycles(F, i)
    BY <2>1, <1>7, <1>11
  <2>5. /\ list'[d + input.start[i]] = list[a + input.start[i]]
        /\ list'[d + (input.start[i] + Cycles(F, i))] = list[a + (input.start[i] + Cycles(F, i))]
    BY <2>4, <1>12
  <2> QED BY <2>2, <2>3, <2>4, <2>5
<1> QED BY <1>7, <1>11, <1>13, <1>14, <1>15

(* The types of the state machine are kept.                                *)
LEMMA ChainTypes ==
    ASSUME IInv, createChains, HasStates(cursor), NEW p \in Nat, ChainMade(p), Listed'
    PROVE  ShapeOK' /\ MapTypeOK'
<1>1. PICK n : n = Len(list)
  OBVIOUS
<1>2. PICK m : m = input.statesNum[cursor]
  OBVIOUS
<1>3. /\ ShapeOK /\ MapTypeOK /\ input \in Schedules /\ firstState \in [Blocks(F) -> Nat]
      /\ Len(state) = n /\ DOMAIN state = 1..n
  <2>1. ShapeOK /\ MapTypeOK /\ Listed
    BY DEF IInv
  <2>2. state \in Seq(StateRecords)
    BY <2>1 DEF ShapeOK
  <2> QED BY <2>1, <2>2, <1>1 DEF ShapeOK, Listed
<1>4. /\ input' = input /\ F' = F /\ cursor \in Blocks(F) /\ cursor' \in Blocks(F)
      /\ pc' \in {"createChains", "nameStates"}
  BY <1>3, ChainAdvance
<1>5. UNCHANGED <<firstState, bbIds>>
  BY DEF createChains
<1>6. /\ n \in Nat /\ m \in Nat /\ p \in 2..n
      /\ list' \in Seq(Nat) /\ Len(list') = n + m
      /\ state' \in Seq(StateRecords) /\ Len(state') = n + m /\ DOMAIN state' = 1..(n + m)
      /\ \A s \in 1..n : s # list[p] => state'[s] = state[s]
      /\ \A k \in 0..m : list'[p + k] = StateOrder(cursor, k)
                         /\ state'[StateOrder(cursor, k)] = ChainState(cursor, k)
  <2>1. n \in Nat
    BY <1>1, <1>3 DEF ShapeOK
  <2> QED BY <2>1, <1>1, <1>2 DEF ChainMade, Inserted
<1> DEFINE States == 1..(n + m) \cup {0}
<1>7. \A q \in 1..(n + m) : list'[q] \in 1..(n + m)
  BY <1>6 DEF Listed
<1>8. \A k \in 0..m : StateOrder(cursor, k) \in States
  <2>1. \A k \in 0..m : p + k \in 1..(n + m)
    BY <1>6
  <2> QED BY <2>1, <1>6, <1>7
<1>9. \A x \in Blocks(F) : firstState[x] \in States
  <2>1. \A x \in Blocks(F) : firstState[x] \in 1..n \cup {0}
    BY <1>3 DEF MapTypeOK, Null
  <2>2. \A z \in 1..n : z \in 1..(n + m)
    BY <1>6
  <2> QED BY <2>1, <2>2
<1>10. ASSUME NEW k \in 0..m
       PROVE  /\ ChainState(cursor, k).default \in States
              /\ \A j \in DOMAIN ChainState(cursor, k).transitions :
                   ChainState(cursor, k).transitions[j][1] \in States
              /\ ChainState(cursor, k).instrs \in Seq(Instrs(F))
  <2>1. /\ ChainState(cursor, k).instrs = InstrsIn(cursor, k)
        /\ k < m =>
             /\ ChainState(cursor, k).transitions = << >>
             /\ ChainState(cursor, k).default = StateOrder(cursor, k + 1)
        /\ k = m =>
             /\ ChainState(cursor, k).transitions = Branch(cursor, NewState).transitions
             /\ ChainState(cursor, k).default = Branch(cursor, NewState).default
    <3>1. Len(state) \in Nat /\ k \in 0..input.statesNum[cursor]
      BY <1>2, <1>3, <1>6
    <3> QED BY <3>1, <1>2, <1>3, <1>4, ChainStateFields
  <2>2. InstrsIn(cursor, k) \in Seq(Instrs(F))
    BY <1>3, InstrsInRange
  <2>3. CASE k < m
    <3>1. k + 1 \in 0..m
      BY <2>3, <1>6
    <3>2. DOMAIN << >> = {}
      OBVIOUS
    <3> QED BY <3>1, <3>2, <2>1, <2>2, <2>3, <1>8
  <2>4. CASE k = m
    <3>1. /\ \/ Branch(cursor, NewState).default = Wait
             \/ \E x \in Blocks(F) : x # 1 /\ Branch(cursor, NewState).default = firstState[x]
          /\ \A j \in DOMAIN Branch(cursor, NewState).transitions :
               \E x \in Blocks(F) :
                  x # 1 /\ Branch(cursor, NewState).transitions[j][1] = firstState[x]
      BY <1>3, <1>4, BranchTargets
    <3>2. Wait \in States
      BY <1>6 DEF Wait
    <3> HIDE DEF States
    <3>3. /\ ChainState(cursor, k).transitions = Branch(cursor, NewState).transitions
          /\ ChainState(cursor, k).default = Branch(cursor, NewState).default
      BY <2>1, <2>4
    <3> QED BY <3>1, <3>2, <3>3, <2>1, <2>2, <1>9
  <2>5. k < m \/ k = m
    BY <1>6
  <2> QED BY <2>3, <2>4, <2>5
<1>11. ASSUME NEW s \in 1..(n + m)
       PROVE  /\ state'[s].default \in States
              /\ \A j \in DOMAIN state'[s].transitions : state'[s].transitions[j][1] \in States
              /\ state'[s].instrs \in Seq(Instrs(F))
  <2>1. ASSUME NEW k \in 0..m, s = StateOrder(cursor, k)
        PROVE  /\ state'[s].default \in States
               /\ \A j \in DOMAIN state'[s].transitions :
                    state'[s].transitions[j][1] \in States
               /\ state'[s].instrs \in Seq(Instrs(F))
    <3>1. state'[s] = ChainState(cursor, k)
      BY <2>1, <1>6
    <3> QED BY <3>1, <1>10
  <2>2. CASE s \in 1..n /\ s # list[p]
    <3>1. state'[s] = state[s]
      BY <2>2, <1>6
    <3>2. /\ state[s].default \in 1..n \cup {0}
          /\ \A j \in DOMAIN state[s].transitions :
               state[s].transitions[j][1] \in 1..n \cup {0}
          /\ state[s].instrs \in Seq(Instrs(F))
      BY <2>2, <1>3 DEF MapTypeOK, Null
    <3>3. \A z \in 1..n \cup {0} : z \in States
      BY <1>6
    <3> QED BY <3>1, <3>2, <3>3
  <2>3. CASE s = list[p]
    <3>1. 0 \in 0..m /\ s = StateOrder(cursor, 0)
      BY <2>3, <1>6 DEF StateOrder, ChainMade
    <3> QED BY <3>1, <2>1
  <2>4. CASE s \notin 1..n
    <3>1. s - n \in 0..m /\ s - n # 0 /\ n + (s - n) = s
      BY <2>4, <1>6
    <3>2. s = StateOrder(cursor, s - n)
      BY <3>1, <1>3 DEF StateOrder
    <3> QED BY <3>1, <3>2, <2>1
  <2> QED BY <2>2, <2>3, <2>4
<1>12. /\ startState' \in [Instrs(F) -> States]
       /\ endState' \in [Instrs(F) -> States]
  <2>1. ASSUME NEW i \in Instrs(F), F.bb[i] = cursor
        PROVE  /\ StateOrder(cursor, input.start[i]) \in States
               /\ StateOrder(cursor, input.start[i] + Cycles(F, i)) \in States
    <3>1. i \in BlockInstrs(F, cursor)
      BY <2>1 DEF BlockInstrs
    <3>2. /\ input.start[i] \in Nat /\ Cycles(F, i) \in {0, 1}
          /\ input.start[i] + Cycles(F, i) <= m
      BY <3>1, <1>2, <1>3, <1>4, LastStateIs
    <3>3. input.start[i] \in 0..m /\ input.start[i] + Cycles(F, i) \in 0..m
      <4>1. m \in Nat
        BY <1>6
      <4> QED BY <4>1, <3>2
    <3> QED BY <3>3, <1>8
  <2>2. /\ startState \in [Instrs(F) -> 1..n \cup {0}]
        /\ endState \in [Instrs(F) -> 1..n \cup {0}]
    BY <1>3 DEF MapTypeOK, Null
  <2>3. \A z \in 1..n \cup {0} : z \in States
    BY <1>6
  <2>4. /\ startState' = [i \in Instrs(F) |->
                 IF F.bb[i] = cursor
                 THEN StateOrder(cursor, input.start[i]) ELSE startState[i]]
        /\ endState' = [i \in Instrs(F) |->
                 IF F.bb[i] = cursor
                 THEN StateOrder(cursor, input.start[i] + Cycles(F, i)) ELSE endState[i]]
    BY DEF createChains, HasStates
  <2> HIDE DEF States
  <2> QED BY <2>1, <2>2, <2>3, <2>4
<1>13. MapTypeOK'
  <2>1. list' \in Seq(1..(n + m))
    <3>1. n + m \in Nat /\ list' \in Seq(Nat) /\ Len(list') = n + m
      BY <1>6
    <3>2. list' \in [1..(n + m) -> 1..(n + m)]
      BY <3>1, <1>7
    <3> QED BY <3>1, <3>2
  <2>2. cursor' \in Nat \ {0}
    <3>1. IsControlFlow(F)
      BY <1>3, SchedulesAssumption DEF F
    <3> QED BY <3>1, <1>4, ControlFlowShape
  <2>3. firstState' \in [Blocks(F) -> States] /\ bbIds' \in [Blocks(F) -> Nat]
    BY <1>3, <1>5, <1>9 DEF ShapeOK
  <2> QED BY <2>1, <2>2, <2>3, <1>3, <1>4, <1>6, <1>11, <1>12 DEF MapTypeOK, Null
<1>14. ShapeOK'
  <2>1. /\ startState' \in [Instrs(F) -> Nat]
        /\ endState' \in [Instrs(F) -> Nat]
    <3>1. States \subseteq Nat
      BY <1>6
    <3> HIDE DEF States
    <3> QED BY <3>1, <1>12
  <2>2. firstState' \in [Blocks(F) -> Nat] /\ bbIds' \in [Blocks(F) -> Nat]
    BY <1>3, <1>5 DEF ShapeOK
  <2> QED BY <2>1, <2>2, <1>3, <1>4, <1>6 DEF ShapeOK
<1> QED BY <1>13, <1>14

(* The invariant is kept. *)
LEMMA createChainsStep == IInv /\ createChains => IInv'
<1> SUFFICES ASSUME IInv, createChains PROVE IInv'
  OBVIOUS
<1>1. /\ ShapeOK /\ MapTypeOK /\ Listed /\ Runs /\ Owned /\ WaitOK /\ Numbered /\ NamesGiven
  BY DEF IInv
<1>2. /\ input' = input /\ F' = F /\ cursor \in Blocks(F) /\ cursor' \in Blocks(F)
      /\ pc' \in {"createChains", "nameStates"} /\ pc = "createChains"
      /\ \A b \in Blocks(F) :
           /\ HasStates(b)' <=> HasStates(b)
           /\ Begun(b) <=> HasStates(b)
           /\ Begun(b)' <=> HasStates(b)
           /\ Chained(b)' <=> Chained(b) \/ (HasStates(b) /\ b = cursor)
  BY <1>1, ChainAdvance
<1>3. UNCHANGED <<firstState, bbIds>>
  BY DEF createChains
<1>4. Numbered'
  BY <1>1, <1>2, <1>3 DEF Numbered, HasStates
<1>5. NamesGiven'
  BY <1>2 DEF NamesGiven
<1>6. CASE HasStates(cursor)
  <2>1. PICK p \in Nat : ChainMade(p)
    BY <1>6, createChainsMakes
  <2>2. PICK n : n = Len(list)
    OBVIOUS
  <2>3. PICK m : m = input.statesNum[cursor]
    OBVIOUS
  <2>4. Listed' /\ ChainPlaced(p, n, m)
    BY <1>6, <2>1, <2>2, <2>3, ChainPlaces
  <2>5. ShapeOK' /\ MapTypeOK'
    BY <1>6, <2>1, <2>4, ChainTypes
  <2>6. Runs'
    <3> SUFFICES ASSUME NEW b \in Blocks(F), HasStates(b)
                 PROVE  \E d \in Nat : RunAt(b, d)' /\ (Chained(b) => LinkedAt(b, d) /\ PlacedAt(b, d))'
      BY <1>2 DEF Runs
    <3>1. CASE b = cursor
      <4>1. RunAt(b, p)' /\ LinkedAt(b, p)' /\ PlacedAt(b, p)'
        BY <3>1, <1>6, <2>1, ChainRuns
      <4> QED BY <4>1
    <3>2. CASE b # cursor
      <4>1. PICK a \in Nat : RunAt(b, a) /\ (Chained(b) => LinkedAt(b, a) /\ PlacedAt(b, a))
        BY <1>1, <1>2 DEF Runs
      <4> QED BY <4>1, <3>2, <1>6, <2>1, ChainKept
    <3> QED BY <3>1, <3>2
  <2>7. Owned'
    <3>1. \A q \in 2..(n + m) : \E c \in Blocks(F) :
             c = state'[list'[q]].block /\ HasStates(c)
      <4> SUFFICES ASSUME NEW q \in 2..(n + m)
                   PROVE  \E c \in Blocks(F) : c = state'[list'[q]].block /\ HasStates(c)
        OBVIOUS
      <4>1. CASE q \in p..(p + m) /\ state'[list'[q]].block = cursor
        BY <4>1, <1>2, <1>6
      <4>2. CASE \E x \in 2..n : x # p /\ q = Moved(x, p, m)
        <5>1. PICK x \in 2..n : x # p /\ q = Moved(x, p, m)
          BY <4>2
        <5>2. state'[list'[q]] = state[list[x]]
          BY <5>1, <2>4 DEF ChainPlaced
        <5>3. state[list[x]].block \in Blocks(F) /\ HasStates(state[list[x]].block)
          BY <1>1, <1>2, <2>2 DEF Owned
        <5> QED BY <5>2, <5>3
      <4> QED BY <4>1, <4>2, <2>4 DEF ChainPlaced
    <3>2. \A c \in Blocks(F) : HasStates(c) =>
             ~isBasicBlockEmpty(F', c) /\ (pc' = "createFirstStates" => c < cursor')
      BY <1>2 DEF HasStates
    <3>3. Len(list') = n + m
      BY <2>4 DEF ChainPlaced
    <3>4. \A q \in 2..Len(list') :
             /\ state'[list'[q]].block \in Blocks(F')
             /\ ~isBasicBlockEmpty(F', state'[list'[q]].block)
             /\ pc' = "createFirstStates" => state'[list'[q]].block < cursor'
      BY <3>1, <3>2, <3>3, <1>2
    <3> QED BY <3>4 DEF Owned, Begun, HasStates
  <2>8. WaitOK'
    <3>1. state'[1] = state[1]
      BY <2>4 DEF ChainPlaced
    <3>2. EntryBlock' = EntryBlock
      BY <1>2 DEF EntryBlock
    <3>3. pc \notin {"createFirstStates", "linkWaitState"}
          /\ pc' \notin {"createFirstStates", "linkWaitState"}
      BY <1>2
    <3> QED BY <3>1, <3>2, <3>3, <1>1, <1>2, <1>3 DEF WaitOK, Wait
  <2> QED BY <2>4, <2>5, <2>6, <2>7, <2>8, <1>4, <1>5 DEF IInv
<1>7. CASE ~HasStates(cursor)
  <2>1. UNCHANGED <<list, state, startState, endState>>
    BY <1>7 DEF createChains, HasStates
  <2>2. \A b \in Blocks(F) : (Chained(b)' <=> Chained(b)) /\ (Begun(b)' <=> Begun(b))
    BY <1>2, <1>7
  <2>3. ShapeOK'
    BY <2>1, <1>1, <1>2, <1>3 DEF ShapeOK
  <2>4. cursor' \in Nat \ {0}
    <3>1. IsControlFlow(F)
      BY <1>1, SchedulesAssumption DEF F, ShapeOK
    <3> QED BY <3>1, <1>2, ControlFlowShape
  <2>5. MapTypeOK'
    BY <2>1, <2>4, <1>1, <1>2, <1>3 DEF MapTypeOK
  <2>6. Listed'
    BY <2>1, <1>1 DEF Listed
  <2>7. Runs'
    <3> SUFFICES ASSUME NEW b \in Blocks(F), Begun(b)
                 PROVE  \E d \in Nat : RunAt(b, d)' /\ (Chained(b) => LinkedAt(b, d) /\ PlacedAt(b, d))'
      BY <1>2, <2>2 DEF Runs
    <3>1. PICK a \in Nat : RunAt(b, a) /\ (Chained(b) => LinkedAt(b, a) /\ PlacedAt(b, a))
      BY <1>1 DEF Runs
    <3>2. Beyond(b)' = Beyond(b)
      BY <1>2, <2>2 DEF Beyond
    <3>3. RunAt(b, a)'
      BY <3>1, <3>2, <2>1, <1>3 DEF RunAt
    <3>4. ASSUME Chained(b) PROVE LinkedAt(b, a)' /\ PlacedAt(b, a)'
      <4>1. /\ Branch(b, NewState)' = Branch(b, NewState)
            /\ Terminator(F, b)' = Terminator(F, b)
            /\ \A k : InstrsIn(b, k)' = InstrsIn(b, k)
        BY ChainUnchanged
      <4>2. LinkedAt(b, a) /\ PlacedAt(b, a)
        BY <3>1, <3>4
      <4>3. LinkedAt(b, a)'
        BY <4>1, <4>2, <2>1, <1>2 DEF LinkedAt
      <4>4. PlacedAt(b, a)'
        BY <4>2, <2>1, <1>2 DEF PlacedAt
      <4> QED BY <4>3, <4>4
    <3> QED BY <3>3, <3>4, <2>2
  <2>8. Owned'
    <3>1. \A c \in Blocks(F) : HasStates(c) =>
             ~isBasicBlockEmpty(F', c) /\ (pc' = "createFirstStates" => c < cursor')
      BY <1>2 DEF HasStates
    <3>2. \A q \in 2..Len(list) : state[list[q]].block \in Blocks(F) /\ HasStates(state[list[q]].block)
      BY <1>1, <1>2 DEF Owned
    <3> QED BY <3>1, <3>2, <2>1, <1>2 DEF Owned, Begun, HasStates
  <2>9. WaitOK'
    <3>2. EntryBlock' = EntryBlock
      BY <1>2 DEF EntryBlock
    <3>3. pc \notin {"createFirstStates", "linkWaitState"}
          /\ pc' \notin {"createFirstStates", "linkWaitState"}
      BY <1>2
    <3> QED BY <2>1, <3>2, <3>3, <1>1, <1>2, <1>3 DEF WaitOK, Wait
  <2> QED BY <2>3, <2>5, <2>6, <2>7, <2>8, <2>9, <1>4, <1>5 DEF IInv
<1> QED BY <1>6, <1>7

-----------------------------------------------------------------------------
(* The step of nameStates.                                                 *)

(* The states are named by their places, and otherwise stay as they are.   *)
LEMMA StatesNamed ==
    ASSUME IInv, nameStates
    PROVE  /\ state' \in Seq(StateRecords) /\ Len(state') = Len(state)
           /\ \A s \in 1..Len(state) :
                /\ state'[s].block = state[s].block /\ state'[s].default = state[s].default
                /\ state'[s].transitions = state[s].transitions
                /\ state'[s].instrs = state[s].instrs
                /\ state'[s].variable = state[s].variable
           /\ state'[1].name = <<"BPHLS">>
           /\ \A q \in 2..Len(list) :
                state'[list[q]].name = <<bbIds[state[list[q]].block], RankInBlock(q)>>
<1>1. PICK n : n = Len(list)
  OBVIOUS
<1>2. /\ ShapeOK /\ Owned /\ list \in Seq(Nat) /\ state \in Seq(StateRecords)
      /\ Len(state) = n /\ DOMAIN state = 1..n /\ n \in Nat /\ n > 0 /\ list[1] = 1
      /\ bbIds \in [Blocks(F) -> Nat]
      /\ \A q \in 1..n : list[q] \in 1..n
      /\ \A s \in 1..n : \E q \in 1..n : list[q] = s
      /\ \A q, r \in 1..n : list[q] = list[r] => q = r
  <2>1. ShapeOK /\ Owned /\ Listed
    BY DEF IInv
  <2>2. list \in Seq(Nat) /\ state \in Seq(StateRecords) /\ bbIds \in [Blocks(F) -> Nat]
        /\ n \in Nat
    BY <2>1, <1>1 DEF ShapeOK
  <2> QED BY <2>1, <2>2, <1>1 DEF Listed, Wait
<1> DEFINE name(q) == IF q = 1 THEN <<"BPHLS">> ELSE <<bbIds[state[list[q]].block], RankInBlock(q)>>
<1>3. \A q \in 1..n : Place(list, list[q]) = q
  <2>1. \A q, r \in 1..Len(list) : list[q] = list[r] => q = r
    BY <1>1, <1>2
  <2> QED BY <2>1, <1>1, <1>2, PlaceIs
<1>4. ASSUME NEW q \in 1..n
      PROVE  state'[list[q]] = [state[list[q]] EXCEPT !.name = name(q)]
  <2>1. SelectInSeq(list, LAMBDA x : x = list[q]) = q
    BY <1>3 DEF Place
  <2>2. list[q] \in DOMAIN state
    BY <1>2
  <2> QED BY <2>1, <2>2 DEF nameStates
<1>5. ASSUME NEW q \in 1..n
      PROVE  name(q) \in {<< >>, <<"BPHLS">>} \cup Nat \X Nat
  <2>1. CASE q # 1
    <3>1. q \in 2..Len(list)
      BY <2>1, <1>1, <1>2
    <3>2. state[list[q]].block \in Blocks(F)
      BY <3>1, <1>2 DEF Owned
    <3>3. RankInBlock(q) \in Nat
      <4> DEFINE S == {j \in 1..(q - 1) : state[list[j]].block = state[list[q]].block}
      <4>1. q - 1 \in Int /\ 1 \in Int
        BY <1>2
      <4>2. IsFiniteSet(1..(q - 1)) /\ S \subseteq 1..(q - 1)
        BY <4>1, FS_Interval
      <4>3. RankInBlock(q) = Cardinality(S)
        BY DEF RankInBlock
      <4> HIDE DEF S
      <4> QED BY <4>2, <4>3, FS_Subset, FS_CardinalityType
    <3> QED BY <2>1, <3>2, <3>3, <1>2
  <2>2. CASE q = 1
    BY <2>2
  <2> QED BY <2>1, <2>2
<1> HIDE DEF name
<1>6. ASSUME NEW q \in 1..n
      PROVE  /\ state'[list[q]] \in StateRecords
             /\ state'[list[q]].block = state[list[q]].block
             /\ state'[list[q]].default = state[list[q]].default
             /\ state'[list[q]].transitions = state[list[q]].transitions
             /\ state'[list[q]].instrs = state[list[q]].instrs
             /\ state'[list[q]].variable = state[list[q]].variable
             /\ state'[list[q]].name = name(q)
  <2>1. PICK x : x = state[list[q]]
    OBVIOUS
  <2>2. PICK y : y = state'[list[q]]
    OBVIOUS
  <2>3. PICK z : z = name(q)
    OBVIOUS
  <2>4. x \in StateRecords /\ z \in {<< >>, <<"BPHLS">>} \cup Nat \X Nat
    <3>1. list[q] \in 1..Len(state) /\ state \in Seq(StateRecords)
      BY <1>2
    <3>2. state[list[q]] \in StateRecords
      BY <3>1
    <3> QED BY <3>2, <2>1, <2>3, <1>5
  <2>5. y = [x EXCEPT !.name = z]
    BY <2>1, <2>2, <2>3, <1>4
  <2>6. /\ y \in StateRecords /\ y.block = x.block /\ y.default = x.default
        /\ y.transitions = x.transitions /\ y.instrs = x.instrs /\ y.variable = x.variable
        /\ y.name = z
    BY <2>4, <2>5 DEF StateRecords
  <2> QED BY <2>1, <2>2, <2>3, <2>6
<1>7. ASSUME NEW s \in 1..n
      PROVE  /\ state'[s] \in StateRecords
             /\ state'[s].block = state[s].block /\ state'[s].default = state[s].default
             /\ state'[s].transitions = state[s].transitions
             /\ state'[s].instrs = state[s].instrs
             /\ state'[s].variable = state[s].variable
  <2>1. PICK q \in 1..n : list[q] = s
    BY <1>2
  <2> QED BY <2>1, <1>6
<1>8. state' \in Seq(StateRecords) /\ Len(state') = n
  <2>1. DOMAIN state' = 1..n /\ state' = [s \in 1..n |-> state'[s]]
    BY <1>2 DEF nameStates
  <2>2. state' \in [1..n -> StateRecords]
    BY <2>1, <1>7
  <2> QED BY <2>1, <2>2, <1>2
<1>9. state'[1].name = <<"BPHLS">>
  <2>1. 1 \in 1..n
    BY <1>2
  <2>2. state'[list[1]].name = name(1)
    BY <2>1, <1>6
  <2> QED BY <2>2, <1>2 DEF name
<1>10. \A q \in 2..n :
          state'[list[q]].name = <<bbIds[state[list[q]].block], RankInBlock(q)>>
  <2>1. \A q \in 2..n : q \in 1..n /\ q # 1
    BY <1>2
  <2>2. \A q \in 2..n : state'[list[q]].name = name(q)
    BY <2>1, <1>6
  <2> QED BY <2>1, <2>2 DEF name
<1> QED BY <1>1, <1>2, <1>7, <1>8, <1>9, <1>10

(* The invariant is kept. *)
LEMMA nameStatesStep == IInv /\ nameStates => IInv'
<1> SUFFICES ASSUME IInv, nameStates PROVE IInv'
  OBVIOUS
<1>1. PICK n : n = Len(list)
  OBVIOUS
<1>2. /\ ShapeOK /\ MapTypeOK /\ Listed /\ Runs /\ Owned /\ WaitOK /\ Numbered
      /\ n \in Nat /\ n > 0 /\ Len(state) = n /\ DOMAIN state = 1..n
      /\ \A q \in 1..n : list[q] \in 1..n
  <2>1. /\ ShapeOK /\ MapTypeOK /\ Listed /\ Runs /\ Owned /\ WaitOK /\ Numbered
    BY DEF IInv
  <2>2. list \in Seq(Nat) /\ state \in Seq(StateRecords)
    BY <2>1 DEF ShapeOK
  <2> QED BY <2>1, <2>2, <1>1 DEF Listed
<1>3. /\ UNCHANGED <<input, cursor, list, firstState, startState, endState, bbIds>>
      /\ F' = F /\ pc = "nameStates" /\ pc' = "done"
  BY DEF nameStates, F
<1>4. /\ state' \in Seq(StateRecords) /\ Len(state') = n /\ DOMAIN state' = 1..n
      /\ \A s \in 1..n :
           /\ state'[s].block = state[s].block /\ state'[s].default = state[s].default
           /\ state'[s].transitions = state[s].transitions
           /\ state'[s].instrs = state[s].instrs
           /\ state'[s].variable = state[s].variable
      /\ state'[1].name = <<"BPHLS">>
      /\ \A q \in 2..n :
           state'[list[q]].name = <<bbIds[state[list[q]].block], RankInBlock(q)>>
  BY <1>1, <1>2, StatesNamed
<1>5. \A b \in Blocks(F) :
        /\ HasStates(b)' <=> HasStates(b)
        /\ (Begun(b) <=> HasStates(b)) /\ (Begun(b)' <=> HasStates(b))
        /\ (Chained(b) <=> HasStates(b)) /\ (Chained(b)' <=> HasStates(b))
        /\ Beyond(b)' = Beyond(b)
  <2>1. \A b \in Blocks(F) : HasStates(b)' <=> HasStates(b)
    BY <1>3 DEF HasStates
  <2>2. \A b \in Blocks(F) : (Chained(b) <=> HasStates(b)) /\ (Chained(b)' <=> HasStates(b))
    BY <2>1, <1>3 DEF Chained
  <2> QED BY <2>1, <2>2, <1>3 DEF Begun, Beyond
<1>6. ShapeOK'
  <2>1. cursor' \in Blocks(F') /\ (pc' = "linkWaitState" => cursor' = 1)
    BY <1>2, <1>3 DEF ShapeOK
  <2> QED BY <2>1, <1>2, <1>3, <1>4 DEF ShapeOK
<1>7. MapTypeOK'
  BY <1>2, <1>3, <1>4 DEF MapTypeOK
<1>8. Listed'
  BY <1>1, <1>2, <1>3, <1>4 DEF Listed
<1>9. \A q \in 1..n :
        /\ state'[list[q]].block = state[list[q]].block
        /\ state'[list[q]].default = state[list[q]].default
        /\ state'[list[q]].transitions = state[list[q]].transitions
        /\ state'[list[q]].instrs = state[list[q]].instrs
        /\ state'[list[q]].variable = state[list[q]].variable
  BY <1>2, <1>4
<1>10. \A q \in 2..n : q \in 1..n
  BY <1>2
<1>11. Runs'
  <2> SUFFICES ASSUME NEW b \in Blocks(F), HasStates(b)
               PROVE  \E d \in Nat : RunAt(b, d)' /\ (Chained(b) => LinkedAt(b, d) /\ PlacedAt(b, d))'
    BY <1>3, <1>5 DEF Runs
  <2>1. PICK d \in Nat : RunAt(b, d) /\ LinkedAt(b, d) /\ PlacedAt(b, d)
    BY <1>2, <1>5 DEF Runs
  <2>2. RunAt(b, d)'
    BY <2>1, <1>1, <1>3, <1>5, <1>9, <1>10 DEF RunAt
  <2>3. LinkedAt(b, d)'
    <3>1. Branch(b, NewState)' = Branch(b, NewState) /\ Terminator(F, b)' = Terminator(F, b)
      BY <1>3 DEF Branch
    <3>2. \A k : InstrsIn(b, k)' = InstrsIn(b, k)
      BY <1>3 DEF InstrsIn
    <3>3. \A k \in 0..input.statesNum[b] : d + k \in 1..n
      <4>1. input.statesNum[b] \in Nat
        BY <1>2, LastStateIs DEF ShapeOK
      <4>2. d \in 2..n /\ d + input.statesNum[b] \in 2..n
        BY <2>1, <1>1, <1>5 DEF RunAt, Beyond
      <4> QED BY <4>1, <4>2, <1>2
    <3> SUFFICES ASSUME NEW k \in 0..input.statesNum[b]
                 PROVE  LET s == state'[list[d + k]]
                        IN /\ s.instrs = InstrsIn(b, k)
                           /\ k < input.statesNum[b] =>
                                s.transitions = << >> /\ s.default = list[d + k + 1]
                           /\ k = input.statesNum[b] =>
                                /\ s.transitions = Branch(b, NewState).transitions
                                /\ s.default = Branch(b, NewState).default
                                /\ s.transitions # << >> => s.variable = Terminator(F, b)
      BY <3>1, <3>2, <1>3 DEF LinkedAt
    <3>4. LET s == state[list[d + k]]
          IN /\ s.instrs = InstrsIn(b, k)
             /\ k < input.statesNum[b] =>
                  s.transitions = << >> /\ s.default = list[d + k + 1]
             /\ k = input.statesNum[b] =>
                  /\ s.transitions = Branch(b, NewState).transitions
                  /\ s.default = Branch(b, NewState).default
                  /\ s.transitions # << >> => s.variable = Terminator(F, b)
      BY <2>1 DEF LinkedAt
    <3> QED BY <3>3, <3>4, <1>9
  <2>4. PlacedAt(b, d)'
    BY <2>1, <1>3 DEF PlacedAt
  <2> QED BY <2>2, <2>3, <2>4
<1>12. Owned'
  <2>1. \A q \in 2..n : state[list[q]].block \in Blocks(F) /\ ~isBasicBlockEmpty(F, state[list[q]].block)
    BY <1>1, <1>2 DEF Owned, Begun, HasStates
  <2> QED BY <2>1, <1>1, <1>3, <1>9, <1>10 DEF Owned, Begun, HasStates
<1>13. WaitOK'
  <2>1. 1 \in 1..n
    BY <1>2
  <2>2. EntryBlock' = EntryBlock
    BY <1>3 DEF EntryBlock
  <2>3. pc \notin {"createFirstStates", "linkWaitState"}
        /\ pc' \notin {"createFirstStates", "linkWaitState"}
    BY <1>3
  <2> QED BY <2>1, <2>2, <2>3, <1>2, <1>3, <1>4, <1>5 DEF WaitOK, Wait
<1>14. Numbered'
  BY <1>2, <1>3 DEF Numbered, HasStates
<1>15. NamesGiven'
  <2>1. \A q \in 2..n :
           RankInBlock(q) = Cardinality({j \in 1..(q - 1) :
                                           state'[list[j]].block = state'[list[q]].block})
    <3> SUFFICES ASSUME NEW q \in 2..n
                 PROVE  RankInBlock(q) = Cardinality({j \in 1..(q - 1) :
                                            state'[list[j]].block = state'[list[q]].block})
      OBVIOUS
    <3>1. \A j \in 1..(q - 1) : j \in 1..n
      BY <1>2
    <3>2. {j \in 1..(q - 1) : state'[list[j]].block = state'[list[q]].block}
             = {j \in 1..(q - 1) : state[list[j]].block = state[list[q]].block}
      BY <3>1, <1>9, <1>10
    <3> QED BY <3>2 DEF RankInBlock
  <2>2. \A q \in 2..n :
           state'[list[q]].name =
             <<bbIds'[state'[list[q]].block],
               Cardinality({j \in 1..(q - 1) :
                              state'[list'[j]].block = state'[list'[q]].block})>>
    BY <2>1, <1>3, <1>4, <1>9, <1>10
  <2>3. \A q \in 2..Len(list') :
           state'[list'[q]].name = <<bbIds'[state'[list'[q]].block], RankInBlock(q)'>>
    BY <2>2, <1>1, <1>3 DEF RankInBlock
  <2>4. state'[Wait].name = <<"BPHLS">>
    BY <1>4 DEF Wait
  <2> QED BY <2>3, <2>4 DEF NamesGiven
<1> QED BY <1>6, <1>7, <1>8, <1>11, <1>12, <1>13, <1>14, <1>15 DEF IInv

-----------------------------------------------------------------------------
(* The theorems.                                                           *)

(* Every step of createFsm keeps the invariant.                            *)
LEMMA IInvKept == IInv /\ [MapNext]_mapVars => IInv'
<1>1. CASE UNCHANGED mapVars
  <2> SUFFICES ASSUME IInv, UNCHANGED mapVars PROVE IInv'
    BY <1>1
  <2>1. UNCHANGED <<input, pc, cursor, list, state, firstState, startState, endState, bbIds>>
    BY DEF mapVars
  <2>2. F' = F /\ EntryBlock' = EntryBlock
    BY <2>1 DEF F, EntryBlock
  <2>3. ShapeOK' /\ MapTypeOK' /\ Listed'
    BY <2>1, <2>2 DEF IInv, ShapeOK, MapTypeOK, Listed
  <2>4. Runs'
    <3>1. Runs
      BY DEF IInv
    <3>2. \A b : /\ Begun(b)' = Begun(b) /\ Chained(b)' = Chained(b) /\ Beyond(b)' = Beyond(b)
                 /\ Branch(b, NewState)' = Branch(b, NewState)
                 /\ Terminator(F, b)' = Terminator(F, b)
                 /\ \A k : InstrsIn(b, k)' = InstrsIn(b, k)
      BY <2>1, <2>2 DEF Begun, Chained, Beyond, HasStates, Branch, InstrsIn
    <3>3. \A b, q : /\ RunAt(b, q)' = RunAt(b, q) /\ LinkedAt(b, q)' = LinkedAt(b, q)
                    /\ PlacedAt(b, q)' = PlacedAt(b, q)
      BY <2>1, <2>2, <3>2 DEF RunAt, LinkedAt, PlacedAt
    <3> QED BY <3>1, <3>2, <3>3, <2>2 DEF Runs
  <2>5. Owned' /\ WaitOK' /\ Numbered'
    BY <2>1, <2>2 DEF IInv, Owned, WaitOK, Numbered, Begun, HasStates
  <2>6. NamesGiven'
    <3>1. \A q : RankInBlock(q)' = RankInBlock(q)
      BY <2>1 DEF RankInBlock
    <3> QED BY <2>1, <3>1 DEF IInv, NamesGiven
  <2> QED BY <2>3, <2>4, <2>5, <2>6 DEF IInv
<1> QED BY <1>1, createFirstStatesStep, linkWaitStateStep, createChainsStep, nameStatesStep
        DEF MapNext, Returned

(* The invariant holds in every state of createFsm.                        *)
THEOREM Invariance == MapSpec => []IInv
BY InitIInv, IInvKept, PTL DEF MapSpec

(* The data structures of the state machine keep their types.              *)
THEOREM MapTypeCorrect == MapSpec => []MapTypeOK
<1>1. IInv => MapTypeOK
  BY DEF IInv
<1> QED BY <1>1, Invariance, PTL

(* A set with an element more is larger.                                   *)
LEMMA MoreElements ==
    ASSUME NEW S, NEW T, IsFiniteSet(T), S \subseteq T, NEW x \in T, x \notin S
    PROVE  Cardinality(S) < Cardinality(T)
<1>1. IsFiniteSet(S) /\ S \cup {x} \subseteq T
  BY FS_Subset
<1>2. Cardinality(S \cup {x}) = Cardinality(S) + 1
  BY <1>1, FS_AddElement
<1>3. Cardinality(S \cup {x}) <= Cardinality(T)
  BY <1>1, FS_Subset
<1>4. Cardinality(S) \in Nat /\ Cardinality(T) \in Nat
  BY <1>1, FS_CardinalityType
<1> QED BY <1>2, <1>3, <1>4

(* What the invariant says of a block of a finished machine: its states    *)
(* have the places from p on, and are named by their distance from p.      *)
FinishedRun(b, p) ==
    /\ p \in 2..Len(list) /\ p + input.statesNum[b] \in 2..Len(list)
    /\ list[p] = firstState[b] /\ LinkedAt(b, p) /\ PlacedAt(b, p)
    /\ \A q \in 2..Len(list) :
         state[list[q]].block = b <=> q \in p..(p + input.statesNum[b])
    /\ \A k \in 0..input.statesNum[b] :
         RankInBlock(p + k) = k /\ state[list[p + k]].name = <<bbIds[b], k>>

(* Every block with states has one.                                        *)
LEMMA RunFinished ==
    ASSUME IInv, pc = "done", NEW b \in Blocks(F), HasStates(b)
    PROVE  \E p \in Nat : FinishedRun(b, p)
<1>1. PICK n : n = Len(list)
  OBVIOUS
<1>2. ShapeOK /\ Listed /\ Runs /\ WaitOK /\ NamesGiven /\ n \in Nat /\ list[1] = 1
  BY <1>1 DEF IInv, ShapeOK, Listed, Wait
<1>3. PICK m : m = input.statesNum[b]
  OBVIOUS
<1>4. m \in Nat
  BY <1>2, <1>3, LastStateIs DEF ShapeOK
<1>5. Begun(b) /\ Chained(b) /\ Beyond(b) = m
  BY <1>3 DEF Begun, Chained, Beyond
<1>6. PICK p \in Nat : RunAt(b, p) /\ LinkedAt(b, p) /\ PlacedAt(b, p)
  BY <1>2, <1>5 DEF Runs
<1>7. /\ p \in 2..n /\ p + m \in 2..n /\ list[p] = firstState[b]
      /\ \A q \in 2..n : state[list[q]].block = b <=> q \in p..(p + m)
  BY <1>1, <1>5, <1>6 DEF RunAt
<1>8. ASSUME NEW k \in 0..m
      PROVE  RankInBlock(p + k) = k /\ state[list[p + k]].name = <<bbIds[b], k>>
  <2>1. p + k \in 2..n /\ p + k \in p..(p + m)
    BY <1>2, <1>4, <1>7
  <2>2. state[list[p + k]].block = b
    BY <2>1, <1>7
  <2>3. state[list[p + k]].name = <<bbIds[b], RankInBlock(p + k)>>
    BY <2>1, <2>2, <1>1, <1>2 DEF NamesGiven
  <2>4. state[list[1]].block # b
    BY <1>2 DEF WaitOK, Wait
  <2>5. {j \in 1..((p + k) - 1) : state[list[j]].block = b} = p..((p + k) - 1)
    <3>1. ASSUME NEW j \in 1..((p + k) - 1)
          PROVE  state[list[j]].block = b <=> j \in p..((p + k) - 1)
      <4>1. CASE j = 1
        BY <4>1, <2>4, <1>7
      <4>2. CASE j # 1
        <5>1. j \in 2..n /\ (j \in p..(p + m) <=> j \in p..((p + k) - 1))
          BY <4>2, <2>1, <1>2, <1>4
        <5> QED BY <5>1, <1>7
      <4> QED BY <4>1, <4>2
    <3>2. \A j \in p..((p + k) - 1) : j \in 1..((p + k) - 1)
      BY <1>7
    <3> QED BY <3>1, <3>2
  <2>6. Cardinality(p..((p + k) - 1)) = k
    <3>1. p \in Int /\ (p + k) - 1 \in Int
      OBVIOUS
    <3>2. Cardinality(p..((p + k) - 1)) = IF p > (p + k) - 1 THEN 0 ELSE ((p + k) - 1) - p + 1
      BY <3>1, FS_Interval
    <3> QED BY <3>2
  <2>7. RankInBlock(p + k) = k
    <3>1. {j \in 1..((p + k) - 1) : state[list[j]].block = state[list[p + k]].block} = p..((p + k) - 1)
      BY <2>2, <2>5
    <3>2. RankInBlock(p + k) =
            Cardinality({j \in 1..((p + k) - 1) : state[list[j]].block = state[list[p + k]].block})
      BY DEF RankInBlock
    <3> QED BY <3>1, <3>2, <2>6
  <2> QED BY <2>3, <2>7
<1> QED BY <1>1, <1>3, <1>6, <1>7, <1>8 DEF FinishedRun

(* A finished machine has every state in one place of the list, in a run   *)
(* of the block it belongs to, or first, where the wait state is.          *)
LEMMA PlaceFinished ==
    ASSUME IInv, pc = "done", NEW s \in DOMAIN state
    PROVE  \/ s = 1
           \/ \E b \in Blocks(F) : /\ HasStates(b) /\ \E p \in Nat : FinishedRun(b, p)
                                   /\ \A p \in Nat : FinishedRun(b, p) =>
                                        \E k \in 0..input.statesNum[b] : s = list[p + k]
<1>1. ShapeOK /\ Listed /\ Owned
  BY DEF IInv
<1>2. list \in Seq(Nat) /\ state \in Seq(StateRecords) /\ Len(list) \in Nat
      /\ DOMAIN state = 1..Len(list) /\ list[1] = 1
  BY <1>1 DEF ShapeOK, Listed, Wait
<1>3. PICK q \in 1..Len(list) : list[q] = s
  BY <1>1, <1>2 DEF Listed
<1>4. CASE q = 1
  BY <1>2, <1>3, <1>4
<1>5. CASE q # 1
  <2>1. q \in 2..Len(list)
    BY <1>2, <1>5
  <2>2. PICK b \in Blocks(F) : b = state[list[q]].block /\ HasStates(b)
    BY <2>1, <1>1 DEF Owned, Begun
  <2>3. ASSUME NEW p \in Nat, FinishedRun(b, p)
        PROVE  \E k \in 0..input.statesNum[b] : s = list[p + k]
    <3>1. q \in p..(p + input.statesNum[b])
      BY <2>1, <2>2, <2>3 DEF FinishedRun
    <3>2. input.statesNum[b] \in Nat
      BY <1>1, LastStateIs DEF ShapeOK
    <3>3. q - p \in 0..input.statesNum[b] /\ p + (q - p) = q
      BY <3>1, <3>2
    <3> QED BY <3>3, <1>3
  <2> QED BY <2>2, <2>3, RunFinished
<1> QED BY <1>4, <1>5

(* The parameters of the generated module tell the states apart.           *)
THEOREM StatesAreDistinguished == MapSpec => []StatesDistinguished
<1>1. IInv => StatesDistinguished
  <2> SUFFICES ASSUME IInv, pc = "done" PROVE StatesDistinguished
    BY DEF StatesDistinguished
  <2>1. ShapeOK /\ Listed /\ Numbered /\ NamesGiven /\ input \in Schedules
    BY DEF IInv, ShapeOK
  <2>2. list \in Seq(Nat) /\ state \in Seq(StateRecords) /\ Len(list) = Len(state)
        /\ Len(list) \in Nat /\ DOMAIN state = 1..Len(list) /\ DOMAIN list = 1..Len(list)
    BY <2>1 DEF ShapeOK, Listed
  <2>3. ToSet(list) = DOMAIN state
    <3>1. ToSet(list) = {list[q] : q \in 1..Len(list)}
      BY <2>2 DEF ToSet
    <3>2. /\ \A q \in 1..Len(list) : list[q] \in 1..Len(list)
          /\ \A s \in 1..Len(list) : \E q \in 1..Len(list) : list[q] = s
      BY <2>1 DEF Listed
    <3>3. ToSet(list) = 1..Len(list)
      BY <3>1, <3>2
    <3> QED BY <3>3, <2>2
  <2>4. Blocks(F) = 1..Len(F.succ) /\ Len(F.succ) \in Nat
    <3>1. IsControlFlow(F)
      BY <2>1, SchedulesAssumption DEF F
    <3> QED BY <3>1, ControlFlowShape
  <2>5. ASSUME NEW b \in Blocks(F), NEW c \in Blocks(F), HasStates(b), HasStates(c), b < c
        PROVE  bbIds[b] # bbIds[c]
    <3> DEFINE S(x) == {y \in 1..(x - 1) : HasStates(y)}
    <3>1. bbIds[b] = Cardinality(S(b)) /\ bbIds[c] = Cardinality(S(c))
      BY <2>1 DEF Numbered
    <3>2. IsFiniteSet(S(c))
      <4>1. 1 \in Int /\ c - 1 \in Int
        BY <2>4
      <4>2. IsFiniteSet(1..(c - 1)) /\ S(c) \subseteq 1..(c - 1)
        BY <4>1, FS_Interval
      <4> QED BY <4>2, FS_Subset
    <3>3. S(b) \subseteq S(c) /\ b \in S(c) /\ b \notin S(b)
      BY <2>4, <2>5
    <3>4. IsFiniteSet(S(b))
      BY <3>2, <3>3, FS_Subset
    <3> HIDE DEF S
    <3>5. Cardinality(S(b)) < Cardinality(S(c))
      BY <3>2, <3>3, MoreElements
    <3>6. Cardinality(S(b)) \in Nat /\ Cardinality(S(c)) \in Nat
      BY <3>2, <3>4, FS_CardinalityType
    <3> QED BY <3>1, <3>5, <3>6
  <2>6. \A b, c \in Blocks(F) : HasStates(b) /\ HasStates(c) /\ bbIds[b] = bbIds[c] => b = c
    <3> SUFFICES ASSUME NEW b \in Blocks(F), NEW c \in Blocks(F), HasStates(b), HasStates(c),
                        bbIds[b] = bbIds[c]
                 PROVE  b = c
      OBVIOUS
    <3>1. ~(b < c) /\ ~(c < b)
      BY <2>5
    <3> QED BY <3>1, <2>4
  <2>7. \A s \in DOMAIN state :
           \/ s = 1 /\ state[s].name = <<"BPHLS">>
           \/ \E b \in Blocks(F) : \E k \in Nat :
                 /\ HasStates(b) /\ state[s].name = <<bbIds[b], k>>
                 /\ \A p \in Nat : FinishedRun(b, p) => s = list[p + k]
    <3> SUFFICES ASSUME NEW s \in DOMAIN state, s # 1
                 PROVE  \E b \in Blocks(F) : \E k \in Nat :
                           /\ HasStates(b) /\ state[s].name = <<bbIds[b], k>>
                           /\ \A p \in Nat : FinishedRun(b, p) => s = list[p + k]
      BY <2>1 DEF NamesGiven, Wait
    <3>1. PICK b \in Blocks(F) : /\ HasStates(b) /\ \E p \in Nat : FinishedRun(b, p)
                                 /\ \A p \in Nat : FinishedRun(b, p) =>
                                      \E k \in 0..input.statesNum[b] : s = list[p + k]
      BY PlaceFinished
    <3>2. PICK p \in Nat : FinishedRun(b, p)
      BY <3>1
    <3>3. PICK k \in 0..input.statesNum[b] : s = list[p + k]
      BY <3>1, <3>2
    <3>4. state[s].name = <<bbIds[b], k>>
      BY <3>2, <3>3 DEF FinishedRun
    <3>5. ASSUME NEW r \in Nat, FinishedRun(b, r) PROVE s = list[r + k]
      <4>1. list[p] = list[r] /\ p \in 1..Len(list) /\ r \in 1..Len(list)
        BY <3>2, <3>5, <2>2 DEF FinishedRun
      <4>2. p = r
        BY <4>1, <2>1 DEF Listed
      <4> QED BY <4>2, <3>3
    <3>6. k \in Nat
      OBVIOUS
    <3> QED BY <3>1, <3>4, <3>5, <3>6
  <2>8. ASSUME NEW s \in DOMAIN state, NEW t \in DOMAIN state, state[s].name = state[t].name
        PROVE  s = t
    <3>1. \A x, y : <<"BPHLS">> # <<x, y>>
      <4>1. \A x, y : Len(<<x, y>>) = 2 /\ Len(<<"BPHLS">>) = 1
        OBVIOUS
      <4> QED BY <4>1
    <3>2. CASE s = 1 \/ t = 1
      <4>1. state[1].name = <<"BPHLS">>
        BY <2>1 DEF NamesGiven, Wait
      <4>2. \A r \in DOMAIN state : state[r].name = <<"BPHLS">> => r = 1
        BY <3>1, <2>7
      <4> QED BY <4>1, <4>2, <3>2, <2>8
    <3>3. CASE s # 1 /\ t # 1
      <4>1. PICK b \in Blocks(F), k \in Nat :
                 /\ HasStates(b) /\ state[s].name = <<bbIds[b], k>>
                 /\ \A p \in Nat : FinishedRun(b, p) => s = list[p + k]
        BY <3>3, <2>7
      <4>2. PICK c \in Blocks(F), l \in Nat :
                 /\ HasStates(c) /\ state[t].name = <<bbIds[c], l>>
                 /\ \A p \in Nat : FinishedRun(c, p) => t = list[p + l]
        BY <3>3, <2>7
      <4>3. bbIds[b] = bbIds[c] /\ k = l
        BY <4>1, <4>2, <2>8
      <4>4. b = c
        BY <4>1, <4>2, <4>3, <2>6
      <4>5. PICK p \in Nat : FinishedRun(b, p)
        BY <4>1, RunFinished
      <4>6. s = list[p + k]
        BY <4>1, <4>5
      <4>7. FinishedRun(c, p)
        BY <4>4, <4>5
      <4>8. t = list[p + l]
        BY <4>2, <4>7
      <4> QED BY <4>3, <4>6, <4>8
    <3> QED BY <3>2, <3>3
  <2> QED BY <2>2, <2>3, <2>8 DEF StatesDistinguished
<1> QED BY <1>1, Invariance, PTL

(* The first states of blocks with states are states.                      *)
LEMMA FirstStateExists ==
    ASSUME IInv, pc = "done", NEW b \in Blocks(F), HasStates(b)
    PROVE  firstState[b] \in DOMAIN state /\ firstState[b] # Null
<1>1. PICK p \in Nat : FinishedRun(b, p)
  BY RunFinished
<1>2. Listed /\ list \in Seq(Nat) /\ state \in Seq(StateRecords)
  BY DEF IInv, ShapeOK
<1>3. p \in 1..Len(list) /\ list[p] = firstState[b]
  BY <1>1, <1>2 DEF FinishedRun
<1>4. DOMAIN state = 1..Len(state)
  BY <1>2
<1>5. list[p] \in 1..Len(list) /\ Len(list) = Len(state)
  BY <1>2, <1>3 DEF Listed
<1>6. \A z \in 1..Len(list) : z # 0
  OBVIOUS
<1> QED BY <1>3, <1>4, <1>5, <1>6 DEF Null

(* Every transition of a finished machine leads to a state.                *)
THEOREM NoTransitionIsMissing == MapSpec => []NoTransitionMissing
<1>1. IInv => NoTransitionMissing
  <2> SUFFICES ASSUME IInv, pc = "done", NEW s \in DOMAIN state
               PROVE  /\ state[s].default # Null
                      /\ \A j \in DOMAIN state[s].transitions :
                           \E x \in Blocks(F) : /\ firstState[x] # Null
                                                /\ state[s].transitions[j][1] = firstState[x]
    BY DEF NoTransitionMissing
  <2>1. /\ ShapeOK /\ Listed /\ WaitOK /\ input \in Schedules
        /\ firstState \in [Blocks(F) -> Nat]
    BY DEF IInv, ShapeOK
  <2>2. \A x \in Blocks(F) : HasStates(x) => firstState[x] # Null
    BY FirstStateExists
  <2>3. EntryBlock \in Blocks(F) /\ HasStates(EntryBlock)
        /\ \A x \in Blocks(F) : x # 1 => HasStates(x)
    BY <2>1, EntryHasStates
  <2>4. CASE s = 1
    <3>1. state[s].default = 1 /\ state[s].transitions = <<<<firstState[EntryBlock], Null>>>>
      BY <2>1, <2>4 DEF WaitOK, Wait
    <3>2. \A j \in DOMAIN state[s].transitions :
             state[s].transitions[j][1] = firstState[EntryBlock]
      BY <3>1
    <3> QED BY <3>1, <3>2, <2>2, <2>3 DEF Null
  <2>5. CASE s # 1
    <3>1. PICK b \in Blocks(F) : /\ HasStates(b) /\ \E p \in Nat : FinishedRun(b, p)
                                 /\ \A p \in Nat : FinishedRun(b, p) =>
                                      \E k \in 0..input.statesNum[b] : s = list[p + k]
      BY <2>5, PlaceFinished
    <3>2. PICK p \in Nat : FinishedRun(b, p)
      BY <3>1
    <3>3. PICK k \in 0..input.statesNum[b] : s = list[p + k]
      BY <3>1, <3>2
    <3>4. /\ k < input.statesNum[b] =>
               state[s].transitions = << >> /\ state[s].default = list[p + k + 1]
          /\ k = input.statesNum[b] =>
               /\ state[s].transitions = Branch(b, NewState).transitions
               /\ state[s].default = Branch(b, NewState).default
      BY <3>2, <3>3 DEF FinishedRun, LinkedAt
    <3>5. input.statesNum[b] \in Nat
      BY <2>1, LastStateIs
    <3>6. CASE k < input.statesNum[b]
      <4>1. p + k + 1 \in 1..Len(list)
        <5>1. p \in 2..Len(list) /\ p + input.statesNum[b] \in 2..Len(list)
          BY <3>2 DEF FinishedRun
        <5> QED BY <5>1, <3>5, <3>6
      <4>2. list[p + k + 1] # 0
        <5>1. list[p + k + 1] \in 1..Len(list)
          BY <4>1, <2>1 DEF Listed
        <5>2. \A z \in 1..Len(list) : z # 0
          OBVIOUS
        <5> QED BY <5>1, <5>2
      <4> QED BY <4>2, <3>4, <3>6 DEF Null
    <3>7. CASE k = input.statesNum[b]
      <4>1. /\ \/ Branch(b, NewState).default = Wait
               \/ \E x \in Blocks(F) : x # 1 /\ Branch(b, NewState).default = firstState[x]
            /\ \A j \in DOMAIN Branch(b, NewState).transitions :
                 \E x \in Blocks(F) :
                    x # 1 /\ Branch(b, NewState).transitions[j][1] = firstState[x]
        BY <2>1, BranchTargets
      <4>2. Wait # Null
        BY DEF Wait, Null
      <4>3. /\ state[s].transitions = Branch(b, NewState).transitions
            /\ state[s].default = Branch(b, NewState).default
        BY <3>4, <3>7
      <4> QED BY <4>1, <4>2, <4>3, <2>2, <2>3
    <3> QED BY <3>5, <3>6, <3>7
  <2> QED BY <2>4, <2>5
<1> QED BY <1>1, Invariance, PTL

(* The states of a block follow one another, and every instruction is in   *)
(* the one that the schedule says.                                         *)
LEMMA InstructionsOfRuns == IInv => InstructionsPlaced
<1> SUFFICES ASSUME IInv, pc = "done", NEW b \in Blocks(F), HasStates(b)
             PROVE  /\ firstState[b] \in NamedStates(b, 0)
                    /\ \A k \in 1..input.statesNum[b] :
                         \E s \in NamedStates(b, k - 1) : state[s].default \in NamedStates(b, k)
                    /\ \A i \in BlockInstrs(F, b) :
                         /\ startState[i] \in NamedStates(b, input.start[i])
                         /\ endState[i] \in NamedStates(b, input.start[i] + Cycles(F, i))
                         /\ {s \in DOMAIN state : i \in ToSet(state[s].instrs)} = {startState[i]}
  BY DEF InstructionsPlaced, HasStates
<1>1. /\ ShapeOK /\ Listed /\ WaitOK /\ input \in Schedules /\ list \in Seq(Nat)
      /\ state \in Seq(StateRecords)
  BY DEF IInv, ShapeOK
<1>2. PICK p \in Nat : FinishedRun(b, p)
  BY RunFinished
<1>3. PICK m : m = input.statesNum[b]
  OBVIOUS
<1>4. m \in Nat /\ DOMAIN state = 1..Len(list) /\ Len(list) \in Nat
      /\ p \in 2..Len(list) /\ p + m \in 2..Len(list) /\ list[p] = firstState[b]
  <2>1. DOMAIN state = 1..Len(list)
    BY <1>1 DEF Listed
  <2> QED BY <2>1, <1>1, <1>2, <1>3, LastStateIs DEF FinishedRun
<1>5. \A k \in 0..m : list[p + k] \in NamedStates(b, k)
  <2>1. \A k \in 0..m : p + k \in 1..Len(list)
    BY <1>4
  <2>2. \A k \in 0..m : list[p + k] \in DOMAIN state
    BY <2>1, <1>1, <1>4 DEF Listed
  <2> QED BY <2>2, <1>2, <1>3 DEF FinishedRun, NamedStates
<1>6. firstState[b] \in NamedStates(b, 0)
  <2>1. 0 \in 0..m /\ p + 0 = p
    BY <1>4
  <2> QED BY <2>1, <1>4, <1>5
<1>7. ASSUME NEW k \in 1..m
      PROVE  \E s \in NamedStates(b, k - 1) : state[s].default \in NamedStates(b, k)
  <2>1. k - 1 \in 0..m /\ k \in 0..m /\ k - 1 < m /\ p + (k - 1) + 1 = p + k
    BY <1>4
  <2>2. state[list[p + (k - 1)]].default = list[p + (k - 1) + 1]
    BY <2>1, <1>2, <1>3 DEF FinishedRun, LinkedAt
  <2> QED BY <2>1, <2>2, <1>5
<1>8. ASSUME NEW i \in BlockInstrs(F, b)
      PROVE  /\ startState[i] \in NamedStates(b, input.start[i])
             /\ endState[i] \in NamedStates(b, input.start[i] + Cycles(F, i))
             /\ {s \in DOMAIN state : i \in ToSet(state[s].instrs)} = {startState[i]}
  <2>1. /\ i \in Instrs(F) /\ F.bb[i] = b
        /\ input.start[i] \in Nat /\ Cycles(F, i) \in {0, 1}
        /\ input.start[i] + Cycles(F, i) <= m
    BY <1>1, <1>3, LastStateIs
  <2>2. /\ input.start[i] \in 0..m /\ input.start[i] + Cycles(F, i) \in 0..m
        /\ p + (input.start[i] + Cycles(F, i)) = p + input.start[i] + Cycles(F, i)
    <3>1. m \in Nat /\ p \in Nat
      BY <1>4
    <3> QED BY <3>1, <2>1
  <2>3. /\ startState[i] = list[p + input.start[i]]
        /\ endState[i] = list[p + (input.start[i] + Cycles(F, i))]
    BY <2>2, <1>2 DEF FinishedRun, PlacedAt
  <2>4. startState[i] \in NamedStates(b, input.start[i]) /\ startState[i] \in DOMAIN state
    BY <2>2, <2>3, <1>5 DEF NamedStates
  <2>5. endState[i] \in NamedStates(b, input.start[i] + Cycles(F, i))
    BY <2>2, <2>3, <1>5
  <2>6. i \in ToSet(state[startState[i]].instrs)
    <3>1. state[startState[i]].instrs = InstrsIn(b, input.start[i])
      BY <2>2, <2>3, <1>2, <1>3 DEF FinishedRun, LinkedAt
    <3>2. ToSet(InstrsIn(b, input.start[i])) = {j \in BlockInstrs(F, b) : input.start[j] = input.start[i]}
      BY <1>1, InstrsInRange
    <3> QED BY <3>1, <3>2
  <2>7. ASSUME NEW s \in DOMAIN state, i \in ToSet(state[s].instrs)
        PROVE  s = startState[i]
    <3>1. CASE s = 1
      <4>1. state[s].instrs = << >>
        BY <3>1, <1>1 DEF WaitOK, Wait
      <4>2. ToSet(<< >>) = {}
        BY DEF ToSet
      <4> QED BY <4>1, <4>2, <2>7
    <3>2. CASE s # 1
      <4>1. PICK c \in Blocks(F) : /\ HasStates(c) /\ \E q \in Nat : FinishedRun(c, q)
                                   /\ \A q \in Nat : FinishedRun(c, q) =>
                                        \E k \in 0..input.statesNum[c] : s = list[q + k]
        BY <3>2, PlaceFinished
      <4>2. PICK q \in Nat : FinishedRun(c, q)
        BY <4>1
      <4>3. PICK k \in 0..input.statesNum[c] : s = list[q + k]
        BY <4>1, <4>2
      <4>4. state[s].instrs = InstrsIn(c, k)
        BY <4>2, <4>3 DEF FinishedRun, LinkedAt
      <4>5. ToSet(InstrsIn(c, k)) = {j \in BlockInstrs(F, c) : input.start[j] = k}
        BY <1>1, InstrsInRange
      <4>6. c = b /\ k = input.start[i]
        BY <4>4, <4>5, <2>1, <2>7 DEF BlockInstrs
      <4>7. q = p
        <5>1. /\ list[p] = firstState[b] /\ list[q] = firstState[b]
              /\ p \in 2..Len(list) /\ q \in 2..Len(list)
          BY <4>2, <4>6, <1>2 DEF FinishedRun
        <5>2. p \in 1..Len(list) /\ q \in 1..Len(list)
          BY <5>1, <1>4
        <5> QED BY <5>1, <5>2, <1>1 DEF Listed
      <4> QED BY <4>3, <4>6, <4>7, <2>3
    <3> QED BY <3>1, <3>2
  <2> QED BY <2>4, <2>5, <2>6, <2>7
<1> QED BY <1>3, <1>6, <1>7, <1>8

(* So they are when createFsm has returned.                                *)
THEOREM InstructionsArePlaced == MapSpec => []InstructionsPlaced
BY InstructionsOfRuns, Invariance, PTL

=============================================================================
