--------------------------- MODULE DataflowProofs ---------------------------
(***************************************************************************)
(* Proofs about the values in the generated module, for every set of       *)
(* schedules and both values of REG_OPT.                                   *)
(*                                                                         *)
(* DataInv adds DataOK to the invariant of the controller as it runs: each *)
(* signal has drivers of the form its kind has (Proper), the register that *)
(* holds an instruction takes its wire in the state it ends in (Linked),   *)
(* and the instructions whose states have been visited are driven in them  *)
(* (DrivenIn).  Every method of the generator extends what is there, but   *)
(* for the sharing of registers (SharingKeeps).                            *)
(*                                                                         *)
(* ValueInv adds Arriving: a value that has been computed since the wait   *)
(* state was left, and is read in this state or still needed after it, is  *)
(* in the register of its holder.  One clock edge carries this on, because *)
(* operands that arrive make the instruction's wire have its Meaning       *)
(* (WireValue), the register takes it in the state in which it is computed *)
(* (LatchedValue), and no other instruction of the register is computed in *)
(* a state after which the value is needed (LedDoNotClash).                *)
(*                                                                         *)
(* Meaning and Supported are functions defined by recursion along what     *)
(* dominates, and Signal by recursion along names: each is local, so that  *)
(* its equation holds once the instructions, or the names, are numbered.   *)
(***************************************************************************)
EXTENDS DatapathProofs

-----------------------------------------------------------------------------
(* What the values of a function are computed from.                        *)

(* Finitely many numbers are below one. *)
LEMMA BelowOne ==
    ASSUME NEW S, IsFiniteSet(S), NEW f \in [S -> Nat]
    PROVE  \E K \in Nat : \A x \in S : f[x] < K
<1> DEFINE R == {f[x] : x \in S} \cup {0}
<1>1. IsFiniteSet(R) /\ R \subseteq Int /\ R # {}
  <2>1. IsFiniteSet({f[x] : x \in S})
    BY FiniteRange
  <2> QED BY <2>1, FS_AddElement
<1> HIDE DEF R
<1>2. Max(R) \in R /\ \A n \in R : Max(R) >= n
  BY <1>1, MaxIsGreatest
<1>3. R \subseteq Nat /\ \A x \in S : f[x] \in R
  BY DEF R
<1>4. PICK g \in Nat : g \in R /\ \A n \in R : g >= n
  BY <1>2, <1>3
<1>5. g + 1 \in Nat /\ \A x \in S : f[x] < g + 1
  BY <1>3, <1>4
<1> QED BY <1>5

(* Numbers by which the operands of an instruction come before it. *)
Orders(key) ==
    /\ key \in [Instrs(F) -> Nat]
    /\ \A i \in Instrs(F) : F.op[i] # "PHI" =>
         \A n \in Operands(i) : /\ F.operands[i][n] \in Instrs(F)
                                /\ key[F.operands[i][n]] < key[i]

LEMMA OperandsOrdered ==
    ASSUME input \in Schedules
    PROVE  \E key : Orders(key)
<1>1. /\ IsControlFlow(F) /\ IsDominated(F, [i \in Instrs(F) |-> Dominating(F, i)])
      /\ \A i \in Instrs(F) : \A n \in Operands(i) :
           F.operands[i][n] \in Instrs(F) /\ F.operands[i][n] \in ToSet(F.operands[i])
  <2>1. IsControlFlow(F) /\ IsDominated(F, [i \in Instrs(F) |-> Dominating(F, i)])
    BY SchedulesAssumption, ReadersAssumption DEF F
  <2>2. \A i \in Instrs(F) : \A n \in Operands(i) :
           F.operands[i][n] \in Instrs(F) /\ F.operands[i][n] \in ToSet(F.operands[i])
    BY OperandsAssumption DEF F, Operands, ToSet
  <2> QED BY <2>1, <2>2
<1>2. PICK depth \in [Blocks(F) -> Blocks(F)] :
         \A i \in Instrs(F) : \A d \in Dominating(F, i) : Precedes(F, depth, d, i)
  BY <1>1 DEF IsDominated
<1>3. /\ Len(F.op) \in Nat /\ Instrs(F) = 1..Len(F.op)
      /\ \A i \in Instrs(F) : F.bb[i] \in Blocks(F)
      /\ Blocks(F) \subseteq Nat
  BY <1>1 DEF IsControlFlow, Instrs, Blocks
<1>4. PICK n \in Nat : n = Len(F.op)
  BY <1>3
<1> DEFINE key == [i \in Instrs(F) |-> depth[F.bb[i]] * (n + 1) + i]
<1>5. \A i \in Instrs(F) : depth[F.bb[i]] \in Nat /\ i \in 0..n
  BY <1>3, <1>4
<1>6. \A i \in Instrs(F) : key[i] \in Nat
  BY <1>5, PairOrder
<1>7. ASSUME NEW i \in Instrs(F), NEW d \in Dominating(F, i) PROVE key[d] < key[i]
  <2>1. d \in Instrs(F) /\ Precedes(F, depth, d, i)
    BY <1>2, <1>7 DEF Dominating
  <2>2. PICK a \in Nat, b \in Nat : a = depth[F.bb[d]] /\ b = depth[F.bb[i]]
    BY <1>5, <2>1
  <2>3. a < b \/ (a = b /\ d < i)
    BY <2>1, <2>2 DEF Precedes
  <2>4. key[d] = a * (n + 1) + d /\ key[i] = b * (n + 1) + i
    BY <2>1, <2>2
  <2>5. a < b => key[d] < key[i]
    BY <1>5, <2>1, <2>4, PairOrder
  <2>6. a = b /\ d < i => key[d] < key[i]
    <3>1. a * (n + 1) \in Nat /\ d \in Nat /\ i \in Nat
      BY <1>5, <2>1
    <3> QED BY <2>4, <3>1
  <2> QED BY <2>3, <2>5, <2>6
<1>8. key \in [Instrs(F) -> Nat]
  BY <1>6
<1> HIDE DEF key
<1>9. ASSUME NEW i \in Instrs(F), F.op[i] # "PHI", NEW k \in Operands(i)
      PROVE  F.operands[i][k] \in Instrs(F) /\ key[F.operands[i][k]] < key[i]
  BY <1>1, <1>7, <1>9 DEF Dominating
<1> QED BY <1>8, <1>9 DEF Orders

(* Meaning satisfies its equation. *)
MeaningFrom(m, i) ==
    IF F.op[i] \in BinaryOps \cup Comparisons
    THEN Value(<<F.op[i], OperandMeaning(i, 1, m), OperandMeaning(i, 2, m)>>, F.type[i])
    ELSE Undriven

(* It depends on the operands only. *)
LEMMA MeaningLocal ==
    ASSUME input \in Schedules, NEW i \in Instrs(F), NEW m, NEW l,
           F.op[i] # "PHI" => \A n \in Operands(i) : m[F.operands[i][n]] = l[F.operands[i][n]]
    PROVE  MeaningFrom(m, i) = MeaningFrom(l, i)
<1>1. CASE F.op[i] \notin BinaryOps \cup Comparisons
  BY <1>1 DEF MeaningFrom
<1>2. CASE F.op[i] \in BinaryOps \cup Comparisons
  <2>1. Len(F.operands[i]) = 2 /\ F.operands[i] \in Seq(Int)
    BY <1>2, FunctionSupported
  <2>2. 1 \in DOMAIN F.operands[i] /\ 2 \in DOMAIN F.operands[i]
    BY <2>1
  <2>3. F.op[i] # "PHI"
    BY <1>2 DEF BinaryOps, Comparisons
  <2>4. OperandMeaning(i, 1, m) = OperandMeaning(i, 1, l)
    BY <2>2, <2>3 DEF OperandMeaning, Operands
  <2>5. OperandMeaning(i, 2, m) = OperandMeaning(i, 2, l)
    BY <2>2, <2>3 DEF OperandMeaning, Operands
  <2> QED BY <2>4, <2>5 DEF MeaningFrom
<1> QED BY <1>1, <1>2

LEMMA MeaningIs ==
    ASSUME input \in Schedules
    PROVE  \A i \in Instrs(F) : Meaning[i] = MeaningFrom(Meaning, i)
<1>1. PICK key : Orders(key)
  BY OperandsOrdered
<1> DEFINE Right(k, m) == /\ m = [i \in Instrs(F) |-> m[i]]
                          /\ \A i \in Instrs(F) : key[i] < k => m[i] = MeaningFrom(m, i)
           T == {k \in Nat : \E m : Right(k, m)}
<1>2. 0 \in T
  <2>1. Right(0, [i \in Instrs(F) |-> Undriven])
    BY <1>1 DEF Orders
  <2> QED BY <2>1
<1>3. ASSUME NEW k \in T PROVE k + 1 \in T
  <2>1. k \in Nat
    OBVIOUS
  <2>2. PICK m : Right(k, m)
    BY <1>3
  <2>3. PICK l : l = [i \in Instrs(F) |-> IF key[i] = k THEN MeaningFrom(m, i) ELSE m[i]]
    OBVIOUS
  <2>4. l = [i \in Instrs(F) |-> l[i]]
    BY <2>3
  <2>5. ASSUME NEW i \in Instrs(F), key[i] < k + 1 PROVE l[i] = MeaningFrom(l, i)
    <3>1. key[i] \in Nat /\ key[i] <= k
      BY <2>1, <2>5, <1>1 DEF Orders
    <3>2. l[i] = MeaningFrom(m, i)
      BY <2>2, <2>3, <3>1
    <3>3. ASSUME F.op[i] # "PHI", NEW n \in Operands(i)
          PROVE  m[F.operands[i][n]] = l[F.operands[i][n]]
      <4>1. F.operands[i][n] \in Instrs(F) /\ key[F.operands[i][n]] < key[i]
            /\ key[F.operands[i][n]] \in Nat
        BY <1>1, <3>3 DEF Orders
      <4>2. key[F.operands[i][n]] # k
        BY <2>1, <3>1, <4>1
      <4> QED BY <2>3, <4>1, <4>2
    <3>4. MeaningFrom(m, i) = MeaningFrom(l, i)
      BY <3>3, MeaningLocal
    <3> QED BY <3>2, <3>4
  <2>6. Right(k + 1, l)
    BY <2>4, <2>5
  <2> QED BY <2>1, <2>6
<1> HIDE DEF Right
<1>4. PICK K \in Nat : \A i \in Instrs(F) : key[i] < K
  <2>1. IsFiniteSet(Instrs(F))
    BY SchedulesAssumption, ControlFlowShape DEF F
  <2> QED BY <2>1, <1>1, BelowOne DEF Orders
<1>5. K \in T
  <2>1. \A j \in 0..(K - 1) : j \in T => j + 1 \in T
    BY <1>3
  <2>2. 0..K \subseteq T
    BY <1>2, <2>1, InductionUpTo
  <2> QED BY <2>2
<1>6. PICK m : Right(K, m)
  BY <1>5
<1>7. m = [i \in Instrs(F) |-> MeaningFrom(m, i)]
  BY <1>4, <1>6 DEF Right
<1>8. Meaning = CHOOSE f : f = [i \in Instrs(F) |-> MeaningFrom(f, i)]
  BY DEF Meaning, MeaningFrom
<1>9. Meaning = [i \in Instrs(F) |-> MeaningFrom(Meaning, i)]
  BY <1>7, <1>8
<1> QED BY <1>9

(* So does Supported. *)
SupportedFrom(m, i) == F.op[i] \notin {"Load", "PHI"} /\ \A n \in Operands(i) : m[F.operands[i][n]]

LEMMA SupportedIs ==
    ASSUME input \in Schedules
    PROVE  \A i \in Instrs(F) : Supported[i] = SupportedFrom(Supported, i)
<1>1. PICK key : Orders(key)
  BY OperandsOrdered
<1> DEFINE Right(k, m) == /\ m = [i \in Instrs(F) |-> m[i]]
                          /\ \A i \in Instrs(F) : key[i] < k => m[i] = SupportedFrom(m, i)
           T == {k \in Nat : \E m : Right(k, m)}
<1>2. 0 \in T
  <2>1. ~(\E i \in Instrs(F) : key[i] < 0)
    BY <1>1 DEF Orders
  <2>2. Right(0, [i \in Instrs(F) |-> FALSE])
    BY <2>1, Zenon
  <2> QED BY <2>2
<1>3. ASSUME NEW k \in T PROVE k + 1 \in T
  <2>1. k \in Nat
    OBVIOUS
  <2>2. PICK m : Right(k, m)
    BY <1>3
  <2>3. PICK l : l = [i \in Instrs(F) |-> IF key[i] = k THEN SupportedFrom(m, i) ELSE m[i]]
    OBVIOUS
  <2>4. l = [i \in Instrs(F) |-> l[i]]
    BY <2>3
  <2>5. ASSUME NEW i \in Instrs(F), key[i] < k + 1 PROVE l[i] = SupportedFrom(l, i)
    <3>1. key[i] \in Nat /\ key[i] <= k
      BY <2>1, <2>5, <1>1 DEF Orders
    <3>2. l[i] = SupportedFrom(m, i)
      BY <2>2, <2>3, <3>1
    <3>3. ASSUME F.op[i] # "PHI", NEW n \in Operands(i)
          PROVE  m[F.operands[i][n]] = l[F.operands[i][n]]
      <4>1. F.operands[i][n] \in Instrs(F) /\ key[F.operands[i][n]] < key[i]
            /\ key[F.operands[i][n]] \in Nat
        BY <1>1, <3>3 DEF Orders
      <4>2. key[F.operands[i][n]] # k
        BY <2>1, <3>1, <4>1
      <4> QED BY <2>3, <4>1, <4>2
    <3>4. SupportedFrom(m, i) = SupportedFrom(l, i)
      BY <3>3, Zenon DEF SupportedFrom
    <3> QED BY <3>2, <3>4
  <2>6. Right(k + 1, l)
    BY <2>4, <2>5
  <2> QED BY <2>1, <2>6
<1> HIDE DEF Right
<1>4. PICK K \in Nat : \A i \in Instrs(F) : key[i] < K
  <2>1. IsFiniteSet(Instrs(F))
    BY SchedulesAssumption, ControlFlowShape DEF F
  <2> QED BY <2>1, <1>1, BelowOne DEF Orders
<1>5. K \in T
  <2>1. \A j \in 0..(K - 1) : j \in T => j + 1 \in T
    BY <1>3
  <2>2. 0..K \subseteq T
    BY <1>2, <2>1, InductionUpTo
  <2> QED BY <2>2
<1>6. PICK m : Right(K, m)
  BY <1>5
<1>7. m = [i \in Instrs(F) |-> SupportedFrom(m, i)]
  BY <1>4, <1>6 DEF Right
<1>8. Supported = CHOOSE f : f = [i \in Instrs(F) |-> SupportedFrom(f, i)]
  BY DEF Supported, SupportedFrom
<1>9. Supported = [i \in Instrs(F) |-> SupportedFrom(Supported, i)]
  BY <1>7, <1>8
<1> QED BY <1>9

-----------------------------------------------------------------------------
(* From when to when a register is to hold a value.                        *)

(* An instruction starts and ends in states of its block. *)
LEMMA InstructionLocated ==
    ASSUME IInv, pc = "done", NEW i \in Instrs(F), HasStates(F.bb[i])
    PROVE  /\ F.bb[i] \in Blocks(F) /\ input.statesNum[F.bb[i]] \in Nat
           /\ input.start[i] \in 0..input.statesNum[F.bb[i]]
           /\ EndOf(i) \in 0..input.statesNum[F.bb[i]] /\ Cycles(F, i) \in {0, 1}
           /\ EndOf(i) = input.start[i] + Cycles(F, i)
           /\ \E p : /\ \A k \in 0..input.statesNum[F.bb[i]] : Located(list[p + k], F.bb[i], p, k)
                     /\ Located(startState[i], F.bb[i], p, input.start[i])
                     /\ Located(endState[i], F.bb[i], p, EndOf(i))
                     /\ Located(LastStateOf(F.bb[i]), F.bb[i], p, input.statesNum[F.bb[i]])
                     /\ startState[i] = list[p + input.start[i]]
<1>1. input \in Schedules /\ IsControlFlow(F)
  BY SchedulesAssumption DEF IInv, ShapeOK, F
<1>2. F.bb[i] \in Blocks(F) /\ i \in BlockInstrs(F, F.bb[i])
  BY <1>1, ControlFlowShape DEF BlockInstrs
<1>3. /\ input.start[i] \in Nat /\ Cycles(F, i) \in {0, 1}
      /\ input.start[i] + Cycles(F, i) <= input.statesNum[F.bb[i]]
      /\ input.statesNum[F.bb[i]] \in Nat
  BY <1>1, <1>2, LastStateIs
<1>4. /\ input.start[i] \in 0..input.statesNum[F.bb[i]]
      /\ EndOf(i) \in 0..input.statesNum[F.bb[i]]
  BY <1>3 DEF EndOf
<1>5. PICK p : /\ \A k \in 0..input.statesNum[F.bb[i]] : Located(list[p + k], F.bb[i], p, k)
               /\ FinishedRun(F.bb[i], p)
               /\ LastStateOf(F.bb[i]) = list[p + input.statesNum[F.bb[i]]]
  BY <1>2, ChainLocated
<1>6. /\ startState[i] = list[p + input.start[i]] /\ p \in Int
      /\ endState[i] = list[p + input.start[i] + Cycles(F, i)]
  BY <1>2, <1>5 DEF FinishedRun, PlacedAt
<1>7. p + input.start[i] + Cycles(F, i) = p + EndOf(i)
  BY <1>3, <1>6 DEF EndOf
<1>8. input.statesNum[F.bb[i]] \in 0..input.statesNum[F.bb[i]]
  BY <1>3
<1>9. /\ Located(startState[i], F.bb[i], p, input.start[i])
      /\ Located(endState[i], F.bb[i], p, EndOf(i))
      /\ Located(LastStateOf(F.bb[i]), F.bb[i], p, input.statesNum[F.bb[i]])
  BY <1>4, <1>5, <1>6, <1>7, <1>8
<1> QED BY <1>2, <1>3, <1>4, <1>5, <1>6, <1>9 DEF EndOf

(* The block of what is not a terminator has states. *)
LEMMA NotTerminatorHasStates ==
    ASSUME input \in Schedules, NEW x \in Instrs(F), ~IsTerminator(F, x)
    PROVE  HasStates(F.bb[x])
<1>1. IsControlFlow(F)
  BY SchedulesAssumption DEF F
<1>2. F.bb[x] \in Blocks(F) /\ x \in BlockInstrs(F, F.bb[x])
  BY <1>1, ControlFlowShape DEF BlockInstrs
<1> SUFFICES ASSUME isBasicBlockEmpty(F, F.bb[x]) PROVE FALSE
  BY DEF HasStates
<1>3. Cardinality(BlockInstrs(F, F.bb[x])) = 1
  BY DEF isBasicBlockEmpty
<1>4. PICK j \in BlockInstrs(F, F.bb[x]) : IsTerminator(F, j)
  BY <1>1, <1>2 DEF IsControlFlow, IsLaidOut
<1>5. IsFiniteSet(BlockInstrs(F, F.bb[x]))
  <2>1. BlockInstrs(F, F.bb[x]) \subseteq Instrs(F)
    BY DEF BlockInstrs
  <2> QED BY <2>1, <1>1, ControlFlowShape, FS_Subset
<1>6. x = j
  <2>1. \E e : BlockInstrs(F, F.bb[x]) = {e}
    BY <1>3, <1>5, FS_Singleton
  <2> QED BY <2>1, <1>2, <1>4
<1> QED BY <1>4, <1>6

(* The value of x has been computed since the machine left the wait state. *)
ComputedBefore(x, s) ==
    \E b, p, k : /\ Located(s, b, p, k)
                 /\ IF b = F.bb[x] THEN k > EndOf(x) ELSE StrictlyDominates(F, F.bb[x], b)

(* It is read in this state, or later and before it is computed anew. *)
HeldIn(x, s) == s \in ReadIn(x) \/ (s # endState[x] /\ s \in NeededAfter(x))

LEMMA NeededBeforeHeld ==
    ASSUME NEW x, NEW s \in DOMAIN state, NEW t \in Successors(s), HeldIn(x, t)
    PROVE  s \in NeededAfter(x)
<1>1. ASSUME NEW S \in SUBSET DOMAIN state, Needing(x, S) PROVE s \in S
  <2>1. t \in ReadIn(x) \/ (t # endState[x] /\ t \in S)
    BY <1>1 DEF HeldIn, NeededAfter
  <2> QED BY <1>1, <2>1 DEF Needing
<1> QED BY <1>1 DEF NeededAfter

LEMMA NothingAtWait ==
    ASSUME IInv, pc = "done", NEW x
    PROVE  ~ComputedBefore(x, Wait)
BY LocatedOnce DEF ComputedBefore

(* The block before one that is dominated is the dominating one, or is      *)
(* dominated.                                                               *)
LEMMA DominatedBefore ==
    ASSUME input \in Schedules, NEW a, NEW b \in Blocks(F), NEW n \in DOMAIN F.succ[b],
           StrictlyDominates(F, a, F.succ[b][n]), b # a
    PROVE  StrictlyDominates(F, a, b)
<1>1. PICK S \in SUBSET Blocks(F) :
        /\ 1 \in S /\ F.succ[b][n] \notin S
        /\ \A c \in S \ {a} : ToSet(F.succ[c]) \subseteq S
  BY DEF StrictlyDominates
<1>2. F.succ[b][n] \in ToSet(F.succ[b])
  BY DEF ToSet
<1> QED BY <1>1, <1>2 DEF StrictlyDominates

(* It has been computed in the state before as well, or that computes it. *)
LEMMA ComputedEarlier ==
    ASSUME IInv, pc = "done", NEW x \in Instrs(F), HasStates(F.bb[x]),
           NEW s \in DOMAIN state, NEW t \in Successors(s), ComputedBefore(x, t)
    PROVE  s = endState[x] \/ ComputedBefore(x, s)
<1> DEFINE B == F.bb[x]
           e == EndOf(x)
<1>1. /\ input \in Schedules /\ B \in Blocks(F) /\ e \in 0..input.statesNum[B]
      /\ input.statesNum[B] \in Nat
  BY InstructionLocated DEF IInv, ShapeOK
<1>2. PICK pe : Located(endState[x], B, pe, e)
  BY InstructionLocated
<1>3. PICK c, q, m : /\ Located(t, c, q, m)
                     /\ IF c = B THEN m > e ELSE StrictlyDominates(F, B, c)
  BY DEF ComputedBefore
<1>4. t # Wait /\ \A a, p, k : Located(t, a, p, k) => a = c /\ p = q /\ k = m
  BY <1>3, LocatedOnce
<1>5. ~(s = Wait /\ t = firstState[EntryBlock])
  <2> SUFFICES ASSUME t = firstState[EntryBlock] PROVE FALSE
    OBVIOUS
  <2>1. EntryBlock \in Blocks(F) /\ HasStates(EntryBlock)
    BY <1>1, EntryHasStates
  <2>2. \E p : Located(t, EntryBlock, p, 0)
    BY <2>1, ChainLocated
  <2>3. c = EntryBlock /\ m = 0
    BY <2>2, <1>4
  <2>4. ~(0 > e)
    BY <1>1
  <2>5. c # B /\ StrictlyDominates(F, B, EntryBlock)
    BY <1>3, <2>3, <2>4
  <2>6. EntryBlock # 1
    BY <2>5 DEF StrictlyDominates
  <2>7. ~HasStates(1) /\ EntryBlock = F.succ[1][1] /\ Len(F.succ[1]) = 1
    BY <1>1, <2>6, EntryHasStates
  <2>8. 1 \in Blocks(F) /\ F.succ[1] \in Seq(Blocks(F))
    BY <1>1, SchedulesAssumption, ControlFlowShape DEF F
  <2>9. 1 \in DOMAIN F.succ[1] /\ B # 1
    BY <2>7, <2>8
  <2>10. StrictlyDominates(F, B, 1)
    BY <1>1, <2>5, <2>7, <2>8, <2>9, DominatedBefore
  <2> QED BY <2>10 DEF StrictlyDominates
<1>6. CASE \E b, p, k : Located(s, b, p, k) /\ Located(t, b, p, k + 1)
  <2>1. PICK b, p, k : Located(s, b, p, k) /\ Located(t, b, p, k + 1)
    BY <1>6
  <2>2. b = c /\ k + 1 = m
    BY <2>1, <1>4
  <2>3. k \in Int /\ e \in Int
    BY <2>1, <1>1 DEF Located
  <2>4. m > e => k > e \/ k = e
    BY <2>2, <2>3
  <2>5. b = B /\ k = e => s = endState[x]
    <3> SUFFICES ASSUME b = B, k = e PROVE s = endState[x]
      OBVIOUS
    <3>1. p = pe
      BY <2>1, <1>2, RunsOnce DEF Located
    <3> QED BY <3>1, <2>1, <1>2 DEF Located
  <2> QED BY <2>1, <2>2, <2>4, <2>5, <1>3 DEF ComputedBefore
<1>7. CASE \E b, p : /\ Located(s, b, p, input.statesNum[b])
                     /\ \E n \in DOMAIN F.succ[b] : t = firstState[F.succ[b][n]]
  <2>1. PICK b, p : /\ Located(s, b, p, input.statesNum[b])
                    /\ \E n \in DOMAIN F.succ[b] : t = firstState[F.succ[b][n]]
    BY <1>7
  <2>2. PICK n \in DOMAIN F.succ[b] : t = firstState[F.succ[b][n]]
    BY <2>1
  <2>3. b \in Blocks(F) /\ F.succ[b][n] \in Blocks(F) /\ F.succ[b][n] # 1
    BY <2>1, <2>2, <1>1, SchedulesAssumption, ControlFlowShape DEF F, Located
  <2>4. \E r : Located(t, F.succ[b][n], r, 0)
    BY <2>2, <2>3, <1>1, EntryHasStates, ChainLocated
  <2>5. c = F.succ[b][n] /\ m = 0
    BY <2>4, <1>4
  <2>6. ~(0 > e)
    BY <1>1
  <2>7. StrictlyDominates(F, B, F.succ[b][n])
    BY <2>5, <2>6, <1>3
  <2>8. CASE b = B
    <3>1. input.statesNum[b] > e \/ input.statesNum[b] = e
      BY <2>8, <1>1
    <3>2. input.statesNum[b] = e => s = endState[x]
      <4> SUFFICES ASSUME input.statesNum[b] = e PROVE s = endState[x]
        OBVIOUS
      <4>1. p = pe
        BY <2>1, <2>8, <1>2, RunsOnce DEF Located
      <4> QED BY <4>1, <2>1, <1>2 DEF Located
    <3> QED BY <3>1, <3>2, <2>1, <2>8 DEF ComputedBefore
  <2>9. CASE b # B
    <3>1. StrictlyDominates(F, B, b)
      BY <1>1, <2>3, <2>7, <2>9, DominatedBefore
    <3> QED BY <3>1, <2>1, <2>9 DEF ComputedBefore
  <2> QED BY <2>8, <2>9
<1> QED BY <1>4, <1>5, <1>6, <1>7, SuccessorLocated

(* What is read has been computed when the reader starts. *)
LEMMA ReadIsComputed ==
    ASSUME IInv, pc = "done", NEW i \in Instrs(F), NEW y \in Dominating(F, i)
    PROVE  /\ y \in Instrs(F) /\ ~IsTerminator(F, y) /\ F.op[i] # "PHI" /\ i \in Users(y)
           /\ HasStates(F.bb[y]) /\ HasStates(F.bb[i])
           /\ \A s, p, k : Located(s, F.bb[i], p, k) /\ k >= input.start[i] => ComputedBefore(y, s)
<1>1. input \in Schedules /\ IsControlFlow(F) /\ IsSchedule(F, input.start, input.statesNum)
  BY SchedulesAssumption DEF IInv, ShapeOK, F
<1>2. y \in Instrs(F) /\ y \in ToSet(F.operands[i]) /\ F.op[i] # "PHI"
  BY DEF Dominating
<1>3. ~IsTerminator(F, y)
  BY <1>1, ReadersAssumption DEF F, IsDominated
<1>4. i \in Users(y)
  BY <1>2 DEF Users, Lva!Users, Lva!Instrs, Instrs, Lva!ToSet, ToSet
<1>5. IF F.bb[y] = F.bb[i]
      THEN y \in F.deps[i] \/ F.op[y] = "Alloca"
      ELSE StrictlyDominates(F, F.bb[y], F.bb[i])
  BY <1>1, ReadersAssumption DEF F
<1>6. F.op[y] # "Alloca"
  BY <1>1, <1>2, FunctionSupported DEF BinaryOps, Comparisons
<1>7. HasStates(F.bb[y])
  BY <1>1, <1>2, <1>3, NotTerminatorHasStates
<1>8. F.bb[i] \in Blocks(F) /\ F.bb[y] \in Blocks(F)
  BY <1>1, <1>2, ControlFlowShape
<1>9. HasStates(F.bb[i])
  <2>1. F.bb[i] # 1 => HasStates(F.bb[i])
    BY <1>1, <1>8, EntryHasStates
  <2>2. F.bb[i] = 1 => F.bb[y] = F.bb[i]
    BY <1>5 DEF StrictlyDominates
  <2> QED BY <2>1, <2>2, <1>7
<1>10. ASSUME NEW s, NEW p, NEW k, Located(s, F.bb[i], p, k), k >= input.start[i]
       PROVE  ComputedBefore(y, s)
  <2>1. CASE F.bb[y] = F.bb[i]
    <3>1. input.start[y] + Cycles(F, y) < input.start[i]
      BY <2>1, <1>1, <1>2, <1>5, <1>6 DEF IsSchedule, RegistersReady
    <3>2. EndOf(y) < input.start[i] /\ EndOf(y) \in Int /\ input.start[i] \in Int /\ k \in Int
      <4>1. EndOf(y) \in Int
        BY <1>2, <1>7, InstructionLocated
      <4>2. input.start[i] \in Int
        BY <1>9, InstructionLocated
      <4>3. k \in Int
        BY <1>10 DEF Located
      <4> QED BY <3>1, <4>1, <4>2, <4>3 DEF EndOf
    <3>3. k > EndOf(y)
      BY <3>2, <1>10
    <3> QED BY <2>1, <3>3, <1>10 DEF ComputedBefore
  <2>2. CASE F.bb[y] # F.bb[i]
    BY <2>2, <1>5, <1>10 DEF ComputedBefore
  <2> QED BY <2>1, <2>2
<1> QED BY <1>2, <1>3, <1>4, <1>7, <1>9, <1>10

(* Once it has been computed, it is not computed in this state. *)
LEMMA NotComputedHere ==
    ASSUME IInv, pc = "done", NEW x \in Instrs(F), HasStates(F.bb[x]), NEW s, ComputedBefore(x, s)
    PROVE  s # endState[x]
<1>1. PICK pe : Located(endState[x], F.bb[x], pe, EndOf(x)) /\ EndOf(x) \in Int
  BY InstructionLocated
<1>2. PICK b, p, k : /\ Located(s, b, p, k)
                     /\ IF b = F.bb[x] THEN k > EndOf(x) ELSE StrictlyDominates(F, F.bb[x], b)
  BY DEF ComputedBefore
<1> SUFFICES ASSUME s = endState[x] PROVE FALSE
  OBVIOUS
<1>3. b = F.bb[x] /\ k = EndOf(x)
  BY <1>1, <1>2, LocatedOnce
<1>4. ~(EndOf(x) > EndOf(x))
  BY <1>1
<1> QED BY <1>2, <1>3, <1>4

(* It is held until the reader starts; a branch starts before the last      *)
(* state of its block, which is the one that reads.                         *)
LEMMA ReadIsHeld ==
    ASSUME IInv, pc = "done", NEW i \in Instrs(F), NEW y \in Dominating(F, i)
    PROVE  /\ HeldIn(y, startState[i]) /\ ComputedBefore(y, startState[i])
           /\ F.op[i] = "Br" => /\ HeldIn(y, LastStateOf(F.bb[i]))
                                 /\ ComputedBefore(y, LastStateOf(F.bb[i]))
<1>1. /\ y \in Instrs(F) /\ F.op[i] # "PHI" /\ i \in Users(y)
      /\ HasStates(F.bb[y]) /\ HasStates(F.bb[i])
      /\ \A s, p, k : Located(s, F.bb[i], p, k) /\ k >= input.start[i] => ComputedBefore(y, s)
  BY ReadIsComputed
<1> DEFINE N == input.statesNum[F.bb[i]]
           a == input.start[i]
<1>2. N \in Nat /\ a \in 0..N
  BY <1>1, InstructionLocated
<1>3. PICK p : /\ \A k \in 0..N : Located(list[p + k], F.bb[i], p, k)
               /\ Located(startState[i], F.bb[i], p, a)
               /\ Located(LastStateOf(F.bb[i]), F.bb[i], p, N)
  BY <1>1, InstructionLocated
<1>4. a >= a /\ N >= a
  BY <1>2
<1>5. ComputedBefore(y, startState[i]) /\ ComputedBefore(y, LastStateOf(F.bb[i]))
  BY <1>1, <1>3, <1>4
<1>6. CASE F.op[i] # "Br"
  BY <1>1, <1>5, <1>6 DEF HeldIn, ReadIn
<1>7. CASE F.op[i] = "Br"
  <2>1. HeldIn(y, LastStateOf(F.bb[i]))
    BY <1>1, <1>7 DEF HeldIn, ReadIn
  <2> DEFINE T == {m \in 0..(N - a) : HeldIn(y, list[p + (N - m)])}
  <2>2. 0 \in T
    <3>1. 0 \in 0..(N - a) /\ N - 0 = N
      BY <1>2
    <3>2. LastStateOf(F.bb[i]) = list[p + N]
      BY <1>3 DEF Located
    <3> QED BY <2>1, <3>1, <3>2
  <2>3. ASSUME NEW m \in 0..((N - a) - 1), m \in T PROVE m + 1 \in T
    <3>1. /\ m + 1 \in 0..(N - a) /\ N - m \in 0..N /\ N - (m + 1) \in 0..N
          /\ N - (m + 1) < N /\ (N - (m + 1)) + 1 = N - m /\ N - (m + 1) >= a
      BY <1>2
    <3> DEFINE k == N - (m + 1)
               s == list[p + k]
               t == list[p + (N - m)]
    <3>2. Located(s, F.bb[i], p, k) /\ Located(t, F.bb[i], p, N - m) /\ k \in 0..N /\ k < N /\ k + 1 = N - m
      BY <3>1, <1>3
    <3>3. s \in DOMAIN state
      BY <3>2, LocatedOnce
    <3>4. t \in Successors(s)
      <4>1. state[list[p + k]].default = list[p + k + 1]
        BY <3>2 DEF Located, FinishedRun, LinkedAt
      <4>2. p + k + 1 = p + (k + 1)
        <5>1. p \in Int /\ k \in Int
          BY <3>2 DEF Located
        <5> QED BY <5>1
      <4> QED BY <4>1, <4>2, <3>2 DEF Successors
    <3>5. HeldIn(y, t)
      BY <2>3
    <3>6. s \in NeededAfter(y)
      BY <3>3, <3>4, <3>5, NeededBeforeHeld
    <3>7. ComputedBefore(y, s)
      BY <3>1, <3>2, <1>1
    <3>8. s # endState[y]
      BY <3>7, <1>1, NotComputedHere
    <3>9. HeldIn(y, s)
      BY <3>6, <3>8 DEF HeldIn
    <3> QED BY <3>9, <3>1
  <2>4. N - a \in Nat /\ N - (N - a) = a /\ N - a \in 0..(N - a)
    BY <1>2
  <2> HIDE DEF T
  <2>5. 0..(N - a) \subseteq T
    BY <2>2, <2>3, <2>4, InductionUpTo
  <2>6. HeldIn(y, list[p + a])
    BY <2>4, <2>5 DEF T
  <2>7. startState[i] = list[p + a]
    BY <1>3 DEF Located
  <2> QED BY <2>1, <2>6, <2>7, <1>5
<1> QED BY <1>5, <1>6, <1>7

-----------------------------------------------------------------------------
(* What drives the signals.                                                *)

Pairs(g) == {<<g.conditions[k], g.drivers[k]>> : k \in DOMAIN g.conditions}

(* The instructions of a block that are bound to the instance of i. *)
SameUnit(i) == {j \in Bindable : unitOf[j] # Unbound /\ FuInstName(j) = FuInstName(i)}

UnitNames ==
    UNION {{Fu(i), Op0(i), Op1(i)} : i \in {j \in Bindable : unitOf[j] # Unbound}}

Names ==
    PortNames \cup {Wire(i) : i \in Instrs(F)} \cup {Reg(i) : i \in Kept} \cup UnitNames

(* Where the result of an instruction comes from. *)
Source(i) ==
    IF unitOf[i] # Unbound THEN Named(Fu(i))
    ELSE createFu(i, getOperandSignal(i, 1), getOperandSignal(i, 2))

IsWire(i, g) ==
    /\ g.type = "wire" /\ g.width = F.type[i]
    /\ \A k \in DOMAIN g.drivers : g.drivers[k] = Source(i)

(* The instructions that a register is for, apart from i those that share *)
(* the register of i.                                                     *)
Led(i) ==
    {j \in Kept : j = i \/ (phase = "done" /\ j \in Bindable /\ Joins(j) /\ Leader(j) = i)}

IsOwn(i, g) ==
    /\ g.type = "reg" /\ g.width = F.type[i]
    /\ \A e \in Pairs(g) : \E j \in Led(i) : e = <<InState(endState[j]), Named(Wire(j))>>

IsLent(i, g) ==
    /\ g.type = "wire" /\ g.width = F.type[i]
    /\ g.conditions = << >> /\ g.drivers = <<Named(Reg(Leader(i)))>>
    /\ phase = "done" /\ i \in Bindable /\ Joins(i) /\ Leader(i) \in Kept

IsUnit(i, g) ==
    /\ g.type = "wire" /\ g.conditions = << >>
    /\ \E c \in SameUnit(i) :
         /\ g.width = F.type[c]
         /\ g.drivers = <<createFu(c, Named(Op0(c)),
                                   IF F.op[c] \in BinaryOps THEN Named(Op1(c)) ELSE NoSignal)>>

(* The n-th operand of a unit. *)
IsOperand(i, n, g) ==
    /\ g.type = "wire" /\ g.width = F.width[i]
    /\ \A e \in Pairs(g) : \E s \in DOMAIN state : \E j \in SameUnit(i) :
         j \in ToSet(state[s].instrs) /\ e = <<InState(s), getOperandSignal(j, n)>>

IsResult(g) ==
    /\ g.type = "output reg" /\ g.width = F.result
    /\ \A e \in Pairs(g) : \E s \in DOMAIN state :
         /\ e[1] = InState(s)
         /\ s = Wait \/ \E r \in ReturnsIn(s) : e[2] = getOperandSignal(r, 1)

IsCurState(g) ==
    g.type = "reg" /\ \A k \in DOMAIN g.drivers : g.drivers[k][1] \in {"parameter", "constant"}

Proper(x, g) ==
    /\ x \in Names
    /\ x \in {Start, Reset} => g.type = "input wire"
    /\ x = Finish => g.type = "output reg"
    /\ x = ReturnVal => IsResult(g)
    /\ x = CurState => IsCurState(g)
    /\ \A n \in DOMAIN F.args : x = Arg(n) => g.type = "input wire" /\ g.width = F.args[n]
    /\ \A i \in Instrs(F) : x = Wire(i) => IsWire(i, g)
    /\ \A i \in Kept : x = Reg(i) => IsOwn(i, g) \/ IsLent(i, g)
    /\ \A i \in Bindable : x = Fu(i) => IsUnit(i, g)
    /\ \A i \in Bindable : x = Op0(i) => IsOperand(i, 1, g)
    /\ \A i \in Bindable : x = Op1(i) => IsOperand(i, 2, g)

AllProper(m) == \A x \in DOMAIN m : Proper(x, m[x])

-----------------------------------------------------------------------------
LEMMA NamesDiffer ==
    /\ \A i, j : /\ Wire(i) = Wire(j) => i = j
                 /\ Reg(i) = Reg(j) => i = j
                 /\ Arg(i) = Arg(j) => i = j
                 /\ Fu(i) = Fu(j) <=> FuInstName(i) = FuInstName(j)
                 /\ Op0(i) = Op0(j) <=> FuInstName(i) = FuInstName(j)
                 /\ Op1(i) = Op1(j) <=> FuInstName(i) = FuInstName(j)
BY DEF Wire, Reg, Arg, Fu, Op0, Op1

(* Instructions of one instance have one opcode and one width. *)
LEMMA UnitOfOne ==
    ASSUME NEW i \in Bindable, NEW j, FuInstName(i) = FuInstName(j)
    PROVE  /\ F.bb[i] = F.bb[j] /\ FuOf(i) = FuOf(j) /\ unitOf[i] = unitOf[j]
           /\ FuOf(i) = <<F.op[i], F.width[i]>>
           /\ j \in Bindable => F.op[i] = F.op[j] /\ F.width[i] = F.width[j]
           /\ SameUnit(i) = SameUnit(j)
<1>1. F.bb[i] = F.bb[j] /\ FuOf(i) = FuOf(j) /\ unitOf[i] = unitOf[j]
  BY DEF FuInstName
<1>2. \A k \in Bindable : FuOf(k) = <<F.op[k], F.width[k]>>
  BY DEF Bindable, FuOf, getInstructionFu
<1>3. SameUnit(i) = SameUnit(j)
  BY DEF SameUnit
<1> QED BY <1>1, <1>2, <1>3

LEMMA ProperWire ==
    ASSUME NEW i \in Instrs(F), NEW g
    PROVE  Proper(Wire(i), g) <=> IsWire(i, g)
<1>1. Wire(i) \in Names
  BY DEF Names
<1> QED BY <1>1, NamesApart, NamesDiffer DEF Proper

LEMMA ProperReg ==
    ASSUME NEW i \in Kept, NEW g
    PROVE  Proper(Reg(i), g) <=> IsOwn(i, g) \/ IsLent(i, g)
<1>1. Reg(i) \in Names
  BY DEF Names
<1> QED BY <1>1, NamesApart, NamesDiffer DEF Proper

LEMMA ProperUnit ==
    ASSUME NEW i \in Bindable, unitOf[i] # Unbound, NEW g
    PROVE  /\ Proper(Fu(i), g) <=> IsUnit(i, g)
           /\ Proper(Op0(i), g) <=> IsOperand(i, 1, g)
           /\ Proper(Op1(i), g) <=> IsOperand(i, 2, g)
<1>1. {Fu(i), Op0(i), Op1(i)} \subseteq Names
  BY DEF Names, UnitNames
<1>2. ASSUME NEW j \in Bindable, FuInstName(j) = FuInstName(i)
      PROVE  /\ IsUnit(j, g) <=> IsUnit(i, g)
             /\ IsOperand(j, 1, g) <=> IsOperand(i, 1, g)
             /\ IsOperand(j, 2, g) <=> IsOperand(i, 2, g)
  <2>1. SameUnit(i) = SameUnit(j) /\ F.width[i] = F.width[j]
    BY <1>2, UnitOfOne
  <2> QED BY <2>1, Zenon DEF IsUnit, IsOperand
<1>3. Proper(Fu(i), g) <=> IsUnit(i, g)
  <2>1. PICK x : x = Fu(i)
    OBVIOUS
  <2>2. x[1] = "fu" /\ x \in Names
    BY <1>1, <2>1, NamesApart
  <2>3. /\ x \notin {Start, Reset, Finish, CurState, ReturnVal} /\ \A n : x # Arg(n)
        /\ \A j : x # Wire(j) /\ x # Reg(j) /\ x # Op0(j) /\ x # Op1(j)
    BY <2>2, NamesApart
  <2>4. \A j \in Bindable : x = Fu(j) => FuInstName(j) = FuInstName(i)
    BY <2>1, NamesDiffer
  <2>5. Proper(x, g) <=> \A j \in Bindable : x = Fu(j) => IsUnit(j, g)
    BY <2>2, <2>3, Zenon DEF Proper
  <2> QED BY <2>1, <2>4, <2>5, <1>2
<1>4. Proper(Op0(i), g) <=> IsOperand(i, 1, g)
  <2>1. PICK x : x = Op0(i)
    OBVIOUS
  <2>2. x[1] = "op0" /\ x \in Names
    BY <1>1, <2>1, NamesApart
  <2>3. /\ x \notin {Start, Reset, Finish, CurState, ReturnVal} /\ \A n : x # Arg(n)
        /\ \A j : x # Wire(j) /\ x # Reg(j) /\ x # Fu(j) /\ x # Op1(j)
    BY <2>2, NamesApart
  <2>4. \A j \in Bindable : x = Op0(j) => FuInstName(j) = FuInstName(i)
    BY <2>1, NamesDiffer
  <2>5. Proper(x, g) <=> \A j \in Bindable : x = Op0(j) => IsOperand(j, 1, g)
    BY <2>2, <2>3, Zenon DEF Proper
  <2> QED BY <2>1, <2>4, <2>5, <1>2
<1>5. Proper(Op1(i), g) <=> IsOperand(i, 2, g)
  <2>1. PICK x : x = Op1(i)
    OBVIOUS
  <2>2. x[1] = "op1" /\ x \in Names
    BY <1>1, <2>1, NamesApart
  <2>3. /\ x \notin {Start, Reset, Finish, CurState, ReturnVal} /\ \A n : x # Arg(n)
        /\ \A j : x # Wire(j) /\ x # Reg(j) /\ x # Fu(j) /\ x # Op0(j)
    BY <2>2, NamesApart
  <2>4. \A j \in Bindable : x = Op1(j) => FuInstName(j) = FuInstName(i)
    BY <2>1, NamesDiffer
  <2>5. Proper(x, g) <=> \A j \in Bindable : x = Op1(j) => IsOperand(j, 2, g)
    BY <2>2, <2>3, Zenon DEF Proper
  <2> QED BY <2>1, <2>4, <2>5, <1>2
<1> QED BY <1>3, <1>4, <1>5

LEMMA ProperPorts ==
    ASSUME NEW g
    PROVE  /\ ReturnVal \in PortNames => (Proper(ReturnVal, g) <=> IsResult(g))
           /\ Proper(CurState, g) <=> IsCurState(g)
           /\ Proper(Finish, g) <=> g.type = "output reg"
<1>1. PortNames \subseteq Names /\ CurState \in PortNames /\ Finish \in PortNames
  BY DEF Names, PortNames
<1>2. Finish # CurState /\ Finish # ReturnVal /\ CurState # ReturnVal
  BY NamesApart
<1>3. {Finish, CurState, ReturnVal} \cap {Start, Reset} = {}
  BY NamesApart
<1>4. Proper(CurState, g) <=> IsCurState(g)
  BY <1>1, <1>2, <1>3, NamesApart DEF Proper
<1>5. Proper(Finish, g) <=> g.type = "output reg"
  BY <1>1, <1>2, <1>3, NamesApart DEF Proper
<1>6. ReturnVal \in PortNames => (Proper(ReturnVal, g) <=> IsResult(g))
  BY <1>1, <1>2, <1>3, NamesApart DEF Proper
<1> QED BY <1>4, <1>5, <1>6

(* Another condition of a signal. *)
LEMMA AppendedHas ==
    ASSUME NEW g, IsSignal(g), Parallel(g), NEW c, NEW d, NEW a, a = Appended(g, c, d)
    PROVE  /\ a.type = g.type /\ a.width = g.width
           /\ Pairs(a) = Pairs(g) \cup {<<c, d>>}
           /\ a.drivers # << >>
           /\ \A k \in DOMAIN a.drivers : a.drivers[k] = d \/ \E l \in DOMAIN g.drivers : a.drivers[k] = g.drivers[l]
<1>1. PICK cs, ds : cs = g.conditions /\ ds = g.drivers
  OBVIOUS
<1>2. IsSequence(cs) /\ IsSequence(ds) /\ Len(ds) = Len(cs)
  BY <1>1 DEF IsSignal, Parallel
<1>3. PICK more, longer : more = Append(cs, c) /\ longer = Append(ds, d)
  OBVIOUS
<1>4. /\ Len(cs) \in Nat /\ DOMAIN cs = 1..Len(cs)
      /\ DOMAIN more = 1..(Len(cs) + 1)
      /\ \A k \in 1..Len(cs) : more[k] = cs[k]
      /\ more[Len(cs) + 1] = c
  BY <1>2, <1>3, AppendedIs
<1>5. /\ DOMAIN ds = 1..Len(cs) /\ DOMAIN longer = 1..(Len(cs) + 1)
      /\ \A k \in 1..Len(cs) : longer[k] = ds[k]
      /\ longer[Len(cs) + 1] = d
  BY <1>2, <1>3, AppendedIs
<1>6. /\ a.type = g.type /\ a.width = g.width /\ a.conditions = more /\ a.drivers = longer
  <2>1. a = [type |-> g.type, width |-> g.width, conditions |-> more, drivers |-> longer]
    BY <1>1, <1>3 DEF Appended
  <2> QED BY <2>1
<1>7. PICK n : n = Len(cs)
  OBVIOUS
<1>8. /\ n \in Nat /\ DOMAIN cs = 1..n /\ DOMAIN more = 1..(n + 1)
      /\ DOMAIN ds = 1..n /\ DOMAIN longer = 1..(n + 1)
      /\ \A k \in 1..n : more[k] = cs[k] /\ longer[k] = ds[k]
      /\ more[n + 1] = c /\ longer[n + 1] = d
  BY <1>4, <1>5, <1>7
<1>9. 1..(n + 1) = 1..n \cup {n + 1} /\ n + 1 \notin 1..n
  BY <1>8
<1>10. Pairs(a) = Pairs(g) \cup {<<c, d>>}
  <2>1. \A e : e \in Pairs(a) <=> \E k \in 1..(n + 1) : e = <<more[k], longer[k]>>
    BY <1>6, <1>8 DEF Pairs
  <2>2. \A e : e \in Pairs(g) <=> \E k \in 1..n : e = <<cs[k], ds[k]>>
    BY <1>1, <1>8 DEF Pairs
  <2> QED BY <2>1, <2>2, <1>8, <1>9
<1>11. longer # << >>
  BY <1>8, <1>9, EmptyIs
<1>12. \A k \in DOMAIN longer : longer[k] = d \/ \E l \in DOMAIN ds : longer[k] = ds[l]
  BY <1>8, <1>9
<1> QED BY <1>1, <1>6, <1>10, <1>11, <1>12

-----------------------------------------------------------------------------
(* What the generator adds is as it should be.                             *)

Grown(m, n) ==
    /\ DOMAIN m \subseteq DOMAIN n
    /\ \A x \in DOMAIN m : /\ Pairs(m[x]) \subseteq Pairs(n[x]) /\ n[x].type = m[x].type
                           /\ m[x].drivers # << >> => n[x].drivers # << >>

Extends(m, n) == ModuleOK(n, {}) /\ AllProper(n) /\ Grown(m, n)

LEMMA ExtendsItself ==
    ASSUME NEW m, ModuleOK(m, {}), AllProper(m)
    PROVE  Extends(m, m)
BY DEF Extends, Grown

LEMMA ExtendsTransitive ==
    ASSUME NEW m, NEW n, NEW o, Extends(m, n), Extends(n, o)
    PROVE  Extends(m, o)
<1>1. Grown(m, o)
  <2>1. DOMAIN m \subseteq DOMAIN n /\ DOMAIN n \subseteq DOMAIN o
    BY DEF Extends, Grown
  <2>2. ASSUME NEW x \in DOMAIN m
        PROVE  /\ Pairs(m[x]) \subseteq Pairs(o[x]) /\ o[x].type = m[x].type
               /\ m[x].drivers # << >> => o[x].drivers # << >>
    <3>1. /\ Pairs(m[x]) \subseteq Pairs(n[x]) /\ n[x].type = m[x].type
          /\ m[x].drivers # << >> => n[x].drivers # << >>
      BY DEF Extends, Grown
    <3>2. /\ Pairs(n[x]) \subseteq Pairs(o[x]) /\ o[x].type = n[x].type
          /\ n[x].drivers # << >> => o[x].drivers # << >>
      BY <2>1 DEF Extends, Grown
    <3> QED BY <3>1, <3>2
  <2> QED BY <2>1, <2>2 DEF Grown
<1> QED BY <1>1 DEF Extends

(* The module n has another condition and driver of the signal than m. *)
Augments(m, n, name, c, d) ==
    /\ Extends(m, n) /\ DOMAIN n = DOMAIN m /\ n[name] = Appended(m[name], c, d)
    /\ \A x \in DOMAIN m : x # name => n[x] = m[x]
    /\ <<c, d>> \in Pairs(n[name]) /\ n[name].drivers # << >>

LEMMA ConditionExtends ==
    ASSUME NEW m, NEW name, NEW c, NEW d, NEW n, n = addCondition(m, name, c, d),
           ModuleOK(m, {}), AllProper(m), name \in DOMAIN m, name[1] # "fu",
           Attached(m, name, d), Proper(name, Appended(m[name], c, d))
    PROVE  Augments(m, n, name, c, d)
<1>1. ~Replaceable(name, {})
  BY DEF Replaceable
<1>2. ModuleOK(n, {})
  BY <1>1, ConditionAdded
<1>3. IsSignal(m[name]) /\ Parallel(m[name]) /\ m = [x \in DOMAIN m |-> m[x]]
  BY <1>1 DEF ModuleOK, SignalOK
<1>4. /\ DOMAIN n = DOMAIN m /\ n[name] = Appended(m[name], c, d)
      /\ \A x \in DOMAIN m : x # name => n[x] = m[x]
  BY <1>3, Conditioned DEF Appended
<1>5. /\ n[name].type = m[name].type /\ Pairs(n[name]) = Pairs(m[name]) \cup {<<c, d>>}
      /\ n[name].drivers # << >>
  BY <1>3, <1>4, AppendedHas
<1>6. AllProper(n)
  BY <1>4 DEF AllProper
<1>7. Grown(m, n)
  <2>1. ASSUME NEW x \in DOMAIN m
        PROVE  /\ Pairs(m[x]) \subseteq Pairs(n[x]) /\ n[x].type = m[x].type
               /\ m[x].drivers # << >> => n[x].drivers # << >>
    <3>1. CASE x = name
      BY <3>1, <1>5
    <3>2. CASE x # name
      BY <3>2, <1>4
    <3> QED BY <3>1, <3>2
  <2> QED BY <2>1, <1>4 DEF Grown
<1> QED BY <1>2, <1>4, <1>5, <1>6, <1>7 DEF Extends, Augments

(* A new signal is driven by nothing. *)
LEMMA NewSignalIs ==
    ASSUME NEW t, NEW w
    PROVE  /\ NewSignal(t, w).type = t /\ NewSignal(t, w).width = w
           /\ NewSignal(t, w).conditions = << >> /\ NewSignal(t, w).drivers = << >>
           /\ Pairs(NewSignal(t, w)) = {} /\ DOMAIN NewSignal(t, w).drivers = {}
<1>1. PICK g : g = NewSignal(t, w)
  OBVIOUS
<1>2. g.type = t /\ g.width = w /\ g.conditions = << >> /\ g.drivers = << >>
  BY <1>1 DEF NewSignal
<1>3. Pairs(g) = {} /\ DOMAIN g.drivers = {}
  BY <1>2, EmptyIs DEF Pairs
<1> QED BY <1>1, <1>2, <1>3

LEMMA SignalExtends ==
    ASSUME NEW m, NEW name, NEW t, NEW w, NEW n, n = AddSignal(m, name, t, w),
           ModuleOK(m, {}), AllProper(m),
           name \in DOMAIN m => m[name].width = w,
           name \notin DOMAIN m => Proper(name, NewSignal(t, w))
    PROVE  /\ Extends(m, n) /\ name \in DOMAIN n
           /\ \A x \in DOMAIN n : x \in DOMAIN m \/ x = name
           /\ \A x \in DOMAIN m : n[x] = m[x]
           /\ name \notin DOMAIN m => n[name] = NewSignal(t, w)
<1>1. ModuleOK(n, {}) /\ DiffersAt(m, n, name)
  BY SignalAdded
<1>2. name \notin DOMAIN m => n[name] = NewSignal(t, w)
  BY DEF AddSignal, AddPort, exists
<1>3. name \in DOMAIN m => n[name] = m[name]
  <2> SUFFICES ASSUME name \in DOMAIN m PROVE n[name] = m[name]
    OBVIOUS
  <2>1. IsSignal(m[name]) /\ m = [x \in DOMAIN m |-> m[x]]
    BY DEF ModuleOK, SignalOK
  <2>2. n[name] = [m[name] EXCEPT !.width = w]
    BY <2>1 DEF AddSignal, exists
  <2>3. n[name] = [type |-> m[name].type, width |-> w,
                   conditions |-> m[name].conditions, drivers |-> m[name].drivers]
    BY <2>1, <2>2 DEF IsSignal
  <2> QED BY <2>1, <2>3 DEF IsSignal
<1>4. DOMAIN n = DOMAIN m \cup {name} /\ \A x \in DOMAIN m : n[x] = m[x]
  BY <1>1, <1>3 DEF DiffersAt
<1>5. AllProper(n)
  BY <1>2, <1>4 DEF AllProper
<1>6. Grown(m, n)
  BY <1>4 DEF Grown
<1>7. \A x \in DOMAIN n : x \in DOMAIN m \/ x = name
  BY <1>4
<1>8. name \in DOMAIN n
  BY <1>4
<1> QED BY <1>1, <1>2, <1>4, <1>5, <1>6, <1>7, <1>8, Zenon DEF Extends

(* A new signal with its one driver. *)
LEMMA UnitExtends ==
    ASSUME NEW m, NEW name, NEW t, NEW w, NEW d,
           NEW n, n = setExclDriver(AddSignal(m, name, t, w), name, d),
           ModuleOK(m, {}), AllProper(m), name \notin DOMAIN m, name[1] = "fu",
           Attached(AddSignal(m, name, t, w), name, d),
           \A g : /\ g.type = t /\ g.width = w /\ g.conditions = << >> /\ g.drivers = <<d>>
                  => Proper(name, g)
    PROVE  Extends(m, n) /\ name \in DOMAIN n
<1>1. PICK a : a = AddSignal(m, name, t, w)
  OBVIOUS
<1>2. ModuleOK(a, {}) /\ DiffersAt(m, a, name)
  BY <1>1, SignalAdded
<1>3. a[name] = NewSignal(t, w)
  BY <1>1 DEF AddSignal, AddPort, exists
<1>4. Replaceable(name, {})
  BY DEF Replaceable
<1>5. /\ ModuleOK(n, {}) /\ DOMAIN n = DOMAIN a
      /\ \A x \in DOMAIN a : x # name => n[x] = a[x]
  BY <1>1, <1>2, <1>4, ExclusivelyDriven
<1>6. /\ n[name].type = t /\ n[name].width = w
      /\ n[name].conditions = << >> /\ n[name].drivers = <<d>>
  <2>1. PICK a1 : a1 = [a EXCEPT ![name].conditions = << >>]
    OBVIOUS
  <2>2. n = [a1 EXCEPT ![name].drivers = <<d>>]
    BY <1>1, <2>1 DEF setExclDriver
  <2>3. name \in DOMAIN a /\ a = [x \in DOMAIN a |-> a[x]]
    BY <1>2 DEF DiffersAt
  <2>4. a1[name] = [[type |-> t, width |-> w, conditions |-> << >>, drivers |-> << >>]
                     EXCEPT !.conditions = << >>]
    BY <1>3, <2>1, <2>3 DEF NewSignal
  <2>5. a1[name] = [type |-> t, width |-> w, conditions |-> << >>, drivers |-> << >>]
        /\ name \in DOMAIN a1 /\ a1 = [x \in DOMAIN a1 |-> a1[x]]
    BY <2>4, <2>1, <2>3
  <2>6. n[name] = [[type |-> t, width |-> w, conditions |-> << >>, drivers |-> << >>]
                    EXCEPT !.drivers = <<d>>]
    BY <2>2, <2>5
  <2>7. n[name] = [type |-> t, width |-> w, conditions |-> << >>, drivers |-> <<d>>]
    BY <2>6
  <2> QED BY <2>7
<1>7. DOMAIN n = DOMAIN m \cup {name} /\ \A x \in DOMAIN m : n[x] = m[x]
  BY <1>2, <1>5 DEF DiffersAt
<1>8. AllProper(n)
  BY <1>6, <1>7 DEF AllProper
<1>9. Grown(m, n)
  BY <1>7 DEF Grown
<1> QED BY <1>5, <1>7, <1>8, <1>9 DEF Extends

-----------------------------------------------------------------------------
(* What every part adds is as it should be.                                *)

LEMMA InstructionSignalsExtend ==
    ASSUME NEW m, NEW i, NEW n, n = InstructionSignals(m, i),
           i \in Kept, ModuleOK(m, {}), AllProper(m)
    PROVE  /\ Extends(m, n) /\ {Wire(i), Reg(i)} \subseteq DOMAIN n
           /\ \A x \in DOMAIN n : x \in DOMAIN m \cup {Wire(i), Reg(i)}
           /\ \A x \in DOMAIN m : n[x] = m[x]
           /\ \A x \in DOMAIN n : x \notin DOMAIN m => n[x].drivers = << >>
<1>1. i \in Instrs(F)
  BY DEF Kept
<1>2. PICK w : w = AddSignal(m, Wire(i), "wire", F.type[i])
  OBVIOUS
<1>3. n = AddSignal(w, Reg(i), "reg", F.type[i])
  BY <1>2 DEF InstructionSignals, addWire, addReg
<1>4. Wire(i) \in DOMAIN m => m[Wire(i)].width = F.type[i]
  <2> SUFFICES ASSUME Wire(i) \in DOMAIN m PROVE m[Wire(i)].width = F.type[i]
    OBVIOUS
  <2>1. Proper(Wire(i), m[Wire(i)])
    BY DEF AllProper
  <2> QED BY <1>1, <2>1, ProperWire DEF IsWire
<1>5. Proper(Wire(i), NewSignal("wire", F.type[i]))
  <2>1. IsWire(i, NewSignal("wire", F.type[i]))
    BY NewSignalIs DEF IsWire
  <2> QED BY <1>1, <2>1, ProperWire
<1>6. /\ Extends(m, w) /\ Wire(i) \in DOMAIN w
      /\ \A x \in DOMAIN w : x \in DOMAIN m \/ x = Wire(i)
      /\ \A x \in DOMAIN m : w[x] = m[x]
      /\ Wire(i) \notin DOMAIN m => w[Wire(i)] = NewSignal("wire", F.type[i])
  BY <1>2, <1>4, <1>5, SignalExtends
<1>7. ModuleOK(w, {}) /\ AllProper(w)
  BY <1>6 DEF Extends
<1>8. Reg(i) \in DOMAIN w => w[Reg(i)].width = F.type[i]
  <2> SUFFICES ASSUME Reg(i) \in DOMAIN w PROVE w[Reg(i)].width = F.type[i]
    OBVIOUS
  <2>1. Proper(Reg(i), w[Reg(i)])
    BY <1>7 DEF AllProper
  <2> QED BY <2>1, ProperReg DEF IsOwn, IsLent
<1>9. Proper(Reg(i), NewSignal("reg", F.type[i]))
  <2>1. IsOwn(i, NewSignal("reg", F.type[i]))
    BY NewSignalIs DEF IsOwn
  <2> QED BY <2>1, ProperReg
<1>10. /\ Extends(w, n) /\ Reg(i) \in DOMAIN n
       /\ \A x \in DOMAIN n : x \in DOMAIN w \/ x = Reg(i)
       /\ \A x \in DOMAIN w : n[x] = w[x]
       /\ Reg(i) \notin DOMAIN w => n[Reg(i)] = NewSignal("reg", F.type[i])
  BY <1>3, <1>7, <1>8, <1>9, SignalExtends
<1>11. \A x \in DOMAIN n : x \notin DOMAIN m => n[x].drivers = << >>
  <2> SUFFICES ASSUME NEW x \in DOMAIN n, x \notin DOMAIN m PROVE n[x].drivers = << >>
    OBVIOUS
  <2>1. CASE x \in DOMAIN w
    BY <2>1, <1>6, <1>10, NewSignalIs
  <2>2. CASE x \notin DOMAIN w
    BY <2>2, <1>10, NewSignalIs
  <2> QED BY <2>1, <2>2
<1>12. Extends(m, n)
  BY <1>6, <1>10, ExtendsTransitive
<1>13. DOMAIN m \subseteq DOMAIN w /\ DOMAIN w \subseteq DOMAIN n
  BY <1>6, <1>10 DEF Extends, Grown
<1>14. \A x \in DOMAIN m : n[x] = m[x]
  BY <1>6, <1>10, <1>13
<1>15. {Wire(i), Reg(i)} \subseteq DOMAIN n
  BY <1>6, <1>10, <1>13
<1>16. \A x \in DOMAIN n : x \in DOMAIN m \cup {Wire(i), Reg(i)}
  BY <1>6, <1>10
<1> QED BY <1>11, <1>12, <1>14, <1>15, <1>16, Zenon

LEMMA ConnectionExtends ==
    ASSUME NEW m, NEW i, NEW n,
           n = addCondition(m, Reg(i), InState(WrittenIn(i)), Named(Wire(i))),
           i \in Kept, phase # "done", {Wire(i), Reg(i)} \subseteq DOMAIN m,
           ModuleOK(m, {}), AllProper(m)
    PROVE  /\ Extends(m, n) /\ DOMAIN n = DOMAIN m
           /\ \A x \in DOMAIN m : x # Reg(i) => n[x] = m[x]
           /\ <<InState(endState[i]), Named(Wire(i))>> \in Pairs(n[Reg(i)])
<1>1. IsOwn(i, m[Reg(i)])
  <2>1. Proper(Reg(i), m[Reg(i)])
    BY DEF AllProper
  <2> QED BY <2>1, ProperReg DEF IsLent
<1>2. IsSignal(m[Reg(i)]) /\ Parallel(m[Reg(i)])
  <2>1. SignalOK(m, Reg(i), {}) /\ ~Replaceable(Reg(i), {})
    BY NamesApart DEF ModuleOK, Replaceable
  <2> QED BY <2>1 DEF SignalOK
<1>3. PICK a : a = Appended(m[Reg(i)], InState(endState[i]), Named(Wire(i)))
  OBVIOUS
<1>4. /\ a.type = m[Reg(i)].type /\ a.width = m[Reg(i)].width
      /\ Pairs(a) = Pairs(m[Reg(i)]) \cup {<<InState(endState[i]), Named(Wire(i))>>}
  BY <1>2, <1>3, AppendedHas
<1>5. IsOwn(i, a)
  <2>1. i \in Led(i)
    BY DEF Led
  <2> QED BY <1>1, <1>4, <2>1 DEF IsOwn
<1>6. Proper(Reg(i), a)
  BY <1>5, ProperReg
<1>7. Attached(m, Reg(i), Named(Wire(i)))
  BY PlainAttached
<1>8. Reg(i)[1] # "fu"
  BY NamesApart
<1>9. WrittenIn(i) = endState[i]
  BY DEF WrittenIn
<1>10. Augments(m, n, Reg(i), InState(endState[i]), Named(Wire(i)))
  BY <1>3, <1>6, <1>7, <1>8, <1>9, ConditionExtends
<1> QED BY <1>10 DEF Augments

(* The operands of an instruction that has a unit are as wide as the unit. *)
LEMMA UnitOperands ==
    ASSUME input \in Schedules, NEW i \in Bindable
    PROVE  /\ i \in Instrs(F) /\ F.op[i] \in BinaryOps \cup Comparisons
           /\ 1 \in DOMAIN F.operands[i] /\ 2 \in DOMAIN F.operands[i]
           /\ OperandWidth(i, 1) = F.width[i] /\ OperandWidth(i, 2) = F.width[i]
<1>1. i \in Instrs(F) /\ FuOf(i) # NoUnit
  BY DEF Bindable
<1>2. F.op[i] \in BinaryOps \cup Comparisons
  <2>1. <<F.op[i], F.width[i]>> \in FuOps \X FuWidths
    BY <1>1 DEF FuOf, getInstructionFu, Units
  <2>2. F.op[i] \in FuOps
    BY <2>1
  <2> QED BY <2>2 DEF FuOps, BinaryOps, Comparisons
<1>3. Len(F.operands[i]) = 2 /\ F.operands[i] \in Seq(Int)
  BY <1>1, <1>2, FunctionSupported
<1>4. 1 \in DOMAIN F.operands[i] /\ 2 \in DOMAIN F.operands[i]
  BY <1>3
<1>5. \A n \in DOMAIN F.operands[i] : WidthOf(F, i, n) = F.width[i]
  <2>1. getInstructionFu(F.op[i], F.width[i]) # NoUnit
    BY <1>1 DEF FuOf
  <2> QED BY <2>1, <1>1, TypesAssumption DEF F
<1>6. OperandWidth(i, 1) = F.width[i] /\ OperandWidth(i, 2) = F.width[i]
  BY <1>4, <1>5 DEF OperandWidth
<1> QED BY <1>1, <1>2, <1>4, <1>6

(* A wire to an input of a unit. *)
LEMMA InputExtends ==
    ASSUME NEW m, NEW i, NEW k \in {1, 2}, NEW name, NEW n,
           name = IF k = 1 THEN Op0(i) ELSE Op1(i),
           n = AddSignal(m, name, "wire", OperandWidth(i, k)),
           input \in Schedules, i \in Bindable, unitOf[i] # Unbound,
           ModuleOK(m, {}), AllProper(m)
    PROVE  /\ Extends(m, n) /\ name \in DOMAIN n
           /\ \A x \in DOMAIN n : x \in DOMAIN m \/ x = name
<1>1. OperandWidth(i, k) = F.width[i]
  BY UnitOperands
<1>2. \A g : Proper(name, g) <=> IsOperand(i, k, g)
  BY ProperUnit
<1>3. name \in DOMAIN m => m[name].width = F.width[i]
  <2> SUFFICES ASSUME name \in DOMAIN m PROVE m[name].width = F.width[i]
    OBVIOUS
  <2>1. Proper(name, m[name])
    BY DEF AllProper
  <2> QED BY <1>2, <2>1 DEF IsOperand
<1>4. Proper(name, NewSignal("wire", F.width[i]))
  <2>1. IsOperand(i, k, NewSignal("wire", F.width[i]))
    BY NewSignalIs DEF IsOperand
  <2> QED BY <1>2, <2>1
<1> QED BY <1>1, <1>3, <1>4, SignalExtends

LEMMA BindingSignalsExtend ==
    ASSUME NEW m, NEW i, NEW n, n = BindingSignals(m, i),
           input \in Schedules, i \in Bindable, unitOf[i] # Unbound,
           ModuleOK(m, {}), AllProper(m)
    PROVE  Extends(m, n)
<1>1. CASE Fu(i) \in DOMAIN m
  <2>1. n = m
    BY <1>1 DEF BindingSignals, exists
  <2> QED BY <2>1, ExtendsItself
<1>2. CASE Fu(i) \notin DOMAIN m
  <2> DEFINE binary == F.op[i] \in BinaryOps
             d == createFu(i, Named(Op0(i)), IF binary THEN Named(Op1(i)) ELSE NoSignal)
  <2>1. PICK a : a = AddSignal(m, Op0(i), "wire", OperandWidth(i, 1))
    OBVIOUS
  <2>2. /\ Extends(m, a) /\ Op0(i) \in DOMAIN a
        /\ \A x \in DOMAIN a : x \in DOMAIN m \/ x = Op0(i)
    BY <2>1, InputExtends
  <2>3. PICK b : b = IF binary THEN AddSignal(a, Op1(i), "wire", OperandWidth(i, 2)) ELSE a
    OBVIOUS
  <2>4. ModuleOK(a, {}) /\ AllProper(a)
    BY <2>2 DEF Extends
  <2>5. /\ Extends(a, b)
        /\ binary => Op1(i) \in DOMAIN b
        /\ \A x \in DOMAIN b : x \in DOMAIN a \/ x = Op1(i)
    <3>1. CASE binary
      BY <3>1, <2>3, <2>4, InputExtends
    <3>2. CASE ~binary
      BY <3>2, <2>3, <2>4, ExtendsItself
    <3> QED BY <3>1, <3>2
  <2>6. ModuleOK(b, {}) /\ AllProper(b) /\ DOMAIN a \subseteq DOMAIN b
    BY <2>5 DEF Extends, Grown
  <2>7. n = setExclDriver(AddSignal(b, Fu(i), "wire", F.type[i]), Fu(i), d)
    BY <1>2, <2>1, <2>3 DEF BindingSignals, addWire, exists
  <2>8. Fu(i) \notin DOMAIN b /\ Fu(i)[1] = "fu"
    BY <1>2, <2>2, <2>5, NamesApart
  <2>9. Attached(AddSignal(b, Fu(i), "wire", F.type[i]), Fu(i), d)
    <3>1. DiffersAt(b, AddSignal(b, Fu(i), "wire", F.type[i]), Fu(i))
      BY <2>6, SignalAdded
    <3>2. Connected(b, d)
      BY <2>2, <2>5, <2>6 DEF createFu, Operation, Connected, Found, Named, NoSignal
    <3>3. Attached(b, Fu(i), d)
      BY <3>2, <2>8 DEF Attached
    <3> QED BY <3>1, <3>3, StaysAttached DEF DiffersAt
  <2>10. ASSUME NEW g, g.type = "wire", g.width = F.type[i], g.conditions = << >>, g.drivers = <<d>>
         PROVE  Proper(Fu(i), g)
    <3>1. i \in SameUnit(i)
      BY DEF SameUnit
    <3>2. IsUnit(i, g)
      BY <2>10, <3>1 DEF IsUnit
    <3> QED BY <3>2, ProperUnit
  <2> HIDE DEF d
  <2>11. Extends(b, n)
    BY <2>6, <2>7, <2>8, <2>9, <2>10, UnitExtends
  <2> QED BY <2>2, <2>5, <2>11, ExtendsTransitive
<1> QED BY <1>1, <1>2

-----------------------------------------------------------------------------
(* What a visit leaves in the module.                                      *)

Has(m, x, e) == x \in DOMAIN m /\ e \in Pairs(m[x])

IsDriven(m, x) == x \in DOMAIN m /\ m[x].drivers # << >>

DrivenIn(m, i, s) ==
    /\ F.op[i] \in BinaryOps \cup Comparisons =>
         /\ IsDriven(m, Wire(i))
         /\ unitOf[i] # Unbound =>
              /\ Has(m, Op0(i), <<InState(s), getOperandSignal(i, 1)>>)
              /\ F.op[i] \in BinaryOps => Has(m, Op1(i), <<InState(s), getOperandSignal(i, 2)>>)
    /\ F.op[i] = "Ret" /\ F.operands[i] # << >> =>
         Has(m, ReturnVal, <<InState(s), getOperandSignal(i, 1)>>)

LEMMA GrownHas ==
    ASSUME NEW m, NEW n, Grown(m, n)
    PROVE  /\ \A x, e : Has(m, x, e) => Has(n, x, e)
           /\ \A x : IsDriven(m, x) => IsDriven(n, x)
           /\ \A i, s : DrivenIn(m, i, s) => DrivenIn(n, i, s)
<1>1. \A x, e : Has(m, x, e) => Has(n, x, e)
  BY DEF Grown, Has
<1>2. \A x : IsDriven(m, x) => IsDriven(n, x)
  BY DEF Grown, IsDriven
<1>3. \A i, s : DrivenIn(m, i, s) => DrivenIn(n, i, s)
  BY <1>1, <1>2, Zenon DEF DrivenIn
<1> QED BY <1>1, <1>2, <1>3

(* A unit that exists has its inputs. *)
LEMMA UnitHasInputs ==
    ASSUME NEW m, NEW i, ModuleOK(m, {}), AllProper(m), i \in Bindable, unitOf[i] # Unbound,
           Fu(i) \in DOMAIN m
    PROVE  /\ Op0(i) \in DOMAIN m
           /\ F.op[i] \in BinaryOps => Op1(i) \in DOMAIN m
<1>1. IsUnit(i, m[Fu(i)])
  <2>1. Proper(Fu(i), m[Fu(i)])
    BY DEF AllProper
  <2> QED BY <2>1, ProperUnit
<1>2. PICK c \in SameUnit(i) :
         m[Fu(i)].drivers = <<createFu(c, Named(Op0(c)),
                                       IF F.op[c] \in BinaryOps THEN Named(Op1(c)) ELSE NoSignal)>>
  BY <1>1 DEF IsUnit
<1>3. Connected(m, createFu(c, Named(Op0(c)),
                            IF F.op[c] \in BinaryOps THEN Named(Op1(c)) ELSE NoSignal))
  <2>1. \A k \in DOMAIN m[Fu(i)].drivers : Connected(m, m[Fu(i)].drivers[k])
    BY DEF ModuleOK, SignalOK, Attached
  <2> QED BY <2>1, <1>2, SingletonIs
<1>4. /\ Op0(c) \in DOMAIN m
      /\ F.op[c] \in BinaryOps => Op1(c) \in DOMAIN m
  BY <1>3 DEF Connected, createFu, Operation, Found, Named, NoSignal
<1>5. c \in Bindable /\ FuInstName(i) = FuInstName(c)
  BY DEF SameUnit
<1>6. F.op[i] = F.op[c] /\ Op0(i) = Op0(c) /\ Op1(i) = Op1(c)
  BY <1>5, UnitOfOne, NamesDiffer
<1> QED BY <1>4, <1>6

(* An operand is led to an input. *)
LEMMA OperandExtends ==
    ASSUME NEW m, NEW i, NEW s, NEW k, NEW name, NEW n,
           n = addCondition(m, name, InState(s), getOperandSignal(i, k)),
           k \in {1, 2}, name = IF k = 1 THEN Op0(i) ELSE Op1(i), input \in Schedules, i \in Bindable, unitOf[i] # Unbound, s \in DOMAIN state,
           i \in ToSet(state[s].instrs), name \in DOMAIN m,
           ModuleOK(m, {}), AllProper(m), RegistersIn(m)
    PROVE  Extends(m, n) /\ Has(n, name, <<InState(s), getOperandSignal(i, k)>>)
<1>1. \A g : Proper(name, g) <=> IsOperand(i, k, g)
  BY ProperUnit
<1>2. name[1] # "fu"
  BY NamesApart
<1>3. IsSignal(m[name]) /\ Parallel(m[name])
  <2>1. SignalOK(m, name, {}) /\ ~Replaceable(name, {})
    BY <1>2 DEF ModuleOK, Replaceable
  <2> QED BY <2>1 DEF SignalOK
<1>4. PICK e : e = <<InState(s), getOperandSignal(i, k)>>
  OBVIOUS
<1>5. PICK a : a = Appended(m[name], InState(s), getOperandSignal(i, k))
  OBVIOUS
<1>6. a.type = m[name].type /\ a.width = m[name].width /\ Pairs(a) = Pairs(m[name]) \cup {e}
  BY <1>3, <1>4, <1>5, AppendedHas
<1>7. IsOperand(i, k, m[name])
  BY <1>1 DEF AllProper
<1>8. IsOperand(i, k, a)
  <2>1. i \in SameUnit(i)
    BY DEF SameUnit
  <2>2. \A d \in Pairs(a) : \E t \in DOMAIN state : \E j \in SameUnit(i) :
           j \in ToSet(state[t].instrs) /\ d = <<InState(t), getOperandSignal(j, k)>>
    BY <1>4, <1>6, <1>7, <2>1 DEF IsOperand
  <2> QED BY <1>6, <1>7, <2>2 DEF IsOperand
<1>9. Attached(m, name, getOperandSignal(i, k))
  <2>1. i \in Instrs(F) /\ k \in DOMAIN F.operands[i]
    BY UnitOperands
  <2> QED BY <2>1, OperandConnected
<1>10. Proper(name, Appended(m[name], InState(s), getOperandSignal(i, k)))
  BY <1>1, <1>5, <1>8
<1>11. Augments(m, n, name, InState(s), getOperandSignal(i, k))
  BY <1>2, <1>9, <1>10, ConditionExtends
<1> QED BY <1>11 DEF Has, Augments

(* What names are of registers, what is in the module stays there. *)
LEMMA RegistersStayIn ==
    ASSUME NEW m, NEW n, Extends(m, n), RegistersIn(m)
    PROVE  RegistersIn(n) /\ ModuleOK(n, {}) /\ AllProper(n) /\ DOMAIN m \subseteq DOMAIN n
BY DEF Extends, Grown, RegistersIn

LEMMA BoundUseExtends ==
    ASSUME NEW m, NEW i, NEW s, NEW n, n = BoundUse(m, i, s),
           input \in Schedules, i \in Bindable, unitOf[i] # Unbound, s \in DOMAIN state,
           i \in ToSet(state[s].instrs), Fu(i) \in DOMAIN m,
           ModuleOK(m, {}), AllProper(m), RegistersIn(m)
    PROVE  /\ Extends(m, n)
           /\ Has(n, Op0(i), <<InState(s), getOperandSignal(i, 1)>>)
           /\ F.op[i] \in BinaryOps => Has(n, Op1(i), <<InState(s), getOperandSignal(i, 2)>>)
<1>1. /\ Op0(i) \in DOMAIN m
      /\ F.op[i] \in BinaryOps => Op1(i) \in DOMAIN m
  BY UnitHasInputs
<1>2. PICK a : a = addCondition(m, Op0(i), InState(s), getOperandSignal(i, 1))
  OBVIOUS
<1>3. Extends(m, a) /\ Has(a, Op0(i), <<InState(s), getOperandSignal(i, 1)>>)
  BY <1>1, <1>2, OperandExtends
<1>4. CASE F.op[i] \notin BinaryOps
  <2>1. n = a
    BY <1>2, <1>4 DEF BoundUse
  <2> QED BY <2>1, <1>3, <1>4
<1>5. CASE F.op[i] \in BinaryOps
  <2>1. n = addCondition(a, Op1(i), InState(s), getOperandSignal(i, 2))
    BY <1>2, <1>5 DEF BoundUse
  <2>2. RegistersIn(a) /\ ModuleOK(a, {}) /\ AllProper(a) /\ Op1(i) \in DOMAIN a
    BY <1>1, <1>3, <1>5, RegistersStayIn
  <2>3. Extends(a, n) /\ Has(n, Op1(i), <<InState(s), getOperandSignal(i, 2)>>)
    <3>1. PICK name, k : name = Op1(i) /\ k = 2
      OBVIOUS
    <3>2. /\ k \in {1, 2} /\ name = (IF k = 1 THEN Op0(i) ELSE Op1(i))
          /\ n = addCondition(a, name, InState(s), getOperandSignal(i, k)) /\ name \in DOMAIN a
      BY <3>1, <2>1, <2>2
    <3>3. Extends(a, n) /\ Has(n, name, <<InState(s), getOperandSignal(i, k)>>)
      BY <3>2, <2>2, OperandExtends, Zenon
    <3> QED BY <3>1, <3>3
  <2>4. Has(n, Op0(i), <<InState(s), getOperandSignal(i, 1)>>)
    BY <1>3, <2>3, GrownHas DEF Extends
  <2> QED BY <1>3, <2>3, <2>4, ExtendsTransitive
<1> QED BY <1>4, <1>5

(* The result of an instruction is led to its wire. *)
LEMMA ResultExtends ==
    ASSUME NEW m, NEW i, NEW s, NEW n, n = addCondition(m, Wire(i), InState(s), Source(i)),
           i \in Instrs(F), Wire(i) \in DOMAIN m, Attached(m, Wire(i), Source(i)),
           ModuleOK(m, {}), AllProper(m)
    PROVE  Extends(m, n) /\ IsDriven(n, Wire(i))
<1>1. \A g : Proper(Wire(i), g) <=> IsWire(i, g)
  BY ProperWire
<1>2. Wire(i)[1] # "fu"
  BY NamesApart
<1>3. IsSignal(m[Wire(i)]) /\ Parallel(m[Wire(i)])
  <2>1. SignalOK(m, Wire(i), {}) /\ ~Replaceable(Wire(i), {})
    BY <1>2 DEF ModuleOK, Replaceable
  <2> QED BY <2>1 DEF SignalOK
<1>4. PICK a : a = Appended(m[Wire(i)], InState(s), Source(i))
  OBVIOUS
<1>5. /\ a.type = m[Wire(i)].type /\ a.width = m[Wire(i)].width
      /\ \A k \in DOMAIN a.drivers :
           a.drivers[k] = Source(i) \/ \E l \in DOMAIN m[Wire(i)].drivers : a.drivers[k] = m[Wire(i)].drivers[l]
  BY <1>3, <1>4, AppendedHas
<1>6. IsWire(i, m[Wire(i)])
  BY <1>1 DEF AllProper
<1>7. IsWire(i, a)
  BY <1>5, <1>6 DEF IsWire
<1>8. Proper(Wire(i), Appended(m[Wire(i)], InState(s), Source(i)))
  BY <1>1, <1>4, <1>7
<1>9. Augments(m, n, Wire(i), InState(s), Source(i))
  BY <1>2, <1>8, ConditionExtends
<1> QED BY <1>9 DEF IsDriven, Augments

(* The module as it is when the states are visited. *)
Ready(m) == ModuleOK(m, {}) /\ AllProper(m) /\ RegistersIn(m)

LEMMA ReadyStays ==
    ASSUME NEW m, NEW n, Extends(m, n), Ready(m)
    PROVE  Ready(n)
BY RegistersStayIn DEF Ready

LEMMA WireExtends ==
    ASSUME NEW m, NEW i, NEW n, n = AddSignal(m, Wire(i), "wire", F.type[i]),
           i \in Instrs(F), ModuleOK(m, {}), AllProper(m)
    PROVE  Extends(m, n) /\ Wire(i) \in DOMAIN n
<1>1. Wire(i) \in DOMAIN m => m[Wire(i)].width = F.type[i]
  <2> SUFFICES ASSUME Wire(i) \in DOMAIN m PROVE m[Wire(i)].width = F.type[i]
    OBVIOUS
  <2>1. Proper(Wire(i), m[Wire(i)])
    BY DEF AllProper
  <2> QED BY <2>1, ProperWire DEF IsWire
<1>2. Proper(Wire(i), NewSignal("wire", F.type[i]))
  <2>1. IsWire(i, NewSignal("wire", F.type[i]))
    BY NewSignalIs DEF IsWire
  <2> QED BY <2>1, ProperWire
<1>3. /\ Extends(m, n) /\ Wire(i) \in DOMAIN n
      /\ \A x \in DOMAIN n : x \in DOMAIN m \/ x = Wire(i)
      /\ \A x \in DOMAIN m : n[x] = m[x]
      /\ Wire(i) \notin DOMAIN m => n[Wire(i)] = NewSignal("wire", F.type[i])
  BY <1>1, <1>2, SignalExtends
<1> QED BY <1>3

LEMMA OperatorExtends ==
    ASSUME NEW m, NEW i, NEW s, NEW n, n = visitBinaryOperator(m, i, s),
           input \in Schedules, i \in Instrs(F), F.op[i] \in BinaryOps \cup Comparisons,
           s \in DOMAIN state, i \in ToSet(state[s].instrs),
           unitOf[i] # Unbound => i \in Bindable /\ Fu(i) \in DOMAIN m, Ready(m)
    PROVE  Extends(m, n) /\ DrivenIn(n, i, s)
<1>1. PICK w : w = AddSignal(m, Wire(i), "wire", F.type[i])
  OBVIOUS
<1>2. Extends(m, w) /\ Wire(i) \in DOMAIN w
  BY <1>1, WireExtends DEF Ready
<1>3. Ready(w) /\ DOMAIN m \subseteq DOMAIN w
  BY <1>2, ReadyStays DEF Extends, Grown
<1>4. F.op[i] # "Ret"
  BY DEF BinaryOps, Comparisons
<1>5. CASE unitOf[i] # Unbound
  <2>1. PICK b : b = BoundUse(w, i, s)
    OBVIOUS
  <2>2. n = addCondition(b, Wire(i), InState(s), Source(i)) /\ Source(i) = Named(Fu(i))
    BY <1>1, <1>5, <2>1 DEF visitBinaryOperator, addWire, Source
  <2>3. /\ Extends(w, b)
        /\ Has(b, Op0(i), <<InState(s), getOperandSignal(i, 1)>>)
        /\ F.op[i] \in BinaryOps => Has(b, Op1(i), <<InState(s), getOperandSignal(i, 2)>>)
    BY <1>3, <1>5, <2>1, BoundUseExtends DEF Ready
  <2>4. Ready(b) /\ DOMAIN w \subseteq DOMAIN b
    BY <1>3, <2>3, ReadyStays DEF Extends, Grown
  <2>5. Attached(b, Wire(i), Source(i))
    <3>1. Fu(i) \in DOMAIN b
      BY <1>3, <1>5, <2>4
    <3> QED BY <3>1, <2>2, PlainAttached
  <2>6. Extends(b, n) /\ IsDriven(n, Wire(i))
    BY <1>2, <2>2, <2>4, <2>5, ResultExtends DEF Ready
  <2>7. /\ Has(n, Op0(i), <<InState(s), getOperandSignal(i, 1)>>)
        /\ F.op[i] \in BinaryOps => Has(n, Op1(i), <<InState(s), getOperandSignal(i, 2)>>)
    BY <2>3, <2>6, GrownHas DEF Extends
  <2>8. DrivenIn(n, i, s)
    BY <1>4, <2>6, <2>7 DEF DrivenIn
  <2>9. Extends(m, b)
    BY <1>2, <2>3, ExtendsTransitive
  <2> QED BY <2>6, <2>8, <2>9, ExtendsTransitive
<1>6. CASE unitOf[i] = Unbound
  <2>1. n = addCondition(w, Wire(i), InState(s), Source(i))
        /\ Source(i) = createFu(i, getOperandSignal(i, 1), getOperandSignal(i, 2))
    BY <1>1, <1>6 DEF visitBinaryOperator, addWire, Source
  <2>2. 1 \in DOMAIN F.operands[i] /\ 2 \in DOMAIN F.operands[i]
    <3>1. F.operands[i] \in Seq(Int) /\ Len(F.operands[i]) = 2
      BY FunctionSupported
    <3> QED BY <3>1
  <2>3. \A k \in {1, 2} : Found(w, getOperandSignal(i, k)) /\ getOperandSignal(i, k) # NoSignal
    BY <1>3, <2>2, OperandConnected DEF Ready
  <2>4. Attached(w, Wire(i), Source(i))
    BY <2>1, <2>3 DEF Attached, Connected, Printable, createFu, Operation
  <2>5. Extends(w, n) /\ IsDriven(n, Wire(i))
    BY <1>2, <1>3, <2>1, <2>4, ResultExtends DEF Ready
  <2>6. DrivenIn(n, i, s)
    BY <1>4, <1>6, <2>5 DEF DrivenIn
  <2> QED BY <1>2, <2>5, <2>6, ExtendsTransitive
<1> QED BY <1>5, <1>6

(* The value that is returned is led to the port. *)
LEMMA ReturnExtends ==
    ASSUME NEW m, NEW i, NEW s, NEW n, n = visitReturnInst(m, i, s),
           input \in Schedules, i \in Instrs(F), F.op[i] = "Ret",
           s \in DOMAIN state, i \in ToSet(state[s].instrs), Ready(m)
    PROVE  Extends(m, n) /\ DrivenIn(n, i, s)
<1>1. PICK v : v = IF F.operands[i] = << >> THEN m
                   ELSE addCondition(m, ReturnVal, InState(s), getOperandSignal(i, 1))
  OBVIOUS
<1>2. n = addCondition(v, Finish, InState(s), ONE)
  BY <1>1 DEF visitReturnInst
<1>3. ModuleOK(m, {}) /\ AllProper(m) /\ RegistersIn(m) /\ PortNames \subseteq DOMAIN m
  BY DEF Ready, RegistersIn
<1>4. /\ Extends(m, v)
      /\ F.operands[i] # << >> => Has(v, ReturnVal, <<InState(s), getOperandSignal(i, 1)>>)
  <2>1. CASE F.operands[i] = << >>
    BY <1>1, <1>3, <2>1, ExtendsItself
  <2>2. CASE F.operands[i] # << >>
    <3>1. F.result # 0 /\ Len(F.operands[i]) = 1 /\ F.operands[i] \in Seq(Int)
      <4>1. IF F.result = 0 THEN F.operands[i] = << >>
            ELSE Len(F.operands[i]) = 1 /\ WidthOf(F, i, 1) <= F.result
        BY TypesAssumption DEF F
      <4>2. F.operands[i] \in Seq(Int)
        BY FunctionSupported
      <4> QED BY <2>2, <4>1, <4>2, Zenon
    <3>2. ReturnVal \in PortNames /\ ReturnVal \in DOMAIN m /\ 1 \in DOMAIN F.operands[i]
      <4>1. ReturnVal \in PortNames
        BY <3>1 DEF PortNames
      <4>2. 1 \in DOMAIN F.operands[i]
        BY <3>1
      <4> QED BY <4>1, <4>2, <1>3
    <3>3. \A g : Proper(ReturnVal, g) <=> IsResult(g)
      BY <3>2, ProperPorts
    <3>4. Attached(m, ReturnVal, getOperandSignal(i, 1))
      BY <1>3, <3>2, OperandConnected
    <3>5. ReturnVal[1] # "fu" /\ ReturnVal[1] # "reg"
      BY NamesApart
    <3>6. IsSignal(m[ReturnVal]) /\ Parallel(m[ReturnVal])
      <4>1. SignalOK(m, ReturnVal, {}) /\ ~Replaceable(ReturnVal, {})
        BY <1>3, <3>2, <3>5 DEF ModuleOK, Replaceable
      <4> QED BY <4>1 DEF SignalOK
    <3>7. PICK e : e = <<InState(s), getOperandSignal(i, 1)>>
      OBVIOUS
    <3>8. PICK a : a = Appended(m[ReturnVal], InState(s), getOperandSignal(i, 1))
      OBVIOUS
    <3>9. /\ a.type = m[ReturnVal].type /\ a.width = m[ReturnVal].width
          /\ Pairs(a) = Pairs(m[ReturnVal]) \cup {e}
      BY <3>6, <3>7, <3>8, AppendedHas
    <3>10. IsResult(m[ReturnVal])
      BY <1>3, <3>2, <3>3 DEF AllProper
    <3>11. IsResult(a)
      <4>1. i \in ReturnsIn(s)
        BY DEF ReturnsIn
      <4>2. e[1] = InState(s) /\ e[2] = getOperandSignal(i, 1)
        BY <3>7
      <4>3. \A d \in Pairs(a) : \E t \in DOMAIN state :
              /\ d[1] = InState(t)
              /\ t = Wait \/ \E r \in ReturnsIn(t) : d[2] = getOperandSignal(r, 1)
        BY <3>9, <3>10, <4>1, <4>2 DEF IsResult
      <4> QED BY <3>9, <3>10, <4>3 DEF IsResult
    <3>12. Augments(m, v, ReturnVal, InState(s), getOperandSignal(i, 1))
      <4>1. v = addCondition(m, ReturnVal, InState(s), getOperandSignal(i, 1))
        BY <1>1, <2>2
      <4>2. Proper(ReturnVal, Appended(m[ReturnVal], InState(s), getOperandSignal(i, 1)))
        BY <3>3, <3>8, <3>11
      <4> QED BY <1>3, <3>2, <3>4, <3>5, <4>1, <4>2, ConditionExtends
    <3> QED BY <3>2, <3>12 DEF Augments, Has
  <2> QED BY <2>1, <2>2
<1>5. ModuleOK(v, {}) /\ AllProper(v) /\ Finish \in DOMAIN v
  <2>1. Finish \in PortNames
    BY DEF PortNames
  <2> QED BY <2>1, <1>3, <1>4, RegistersStayIn
<1>6. Augments(v, n, Finish, InState(s), ONE)
  <2>1. Finish[1] # "fu"
    BY NamesApart
  <2>2. Attached(v, Finish, ONE)
    BY PlainAttached
  <2>3. Proper(Finish, Appended(v[Finish], InState(s), ONE))
    <3>1. Proper(Finish, v[Finish])
      BY <1>5 DEF AllProper
    <3>2. v[Finish].type = "output reg"
      BY <3>1, ProperPorts
    <3>3. Appended(v[Finish], InState(s), ONE).type = "output reg"
      BY <3>2 DEF Appended
    <3> QED BY <3>3, ProperPorts
  <2> QED BY <1>2, <1>5, <2>1, <2>2, <2>3, ConditionExtends
<1>7. Extends(v, n)
  BY <1>6 DEF Augments
<1>8. F.operands[i] # << >> => Has(n, ReturnVal, <<InState(s), getOperandSignal(i, 1)>>)
  BY <1>4, <1>7, GrownHas DEF Extends
<1>9. DrivenIn(n, i, s)
  BY <1>8 DEF DrivenIn, BinaryOps, Comparisons
<1> QED BY <1>4, <1>7, <1>9, ExtendsTransitive

LEMMA VisitExtends ==
    ASSUME NEW m, NEW i, NEW s, NEW n, n = Visit(m, i, s),
           input \in Schedules, i \in Instrs(F), s \in DOMAIN state, i \in ToSet(state[s].instrs),
           unitOf[i] # Unbound => i \in Bindable /\ Fu(i) \in DOMAIN m, Ready(m)
    PROVE  Extends(m, n) /\ DrivenIn(n, i, s)
<1>1. CASE F.op[i] \in BinaryOps \cup Comparisons
  <2>1. n = visitBinaryOperator(m, i, s)
    BY <1>1 DEF Visit, BinaryOps, Comparisons
  <2> QED BY <1>1, <2>1, OperatorExtends
<1>2. CASE F.op[i] = "Ret"
  <2>1. n = visitReturnInst(m, i, s)
    BY <1>2 DEF Visit, BinaryOps, Comparisons
  <2> QED BY <1>2, <2>1, ReturnExtends
<1>3. CASE F.op[i] \notin BinaryOps \cup Comparisons /\ F.op[i] # "Ret"
  <2>1. n = m
    BY <1>3 DEF Visit
  <2> QED BY <1>3, <2>1, ExtendsItself DEF Ready, DrivenIn
<1> QED BY <1>1, <1>2, <1>3

(* The register of the state is driven by states and constants. *)
LEMMA StateExtends ==
    ASSUME NEW m, NEW c, NEW d, NEW n, n = addCondition(m, CurState, c, d),
           d[1] \in {"parameter", "constant"}, Ready(m)
    PROVE  Extends(m, n)
<1>1. ModuleOK(m, {}) /\ AllProper(m) /\ CurState \in DOMAIN m
  BY DEF Ready, RegistersIn, PortNames
<1>2. CurState[1] # "fu"
  BY NamesApart
<1>3. Attached(m, CurState, d)
  BY DEF Attached, Connected, Found, Printable
<1>4. IsSignal(m[CurState]) /\ Parallel(m[CurState])
  <2>1. SignalOK(m, CurState, {}) /\ ~Replaceable(CurState, {})
    BY <1>1, <1>2 DEF ModuleOK, Replaceable
  <2> QED BY <2>1 DEF SignalOK
<1>5. PICK a : a = Appended(m[CurState], c, d)
  OBVIOUS
<1>6. /\ a.type = m[CurState].type
      /\ \A k \in DOMAIN a.drivers :
           a.drivers[k] = d \/ \E l \in DOMAIN m[CurState].drivers : a.drivers[k] = m[CurState].drivers[l]
  BY <1>4, <1>5, AppendedHas
<1>7. IsCurState(m[CurState])
  BY <1>1, ProperPorts DEF AllProper
<1>8. IsCurState(a)
  BY <1>6, <1>7 DEF IsCurState
<1>9. Proper(CurState, Appended(m[CurState], c, d))
  BY <1>5, <1>8, ProperPorts
<1>10. Augments(m, n, CurState, c, d)
  BY <1>1, <1>2, <1>3, <1>9, ConditionExtends
<1> QED BY <1>10 DEF Augments

LEMMA TransitionExtends ==
    ASSUME NEW m, NEW s, NEW n, n = generateStateTransition(m, s), Ready(m)
    PROVE  Extends(m, n)
<1>1. \A t : StateParam(t)[1] = "parameter"
  BY DEF StateParam
<1>2. CASE state[s].transitions = << >>
  <2>1. n = addCondition(m, CurState, InState(s), StateParam(state[s].default))
    BY <1>2 DEF generateStateTransition
  <2> QED BY <2>1, <1>1, StateExtends
<1>3. CASE state[s].transitions # << >>
  <2>1. PICK a : a = addCondition(m, CurState, InStateWhen(s, getTransitionOperand(s), 1),
                                  StateParam(state[s].transitions[1][1]))
    OBVIOUS
  <2>2. n = addCondition(a, CurState, InStateWhen(s, getTransitionOperand(s), 0),
                         StateParam(state[s].default))
    BY <1>3, <2>1 DEF generateStateTransition
  <2>3. Extends(m, a)
    BY <2>1, <1>1, StateExtends
  <2>4. Ready(a)
    BY <2>3, ReadyStays
  <2>5. Extends(a, n)
    BY <2>2, <2>4, <1>1, StateExtends
  <2> QED BY <2>3, <2>5, ExtendsTransitive
<1> QED BY <1>2, <1>3

LEMMA ResetExtends ==
    ASSUME NEW m, NEW n, n = ResetOf(m), Ready(m)
    PROVE  Extends(m, n)
<1>1. n = addCondition(m, CurState, InStateWhen(Null, Named(Reset), 1), ZERO)
  BY DEF ResetOf
<1>2. ZERO[1] = "constant"
  BY DEF ZERO, Constant
<1> QED BY <1>1, <1>2, StateExtends

(* A port is as it should be. *)
LEMMA PortProper ==
    ASSUME NEW x \in PortNames
    PROVE  Proper(x, Port(x))
<1>1. x \in Names
  BY DEF Names
<1>2. \A i : /\ x # Wire(i) /\ x # Reg(i) /\ x # Fu(i) /\ x # Op0(i) /\ x # Op1(i)
  BY NamesApart DEF PortNames
<1>3. /\ Finish \notin {Start, Reset, CurState, ReturnVal}
      /\ CurState \notin {Start, Reset, Finish, ReturnVal}
      /\ Start \notin {Finish, CurState, ReturnVal} /\ Reset \notin {Finish, CurState, ReturnVal}
      /\ ReturnVal \notin {Start, Reset, Finish, CurState}
  BY NamesApart
<1>4. CASE x \in {Start, Reset}
  <2>1. PICK g : g = Port(x)
    OBVIOUS
  <2>2. g = NewSignal("input wire", 1)
    BY <1>3, <1>4, <2>1 DEF Port
  <2>3. g.type = "input wire"
    BY <2>2, NewSignalIs
  <2>4. \A n : x # Arg(n)
    BY <1>4, NamesApart
  <2>5. x \notin {Finish, CurState, ReturnVal}
    BY <1>3, <1>4
  <2>6. Proper(x, g)
    BY <2>3, <2>4, <2>5, <1>1, <1>2, Zenon DEF Proper
  <2> QED BY <2>1, <2>6
<1>5. CASE x = Finish
  <2>1. PICK g : g = Port(x)
    OBVIOUS
  <2>2. g = NewSignal("output reg", 1)
    BY <1>5, <2>1, PortIsNew
  <2>3. g.type = "output reg"
    BY <2>2, NewSignalIs
  <2> QED BY <2>1, <2>3, <1>5, ProperPorts
<1>6. CASE x = CurState
  <2>1. PICK g : g = Port(x)
    OBVIOUS
  <2>2. g = NewSignal("reg", 0)
    BY <2>1, <1>6, PortIsNew
  <2>3. g.type = "reg" /\ DOMAIN g.drivers = {}
    BY <2>2, NewSignalIs
  <2>4. IsCurState(g)
    BY <2>3 DEF IsCurState
  <2> QED BY <2>1, <2>4, <1>6, ProperPorts
<1>7. CASE x = ReturnVal
  <2>1. PICK g : g = Port(x)
    OBVIOUS
  <2>2. g = NewSignal("output reg", F.result)
    BY <2>1, <1>7, <1>3 DEF Port
  <2>3. g.type = "output reg" /\ g.width = F.result /\ Pairs(g) = {}
    BY <2>2, NewSignalIs
  <2>4. IsResult(g)
    BY <2>3 DEF IsResult
  <2> QED BY <2>1, <2>4, <1>7, ProperPorts
<1>8. CASE x \notin {Start, Reset, Finish, CurState, ReturnVal}
  <2>1. PICK n \in DOMAIN F.args : x = Arg(n)
    BY <1>8 DEF PortNames
  <2>2. x[2] = n /\ \A k : x = Arg(k) => k = n
    BY <2>1 DEF Arg
  <2>3. PICK g : g = Port(x)
    OBVIOUS
  <2>4. g = NewSignal("input wire", F.args[n])
    BY <2>2, <2>3, <1>8 DEF Port
  <2>5. PICK w : w = F.args[n]
    OBVIOUS
  <2>6. g = NewSignal("input wire", w)
    BY <2>4, <2>5
  <2>7. g.type = "input wire" /\ g.width = F.args[n]
    <3>1. g.type = "input wire" /\ g.width = w
      BY <2>6, NewSignalIs
    <3> QED BY <2>5, <3>1
  <2>8. Proper(x, g)
    BY <2>2, <2>7, <1>1, <1>2, <1>8, Zenon DEF Proper
  <2> QED BY <2>3, <2>8
<1> QED BY <1>4, <1>5, <1>6, <1>7, <1>8

LEMMA PortsAreProper ==
    ASSUME BInv, generateDeclaration, NEW m, m = module'
    PROVE  AllProper(m)
<1> DEFINE ports == [x \in PortNames |-> Port(x)]
           zero == Constant(<<"bit", 0>>, ports[ReturnVal].width)
           cleared == IF F.result = 0 THEN ports
                      ELSE addCondition(ports, ReturnVal, InState(list[1]), zero)
<1>1. m = addCondition(cleared, Finish, InState(list[1]), ZERO)
  BY DEF generateDeclaration
<1>2. DOMAIN ports = PortNames /\ \A x \in PortNames : ports[x] = Port(x)
  OBVIOUS
<1> HIDE DEF ports
<1>3. ModuleOK(ports, {}) /\ AllProper(ports)
  <2>1. ports = [x \in DOMAIN ports |-> ports[x]]
    BY <1>2 DEF ports
  <2>2. ASSUME NEW x \in PortNames PROVE SignalOK(ports, x, {})
    <3>1. PICK t, w : ports[x] = NewSignal(t, w)
      BY <1>2, PortIsNew
    <3>2. ports[x] = [type |-> t, width |-> w, conditions |-> << >>, drivers |-> << >>]
      BY <3>1 DEF NewSignal
    <3>3. /\ ports[x].type = t /\ ports[x].width = w
          /\ ports[x].conditions = << >> /\ ports[x].drivers = << >>
      BY <3>2
    <3> QED BY <3>2, <3>3, EmptyIs DEF SignalOK, IsSignal, Parallel
  <2> QED BY <2>1, <2>2, <1>2, PortProper DEF ModuleOK, AllProper
<1>4. Finish \in PortNames /\ Finish[1] # "fu" /\ ReturnVal[1] # "fu"
  BY NamesApart DEF PortNames
<1>5. Extends(ports, cleared)
  <2>1. CASE F.result = 0
    BY <2>1, <1>3, ExtendsItself
  <2>2. CASE F.result # 0
    <3>1. cleared = addCondition(ports, ReturnVal, InState(list[1]), zero)
      BY <2>2
    <3>2. Attached(ports, ReturnVal, zero)
      BY PlainAttached
    <3>3. ReturnVal \in PortNames
      BY <2>2 DEF PortNames
    <3>4. PICK a : a = Appended(ports[ReturnVal], InState(list[1]), zero)
      OBVIOUS
    <3>5. IsSignal(ports[ReturnVal]) /\ Parallel(ports[ReturnVal])
      <4>1. SignalOK(ports, ReturnVal, {}) /\ ~Replaceable(ReturnVal, {})
        BY <1>2, <1>3, <1>4, <3>3 DEF ModuleOK, Replaceable
      <4> QED BY <4>1 DEF SignalOK
    <3>6. PICK e : e = <<InState(list[1]), zero>>
      OBVIOUS
    <3>7. /\ a.type = ports[ReturnVal].type /\ a.width = ports[ReturnVal].width
          /\ Pairs(a) = Pairs(ports[ReturnVal]) \cup {e}
      BY <3>4, <3>5, <3>6, AppendedHas
    <3>8. IsResult(ports[ReturnVal])
      BY <1>2, <1>3, <3>3, ProperPorts DEF AllProper
    <3>9. e[1] = InState(Wait) /\ Wait \in DOMAIN state
      <4>1. list[1] = Wait /\ 1 \in 1..Len(list)
        BY WaitIsFirst
      <4>2. list[1] \in DOMAIN state
        BY <4>1, InstrsOfPlace
      <4> QED BY <4>1, <4>2, <3>6
    <3>10. \A d \in Pairs(a) : \E t \in DOMAIN state :
              /\ d[1] = InState(t)
              /\ t = Wait \/ \E r \in ReturnsIn(t) : d[2] = getOperandSignal(r, 1)
      BY <3>7, <3>8, <3>9 DEF IsResult
    <3>11. Proper(ReturnVal, Appended(ports[ReturnVal], InState(list[1]), zero))
      <4>1. IsResult(a)
        BY <3>7, <3>8, <3>10 DEF IsResult
      <4> QED BY <4>1, <3>3, <3>4, ProperPorts
    <3> HIDE DEF cleared, zero
    <3>12. Augments(ports, cleared, ReturnVal, InState(list[1]), zero)
      BY <3>1, <3>2, <3>3, <3>11, <1>2, <1>3, <1>4, ConditionExtends
    <3> QED BY <3>12 DEF Augments
  <2> QED BY <2>1, <2>2
<1> HIDE DEF cleared
<1>6. ModuleOK(cleared, {}) /\ AllProper(cleared) /\ Finish \in DOMAIN cleared
  BY <1>2, <1>4, <1>5 DEF Extends, Grown
<1>7. Augments(cleared, m, Finish, InState(list[1]), ZERO)
  <2>1. Attached(cleared, Finish, ZERO)
    BY PlainAttached
  <2>2. cleared[Finish].type = "output reg"
    BY <1>6, ProperPorts DEF AllProper
  <2>3. Appended(cleared[Finish], InState(list[1]), ZERO).type = "output reg"
    BY <2>2 DEF Appended
  <2>4. Proper(Finish, Appended(cleared[Finish], InState(list[1]), ZERO))
    BY <2>3, ProperPorts
  <2> QED BY <1>1, <1>4, <1>6, <2>1, <2>4, ConditionExtends
<1> QED BY <1>7 DEF Augments, Extends

(* One signal of a module is another one now. *)
Replaced(m, n, name, g) ==
    /\ n = [x \in DOMAIN n |-> n[x]] /\ DOMAIN n = DOMAIN m /\ n[name] = g
    /\ \A x \in DOMAIN m : x # name => n[x] = m[x]

LEMMA WidthReplaced ==
    ASSUME NEW m, NEW name, NEW w, NEW n, n = [m EXCEPT ![name].width = w],
           m = [x \in DOMAIN m |-> m[x]], name \in DOMAIN m, IsSignal(m[name])
    PROVE  Replaced(m, n, name, [type |-> m[name].type, width |-> w,
                                 conditions |-> m[name].conditions, drivers |-> m[name].drivers])
<1>1. PICK t, u, cs, ds : m[name] = [type |-> t, width |-> u, conditions |-> cs, drivers |-> ds]
  BY DEF IsSignal
<1>2. n[name] = [[type |-> t, width |-> u, conditions |-> cs, drivers |-> ds] EXCEPT !.width = w]
  BY <1>1
<1>3. n[name] = [type |-> t, width |-> w, conditions |-> cs, drivers |-> ds]
  BY <1>2
<1>4. m[name].type = t /\ m[name].conditions = cs /\ m[name].drivers = ds
  BY <1>1
<1>5. /\ n = [x \in DOMAIN n |-> n[x]] /\ DOMAIN n = DOMAIN m
      /\ \A x \in DOMAIN m : x # name => n[x] = m[x]
  OBVIOUS
<1> QED BY <1>3, <1>4, <1>5 DEF Replaced

LEMMA TypeReplaced ==
    ASSUME NEW m, NEW name, NEW t, NEW n, n = [m EXCEPT ![name].type = t],
           m = [x \in DOMAIN m |-> m[x]], name \in DOMAIN m, IsSignal(m[name])
    PROVE  Replaced(m, n, name, [type |-> t, width |-> m[name].width,
                                 conditions |-> m[name].conditions, drivers |-> m[name].drivers])
<1>1. PICK v, u, cs, ds : m[name] = [type |-> v, width |-> u, conditions |-> cs, drivers |-> ds]
  BY DEF IsSignal
<1>2. n[name] = [[type |-> v, width |-> u, conditions |-> cs, drivers |-> ds] EXCEPT !.type = t]
  BY <1>1
<1>3. n[name] = [type |-> t, width |-> u, conditions |-> cs, drivers |-> ds]
  BY <1>2
<1>4. m[name].width = u /\ m[name].conditions = cs /\ m[name].drivers = ds
  BY <1>1
<1>5. /\ n = [x \in DOMAIN n |-> n[x]] /\ DOMAIN n = DOMAIN m
      /\ \A x \in DOMAIN m : x # name => n[x] = m[x]
  OBVIOUS
<1> QED BY <1>3, <1>4, <1>5 DEF Replaced

LEMMA DriverReplaced ==
    ASSUME NEW m, NEW name, NEW d, NEW n, n = setExclDriver(m, name, d),
           m = [x \in DOMAIN m |-> m[x]], name \in DOMAIN m,
           NEW t, NEW u, NEW cs, NEW ds,
           m[name] = [type |-> t, width |-> u, conditions |-> cs, drivers |-> ds]
    PROVE  Replaced(m, n, name, [type |-> t, width |-> u, conditions |-> << >>, drivers |-> <<d>>])
<1>1. PICK a : a = [m EXCEPT ![name].conditions = << >>]
  OBVIOUS
<1>2. n = [a EXCEPT ![name].drivers = <<d>>]
  BY <1>1 DEF setExclDriver
<1>3. a[name] = [[type |-> t, width |-> u, conditions |-> cs, drivers |-> ds] EXCEPT !.conditions = << >>]
  BY <1>1
<1>4. a[name] = [type |-> t, width |-> u, conditions |-> << >>, drivers |-> ds]
      /\ name \in DOMAIN a /\ a = [x \in DOMAIN a |-> a[x]] /\ DOMAIN a = DOMAIN m
      /\ \A x \in DOMAIN m : x # name => a[x] = m[x]
  BY <1>1, <1>3
<1>5. n[name] = [[type |-> t, width |-> u, conditions |-> << >>, drivers |-> ds] EXCEPT !.drivers = <<d>>]
  BY <1>2, <1>4
<1>6. n[name] = [type |-> t, width |-> u, conditions |-> << >>, drivers |-> <<d>>]
  BY <1>5
<1>7. /\ n = [x \in DOMAIN n |-> n[x]] /\ DOMAIN n = DOMAIN m
      /\ \A x \in DOMAIN m : x # name => n[x] = m[x]
  BY <1>2, <1>4
<1> QED BY <1>6, <1>7 DEF Replaced

(* What Share changes. *)
SharedSignals(m, n, first, i) ==
    /\ DOMAIN n = DOMAIN m
    /\ \A x \in DOMAIN m : x \notin {Reg(first), Reg(i)} => n[x] = m[x]
    /\ n[Reg(first)].type = m[Reg(first)].type
    /\ n[Reg(first)].width = Min({Max({m[Reg(first)].width, m[Reg(i)].width}), F.type[first]})
    /\ Pairs(n[Reg(first)]) =
         Pairs(m[Reg(first)]) \cup {<<InState(endState[i]), Named(Wire(i))>>}
    /\ n[Reg(i)].type = "wire" /\ n[Reg(i)].width = m[Reg(i)].width
    /\ n[Reg(i)].conditions = << >> /\ n[Reg(i)].drivers = <<Named(Reg(first))>>

LEMMA SharedIs ==
    ASSUME NEW m, NEW first, NEW i, NEW n, n = Share(m, first, i),
           m = [x \in DOMAIN m |-> m[x]], {Reg(first), Reg(i)} \subseteq DOMAIN m, first # i,
           IsSignal(m[Reg(first)]), Parallel(m[Reg(first)]), IsSignal(m[Reg(i)])
    PROVE  SharedSignals(m, n, first, i)
<1>1. PICK w : w = Min({Max({m[Reg(first)].width, m[Reg(i)].width}), F.type[first]})
  OBVIOUS
<1>2. PICK a, b : a = Reg(first) /\ b = Reg(i)
  OBVIOUS
<1>3. a # b /\ a \in DOMAIN m /\ b \in DOMAIN m
  BY <1>2, NamesDiffer
<1>4. PICK m1 : m1 = [m EXCEPT ![a].width = w]
  OBVIOUS
<1>5. PICK c, d, e : c = InState(endState[i]) /\ d = Named(Wire(i)) /\ e = <<c, d>>
  OBVIOUS
<1>6. PICK m2 : m2 = addCondition(m1, a, c, d)
  OBVIOUS
<1>7. PICK m3 : m3 = [m2 EXCEPT ![b].type = "wire"]
  OBVIOUS
<1>8. n = setExclDriver(m3, b, Named(a))
  BY <1>1, <1>2, <1>4, <1>5, <1>6, <1>7 DEF Share, WrittenIn
<1>9. PICK A : A = [type |-> m[a].type, width |-> w,
                    conditions |-> m[a].conditions, drivers |-> m[a].drivers]
  OBVIOUS
<1>10. Replaced(m, m1, a, A)
  BY <1>2, <1>3, <1>4, <1>9, WidthReplaced
<1>11. /\ A.type = m[a].type /\ A.width = w /\ A.conditions = m[a].conditions
       /\ A.drivers = m[a].drivers
  BY <1>9
<1>12. IsSignal(A) /\ Parallel(A) /\ Pairs(A) = Pairs(m[a])
  <2>1. IsSequence(m[a].conditions) /\ IsSequence(m[a].drivers) /\ Parallel(m[a])
    BY <1>2 DEF IsSignal
  <2>2. A = [type |-> A.type, width |-> A.width, conditions |-> A.conditions, drivers |-> A.drivers]
    BY <1>9, <1>11
  <2> QED BY <2>1, <2>2, <1>11 DEF IsSignal, Parallel, Pairs
<1>13. /\ m1 = [x \in DOMAIN m1 |-> m1[x]] /\ DOMAIN m1 = DOMAIN m /\ m1[a] = A
       /\ \A x \in DOMAIN m : x # a => m1[x] = m[x]
  BY <1>10 DEF Replaced
<1>14. PICK B : B = Appended(A, c, d)
  OBVIOUS
<1>15. /\ m2 = [x \in DOMAIN m2 |-> m2[x]] /\ DOMAIN m2 = DOMAIN m /\ m2[a] = B
       /\ \A x \in DOMAIN m : x # a => m2[x] = m1[x]
  <2>1. a \in DOMAIN m1 /\ IsSignal(m1[a]) /\ m1 = [x \in DOMAIN m1 |-> m1[x]]
    BY <1>3, <1>12, <1>13
  <2>2. LET r == addCondition(m1, a, c, d)
        IN /\ r = [x \in DOMAIN m1 |-> r[x]] /\ DOMAIN r = DOMAIN m1
           /\ \A x \in DOMAIN m1 : x # a => r[x] = m1[x]
           /\ r[a] = [type |-> m1[a].type, width |-> m1[a].width,
                      conditions |-> Append(m1[a].conditions, c),
                      drivers |-> Append(m1[a].drivers, d)]
    BY <2>1, Conditioned
  <2>3. /\ m2 = [x \in DOMAIN m1 |-> m2[x]] /\ DOMAIN m2 = DOMAIN m1
        /\ \A x \in DOMAIN m1 : x # a => m2[x] = m1[x]
        /\ m2[a] = [type |-> m1[a].type, width |-> m1[a].width,
                    conditions |-> Append(m1[a].conditions, c),
                    drivers |-> Append(m1[a].drivers, d)]
    BY <1>6, <2>2, Zenon
  <2>4. m2[a] = Appended(m1[a], c, d)
    BY <2>3, Zenon DEF Appended
  <2>5. m2[a] = B
    BY <1>13, <1>14, <2>4, Zenon
  <2> QED BY <1>13, <2>3, <2>5
<1>16. B.type = A.type /\ B.width = A.width /\ Pairs(B) = Pairs(A) \cup {e}
  BY <1>5, <1>12, <1>14, AppendedHas
<1>17. m2[b] = m[b] /\ IsSignal(m2[b]) /\ b \in DOMAIN m2
  BY <1>2, <1>3, <1>13, <1>15
<1>18. PICK t, u, cs, ds : t = "wire" /\ u = m[b].width /\ cs = m[b].conditions /\ ds = m[b].drivers
  OBVIOUS
<1>19. Replaced(m2, m3, b, [type |-> t, width |-> u, conditions |-> cs, drivers |-> ds])
  BY <1>7, <1>15, <1>17, <1>18, TypeReplaced
<1>20. /\ m3 = [x \in DOMAIN m3 |-> m3[x]] /\ DOMAIN m3 = DOMAIN m /\ b \in DOMAIN m3
       /\ m3[b] = [type |-> t, width |-> u, conditions |-> cs, drivers |-> ds]
       /\ \A x \in DOMAIN m : x # b => m3[x] = m2[x]
  BY <1>3, <1>15, <1>19 DEF Replaced
<1>21. Replaced(m3, n, b, [type |-> t, width |-> u, conditions |-> << >>, drivers |-> <<Named(a)>>])
  BY <1>8, <1>20, DriverReplaced
<1>22. /\ DOMAIN n = DOMAIN m
       /\ n[b] = [type |-> t, width |-> u, conditions |-> << >>, drivers |-> <<Named(a)>>]
       /\ \A x \in DOMAIN m : x # b => n[x] = m3[x]
  BY <1>20, <1>21 DEF Replaced
<1>23. n[a] = B
  BY <1>3, <1>15, <1>20, <1>22
<1>24. \A x \in DOMAIN m : x \notin {a, b} => n[x] = m[x]
  BY <1>13, <1>15, <1>20, <1>22
<1>25. /\ n[b].type = "wire" /\ n[b].width = m[b].width
       /\ n[b].conditions = << >> /\ n[b].drivers = <<Named(a)>>
  BY <1>18, <1>22
<1>26. n[a].type = m[a].type /\ n[a].width = w /\ Pairs(n[a]) = Pairs(m[a]) \cup {<<c, d>>}
  BY <1>5, <1>11, <1>12, <1>16, <1>23
<1>27. DOMAIN n = DOMAIN m
  BY <1>22
<1> QED BY <1>1, <1>2, <1>5, <1>24, <1>25, <1>26, <1>27 DEF SharedSignals

(* The width of a register does not exceed that of the first one.          *)
LEMMA WidthOfFirst ==
    ASSUME NEW a \in Int, NEW b \in Int
    PROVE  Min({Max({a, b}), a}) = a
<1>1. \E x \in {a, b} : \A y \in {a, b} : x >= y
  <2>1. CASE a >= b
    BY <2>1
  <2>2. CASE ~(a >= b)
    BY <2>2
  <2> QED BY <2>1, <2>2
<1>2. Max({a, b}) \in {a, b} /\ \A y \in {a, b} : Max({a, b}) >= y
  BY <1>1 DEF Max
<1>3. PICK c : c = Max({a, b}) /\ c \in Int /\ c >= a
  BY <1>2
<1>4. \E x \in {c, a} : \A y \in {c, a} : x =< y
  BY <1>3
<1>5. Min({c, a}) \in {c, a} /\ \A y \in {c, a} : Min({c, a}) =< y
  BY <1>4 DEF Min
<1> QED BY <1>3, <1>5

(* A register takes another value, and the register of that is a wire.     *)
Lends(m, n, l, i) ==
    /\ DOMAIN n = DOMAIN m
    /\ \A x \in DOMAIN m : x \notin {Reg(l), Reg(i)} => n[x] = m[x]
    /\ m[Reg(l)].type = "reg" /\ n[Reg(l)].type = "reg" /\ n[Reg(i)].type = "wire"
    /\ Pairs(n[Reg(l)]) = Pairs(m[Reg(l)]) \cup {<<InState(endState[i]), Named(Wire(i))>>}

LEMMA SharingKeeps ==
    ASSUME NEW m, NEW l, NEW i, NEW n, n = Share(m, l, i), l = Leader(i),
           BInv, phase = "done", i \in Bindable, Joins(i), {i, l} \subseteq Kept,
           {Reg(i), Reg(l)} \subseteq DOMAIN m, m = [x \in DOMAIN m |-> m[x]],
           IsSignal(m[Reg(l)]), Parallel(m[Reg(l)]), IsSignal(m[Reg(i)]), AllProper(m)
    PROVE  AllProper(n) /\ Lends(m, n, l, i)
<1>1. l # i /\ Reg(l) # Reg(i)
  BY NamesDiffer DEF Joins
<1>2. SharedSignals(m, n, l, i)
  BY <1>1, SharedIs
<1>3. ~Joins(l)
  BY LeaderLeads
<1>4. IsOwn(i, m[Reg(i)]) \/ IsLent(i, m[Reg(i)])
  BY ProperReg DEF AllProper
<1>5. IsOwn(l, m[Reg(l)])
  <2>1. IsOwn(l, m[Reg(l)]) \/ IsLent(l, m[Reg(l)])
    BY ProperReg DEF AllProper
  <2> QED BY <2>1, <1>3 DEF IsLent
<1>6. m[Reg(i)].width = F.type[i] /\ m[Reg(l)].width = F.type[l] /\ m[Reg(l)].type = "reg"
  BY <1>4, <1>5 DEF IsOwn, IsLent
<1>7. F.type[i] \in Int /\ F.type[l] \in Int
  <2>1. input \in Schedules
    BY DEF BInv, IInv, ShapeOK
  <2>2. F.type \in [Instrs(F) -> 0..(Unlimited - 1)] /\ {i, l} \subseteq Instrs(F)
    BY <2>1, TypesAssumption DEF F, Kept
  <2> QED BY <2>2
<1>8. n[Reg(l)].width = F.type[l]
  <2>1. n[Reg(l)].width = Min({Max({F.type[l], F.type[i]}), F.type[l]})
    BY <1>2, <1>6 DEF SharedSignals
  <2> QED BY <2>1, <1>7, WidthOfFirst
<1>9. i \in Led(l)
  BY DEF Led
<1>10. n[Reg(l)].type = "reg"
       /\ Pairs(n[Reg(l)]) = Pairs(m[Reg(l)]) \cup {<<InState(endState[i]), Named(Wire(i))>>}
  BY <1>2, <1>6 DEF SharedSignals
<1>11. IsOwn(l, n[Reg(l)])
  <2>1. \A e \in Pairs(m[Reg(l)]) : \E j \in Led(l) : e = <<InState(endState[j]), Named(Wire(j))>>
    BY <1>5 DEF IsOwn
  <2>2. \A e \in Pairs(n[Reg(l)]) : \E j \in Led(l) : e = <<InState(endState[j]), Named(Wire(j))>>
    BY <2>1, <1>9, <1>10
  <2> QED BY <2>2, <1>8, <1>10 DEF IsOwn
<1>12. IsLent(i, n[Reg(i)])
  BY <1>2, <1>6 DEF SharedSignals, IsLent
<1>13. Proper(Reg(l), n[Reg(l)]) /\ Proper(Reg(i), n[Reg(i)])
  BY <1>11, <1>12, ProperReg
<1>14. AllProper(n)
  BY <1>2, <1>13 DEF AllProper, SharedSignals
<1>15. Lends(m, n, l, i)
  BY <1>2, <1>6, <1>10 DEF Lends, SharedSignals
<1> QED BY <1>14, <1>15

-----------------------------------------------------------------------------
(* The data path that the generator has built.                             *)

(* No unit is there yet, and nothing drives the wires. *)
Bare(m) ==
    \A x \in DOMAIN m :
        x[1] \notin {"fu", "op0", "op1"} /\ (x[1] = "wire" => m[x].drivers = << >>)

(* The instruction whose register holds the value of i. *)
HolderIn(m, i) == IF m[Reg(i)].type = "wire" THEN Leader(i) ELSE i

Linked(m, i) == Has(m, Reg(HolderIn(m, i)), <<InState(endState[i]), Named(Wire(i))>>)

(* The registers that have been connected. *)
Linkable ==
    {i \in Kept : /\ F.op[i] # "PHI" /\ part # "addInstructionsSignals"
                  /\ part = "connectRegistersToWires" => i \notin ToSet(rest)}

(* The instructions of the q-th state that have been visited. *)
Seen(q) ==
    {i \in ToSet(state[list[q]].instrs) :
        \/ q <= visited
        \/ q = visited + 1 /\ part = "generateDatapath" /\ i \notin ToSet(rest)}

Data(m) ==
    /\ AllProper(m)
    /\ part \in {"addInstructionsSignals", "connectRegistersToWires", "performBinding"} => Bare(m)
    /\ \A i \in Linkable : Linked(m, i)
    /\ \A q \in 1..Len(list) : \A s : s = list[q] => \A i \in Seen(q) : DrivenIn(m, i, s)
    /\ part \in {"printed", "run"} =>
         \A x \in DOMAIN m : \A k \in DOMAIN m[x].drivers : Printable(m[x].drivers[k])

DataOK ==
    part \notin Undeclared \cup {"assertion"} =>
        /\ \A m : m = module => Data(m)
        /\ part = "addInstructionsSignals" => ToSet(rest) \subseteq Kept

-----------------------------------------------------------------------------
(* What the wiring depends on.                                             *)
LEMMA SameSources ==
    ASSUME UNCHANGED mapVars
    PROVE  /\ F' = F /\ Kept' = Kept /\ PortNames' = PortNames /\ Bindable' = Bindable
           /\ list' = list /\ state' = state /\ endState' = endState /\ firstState' = firstState
           /\ startState' = startState /\ input' = input /\ pc' = pc
           /\ \A i, n : getOperandSignal(i, n)' = getOperandSignal(i, n)
           /\ \A s : ReturnsIn(s)' = ReturnsIn(s)
<1>1. /\ input' = input /\ list' = list /\ state' = state /\ endState' = endState
      /\ firstState' = firstState /\ startState' = startState /\ pc' = pc
  BY DEF mapVars
<1>2. F' = F /\ Bindable' = Bindable
  BY <1>1, SameFunction
<1>3. Kept' = Kept
  BY <1>2 DEF Kept, shouldIgnoreInstruction, Users, Lva!Users, Lva!Instrs, Instrs
<1>4. PortNames' = PortNames
  BY <1>2 DEF PortNames, Instrs
<1>5. \A i, n : getOperandSignal(i, n)' = getOperandSignal(i, n)
  BY <1>2 DEF getOperandSignal, OperandWidth, WidthOf
<1>6. \A s : ReturnsIn(s)' = ReturnsIn(s)
  BY <1>1, SameMachine
<1> QED BY <1>1, <1>2, <1>3, <1>4, <1>5, <1>6

LEMMA SameUnits ==
    ASSUME UNCHANGED mapVars, unitOf' = unitOf
    PROVE  /\ \A i : Fu(i)' = Fu(i) /\ Op0(i)' = Op0(i) /\ Op1(i)' = Op1(i)
           /\ \A i : SameUnit(i)' = SameUnit(i)
           /\ \A i : Source(i)' = Source(i)
           /\ Names' = Names
<1>1. F' = F /\ Bindable' = Bindable /\ Kept' = Kept /\ PortNames' = PortNames
  BY SameSources
<1>2. \A i : FuInstName(i)' = FuInstName(i)
  BY <1>1 DEF FuInstName, FuOf
<1>3. \A i : Fu(i)' = Fu(i) /\ Op0(i)' = Op0(i) /\ Op1(i)' = Op1(i)
  BY <1>2 DEF Fu, Op0, Op1
<1>4. \A i : SameUnit(i)' = SameUnit(i)
  BY <1>1, <1>2 DEF SameUnit
<1>5. \A i : Source(i)' = Source(i)
  <2>1. \A i, n : getOperandSignal(i, n)' = getOperandSignal(i, n)
    BY SameSources
  <2> QED BY <1>1, <1>3, <2>1 DEF Source, createFu
<1>6. Names' = Names
  <2>1. UnitNames' = UnitNames
    BY <1>1, <1>3 DEF UnitNames
  <2> QED BY <1>1, <2>1 DEF Names, Instrs
<1> QED BY <1>3, <1>4, <1>5, <1>6

LEMMA SameLeaders ==
    ASSUME UNCHANGED mapVars, unitOf' = unitOf, groups' = groups
    PROVE  \A i : Leader(i)' = Leader(i) /\ (Joins(i)' <=> Joins(i))
<1>1. F' = F
  BY SameSources
<1> QED BY <1>1 DEF Joins, Leader, FuOf

LEMMA SamePorts ==
    ASSUME UNCHANGED mapVars, NEW g
    PROVE  (IsResult(g)' <=> IsResult(g)) /\ (IsCurState(g)' <=> IsCurState(g))
<1>1. /\ F' = F /\ state' = state
      /\ \A i, n : getOperandSignal(i, n)' = getOperandSignal(i, n)
      /\ \A s : ReturnsIn(s)' = ReturnsIn(s)
  BY SameSources
<1> QED BY <1>1 DEF IsResult, IsCurState, Wait

(* A register is for its instruction until registers are shared. *)
LEMMA OwnStays ==
    ASSUME UNCHANGED mapVars, NEW i, i \in Kept, NEW g, IsOwn(i, g) \/ IsLent(i, g),
           phase # "done" \/ UNCHANGED <<phase, groups, unitOf>>
    PROVE  IsOwn(i, g)' \/ IsLent(i, g)'
<1>1. F' = F /\ Kept' = Kept /\ endState' = endState /\ Bindable' = Bindable
  BY SameSources
<1>2. CASE phase # "done"
  <2>1. IsOwn(i, g) /\ Led(i) = {i} /\ i \in Led(i)'
    BY <1>1, <1>2 DEF IsLent, Led
  <2>2. g.type = "reg" /\ g.width = F.type[i]
        /\ \A e \in Pairs(g) : e = <<InState(endState[i]), Named(Wire(i))>>
    BY <2>1 DEF IsOwn
  <2>3. \A e \in Pairs(g) : \E j \in Led(i)' : e = <<InState(endState'[j]), Named(Wire(j))>>
    BY <1>1, <2>1, <2>2
  <2> QED BY <1>1, <2>2, <2>3 DEF IsOwn
<1>3. CASE UNCHANGED <<phase, groups, unitOf>>
  <2>1. \A j : Leader(j)' = Leader(j) /\ (Joins(j)' <=> Joins(j))
    BY <1>3, SameLeaders
  <2>2. phase' = phase
    BY <1>3
  <2>3. Led(i)' = Led(i)
    BY <1>1, <2>1, <2>2 DEF Led
  <2>4. IsOwn(i, g)' <=> IsOwn(i, g)
    BY <1>1, <2>3 DEF IsOwn
  <2>5. IsLent(i, g)' <=> IsLent(i, g)
    BY <1>1, <2>1, <2>2 DEF IsLent
  <2> QED BY <2>4, <2>5
<1> QED BY <1>2, <1>3

LEMMA WiringStays ==
    ASSUME UNCHANGED mapVars, NEW m, AllProper(m), Bare(m) \/ unitOf' = unitOf,
           phase # "done" \/ UNCHANGED <<phase, groups, unitOf>>
    PROVE  AllProper(m)'
<1> SUFFICES ASSUME NEW x \in DOMAIN m
             PROVE  Proper(x, m[x])'
  BY DEF AllProper
<1>1. PICK g : g = m[x]
  OBVIOUS
<1>2. Proper(x, g)
  BY <1>1 DEF AllProper
<1>3. /\ F' = F /\ Kept' = Kept /\ PortNames' = PortNames /\ Bindable' = Bindable
      /\ state' = state /\ Instrs(F)' = Instrs(F)
      /\ \A i, n : getOperandSignal(i, n)' = getOperandSignal(i, n)
  BY SameSources DEF Instrs
<1>4. IsResult(g)' <=> IsResult(g)
  BY SamePorts
<1>5. IsCurState(g)' <=> IsCurState(g)
  BY SamePorts
<1>6. \A i \in Kept : x = Reg(i) => IsOwn(i, g)' \/ IsLent(i, g)'
  BY <1>2, OwnStays DEF Proper
<1>7. CASE unitOf' = unitOf
  <2>1. /\ \A i : Fu(i)' = Fu(i) /\ Op0(i)' = Op0(i) /\ Op1(i)' = Op1(i)
        /\ \A i : SameUnit(i)' = SameUnit(i) /\ Source(i)' = Source(i)
        /\ Names' = Names
    BY <1>7, SameUnits
  <2>2. \A i : IsWire(i, g)' <=> IsWire(i, g)
    BY <1>3, <2>1 DEF IsWire
  <2>3. \A i : IsUnit(i, g)' <=> IsUnit(i, g)
    BY <1>3, <2>1 DEF IsUnit, createFu
  <2>4. \A i, n : IsOperand(i, n, g)' <=> IsOperand(i, n, g)
    BY <1>3, <2>1 DEF IsOperand, ToSet
  <2>5. Proper(x, g)'
    BY <1>2, <1>3, <1>4, <1>5, <1>6, <2>1, <2>2, <2>3, <2>4, Zenon DEF Proper
  <2> QED BY <2>5, <1>1, Zenon
<1>8. CASE Bare(m)
  <2>1. x[1] \notin {"fu", "op0", "op1"} /\ (x[1] = "wire" => g.drivers = << >>)
    BY <1>1, <1>8 DEF Bare
  <2>2. \A i : x \notin {Fu(i), Op0(i), Op1(i)} /\ x \notin {Fu(i)', Op0(i)', Op1(i)'}
    BY <2>1 DEF Fu, Op0, Op1
  <2>3. x \in Names'
    <3>1. x \in Names /\ x \notin UnitNames
      BY <1>2, <2>2 DEF Proper, UnitNames
    <3> QED BY <3>1, <1>3 DEF Names, Wire, Reg
  <2>4. \A i \in Instrs(F) : x = Wire(i) => IsWire(i, g)'
    <3> SUFFICES ASSUME NEW i \in Instrs(F), x = Wire(i)
                 PROVE  IsWire(i, g)'
      OBVIOUS
    <3>1. g.drivers = << >> /\ DOMAIN g.drivers = {}
      BY <2>1, NamesApart, EmptyIs
    <3>2. g.type = "wire" /\ g.width = F.type[i]
      BY <1>2 DEF Proper, IsWire
    <3> QED BY <3>1, <3>2, <1>3 DEF IsWire
  <2>5. Proper(x, g)'
    BY <1>2, <1>3, <1>4, <1>5, <1>6, <2>2, <2>3, <2>4, Zenon DEF Proper
  <2> QED BY <2>5, <1>1, Zenon
<1> QED BY <1>7, <1>8

LEMMA DrivenStays ==
    ASSUME UNCHANGED mapVars, unitOf' = unitOf, NEW m, NEW i, NEW s
    PROVE  DrivenIn(m, i, s)' <=> DrivenIn(m, i, s)
<1>1. F' = F /\ \A k, n : getOperandSignal(k, n)' = getOperandSignal(k, n)
  BY SameSources
<1>2. Op0(i)' = Op0(i) /\ Op1(i)' = Op1(i)
  BY SameUnits
<1> QED BY <1>1, <1>2 DEF DrivenIn, Has, IsDriven

LEMMA LinkStays ==
    ASSUME UNCHANGED mapVars, NEW m, NEW i, Linked(m, i),
           m[Reg(i)].type # "wire" \/ UNCHANGED <<groups, unitOf>>
    PROVE  Linked(m, i)'
<1>1. endState' = endState
  BY SameSources
<1>2. HolderIn(m, i)' = HolderIn(m, i)
  BY SameLeaders DEF HolderIn
<1> QED BY <1>1, <1>2 DEF Linked, Has

LEMMA OwnRegister ==
    ASSUME phase # "done", NEW m, AllProper(m), NEW i \in Kept, Reg(i) \in DOMAIN m
    PROVE  m[Reg(i)].type = "reg" /\ HolderIn(m, i) = i
<1>1. IsOwn(i, m[Reg(i)])
  BY ProperReg DEF AllProper, IsLent
<1> QED BY <1>1 DEF IsOwn, HolderIn

(* What has been built is there when signals are added. *)
Carried(n) ==
    /\ AllProper(n)'
    /\ \A i \in Linkable : Linked(n, i)'
    /\ \A q \in 1..Len(list) : \A s : s = list[q] => \A i \in Seen(q) : DrivenIn(n, i, s)'

LEMMA DataCarried ==
    ASSUME UNCHANGED mapVars, NEW m, Data(m), Bare(m) \/ unitOf' = unitOf,
           phase # "done" \/ UNCHANGED <<phase, groups, unitOf>>,
           \A i \in Linkable : Reg(i) \in DOMAIN m,
           unitOf' = unitOf \/ \A q \in 1..Len(list) : Seen(q) = {}
    PROVE  Carried(m)
<1>1. AllProper(m)'
  BY WiringStays DEF Data
<1>2. \A i \in Linkable : Linked(m, i)'
  <2> SUFFICES ASSUME NEW i \in Linkable
               PROVE  Linked(m, i)'
    OBVIOUS
  <2>1. Linked(m, i) /\ i \in Kept /\ Reg(i) \in DOMAIN m /\ AllProper(m)
    BY DEF Data, Linkable
  <2>2. CASE phase # "done"
    <3>1. m[Reg(i)].type # "wire"
      BY <2>1, <2>2, OwnRegister
    <3> QED BY <2>1, <3>1, LinkStays
  <2>3. CASE UNCHANGED <<phase, groups, unitOf>>
    BY <2>1, <2>3, LinkStays
  <2> QED BY <2>2, <2>3
<1>3. \A q \in 1..Len(list) : \A s : s = list[q] => \A i \in Seen(q) : DrivenIn(m, i, s)'
  BY DrivenStays DEF Data
<1> QED BY <1>1, <1>2, <1>3 DEF Carried

LEMMA DataGrows ==
    ASSUME UNCHANGED vars, phase # "done", NEW m, NEW n, Data(m), Extends(m, n),
           \A i \in Linkable : Reg(i) \in DOMAIN m
    PROVE  Carried(n)
<1>1. UNCHANGED mapVars /\ unitOf' = unitOf
  BY DEF vars, bindVars
<1>2. AllProper(n)'
  BY <1>1, WiringStays DEF Extends
<1>3. \A i \in Linkable : Linked(n, i)'
  <2> SUFFICES ASSUME NEW i \in Linkable
               PROVE  Linked(n, i)'
    OBVIOUS
  <2>1. Linked(m, i) /\ i \in Kept /\ Reg(i) \in DOMAIN m /\ AllProper(m)
    BY DEF Data, Linkable
  <2>2. HolderIn(m, i) = i
    BY <2>1, OwnRegister
  <2>3. n[Reg(i)].type = "reg" /\ HolderIn(n, i) = i
    <3>1. AllProper(n) /\ Reg(i) \in DOMAIN n
      BY <2>1 DEF Extends, Grown
    <3> QED BY <2>1, <3>1, OwnRegister
  <2>4. Linked(n, i)
    BY <2>1, <2>2, <2>3, GrownHas DEF Linked, Extends
  <2> QED BY <1>1, <2>3, <2>4, LinkStays
<1>4. \A q \in 1..Len(list) : \A s : s = list[q] => \A i \in Seen(q) : DrivenIn(n, i, s)'
  <2> SUFFICES ASSUME NEW q \in 1..Len(list), NEW s, s = list[q], NEW i \in Seen(q)
               PROVE  DrivenIn(n, i, s)'
    OBVIOUS
  <2>1. DrivenIn(m, i, s)
    BY DEF Data
  <2>2. DrivenIn(n, i, s)
    BY <2>1, GrownHas DEF Extends
  <2> QED BY <1>1, <2>2, DrivenStays
<1> QED BY <1>2, <1>3, <1>4 DEF Carried

(* What a step has to show. *)
LEMMA DataIs ==
    ASSUME NEW n, n = module', Carried(n), UNCHANGED mapVars,
           part' \notin {"printed", "run"},
           part' \in {"addInstructionsSignals", "connectRegistersToWires", "performBinding"} =>
               Bare(n),
           part' = "addInstructionsSignals" => ToSet(rest') \subseteq Kept,
           \A i \in Linkable' : i \in Linkable \/ Linked(n, i)',
           \A q \in 1..Len(list) : \A s : s = list[q] =>
               \A i \in Seen(q)' : i \in Seen(q) \/ DrivenIn(n, i, s)'
    PROVE  DataOK'
<1>1. list' = list /\ Kept' = Kept
  BY SameSources
<1>2. Data(n)'
  <2>1. AllProper(n)' /\ \A i \in Linkable' : Linked(n, i)'
    BY DEF Carried
  <2>2. \A q \in 1..Len(list)' : \A s : s = list[q]' => \A i \in Seen(q)' : DrivenIn(n, i, s)'
    BY <1>1 DEF Carried
  <2> QED BY <2>1, <2>2 DEF Data, Bare
<1>3. ToSet(rest)' = ToSet(rest')
  BY DEF ToSet
<1> QED BY <1>1, <1>2, <1>3 DEF DataOK, Undeclared

LEMMA NothingSeen == visited = 0 /\ part # "generateDatapath" => \A q \in Nat \ {0} : Seen(q) = {}
BY DEF Seen

LEMMA KeptListed ==
    ASSUME input \in Schedules, NEW S \in SUBSET Kept
    PROVE  ToSet(LayoutOrder(S)) = S
<1>1. IsFiniteSet(Instrs(F)) /\ Instrs(F) \subseteq Nat
  <2>1. IsControlFlow(F)
    BY SchedulesAssumption DEF F
  <2> QED BY <2>1, ControlFlowShape
<1>2. IsFiniteSet(S) /\ S \subseteq Nat
  BY <1>1, FS_Subset DEF Kept
<1> QED BY <1>2, LayoutOrderRange

(* Where the signals are, until registers are shared. *)
LEMMA BuildingReady ==
    ASSUME GenInv, DataOK, part \notin Undeclared \cup {"assertion"}, NEW m, m = module
    PROVE  /\ Data(m) /\ AllProper(m) /\ BInv /\ input \in Schedules /\ IInv
           /\ Len(list) \in Nat /\ rest \in Seq(Instrs(F))
           /\ \A i \in Linkable : {Wire(i), Reg(i)} \subseteq DOMAIN m
           /\ part # "addInstructionsSignals" => RegistersIn(m)
           /\ phase # "done" => ModuleOK(m, {})
           /\ \A i \in Instrs(F) : unitOf[i] # Unbound => i \in Bindable
<1>1. Data(m) /\ AllProper(m)
  BY DEF DataOK, Data
<1>2. BInv /\ input \in Schedules /\ IInv /\ Len(list) \in Nat
  BY DEF GenInv, BInv, IInv, ShapeOK
<1>3. rest \in Seq(Instrs(F))
  BY DEF GenInv, Remaining
<1>4. \A i \in Kept : (part = "addInstructionsSignals" => i \notin ToSet(rest)) =>
             {Wire(i), Reg(i)} \subseteq DOMAIN m
  BY DEF GenInv, Contents
<1>5. part # "addInstructionsSignals" => RegistersIn(m)
  BY <1>4 DEF GenInv, Contents, RegistersIn
<1>6. phase # "done" => ModuleOK(m, {})
  BY DEF GenInv, Contents, Joining
<1>7. \A i \in Instrs(F) : unitOf[i] # Unbound => i \in Bindable
  BY <1>2 DEF BInv, BindInv, Assigned
<1> QED BY <1>1, <1>2, <1>3, <1>4, <1>5, <1>6, <1>7 DEF Linkable

LEMMA DeclarationData ==
    ASSUME GenInv, generateDeclaration
    PROVE  DataOK'
<1>1. PICK n : n = module'
  OBVIOUS
<1>2. /\ UNCHANGED vars /\ part = "generateDeclaration" /\ part' = "addInstructionsSignals"
      /\ visited' = visited /\ rest' = LayoutOrder(Kept)
  BY DEF generateDeclaration
<1>3. /\ UNCHANGED mapVars /\ unitOf' = unitOf /\ phase # "done" /\ visited = 0 /\ BInv
      /\ input \in Schedules /\ Len(list) \in Nat
  BY <1>2 DEF vars, bindVars, GenInv, PartOf, Remaining, Undeclared, BInv, IInv, ShapeOK
<1>4. AllProper(n)
  BY <1>1, <1>3, PortsAreProper
<1>5. DOMAIN n = PortNames
  <2>1. DOMAIN module' = PortNames
    BY DEF generateDeclaration, addCondition
  <2> QED BY <1>1, <2>1
<1>6. Bare(n)
  <2>1. \A x \in PortNames : x[1] \notin {"fu", "op0", "op1", "wire"}
    BY NamesApart DEF PortNames
  <2> QED BY <1>5, <2>1 DEF Bare
<1>7. AllProper(n)'
  BY <1>3, <1>4, WiringStays
<1>8. Linkable = {i \in Kept : F.op[i] # "PHI"} /\ Linkable' = {}
  BY <1>2 DEF Linkable
<1>9. \A q \in 1..Len(list) : Seen(q)' = {}
  BY <1>2, <1>3 DEF Seen
<1>10. list' = list /\ Kept' = Kept
  BY <1>3, SameSources
<1>11. ToSet(rest') = Kept
  BY <1>2, <1>3, KeptListed
<1>12. Data(n)'
  BY <1>2, <1>6, <1>7, <1>8, <1>9, <1>10 DEF Data, Bare
<1>13. ToSet(rest)' = ToSet(rest')
  BY DEF ToSet
<1> QED BY <1>1, <1>10, <1>11, <1>12, <1>13 DEF DataOK

LEMMA InstructionsData ==
    ASSUME GenInv, DataOK, addInstructionsSignals
    PROVE  DataOK'
<1>1. PICK m, n : m = module /\ n = module'
  OBVIOUS
<1>2. /\ UNCHANGED vars /\ part = "addInstructionsSignals" /\ visited' = visited
      /\ part' \in {"addInstructionsSignals", "connectRegistersToWires"}
  BY DEF addInstructionsSignals, Ends
<1>3. UNCHANGED mapVars /\ unitOf' = unitOf /\ phase # "done" /\ visited = 0
  BY <1>2 DEF vars, bindVars, GenInv, PartOf, Remaining, Undeclared
<1>4. part \notin Undeclared \cup {"assertion"}
  BY <1>2 DEF Undeclared
<1>5. /\ Data(m) /\ AllProper(m) /\ input \in Schedules /\ Len(list) \in Nat /\ rest \in Seq(Instrs(F))
      /\ ModuleOK(m, {}) /\ \A i \in Linkable : Reg(i) \in DOMAIN m
  BY <1>1, <1>3, <1>4, BuildingReady
<1>6. ToSet(rest) \subseteq Kept /\ Bare(m) /\ Linkable = {}
  BY <1>2, <1>4, <1>5 DEF DataOK, Data, Linkable
<1>7. \A q \in 1..Len(list) : Seen(q)' = {}
  BY <1>2, <1>3 DEF Seen
<1>8. list' = list /\ Kept' = Kept /\ F' = F
  BY <1>3, SameSources
<1>9. CASE Ends("connectRegistersToWires", LayoutOrder({i \in Kept : F.op[i] # "PHI"}))
  <2>1. n = m /\ part' = "connectRegistersToWires"
        /\ rest' = LayoutOrder({i \in Kept : F.op[i] # "PHI"})
    BY <1>1, <1>9 DEF Ends
  <2>2. Carried(n)
    BY <1>3, <1>5, <2>1, DataCarried
  <2>3. ToSet(rest') = {i \in Kept : F.op[i] # "PHI"}
    <3>1. PICK S : S = {i \in Kept : F.op[i] # "PHI"}
      OBVIOUS
    <3> QED BY <1>5, <2>1, <3>1, KeptListed
  <2>4. Linkable' = {}
    <3>1. ToSet(rest)' = ToSet(rest')
      BY DEF ToSet
    <3> QED BY <1>8, <2>1, <2>3, <3>1 DEF Linkable
  <2> QED BY <1>1, <1>3, <1>6, <1>7, <2>1, <2>2, <2>4, DataIs
<1>10. CASE GoesOn /\ module' = InstructionSignals(module, Head(rest)) /\ UNCHANGED <<part, visited>>
  <2>1. PICK h : h = Head(rest)
    OBVIOUS
  <2>2. rest' = Tail(rest) /\ h \in ToSet(rest) /\ ToSet(rest') \subseteq ToSet(rest)
    BY <1>5, <1>10, <2>1, TakenFirst DEF GoesOn
  <2>3. h \in Kept /\ n = InstructionSignals(m, h) /\ part' = part
    BY <1>1, <1>6, <1>10, <2>1, <2>2
  <2>4. /\ Extends(m, n)
        /\ \A x \in DOMAIN n : x \in DOMAIN m \cup {Wire(h), Reg(h)}
        /\ \A x \in DOMAIN m : n[x] = m[x]
        /\ \A x \in DOMAIN n : x \notin DOMAIN m => n[x].drivers = << >>
    BY <1>5, <2>3, InstructionSignalsExtend
  <2>5. Carried(n)
    BY <1>2, <1>3, <1>5, <2>4, DataGrows
  <2>6. Bare(n)
    <3> SUFFICES ASSUME NEW x \in DOMAIN n
                 PROVE  x[1] \notin {"fu", "op0", "op1"} /\ (x[1] = "wire" => n[x].drivers = << >>)
      BY DEF Bare
    <3>1. CASE x \in DOMAIN m
      BY <1>6, <2>4, <3>1 DEF Bare
    <3>2. CASE x \notin DOMAIN m
      BY <2>4, <3>2, NamesApart
    <3> QED BY <3>1, <3>2
  <2>7. Linkable' = {}
    BY <1>2, <2>3 DEF Linkable
  <2>8. ToSet(rest') \subseteq Kept
    BY <1>6, <2>2
  <2>9. part' \notin {"printed", "run"}
    BY <1>2
  <2> QED BY <1>1, <1>3, <1>7, <2>5, <2>6, <2>7, <2>8, <2>9, DataIs
<1> QED BY <1>9, <1>10 DEF addInstructionsSignals

LEMMA ConnectionData ==
    ASSUME GenInv, DataOK, connectRegistersToWires
    PROVE  DataOK'
<1>1. PICK m, n : m = module /\ n = module'
  OBVIOUS
<1>2. /\ UNCHANGED vars /\ part = "connectRegistersToWires" /\ visited' = visited
      /\ part' \in {"connectRegistersToWires", "performBinding"}
  BY DEF connectRegistersToWires, Ends
<1>3. UNCHANGED mapVars /\ unitOf' = unitOf /\ phase # "done" /\ visited = 0
  BY <1>2 DEF vars, bindVars, GenInv, PartOf, Remaining, Undeclared
<1>4. part \notin Undeclared \cup {"assertion"}
  BY <1>2 DEF Undeclared
<1>5. /\ Data(m) /\ AllProper(m) /\ Len(list) \in Nat /\ rest \in Seq(Instrs(F))
      /\ ModuleOK(m, {}) /\ RegistersIn(m) /\ \A i \in Linkable : Reg(i) \in DOMAIN m
  BY <1>1, <1>2, <1>3, <1>4, BuildingReady
<1>6. ToSet(rest) \subseteq Kept /\ Bare(m)
  BY <1>2, <1>5 DEF Data, GenInv, Remaining
<1>7. \A q \in 1..Len(list) : Seen(q)' = {}
  BY <1>2, <1>3 DEF Seen
<1>8. list' = list /\ Kept' = Kept /\ F' = F /\ ToSet(rest)' = ToSet(rest')
  BY <1>3, SameSources DEF ToSet
<1>9. part' \notin {"printed", "run", "addInstructionsSignals"}
  BY <1>2
<1>10. CASE Ends("performBinding", << >>)
  <2>1. n = m /\ part' = "performBinding" /\ rest = << >>
    BY <1>1, <1>10 DEF Ends
  <2>2. Carried(n)
    BY <1>3, <1>5, <2>1, DataCarried
  <2>3. Linkable' = Linkable
    BY <1>2, <1>8, <2>1, EmptySet DEF Linkable
  <2> QED BY <1>1, <1>3, <1>6, <1>7, <1>9, <2>1, <2>2, <2>3, DataIs
<1>11. CASE /\ GoesOn /\ UNCHANGED <<part, visited>>
            /\ module' = addCondition(module, Reg(Head(rest)), InState(WrittenIn(Head(rest))),
                                      Named(Wire(Head(rest))))
  <2>1. PICK h : h = Head(rest)
    OBVIOUS
  <2>2. /\ rest' = Tail(rest) /\ h \in ToSet(rest)
        /\ ToSet(rest) \subseteq {h} \cup ToSet(rest')
    BY <1>5, <1>11, <2>1, TakenFirst DEF GoesOn
  <2>3. h \in Kept /\ n = addCondition(m, Reg(h), InState(WrittenIn(h)), Named(Wire(h)))
        /\ part' = part
    BY <1>1, <1>6, <1>11, <2>1, <2>2
  <2>4. {Wire(h), Reg(h)} \subseteq DOMAIN m
    BY <1>5, <2>3 DEF RegistersIn
  <2>5. /\ Extends(m, n) /\ DOMAIN n = DOMAIN m
        /\ \A x \in DOMAIN m : x # Reg(h) => n[x] = m[x]
        /\ <<InState(endState[h]), Named(Wire(h))>> \in Pairs(n[Reg(h)])
    BY <1>3, <1>5, <2>3, <2>4, ConnectionExtends
  <2>6. Carried(n)
    BY <1>2, <1>3, <1>5, <2>5, DataGrows
  <2>7. Bare(n)
    <3> SUFFICES ASSUME NEW x \in DOMAIN n
                 PROVE  x[1] \notin {"fu", "op0", "op1"} /\ (x[1] = "wire" => n[x].drivers = << >>)
      BY DEF Bare
    <3>1. x \in DOMAIN m /\ (x[1] = "wire" => n[x] = m[x])
      BY <2>5, NamesApart
    <3> QED BY <1>6, <3>1 DEF Bare
  <2>8. Linked(n, h)'
    <3>1. AllProper(n) /\ Reg(h) \in DOMAIN n
      BY <2>4, <2>5 DEF Extends
    <3>2. n[Reg(h)].type = "reg" /\ HolderIn(n, h) = h
      BY <1>3, <2>3, <3>1, OwnRegister
    <3>3. Linked(n, h)
      BY <2>5, <3>1, <3>2 DEF Linked, Has
    <3> QED BY <1>3, <3>2, <3>3, LinkStays
  <2>9. \A i \in Linkable' : i \in Linkable \/ Linked(n, i)'
    <3> SUFFICES ASSUME NEW i \in Linkable'
                 PROVE  i \in Linkable \/ Linked(n, i)'
      OBVIOUS
    <3>1. i \in Kept /\ F.op[i] # "PHI" /\ i \notin ToSet(rest')
      BY <1>2, <1>8, <2>3 DEF Linkable
    <3>2. i = h \/ i \in Linkable
      BY <1>2, <2>2, <3>1 DEF Linkable
    <3> QED BY <2>8, <3>2
  <2> QED BY <1>1, <1>3, <1>7, <1>9, <2>6, <2>7, <2>9, DataIs
<1> QED BY <1>10, <1>11 DEF connectRegistersToWires

LEMMA PerformData ==
    ASSUME GenInv, DataOK, performBinding
    PROVE  DataOK'
<1>1. PICK m : m = module /\ m = module'
  BY DEF performBinding
<1>2. /\ part = "performBinding" /\ visited' = visited
      /\ part' \in {"performBinding", "createBindingSignals", "assertion"}
  BY DEF performBinding
<1>3. /\ phase # "done" /\ visited = 0
      /\ UNCHANGED mapVars
  <2>1. phase # "done" /\ visited = 0
    BY <1>2 DEF GenInv, PartOf, Remaining, Undeclared
  <2>2. CASE phase = "bindFuInState"
    BY <2>1, <2>2 DEF performBinding, bindFuInState
  <2>3. CASE phase # "bindFuInState"
    BY <2>1, <2>3 DEF performBinding, vars
  <2> QED BY <2>1, <2>2, <2>3
<1>4. part \notin Undeclared \cup {"assertion"}
  BY <1>2 DEF Undeclared
<1>5. Data(m) /\ Len(list) \in Nat /\ \A i \in Linkable : Reg(i) \in DOMAIN m
  BY <1>1, <1>2, <1>3, <1>4, BuildingReady
<1>6. Bare(m)
  BY <1>2, <1>5 DEF Data
<1>7. \A q \in 1..Len(list) : Seen(q) = {} /\ Seen(q)' = {}
  BY <1>2, <1>3 DEF Seen
<1>8. list' = list /\ Kept' = Kept /\ F' = F
  BY <1>3, SameSources
<1>9. Carried(m)
  BY <1>3, <1>5, <1>6, <1>7, DataCarried
<1>10. \A i \in Linkable' : i \in Linkable
  BY <1>2, <1>8 DEF Linkable
<1>11. part' \notin {"printed", "run", "addInstructionsSignals"}
  BY <1>2
<1> QED BY <1>1, <1>3, <1>6, <1>7, <1>9, <1>10, <1>11, DataIs

LEMMA UnitsData ==
    ASSUME GenInv, DataOK, createBindingSignals
    PROVE  DataOK'
<1>1. PICK m, n : m = module /\ n = module'
  OBVIOUS
<1>2. /\ UNCHANGED vars /\ part = "createBindingSignals" /\ visited' = visited
      /\ part' \in {"createBindingSignals", "generateDatapath"}
  BY DEF createBindingSignals, Ends
<1>3. UNCHANGED mapVars /\ unitOf' = unitOf /\ phase # "done" /\ visited = 0
  BY <1>2 DEF vars, bindVars, GenInv, PartOf, Remaining, Undeclared
<1>4. part \notin Undeclared \cup {"assertion"}
  BY <1>2 DEF Undeclared
<1>5. /\ Data(m) /\ AllProper(m) /\ Len(list) \in Nat /\ rest \in Seq(Instrs(F))
      /\ ModuleOK(m, {}) /\ \A i \in Linkable : Reg(i) \in DOMAIN m
      /\ input \in Schedules /\ \A i \in Instrs(F) : unitOf[i] # Unbound => i \in Bindable
  BY <1>1, <1>2, <1>3, <1>4, BuildingReady
<1>6. list' = list /\ Kept' = Kept /\ F' = F /\ ToSet(rest)' = ToSet(rest') /\ state' = state
  BY <1>3, SameSources DEF ToSet
<1>7. \A i \in Linkable' : i \in Linkable
  BY <1>2, <1>6 DEF Linkable
<1>8. part' \notin {"printed", "run", "addInstructionsSignals", "connectRegistersToWires",
                    "performBinding"}
  BY <1>2
<1>9. CASE Ends("generateDatapath", state[list[1]].instrs)
  <2>1. n = m /\ rest' = state[list[1]].instrs
    BY <1>1, <1>9 DEF Ends
  <2>2. Carried(n)
    BY <1>3, <1>5, <2>1, DataCarried
  <2>3. \A q \in 1..Len(list) : Seen(q)' = {}
    <3> SUFFICES ASSUME NEW q \in 1..Len(list), NEW i \in Seen(q)'
                 PROVE  FALSE
      OBVIOUS
    <3>1. i \in ToSet(state[list[q]].instrs)'
          /\ (q <= visited \/ (q = visited + 1 /\ i \notin ToSet(rest')))
      BY <1>2, <1>6 DEF Seen
    <3>2. ToSet(state[list[q]].instrs)' = ToSet(state[list[q]].instrs)
      BY <1>6 DEF ToSet
    <3> QED BY <1>3, <2>1, <3>1, <3>2
  <2> QED BY <1>1, <1>3, <1>7, <1>8, <2>2, <2>3, DataIs
<1>10. CASE GoesOn /\ module' = BindingSignals(module, Head(rest)) /\ UNCHANGED <<part, visited>>
  <2>1. PICK h : h = Head(rest)
    OBVIOUS
  <2>2. h \in Instrs(F) /\ n = BindingSignals(m, h) /\ part' = part
    BY <1>1, <1>5, <1>10, <2>1, TakenFirst DEF GoesOn
  <2>3. Extends(m, n)
    <3>1. CASE unitOf[h] = Unbound
      <4>1. n = m
        BY <2>2, <3>1 DEF BindingSignals
      <4> QED BY <1>5, <4>1, ExtendsItself
    <3>2. CASE unitOf[h] # Unbound
      BY <1>5, <2>2, <3>2, BindingSignalsExtend
    <3> QED BY <3>1, <3>2
  <2>4. Carried(n)
    BY <1>2, <1>3, <1>5, <2>3, DataGrows
  <2>5. \A q \in 1..Len(list) : Seen(q)' = {}
    BY <1>2, <1>3, <2>2 DEF Seen
  <2> QED BY <1>1, <1>3, <1>7, <1>8, <2>4, <2>5, DataIs
<1> QED BY <1>9, <1>10 DEF createBindingSignals

LEMMA VisitData ==
    ASSUME GenInv, DataOK, visit
    PROVE  DataOK'
<1>1. PICK m, n : m = module /\ n = module'
  OBVIOUS
<1>2. /\ UNCHANGED vars /\ part = "generateDatapath" /\ visited' = visited /\ part' = part
      /\ GoesOn
  BY DEF visit
<1>3. /\ UNCHANGED mapVars /\ unitOf' = unitOf /\ phase # "done" /\ visited \in Nat
      /\ visited < Len(list) /\ RegistersIn(m) /\ BInv
      /\ \A i \in Bindable : Fu(i) \in DOMAIN m
  BY <1>1, <1>2, Visiting DEF vars, bindVars
<1>4. part \notin Undeclared \cup {"assertion"}
  BY <1>2 DEF Undeclared
<1>5. /\ Data(m) /\ AllProper(m) /\ Len(list) \in Nat /\ rest \in Seq(Instrs(F))
      /\ ModuleOK(m, {}) /\ \A i \in Linkable : Reg(i) \in DOMAIN m
      /\ input \in Schedules /\ \A i \in Instrs(F) : unitOf[i] # Unbound => i \in Bindable
  BY <1>1, <1>3, <1>4, BuildingReady
<1>6. list' = list /\ Kept' = Kept /\ F' = F /\ state' = state
  BY <1>3, SameSources
<1>7. \A i \in Linkable' : i \in Linkable
  BY <1>2, <1>6 DEF Linkable
<1>8. part' \notin {"printed", "run", "addInstructionsSignals", "connectRegistersToWires",
                    "performBinding"}
  BY <1>2
<1>9. PICK h, t : h = Head(rest) /\ t = list[visited + 1]
  OBVIOUS
<1>10. /\ h \in Instrs(F) /\ h \in ToSet(state[t].instrs)
       /\ ToSet(rest) \subseteq {h} \cup ToSet(rest')
  BY <1>9, visitStep
<1>11. t \in DOMAIN state
  <2>1. visited + 1 \in 1..Len(list)
    BY <1>3, <1>5
  <2> QED BY <2>1, <1>3, <1>9, InstrsOfPlace
<1>12. n = Visit(m, h, t)
  BY <1>1, <1>9 DEF visit
<1>13. Extends(m, n) /\ DrivenIn(n, h, t)
  <2>1. Ready(m)
    BY <1>3, <1>5 DEF Ready
  <2> QED BY <2>1, <1>3, <1>5, <1>10, <1>11, <1>12, VisitExtends
<1>14. Carried(n)
  BY <1>2, <1>3, <1>5, <1>13, DataGrows
<1>15. DrivenIn(n, h, t)'
  BY <1>3, <1>13, DrivenStays
<1>16. \A q \in 1..Len(list) : \A s : s = list[q] =>
           \A i \in Seen(q)' : i \in Seen(q) \/ DrivenIn(n, i, s)'
  <2> SUFFICES ASSUME NEW q \in 1..Len(list), NEW s, s = list[q], NEW i \in Seen(q)'
               PROVE  i \in Seen(q) \/ DrivenIn(n, i, s)'
    OBVIOUS
  <2>1. ToSet(state[list[q]].instrs)' = ToSet(state[list[q]].instrs) /\ ToSet(rest)' = ToSet(rest')
    BY <1>6 DEF ToSet
  <2>2. /\ i \in ToSet(state[list[q]].instrs)
        /\ q <= visited \/ (q = visited + 1 /\ i \notin ToSet(rest'))
    BY <1>2, <2>1 DEF Seen
  <2>3. CASE q <= visited
    BY <2>2, <2>3 DEF Seen
  <2>4. CASE q = visited + 1 /\ i \notin ToSet(rest) 
    BY <1>2, <2>2, <2>4 DEF Seen
  <2>5. CASE q = visited + 1 /\ i = h
    BY <1>9, <1>15, <2>5
  <2> QED BY <1>10, <2>2, <2>3, <2>4, <2>5
<1> QED BY <1>1, <1>3, <1>7, <1>8, <1>14, <1>16, DataIs

LEMMA TransitionData ==
    ASSUME GenInv, DataOK, generateDatapath
    PROVE  DataOK'
<1>1. PICK m, n : m = module /\ n = module'
  OBVIOUS
<1>2. /\ UNCHANGED vars /\ part = "generateDatapath" /\ visited' = visited + 1 /\ rest = << >>
      /\ part' \in {"generateDatapath", "shareOperationRegisters", "print"}
  BY DEF generateDatapath
<1>3. /\ UNCHANGED mapVars /\ unitOf' = unitOf /\ phase # "done" /\ visited \in Nat
      /\ visited < Len(list) /\ RegistersIn(m) /\ BInv
  BY <1>1, <1>2, Visiting DEF vars, bindVars
<1>4. part \notin Undeclared \cup {"assertion"}
  BY <1>2 DEF Undeclared
<1>5. /\ Data(m) /\ AllProper(m) /\ Len(list) \in Nat
      /\ ModuleOK(m, {}) /\ \A i \in Linkable : Reg(i) \in DOMAIN m
  BY <1>1, <1>3, <1>4, BuildingReady
<1>6. list' = list /\ Kept' = Kept /\ F' = F /\ state' = state
  BY <1>3, SameSources
<1>7. \A i \in Linkable' : i \in Linkable
  BY <1>2, <1>6 DEF Linkable
<1>8. part' \notin {"printed", "run", "addInstructionsSignals", "connectRegistersToWires",
                    "performBinding"}
  BY <1>2
<1>9. PICK a : a = generateStateTransition(m, list[visited + 1])
  OBVIOUS
<1>10. Ready(m)
  BY <1>3, <1>5 DEF Ready
<1>11. Extends(m, a)
  BY <1>9, <1>10, TransitionExtends
<1>12. Extends(m, n)
  <2>1. CASE visited' = Len(list)
    <3>1. n = ResetOf(a)
      BY <1>1, <1>9, <2>1 DEF generateDatapath, ResetOf
    <3>2. Ready(a)
      BY <1>10, <1>11, ReadyStays
    <3> QED BY <3>1, <3>2, <1>11, ResetExtends, ExtendsTransitive
  <2>2. CASE visited' # Len(list)
    <3>1. n = a
      BY <1>1, <1>9, <2>2 DEF generateDatapath
    <3> QED BY <3>1, <1>11
  <2> QED BY <2>1, <2>2
<1>13. Carried(n)
  BY <1>2, <1>3, <1>5, <1>12, DataGrows
<1>14. \A q \in 1..Len(list) : Seen(q)' \subseteq Seen(q)
  <2> SUFFICES ASSUME NEW q \in 1..Len(list), NEW i \in Seen(q)'
               PROVE  i \in Seen(q)
    OBVIOUS
  <2>1. ToSet(state[list[q]].instrs)' = ToSet(state[list[q]].instrs) /\ ToSet(rest)' = ToSet(rest')
    BY <1>6 DEF ToSet
  <2>2. /\ i \in ToSet(state[list[q]].instrs)
        /\ q <= visited + 1
           \/ (q = visited + 2 /\ part' = "generateDatapath" /\ i \notin ToSet(rest'))
    BY <1>2, <1>3, <2>1 DEF Seen
  <2>3. CASE q <= visited + 1
    BY <1>2, <1>3, <2>2, <2>3, EmptySet DEF Seen
  <2>4. CASE q = visited + 2 /\ part' = "generateDatapath" /\ i \notin ToSet(rest')
    <3>1. visited' # Len(list)
      BY <2>4 DEF generateDatapath
    <3>2. rest' = state[list[visited' + 1]].instrs
      BY <3>1 DEF generateDatapath
    <3>3. visited' + 1 = q
      BY <1>2, <1>3, <2>4
    <3> QED BY <2>2, <2>4, <3>2, <3>3
  <2> QED BY <2>2, <2>3, <2>4
<1> QED BY <1>1, <1>3, <1>7, <1>8, <1>13, <1>14, DataIs

LEMMA GroupsData ==
    ASSUME GenInv, DataOK, shareOperationRegisters
    PROVE  DataOK'
<1>1. PICK m : m = module /\ m = module'
  BY DEF shareOperationRegisters
<1>2. /\ part = "shareOperationRegisters" /\ visited' = visited
      /\ part' = "shareRegistersForFu"
  BY DEF shareOperationRegisters
<1>3. /\ UNCHANGED mapVars /\ unitOf' = unitOf /\ phase # "done"
  BY DEF shareOperationRegisters, shareRegisters
<1>4. part \notin Undeclared \cup {"assertion"}
  BY <1>2 DEF Undeclared
<1>5. Data(m) /\ Len(list) \in Nat /\ \A i \in Linkable : Reg(i) \in DOMAIN m
  BY <1>1, <1>4, BuildingReady
<1>6. list' = list /\ Kept' = Kept /\ F' = F /\ state' = state
  BY <1>3, SameSources
<1>7. \A q \in 1..Len(list) : \A i \in Seen(q)' : i \in Seen(q)
  <2>1. \A q : ToSet(state[list[q]].instrs)' = ToSet(state[list[q]].instrs)
    BY <1>6 DEF ToSet
  <2> QED BY <1>2, <2>1 DEF Seen
<1>8. Carried(m)
  BY <1>3, <1>5, DataCarried
<1>9. \A i \in Linkable' : i \in Linkable
  BY <1>2, <1>6 DEF Linkable
<1>10. part' \notin {"printed", "run", "addInstructionsSignals", "connectRegistersToWires",
                     "performBinding"}
  BY <1>2
<1> QED BY <1>1, <1>3, <1>7, <1>8, <1>9, <1>10, DataIs

(* Sharing a register keeps what has been built. *)
LEMMA SharedCarried ==
    ASSUME BInv, phase = "done", UNCHANGED vars,
           NEW m, NEW l, NEW i, NEW n, l = Leader(i), i \in Bindable, Joins(i), {i, l} \subseteq Kept,
           Lends(m, n, l, i), AllProper(n), Data(m),
           {Reg(i), Reg(l)} \subseteq DOMAIN m, \A j \in Linkable : Reg(j) \in DOMAIN m
    PROVE  Carried(n)
<1>1. UNCHANGED mapVars /\ UNCHANGED <<phase, groups, unitOf>> /\ unitOf' = unitOf
  BY DEF vars, bindVars
<1>2. AllProper(n)'
  BY <1>1, WiringStays
<1>3. l # i
  BY DEF Joins
<1>4. /\ DOMAIN n = DOMAIN m
      /\ \A x \in DOMAIN m : x \notin {Reg(l), Reg(i)} => n[x] = m[x]
      /\ m[Reg(l)].type = "reg" /\ n[Reg(l)].type = "reg" /\ n[Reg(i)].type = "wire"
      /\ Pairs(m[Reg(l)]) \subseteq Pairs(n[Reg(l)])
      /\ <<InState(endState[i]), Named(Wire(i))>> \in Pairs(n[Reg(l)])
  BY DEF Lends
<1>5. \A x, e : Has(m, x, e) /\ x # Reg(i) => Has(n, x, e)
  BY <1>4 DEF Has
<1>6. \A j \in Linkable : Linked(n, j)
  <2> SUFFICES ASSUME NEW j \in Linkable
               PROVE  Linked(n, j)
    OBVIOUS
  <2>1. Linked(m, j) /\ j \in Kept /\ Reg(j) \in DOMAIN m /\ AllProper(m)
    BY DEF Data, Linkable
  <2>2. CASE j = i
    <3>1. HolderIn(n, j) = l
      BY <1>4, <2>2 DEF HolderIn
    <3> QED BY <1>4, <2>2, <3>1 DEF Linked, Has
  <2>3. CASE j = l
    <3>1. HolderIn(n, j) = l /\ HolderIn(m, j) = l
      BY <1>4, <2>3 DEF HolderIn
    <3>2. Reg(l) # Reg(i)
      BY <1>3, NamesDiffer
    <3> QED BY <1>5, <2>1, <3>1, <3>2 DEF Linked
  <2>4. CASE j \notin {i, l}
    <3>1. Reg(j) \notin {Reg(l), Reg(i)}
      BY <2>4, NamesDiffer
    <3>2. n[Reg(j)] = m[Reg(j)]
      BY <1>4, <2>1, <3>1
    <3>3. PICK h : h = HolderIn(m, j) /\ h = HolderIn(n, j)
      BY <3>2 DEF HolderIn
    <3>4. h # i
      <4>1. CASE m[Reg(j)].type = "wire"
        <5>1. ~IsOwn(j, m[Reg(j)])
          BY <4>1 DEF IsOwn
        <5>2. IsLent(j, m[Reg(j)])
          BY <2>1, <5>1, ProperReg DEF AllProper
        <5>3. ~Joins(Leader(j))
          BY <5>2, LeaderLeads DEF IsLent
        <5> QED BY <3>3, <4>1, <5>3 DEF HolderIn
      <4>2. CASE m[Reg(j)].type # "wire"
        BY <2>4, <3>3, <4>2 DEF HolderIn
      <4> QED BY <4>1, <4>2
    <3>5. Reg(h) # Reg(i)
      BY <3>4, NamesDiffer
    <3> QED BY <1>5, <2>1, <3>3, <3>5 DEF Linked
  <2> QED BY <2>2, <2>3, <2>4
<1>7. \A j \in Linkable : Linked(n, j)'
  BY <1>1, <1>6, LinkStays
<1>8. \A j, s : DrivenIn(m, j, s) => DrivenIn(n, j, s)
  <2> SUFFICES ASSUME NEW j, NEW s, DrivenIn(m, j, s)
               PROVE  DrivenIn(n, j, s)
    OBVIOUS
  <2>1. {Op0(j), Op1(j), Wire(j), ReturnVal} \cap {Reg(i), Reg(l)} = {}
    BY NamesApart
  <2>2. \A x, e : Has(m, x, e) /\ x # Reg(i) => Has(n, x, e)
    BY <1>5
  <2>3. IsDriven(m, Wire(j)) => IsDriven(n, Wire(j))
    BY <1>4, <2>1 DEF IsDriven
  <2> QED BY <2>1, <2>2, <2>3 DEF DrivenIn
<1>9. \A q \in 1..Len(list) : \A s : s = list[q] => \A j \in Seen(q) : DrivenIn(n, j, s)'
  BY <1>1, <1>8, DrivenStays DEF Data
<1> QED BY <1>2, <1>7, <1>9 DEF Carried

LEMMA SharingData ==
    ASSUME GenInv, DataOK, shareRegistersForFu
    PROVE  DataOK'
<1>1. PICK m, n : m = module /\ n = module'
  OBVIOUS
<1>2. /\ UNCHANGED vars /\ part = "shareRegistersForFu" /\ visited' = visited
      /\ part' \in {"shareRegistersForFu", "print", "assertion"}
  BY DEF shareRegistersForFu, Ends
<1>3. /\ UNCHANGED mapVars /\ UNCHANGED <<phase, groups, unitOf>> /\ unitOf' = unitOf
      /\ phase = "done"
  BY <1>2 DEF vars, bindVars, GenInv, PartOf
<1>4. part \notin Undeclared \cup {"assertion"}
  BY <1>2 DEF Undeclared
<1>5. /\ Data(m) /\ AllProper(m) /\ BInv /\ Len(list) \in Nat /\ rest \in Seq(Instrs(F))
      /\ RegistersIn(m) /\ \A i \in Linkable : Reg(i) \in DOMAIN m
      /\ \A i \in Instrs(F) : unitOf[i] # Unbound => i \in Bindable
  BY <1>1, <1>2, <1>4, BuildingReady
<1>6. list' = list /\ Kept' = Kept /\ F' = F /\ state' = state
  BY <1>3, SameSources
<1>7. \A q \in 1..Len(list) : \A i \in Seen(q)' : i \in Seen(q)
  <2>1. \A q : ToSet(state[list[q]].instrs)' = ToSet(state[list[q]].instrs)
    BY <1>6 DEF ToSet
  <2> QED BY <1>2, <2>1 DEF Seen
<1>8. \A i \in Linkable' : i \in Linkable
  BY <1>2, <1>6 DEF Linkable
<1>9. part' \notin {"printed", "run", "addInstructionsSignals", "connectRegistersToWires",
                    "performBinding"}
  BY <1>2
<1>10. CASE n = m
  <2>1. Carried(n)
    BY <1>3, <1>5, <1>10, DataCarried
  <2> QED BY <1>1, <1>3, <1>7, <1>8, <1>9, <2>1, DataIs
<1>11. CASE n # m
  <2>1. PICK h, l : h = Head(rest) /\ l = Leader(h)
    OBVIOUS
  <2>2. /\ rest # << >> /\ Joins(h) /\ {h, l} \subseteq Kept /\ n = Share(m, l, h)
    BY <1>1, <1>11, <2>1 DEF shareRegistersForFu, Ends, GoesOn
  <2>3. h \in Instrs(F) /\ h \in ToSet(rest)
    BY <1>5, <2>1, <2>2, TakenFirst
  <2>4. h \in Bindable
    BY <1>5, <2>2, <2>3 DEF Joins
  <2>5. {Wire(h), Reg(h), Reg(l)} \subseteq DOMAIN m
    BY <1>5, <2>2 DEF RegistersIn
  <2>6. /\ m = [x \in DOMAIN m |-> m[x]] /\ IsSignal(m[Reg(l)]) /\ IsSignal(m[Reg(h)])
        /\ Parallel(m[Reg(l)])
    <3>1. PICK J : J = Joining
      OBVIOUS
    <3>2. ModuleOK(m, J)
      BY <1>1, <1>4, <3>1 DEF GenInv, Contents
    <3>3. m = [x \in DOMAIN m |-> m[x]] /\ SignalOK(m, Reg(l), J) /\ SignalOK(m, Reg(h), J)
      BY <2>5, <3>2 DEF ModuleOK
    <3>4. ~Replaceable(Reg(l), J)
      <4>1. ~Joins(l)
        BY <1>3, <1>5, <2>1, <2>2, <2>4, LeaderLeads
      <4>2. l \notin J
        BY <3>1, <4>1 DEF Joining
      <4> QED BY <4>2, NamesDiffer, NamesApart DEF Replaceable
    <3> QED BY <3>3, <3>4 DEF SignalOK
  <2>7. AllProper(n) /\ Lends(m, n, l, h)
    BY <1>3, <1>5, <2>1, <2>2, <2>4, <2>5, <2>6, SharingKeeps
  <2>8. Carried(n)
    BY <1>2, <1>3, <1>5, <2>1, <2>2, <2>4, <2>5, <2>7, SharedCarried
  <2> QED BY <1>1, <1>3, <1>7, <1>8, <1>9, <2>8, DataIs
<1> QED BY <1>10, <1>11

(* The module is printed, or is at work. *)
LEMMA WorkData ==
    ASSUME GenInv, DataOK, part \notin Undeclared \cup {"assertion"},
           UNCHANGED vars, module' = module, visited' = visited, rest' = rest,
           \/ part' = part
           \/ part = "print" /\ part' = "printed" /\ AllPrintable
           \/ part = "printed" /\ part' = "run"
    PROVE  DataOK'
<1>1. PICK m : m = module /\ m = module'
  OBVIOUS
<1>2. UNCHANGED mapVars /\ UNCHANGED <<phase, groups, unitOf>> /\ unitOf' = unitOf
  BY DEF vars, bindVars
<1>3. Data(m) /\ Len(list) \in Nat /\ \A i \in Linkable : Reg(i) \in DOMAIN m
  BY <1>1, BuildingReady
<1>4. list' = list /\ Kept' = Kept /\ F' = F /\ state' = state /\ ToSet(rest)' = ToSet(rest)
  BY <1>2, SameSources DEF ToSet
<1>5. Carried(m)
  BY <1>2, <1>3, DataCarried
<1>6. \A i \in Linkable' : i \in Linkable
  BY <1>4 DEF Linkable
<1>7. \A q \in 1..Len(list) : \A i \in Seen(q)' : i \in Seen(q)
  <2>1. \A q : ToSet(state[list[q]].instrs)' = ToSet(state[list[q]].instrs)
    BY <1>4 DEF ToSet
  <2> QED BY <1>4, <2>1 DEF Seen
<1>8. part' \in {"printed", "run"} =>
          \A x \in DOMAIN m : \A k \in DOMAIN m[x].drivers : Printable(m[x].drivers[k])
  BY <1>1, <1>3 DEF Data, AllPrintable
<1>9. Bare(m)' <=> Bare(m)
  BY DEF Bare
<1>10. Data(m)'
  <2>1. AllProper(m)' /\ \A i \in Linkable' : Linked(m, i)'
    BY <1>5, <1>6 DEF Carried
  <2>2. \A q \in 1..Len(list)' : \A s : s = list[q]' => \A i \in Seen(q)' : DrivenIn(m, i, s)'
    BY <1>4, <1>5, <1>7 DEF Carried
  <2>3. part' \in {"addInstructionsSignals", "connectRegistersToWires", "performBinding"} =>
            Bare(m)'
    BY <1>3, <1>9 DEF Data
  <2> QED BY <1>8, <2>1, <2>2, <2>3 DEF Data
<1>11. part' = "addInstructionsSignals" => ToSet(rest)' \subseteq Kept'
  BY <1>4 DEF DataOK
<1> QED BY <1>1, <1>10, <1>11 DEF DataOK

DataInv == CtlInv /\ DataOK

LEMMA InitDataInv == DatapathInit => DataInv
BY InitCtlInv DEF DatapathInit, GenInit, DataInv, DataOK, Undeclared

LEMMA DataInvKept == DataInv /\ [DatapathNext]_allVars => DataInv'
<1> SUFFICES ASSUME DataInv, [DatapathNext]_allVars
             PROVE  DataOK'
  BY CtlInvKept DEF DataInv
<1>1. GenInv /\ DataOK
  BY DEF DataInv, CtlInv
<1>2. CASE GenNext
  <2>1. CASE Before
    BY <2>1 DEF Before, DataOK, Undeclared
  <2>2. CASE print
    <3>1. CASE part' = "assertion"
      BY <3>1 DEF DataOK
    <3>2. CASE part' # "assertion"
      <4>1. part \notin Undeclared \cup {"assertion"}
        BY <2>2 DEF print, Undeclared
      <4> QED BY <1>1, <2>2, <3>2, <4>1, WorkData DEF print
    <3> QED BY <3>1, <3>2
  <2> QED BY <1>1, <1>2, <2>1, <2>2, DeclarationData, InstructionsData, ConnectionData,
             PerformData, UnitsData, VisitData, TransitionData, GroupsData, SharingData
          DEF GenNext
<1>3. CASE PowerUp \/ Clock
  <2>1. part \notin Undeclared \cup {"assertion"}
    BY <1>3 DEF PowerUp, Clock, Undeclared
  <2>2. /\ UNCHANGED vars /\ module' = module /\ visited' = visited /\ rest' = rest
        /\ part' = part \/ (part = "printed" /\ part' = "run")
    BY <1>3 DEF PowerUp, Clock, genVars
  <2> QED BY <1>1, <2>1, <2>2, WorkData
<1>4. CASE UNCHANGED allVars
  <2>1. /\ UNCHANGED vars /\ module' = module /\ visited' = visited /\ rest' = rest
        /\ part' = part
    BY <1>4 DEF allVars, genVars
  <2>2. CASE part \notin Undeclared \cup {"assertion"}
    BY <1>1, <2>1, <2>2, WorkData
  <2>3. CASE part \in Undeclared \cup {"assertion"}
    BY <2>1, <2>3 DEF DataOK, Undeclared
  <2> QED BY <2>2, <2>3
<1> QED BY <1>2, <1>3, <1>4 DEF DatapathNext, Generate, Aborted

THEOREM DatapathInvariance == DatapathSpec => []DataInv
BY InitDataInv, DataInvKept, PTL DEF DatapathSpec

-----------------------------------------------------------------------------
(* What ends the program.                                                  *)

(* An instruction of a unit without readers, or without a second operand.  *)
Lacking(i) == FuOf(i) # NoUnit /\ (Users(i) = {} \/ F.op[i] \notin BinaryOps)

LEMMA LackingStays ==
    ASSUME UNCHANGED input
    PROVE  Instrs(F)' = Instrs(F) /\ \A i : Lacking(i)' <=> Lacking(i)
<1>1. F' = F /\ \A i : FuOf(i)' = FuOf(i)
  BY SameFunction
<1>2. \A i : Users(i)' = Users(i)
  BY <1>1 DEF Users, Lva!Users
<1>3. Instrs(F)' = Instrs(F)
  BY <1>1
<1> QED BY <1>1, <1>2, <1>3 DEF Lacking

(* What the writer cannot print is the unit of a comparison. *)
LEMMA UnprintableIsUnit ==
    ASSUME GenInv, DataOK, part = "print", ~AllPrintable
    PROVE  \E i \in Instrs(F) : Lacking(i)
<1>1. ModuleOK(module, Joining) /\ AllProper(module)
  <2>1. part \notin Undeclared \cup {"assertion"}
    BY DEF Undeclared
  <2> QED BY <2>1, BuildingReady DEF GenInv, Contents
<1>2. PICK x \in DOMAIN module : \E k \in DOMAIN module[x].drivers : ~Printable(module[x].drivers[k])
  BY DEF AllPrintable
<1>3. PICK g, d : /\ g = module[x] /\ ~Printable(d)
                  /\ \E k \in DOMAIN g.drivers : d = g.drivers[k]
  BY <1>2
<1>4. x[1] = "fu"
  BY <1>1, <1>2, <1>3 DEF ModuleOK, SignalOK, Attached
<1>5. Proper(x, g) /\ x \in Names
  <2>1. Proper(x, g)
    BY <1>1, <1>3 DEF AllProper
  <2> QED BY <2>1 DEF Proper
<1>6. PICK i \in Bindable : unitOf[i] # Unbound /\ x = Fu(i)
  <2>1. x \notin PortNames
    BY <1>4, NamesApart DEF PortNames
  <2>2. x \in UnitNames
    BY <1>4, <1>5, <2>1, NamesApart DEF Names
  <2> QED BY <1>4, <2>2, NamesApart DEF UnitNames
<1>7. IsUnit(i, g)
  BY <1>5, <1>6, ProperUnit
<1>8. PICK c \in SameUnit(i) :
         g.drivers = <<createFu(c, Named(Op0(c)),
                                IF F.op[c] \in BinaryOps THEN Named(Op1(c)) ELSE NoSignal)>>
  BY <1>7 DEF IsUnit
<1>9. d = createFu(c, Named(Op0(c)), IF F.op[c] \in BinaryOps THEN Named(Op1(c)) ELSE NoSignal)
  BY <1>3, <1>8, SingletonIs
<1>10. c \in Instrs(F) /\ FuOf(c) # NoUnit
  BY DEF SameUnit, Bindable
<1>11. F.op[c] \notin BinaryOps
  <2>1. ~Printable(d)
    BY <1>3
  <2>2. Named(Op0(c)) # NoSignal /\ Named(Op1(c)) # NoSignal
    BY DEF Named, NoSignal
  <2> QED BY <1>9, <2>1, <2>2 DEF Printable, createFu, Operation
<1> QED BY <1>10, <1>11 DEF Lacking

(* What has no register when it is to share one is not read. *)
LEMMA UnregisteredIsUnread ==
    ASSUME GenInv, DataOK, shareRegistersForFu, part' = "assertion"
    PROVE  \E i \in Instrs(F) : Lacking(i)
<1>1. PICK h, l : h = Head(rest) /\ l = Leader(h)
  OBVIOUS
<1>2. part = "shareRegistersForFu" /\ rest # << >> /\ Joins(h) /\ ~({h, l} \subseteq Kept)
  BY <1>1 DEF shareRegistersForFu, Ends, GoesOn
<1>3. /\ BInv /\ input \in Schedules /\ rest \in Seq(Instrs(F))
      /\ \A i \in Instrs(F) : unitOf[i] # Unbound => i \in Bindable
  <2>1. part \notin Undeclared \cup {"assertion"}
    BY <1>2 DEF Undeclared
  <2> QED BY <2>1, BuildingReady
<1>4. h \in Bindable
  <2>1. h \in Instrs(F)
    BY <1>1, <1>2, <1>3, TakenFirst
  <2> QED BY <2>1, <1>2, <1>3 DEF Joins
<1>5. l \in Bindable
  BY <1>1, <1>2, <1>3, <1>4, LeaderLeads DEF GenInv, PartOf
<1>6. PICK i \in {h, l} : i \notin Kept
  BY <1>2
<1>7. i \in Bindable /\ i \in Instrs(F) /\ FuOf(i) # NoUnit
  BY <1>4, <1>5, <1>6 DEF Bindable
<1>8. F.type[i] > 0
  <2>1. F.op[i] \in BinaryOps \cup Comparisons
    BY <1>3, <1>7, UnitOperands
  <2> QED BY <1>3, <1>7, <2>1, FunctionSupported
<1>9. Users(i) = {}
  BY <1>6, <1>7, <1>8 DEF Kept, shouldIgnoreInstruction
<1> QED BY <1>7, <1>9 DEF Lacking

LEMMA AbortsKept ==
    ASSUME DataInv, AbortsAreKnown, [DatapathNext]_allVars
    PROVE  AbortsAreKnown'
<1> SUFFICES ASSUME part' = "assertion"
             PROVE  phase' = "assertion" \/ \E i \in Instrs(F)' : Lacking(i)'
  BY DEF AbortsAreKnown, Lacking
<1>1. GenInv /\ DataOK
  BY DEF DataInv, CtlInv
<1>2. CASE UNCHANGED allVars
  <2>1. part' = part /\ phase' = phase /\ UNCHANGED input
    BY <1>2 DEF allVars, vars, mapVars, bindVars, genVars
  <2>2. phase = "assertion" \/ \E i \in Instrs(F) : Lacking(i)
    BY <2>1 DEF AbortsAreKnown, Lacking
  <2> QED BY <2>1, <2>2, LackingStays
<1>3. CASE performBinding
  BY <1>3 DEF performBinding
<1>4. CASE shareRegistersForFu
  <2>1. UNCHANGED input
    BY <1>4 DEF shareRegistersForFu, vars, mapVars
  <2> QED BY <1>1, <1>4, <2>1, UnregisteredIsUnread, LackingStays
<1>5. CASE print
  <2>1. UNCHANGED input /\ part = "print" /\ ~AllPrintable
    BY <1>5 DEF print, vars, mapVars
  <2> QED BY <1>1, <2>1, UnprintableIsUnit, LackingStays
<1>6. CASE GenNext /\ ~(performBinding \/ shareRegistersForFu \/ print)
  BY <1>6 DEF GenNext, Before, generateDeclaration, addInstructionsSignals,
     connectRegistersToWires, createBindingSignals, visit, generateDatapath,
     shareOperationRegisters, Ends
<1>7. CASE PowerUp \/ Clock
  BY <1>7 DEF PowerUp, Clock, genVars
<1> QED BY <1>2, <1>3, <1>4, <1>5, <1>6, <1>7 DEF DatapathNext, Generate, Aborted

(* The program ends in an assertion, or at a null pointer, for no other      *)
(* reason than three: more instructions of a unit in a state than there are, *)
(* a comparison that is bound to a unit, and a result of a unit that nobody  *)
(* reads.  What find() is asked for otherwise is there.                      *)
THEOREM AbortsAreAlwaysKnown == DatapathSpec => []AbortsAreKnown
<1>1. DatapathInit => AbortsAreKnown
  BY DEF DatapathInit, GenInit, AbortsAreKnown
<1>2. DataInv /\ AbortsAreKnown /\ [DatapathNext]_allVars => AbortsAreKnown'
  BY AbortsKept
<1> QED BY <1>1, <1>2, DatapathInvariance, PTL DEF DatapathSpec

-----------------------------------------------------------------------------
(* The printed module at work.                                             *)

(* A wire follows its last driver, or one whose condition holds.           *)
LEMMA WireDriverIs ==
    ASSUME NEW g, IsSignal(g), Parallel(g) \/ g.conditions = << >>, NEW s
    PROVE  /\ g.drivers = << >> => WireDriver(g, s) = NoSignal
           /\ g.drivers # << >> => \E k \in DOMAIN g.drivers : WireDriver(g, s) = g.drivers[k]
           /\ g.drivers # << >> /\ g.conditions = << >> => WireDriver(g, s) = g.drivers[1]
           /\ Parallel(g) /\ Matching(g, s) # {} =>
                \E k \in Matching(g, s) : WireDriver(g, s) = g.drivers[k]
<1>1. PICK cs, ds, n : cs = g.conditions /\ ds = g.drivers /\ n = Len(cs)
  OBVIOUS
<1>2. /\ n \in Nat /\ DOMAIN cs = 1..n /\ cs \in Seq(ToSet(cs)) /\ ds \in Seq(ToSet(ds))
      /\ Len(ds) \in Nat /\ DOMAIN ds = 1..Len(ds)
  <2>1. cs \in Seq(ToSet(cs)) /\ ds \in Seq(ToSet(ds))
    BY <1>1 DEF IsSignal, IsSequence
  <2> QED BY <2>1, <1>1
<1>3. PICK T : T = Matching(g, s) \cap 1..(n - 1)
  OBVIOUS
<1>4. Matching(g, s) \subseteq 1..n
  BY <1>1, <1>2 DEF Matching
<1>5. WireDriver(g, s) = CASE ds = << >> -> NoSignal
                           [] ds # << >> /\ n = 0 -> ds[1]
                           [] OTHER -> ds[IF T = {} THEN n ELSE Min(T)]
  BY <1>1, <1>3 DEF WireDriver
<1>6. CASE ds = << >>
  <2>1. WireDriver(g, s) = NoSignal
    BY <1>5, <1>6, Zenon
  <2>2. Parallel(g) => n = 0
    BY <1>1, <1>6, EmptyIs DEF Parallel
  <2>3. Parallel(g) => Matching(g, s) = {}
    BY <1>4, <2>2
  <2> QED BY <1>1, <1>6, <2>1, <2>3
<1>7. CASE ds # << >> /\ n = 0
  <2>1. WireDriver(g, s) = ds[1]
    BY <1>5, <1>7, Zenon
  <2>2. Len(ds) # 0
    BY <1>2, <1>7
  <2>3. 1 \in DOMAIN ds
    BY <1>2, <2>2
  <2>4. Matching(g, s) = {}
    BY <1>4, <1>7
  <2> QED BY <1>1, <1>7, <2>1, <2>3, <2>4
<1>8. CASE ds # << >> /\ n # 0
  <2>1. cs # << >> /\ Len(ds) = n /\ Parallel(g)
    <3>1. cs # << >>
      BY <1>1, <1>8, EmptyIs
    <3>2. Parallel(g)
      BY <1>1, <3>1
    <3> QED BY <1>1, <3>1, <3>2 DEF Parallel
  <2>2. PICK k : k = IF T = {} THEN n ELSE Min(T)
    OBVIOUS
  <2>3. WireDriver(g, s) = ds[k]
    BY <1>5, <1>8, <2>2, Zenon
  <2>4. k \in 1..n /\ (Matching(g, s) # {} => k \in Matching(g, s))
    <3>1. CASE T = {}
      <4>1. k = n
        BY <2>2, <3>1
      <4>2. Matching(g, s) \subseteq {n}
        BY <1>2, <1>3, <1>4, <3>1
      <4> QED BY <1>2, <1>8, <4>1, <4>2
    <3>2. CASE T # {}
      <4>1. n - 1 \in Int /\ 1 \in Int
        BY <1>2
      <4>2. IsFiniteSet(1..(n - 1))
        BY <4>1, FS_Interval
      <4>3. IsFiniteSet(T) /\ T \subseteq Int
        BY <1>3, <4>1, <4>2, FS_Subset
      <4>4. k \in T
        BY <2>2, <3>2, <4>3, MinIsLeast
      <4> QED BY <1>3, <1>4, <4>4
    <3> QED BY <3>1, <3>2
  <2>5. k \in DOMAIN ds
    BY <1>2, <2>1, <2>4
  <2> QED BY <1>1, <1>8, <2>1, <2>3, <2>4, <2>5
<1> QED BY <1>6, <1>7, <1>8

(* How many signals the value of a signal comes through. *)
Rank(x) ==
    CASE x[1] = "reg" /\ module[x].type = "wire" -> 1
      [] x[1] \in {"op0", "op1"} -> 2
      [] x[1] = "fu" -> 3
      [] x[1] = "wire" -> 4
      [] OTHER -> 0

LEMMA RankIs ==
    /\ \A x : Rank(x) \in 0..4
    /\ \A i : /\ Rank(Wire(i)) = 4 /\ Rank(Fu(i)) = 3 /\ Rank(Op0(i)) = 2 /\ Rank(Op1(i)) = 2
              /\ Rank(Arg(i)) = 0 /\ Rank(Reg(i)) = IF module[Reg(i)].type = "wire" THEN 1 ELSE 0
<1>1. \A x : /\ x[1] \in {"op0", "op1"} => Rank(x) = 2
             /\ x[1] = "fu" => Rank(x) = 3
             /\ x[1] = "wire" => Rank(x) = 4
             /\ x[1] = "reg" /\ module[x].type = "wire" => Rank(x) = 1
             /\ x[1] = "reg" /\ module[x].type # "wire" => Rank(x) = 0
             /\ x[1] \notin {"op0", "op1", "fu", "wire", "reg"} => Rank(x) = 0
  <2> TAKE x
  <2>1. CASE x[1] \in {"op0", "op1"}
    <3>1. x[1] # "reg" /\ x[1] # "fu" /\ x[1] # "wire"
      BY <2>1
    <3> QED BY <2>1, <3>1 DEF Rank
  <2>2. CASE x[1] = "fu"
    BY <2>2 DEF Rank
  <2>3. CASE x[1] = "wire"
    BY <2>3 DEF Rank
  <2>4. CASE x[1] = "reg"
    BY <2>4 DEF Rank
  <2>5. CASE x[1] \notin {"op0", "op1", "fu", "wire", "reg"}
    BY <2>5 DEF Rank
  <2> QED BY <2>1, <2>2, <2>3, <2>4, <2>5
<1>2. \A x : Rank(x) \in {0, 1, 2, 3, 4}
  <2> TAKE x
  <2>1. CASE x[1] \in {"op0", "op1", "fu", "wire", "reg"}
    <3>1. Rank(x) = 0 \/ Rank(x) = 1 \/ Rank(x) = 2 \/ Rank(x) = 3 \/ Rank(x) = 4
      BY <1>1, <2>1
    <3> QED BY <3>1
  <2>2. CASE x[1] \notin {"op0", "op1", "fu", "wire", "reg"}
    BY <1>1, <2>2
  <2> QED BY <2>1, <2>2
<1>3. \A x : Rank(x) \in 0..4
  BY <1>2
<1> QED BY <1>1, <1>3, NamesApart

(* What a driver reads comes through fewer signals. *)
LowOperand(x, r) == x[1] = "signal" => x[2] \in DOMAIN module /\ Rank(x[2]) < r

Low(d, r) ==
    IF d[1] = "operation" THEN LowOperand(d[3], r) /\ LowOperand(d[4], r) ELSE LowOperand(d, r)

AgreeBelow(v, w, r) == \A y \in DOMAIN module : Rank(y) < r => v[y] = w[y]

LEMMA LowAgrees ==
    ASSUME NEW d, NEW r, Low(d, r), NEW v, NEW w, AgreeBelow(v, w, r)
    PROVE  DriverValue(d, v) = DriverValue(d, w)
<1> DEFINE Operand(x, u) == CASE x[1] = "signal" -> u[x[2]]
                              [] x[1] = "constant" -> Value(x[2], x[3])
                              [] OTHER -> Undriven
<1>1. \A u : DriverValue(d, u) = IF d[1] = "operation"
                                 THEN Computed(d[2], Operand(d[3], u), Operand(d[4], u))
                                 ELSE Operand(d, u)
  BY DEF DriverValue
<1>2. ASSUME NEW x, LowOperand(x, r)
      PROVE  Operand(x, v) = Operand(x, w)
  <2>1. x[1] = "signal" => v[x[2]] = w[x[2]]
    BY <1>2 DEF LowOperand, AgreeBelow
  <2>2. CASE x[1] = "signal"
    BY <2>1, <2>2
  <2>3. CASE x[1] # "signal"
    BY <2>3
  <2> QED BY <2>2, <2>3
<1> HIDE DEF Operand
<1>3. CASE d[1] = "operation"
  <2>1. Operand(d[3], v) = Operand(d[3], w) /\ Operand(d[4], v) = Operand(d[4], w)
    BY <1>2, <1>3 DEF Low
  <2> QED BY <1>1, <1>3, <2>1
<1>4. CASE d[1] # "operation"
  <2>1. Operand(d, v) = Operand(d, w)
    BY <1>2, <1>4 DEF Low
  <2> QED BY <1>1, <1>4, <2>1
<1> QED BY <1>3, <1>4

(* Signal, when the others have the values of v. *)
SignalFrom(v, name) ==
    CASE name \in Registers -> content[name]
      [] module[name].type = "input wire" -> Value(<<name, given>>, module[name].width)
      [] OTHER -> Cut(DriverValue(WireDriver(module[name], cur_state), v), module[name].width)

LEMMA SignalFromIs ==
    ASSUME NEW x \in DOMAIN module, NEW v
    PROVE  /\ x \in Registers => SignalFrom(v, x) = content[x]
           /\ module[x].type = "input wire" =>
                SignalFrom(v, x) = Value(<<x, given>>, module[x].width)
           /\ module[x].type = "wire" \/ x = CurState =>
                \/ module[x].type = "input wire"
                \/ SignalFrom(v, x) = Cut(DriverValue(WireDriver(module[x], cur_state), v), module[x].width)
<1>1. module[x].type = "input wire" => x \notin Registers
  BY DEF Registers, isRegister
<1>2. module[x].type = "wire" \/ x = CurState => x \notin Registers
  BY DEF Registers, isRegister
<1>3. CASE x \in Registers
  BY <1>1, <1>2, <1>3 DEF SignalFrom
<1>4. CASE x \notin Registers /\ module[x].type = "input wire"
  BY <1>4 DEF SignalFrom
<1>5. CASE x \notin Registers /\ module[x].type # "input wire"
  BY <1>5 DEF SignalFrom
<1> QED BY <1>3, <1>4, <1>5

(* The module at work. *)
Working == DataInv /\ part = "run"

LEMMA WorkingIs ==
    ASSUME Working
    PROVE  /\ BInv /\ IInv /\ pc = "done" /\ input \in Schedules /\ cur_state \in DOMAIN state
           /\ Data(module) /\ AllProper(module) /\ ModuleOK(module, Joining)
           /\ RegistersIn(module) /\ visited = Len(list) /\ Len(list) \in Nat
           /\ \A i \in Instrs(F) : unitOf[i] # Unbound => i \in Bindable
<1>1. /\ CtlInv /\ DataOK /\ GenInv /\ part \notin Undeclared \cup {"assertion"}
  BY DEF Working, DataInv, CtlInv, Undeclared
<1>2. BInv /\ IInv /\ pc = "done" /\ input \in Schedules /\ visited = Len(list) /\ Len(list) \in Nat
  BY <1>1, AtWork DEF Working
<1>3. cur_state \in DOMAIN state
  BY <1>1 DEF CtlInv, HardwareOK, Working
<1>4. Data(module)
  BY <1>1 DEF DataOK
<1>5. ModuleOK(module, Joining)
  BY <1>1 DEF GenInv, Contents
<1>6. RegistersIn(module) /\ \A i \in Instrs(F) : unitOf[i] # Unbound => i \in Bindable
  <2>1. PICK m : m = module
    OBVIOUS
  <2>2. RegistersIn(m) /\ \A i \in Instrs(F) : unitOf[i] # Unbound => i \in Bindable
    BY <1>1, <2>1, BuildingReady DEF Working
  <2> QED BY <2>1, <2>2
<1> QED BY <1>2, <1>3, <1>4, <1>5, <1>6 DEF Data

LEMMA SignalIs ==
    ASSUME Working, NEW x \in DOMAIN module, NEW g, g = module[x]
    PROVE  /\ IsSignal(g)
           /\ Parallel(g) \/ g.conditions = << >>
           /\ \A k \in DOMAIN g.drivers : Connected(module, g.drivers[k]) /\ Printable(g.drivers[k])
           /\ Proper(x, g)
<1>1. SignalOK(module, x, Joining) /\ Proper(x, g)
  BY WorkingIs DEF ModuleOK, AllProper
<1>2. \A k \in DOMAIN g.drivers : Printable(g.drivers[k])
  BY WorkingIs DEF Data, Working
<1> QED BY <1>1, <1>2 DEF SignalOK, Attached

LEMMA SignalOfBoth ==
    ASSUME Working, NEW x \in DOMAIN module, NEW g, g = module[x]
    PROVE  IsSignal(g) /\ (Parallel(g) \/ g.conditions = << >>)
BY SignalIs

LEMMA LowSource ==
    ASSUME NEW i, NEW n, NEW r \in Nat, r > 1, Found(module, getOperandSignal(i, n))
    PROVE  LowOperand(getOperandSignal(i, n), r) /\ getOperandSignal(i, n)[1] # "operation"
<1>1. PICK x, d : x = F.operands[i][n] /\ d = getOperandSignal(i, n)
  OBVIOUS
<1>2. \/ d = Named(Reg(x)) \/ d = Named(Arg(-x))
      \/ d = Constant(<<"operand", i>>, OperandWidth(i, n))
  BY <1>1 DEF getOperandSignal
<1>3. CASE d = Named(Reg(x))
  <2>1. d[1] = "signal" /\ d[2] = Reg(x) /\ Reg(x) \in DOMAIN module
    BY <1>1, <1>3 DEF Named, Found
  <2>2. Rank(Reg(x)) = 0 \/ Rank(Reg(x)) = 1
    BY RankIs
  <2> QED BY <1>1, <2>1, <2>2 DEF LowOperand
<1>4. CASE d = Named(Arg(-x))
  <2>1. d[1] = "signal" /\ d[2] = Arg(-x) /\ Arg(-x) \in DOMAIN module
    BY <1>1, <1>4 DEF Named, Found
  <2>2. Rank(Arg(-x)) = 0
    BY RankIs
  <2> QED BY <1>1, <2>1, <2>2 DEF LowOperand
<1>5. CASE d = Constant(<<"operand", i>>, OperandWidth(i, n))
  <2>1. d[1] = "constant"
    BY <1>5 DEF Constant
  <2> QED BY <1>1, <2>1 DEF LowOperand
<1> QED BY <1>2, <1>3, <1>4, <1>5

LEMMA LowNull == \A r : LowOperand(NoSignal, r)
BY DEF LowOperand, NoSignal

(* A driver of a wire reads signals of a lower rank. *)
LEMMA DriversAreLow ==
    ASSUME Working, NEW x \in DOMAIN module, NEW g, g = module[x], NEW k \in DOMAIN g.drivers
    PROVE  x \in Registers \/ g.type = "input wire" \/ Low(g.drivers[k], Rank(x))
<1>1. PICK d : d = g.drivers[k] /\ Connected(module, d) /\ Proper(x, g)
  BY SignalIs
<1>2. x \in Names
  BY <1>1 DEF Proper
<1>3. CASE x \in {Start, Reset} \/ \E n \in DOMAIN F.args : x = Arg(n)
  BY <1>1, <1>3 DEF Proper
<1>4. CASE x \in {Finish, ReturnVal}
  <2>1. g.type = "output reg" /\ x # CurState
    BY <1>1, <1>4, NamesApart DEF Proper, IsResult
  <2> QED BY <2>1 DEF Registers, isRegister
<1>5. CASE x = CurState
  <2>1. d[1] \in {"parameter", "constant"}
    BY <1>1, <1>5 DEF Proper, IsCurState
  <2> QED BY <1>1, <2>1 DEF Low, LowOperand
<1>6. CASE \E i \in Instrs(F) : x = Wire(i)
  <2>1. PICK i \in Instrs(F) : x = Wire(i)
    BY <1>6
  <2>2. d = Source(i) /\ Rank(x) = 4
    BY <1>1, <2>1, RankIs DEF Proper, IsWire
  <2>3. CASE unitOf[i] # Unbound
    <3>1. d[1] = "signal" /\ d[2] = Fu(i)
      BY <2>2, <2>3 DEF Source, Named
    <3>2. Fu(i) \in DOMAIN module /\ Rank(Fu(i)) = 3
      BY <1>1, <3>1, RankIs DEF Connected, Found
    <3>3. LowOperand(d, 4)
      BY <3>1, <3>2 DEF LowOperand
    <3>4. Low(d, 4)
      BY <3>1, <3>3 DEF Low
    <3> QED BY <1>1, <2>2, <3>4
  <2>4. CASE unitOf[i] = Unbound
    <3>1. PICK a, b : a = getOperandSignal(i, 1) /\ b = getOperandSignal(i, 2)
      OBVIOUS
    <3>2. d = <<"operation", F.op[i], a, b>>
      BY <2>2, <2>4, <3>1 DEF Source, createFu, Operation
    <3>3. d[1] = "operation" /\ d[3] = a /\ d[4] = b
      BY <3>2
    <3>4. Found(module, a) /\ Found(module, b)
      BY <1>1, <3>3 DEF Connected
    <3>5. LowOperand(a, 4) /\ LowOperand(b, 4)
      BY <3>1, <3>4, LowSource
    <3>6. Low(d, 4)
      BY <3>3, <3>5 DEF Low
    <3> QED BY <1>1, <2>2, <3>6
  <2> QED BY <2>3, <2>4
<1>7. CASE \E i \in Kept : x = Reg(i)
  <2>1. PICK i \in Kept : x = Reg(i)
    BY <1>7
  <2>2. CASE IsOwn(i, g)
    <3>1. g.type = "reg" /\ x # CurState
      BY <2>1, <2>2, NamesApart DEF IsOwn
    <3> QED BY <3>1 DEF Registers, isRegister
  <2>3. CASE IsLent(i, g)
    <3>1. PICK l : l = Leader(i) /\ l \in Kept /\ phase = "done" /\ i \in Bindable /\ Joins(i)
      BY <2>3 DEF IsLent
    <3>2. g.drivers = <<Named(Reg(l))>>
      BY <2>3, <3>1 DEF IsLent
    <3>3. d = Named(Reg(l))
      BY <1>1, <3>2, SingletonIs
    <3>4. d[1] = "signal" /\ d[2] = Reg(l) /\ Reg(l) \in DOMAIN module
      <4>1. d[1] = "signal" /\ d[2] = Reg(l)
        BY <3>3 DEF Named
      <4> QED BY <1>1, <4>1 DEF Connected, Found
    <3>5. Rank(x) = 1
      BY <2>1, <2>3, RankIs DEF IsLent
    <3>6. Rank(Reg(l)) = 0
      <4>1. ~Joins(l)
        BY <3>1, WorkingIs, LeaderLeads
      <4>2. IsOwn(l, module[Reg(l)])
        BY <3>1, <3>4, <4>1, WorkingIs, ProperReg DEF AllProper, IsLent
      <4> QED BY <4>2, RankIs DEF IsOwn
    <3>7. LowOperand(d, 1)
      BY <3>4, <3>6 DEF LowOperand
    <3>8. Low(d, 1)
      BY <3>4, <3>7 DEF Low
    <3> QED BY <1>1, <3>5, <3>8
  <2> QED BY <1>1, <2>1, <2>2, <2>3 DEF Proper
<1>8. CASE x \in UnitNames
  <2>1. PICK i \in Bindable : unitOf[i] # Unbound /\ x \in {Fu(i), Op0(i), Op1(i)}
    BY <1>8 DEF UnitNames
  <2>2. CASE x = Fu(i)
    <3>1. PICK c \in SameUnit(i) : g.drivers = <<createFu(c, Named(Op0(c)),
                                   IF F.op[c] \in BinaryOps THEN Named(Op1(c)) ELSE NoSignal)>>
      BY <1>1, <2>1, <2>2 DEF Proper, IsUnit
    <3>2. PICK b : b = IF F.op[c] \in BinaryOps THEN Named(Op1(c)) ELSE NoSignal
      OBVIOUS
    <3>3. d = createFu(c, Named(Op0(c)), b)
      BY <1>1, <3>1, <3>2, SingletonIs
    <3>4. d = <<"operation", F.op[c], Named(Op0(c)), b>>
      BY <3>3 DEF createFu, Operation
    <3>5. d[1] = "operation" /\ d[3] = Named(Op0(c)) /\ d[4] = b
      BY <3>4
    <3>6. Found(module, Named(Op0(c))) /\ Found(module, b)
      BY <1>1, <3>5 DEF Connected
    <3>7. LowOperand(Named(Op0(c)), 3)
      BY <3>6, RankIs DEF LowOperand, Found, Named
    <3>8. LowOperand(b, 3)
      <4>1. CASE b = Named(Op1(c))
        BY <3>6, <4>1, RankIs DEF LowOperand, Found, Named
      <4>2. CASE b = NoSignal
        BY <4>2, LowNull
      <4> QED BY <3>2, <4>1, <4>2
    <3>9. Rank(x) = 3
      BY <2>2, RankIs
    <3>10. Low(d, 3)
      BY <3>5, <3>7, <3>8 DEF Low
    <3> QED BY <1>1, <3>9, <3>10
  <2>3. CASE x \in {Op0(i), Op1(i)}
    <3>1. PICK n : n \in {1, 2} /\ IsOperand(i, n, g)
      BY <1>1, <2>1, <2>3 DEF Proper
    <3>2. Rank(x) = 2
      BY <2>3, RankIs
    <3>3. Parallel(g)
      <4>1. x[1] \in {"op0", "op1"}
        BY <2>3, NamesApart
      <4>2. ~Replaceable(x, Joining)
        BY <4>1, NamesApart DEF Replaceable
      <4> QED BY <4>2, WorkingIs DEF ModuleOK, SignalOK
    <3>4. k \in DOMAIN g.conditions
      <4>1. IsSequence(g.conditions) /\ IsSequence(g.drivers) /\ Len(g.drivers) = Len(g.conditions)
        BY <3>3, SignalOfBoth DEF Parallel, IsSignal
      <4> QED BY <4>1 DEF IsSequence
    <3>5. <<g.conditions[k], d>> \in Pairs(g)
      BY <1>1, <3>4 DEF Pairs
    <3>6. PICK j : d = getOperandSignal(j, n)
      BY <3>1, <3>5 DEF IsOperand
    <3>7. CASE d[1] = "operation"
      BY <3>6, <3>7 DEF getOperandSignal, Named, Constant
    <3>8. CASE d[1] # "operation"
      <4>1. Found(module, d)
        BY <1>1, <3>8 DEF Connected
      <4>2. LowOperand(d, 2)
        BY <3>6, <4>1, LowSource
      <4> QED BY <1>1, <3>2, <3>8, <4>2 DEF Low
    <3> QED BY <3>7, <3>8
  <2> QED BY <2>1, <2>2, <2>3
<1> QED BY <1>2, <1>3, <1>4, <1>5, <1>6, <1>7, <1>8 DEF Names, PortNames

LEMMA SignalFromLocal ==
    ASSUME Working, NEW x \in DOMAIN module, NEW v, NEW w, AgreeBelow(v, w, Rank(x))
    PROVE  SignalFrom(v, x) = SignalFrom(w, x)
<1>1. PICK g : g = module[x]
  OBVIOUS
<1>2. CASE x \in Registers
  BY <1>2, SignalFromIs
<1>3. CASE g.type = "input wire"
  BY <1>1, <1>3, SignalFromIs
<1>4. CASE x \notin Registers /\ g.type # "input wire"
  <2>1. PICK d : d = WireDriver(g, cur_state)
    OBVIOUS
  <2>2. Low(d, Rank(x))
    <3>1. CASE g.drivers = << >>
      <4>1. d = NoSignal
        BY <1>1, <2>1, <3>1, SignalOfBoth, WireDriverIs
      <4> QED BY <4>1, LowNull DEF Low, NoSignal
    <3>2. CASE g.drivers # << >>
      <4>1. PICK k \in DOMAIN g.drivers : d = g.drivers[k]
        BY <1>1, <2>1, <3>2, SignalOfBoth, WireDriverIs
      <4> QED BY <1>1, <1>4, <4>1, DriversAreLow
    <3> QED BY <3>1, <3>2
  <2>3. DriverValue(d, v) = DriverValue(d, w)
    BY <2>2, LowAgrees
  <2>4. \A u : SignalFrom(u, x) = Cut(DriverValue(d, u), g.width)
    BY <1>1, <1>4, <2>1 DEF SignalFrom
  <2> QED BY <2>3, <2>4
<1> QED BY <1>2, <1>3, <1>4

(* Signal is what the printed definitions say. *)
LEMMA SignalIsFrom ==
    ASSUME Working
    PROVE  \A x \in DOMAIN module : Signal[x] = SignalFrom(Signal, x)
<1> DEFINE Evaluated(v) == [x \in DOMAIN module |-> SignalFrom(v, x)]
<1>1. ASSUME NEW v, NEW w, NEW r \in Nat, AgreeBelow(v, w, r)
      PROVE  AgreeBelow(Evaluated(v), Evaluated(w), r + 1)
  <2> SUFFICES ASSUME NEW y \in DOMAIN module, Rank(y) < r + 1
               PROVE  SignalFrom(v, y) = SignalFrom(w, y)
    BY DEF AgreeBelow
  <2>1. AgreeBelow(v, w, Rank(y))
    <3>1. \A x : Rank(x) \in Int
      BY RankIs
    <3>2. Rank(y) <= r
      BY <3>1
    <3> QED BY <1>1, <3>1, <3>2 DEF AgreeBelow
  <2> QED BY <2>1, SignalFromLocal
<1>2. PICK v0 : v0 = << >>
  OBVIOUS
<1>3. PICK v1 : v1 = Evaluated(v0)
  OBVIOUS
<1>4. PICK v2 : v2 = Evaluated(v1)
  OBVIOUS
<1>5. PICK v3 : v3 = Evaluated(v2)
  OBVIOUS
<1>6. PICK v4 : v4 = Evaluated(v3)
  OBVIOUS
<1>7. PICK v5 : v5 = Evaluated(v4)
  OBVIOUS
<1>8. PICK v6 : v6 = Evaluated(v5)
  OBVIOUS
<1> HIDE DEF Evaluated
<1>9. AgreeBelow(v0, v1, 0)
  <2>1. \A x : ~(Rank(x) < 0)
    BY RankIs
  <2> QED BY <2>1 DEF AgreeBelow
<1>10. AgreeBelow(v1, v2, 1)
  BY <1>1, <1>3, <1>4, <1>9
<1>11. AgreeBelow(v2, v3, 2)
  BY <1>1, <1>4, <1>5, <1>10
<1>12. AgreeBelow(v3, v4, 3)
  BY <1>1, <1>5, <1>6, <1>11
<1>13. AgreeBelow(v4, v5, 4)
  BY <1>1, <1>6, <1>7, <1>12
<1>14. AgreeBelow(v5, v6, 5)
  BY <1>1, <1>7, <1>8, <1>13
<1>15. v5 = [x \in DOMAIN module |-> SignalFrom(v5, x)]
  <2>1. v5 = [x \in DOMAIN module |-> SignalFrom(v4, x)]
    BY <1>7 DEF Evaluated
  <2>2. v6 = [x \in DOMAIN module |-> SignalFrom(v5, x)]
    BY <1>8 DEF Evaluated
  <2>3. \A x : Rank(x) < 5
    BY RankIs
  <2>4. \A x \in DOMAIN module : v5[x] = v6[x]
    BY <1>14, <2>3 DEF AgreeBelow
  <2> QED BY <2>1, <2>2, <2>4
<1>16. Signal = CHOOSE v : v = [x \in DOMAIN module |-> SignalFrom(v, x)]
  BY DEF Signal, SignalFrom
<1>17. Signal = [x \in DOMAIN module |-> SignalFrom(Signal, x)]
  BY <1>15, <1>16
<1> QED BY <1>17

(* The values of the registers, of the arguments and of the wires. *)
LEMMA SignalOfRegister ==
    ASSUME Working, NEW x \in DOMAIN module
    PROVE  /\ x \in Registers => Signal[x] = content[x]
           /\ module[x].type = "input wire" => Signal[x] = Value(<<x, given>>, module[x].width)
           /\ module[x].type = "wire" =>
                Signal[x] = Cut(DriverValue(WireDriver(module[x], cur_state), Signal), module[x].width)
<1>1. Signal[x] = SignalFrom(Signal, x)
  BY SignalIsFrom
<1>2. module[x].type = "wire" => module[x].type # "input wire"
  OBVIOUS
<1> QED BY <1>1, <1>2, SignalFromIs

-----------------------------------------------------------------------------
(* Where instructions read.                                                *)

(* A state lists the instructions that start in it. *)
LEMMA ListedWhereStarted ==
    ASSUME IInv, pc = "done", NEW s \in DOMAIN state, NEW i \in ToSet(state[s].instrs)
    PROVE  i \in Instrs(F) /\ HasStates(F.bb[i]) /\ s = startState[i] /\ s # Wait
<1>1. input \in Schedules
  BY DEF IInv, ShapeOK
<1>2. s # Wait
  <2>1. state[Wait].instrs = << >>
    BY DEF IInv, WaitOK
  <2> QED BY <2>1, EmptySet
<1>3. PICK b, p, k : Located(s, b, p, k)
  BY <1>2, StateLocated
<1>4. /\ HasStates(b) /\ FinishedRun(b, p) /\ k \in 0..input.statesNum[b] /\ s = list[p + k]
  BY <1>3 DEF Located
<1>5. state[s].instrs = InstrsIn(b, k)
  BY <1>4 DEF FinishedRun, LinkedAt
<1>6. i \in BlockInstrs(F, b) /\ input.start[i] = k
  BY <1>1, <1>5, InstrsInRange
<1>7. startState[i] = list[p + input.start[i]]
  BY <1>4, <1>6 DEF FinishedRun, PlacedAt
<1> QED BY <1>2, <1>4, <1>6, <1>7 DEF BlockInstrs

(* A state that branches is the last one of the block of its branch. *)
LEMMA BranchesLast ==
    ASSUME IInv, pc = "done", NEW s \in DOMAIN state, s # Wait, state[s].transitions # << >>
    PROVE  \E i \in Instrs(F) : /\ state[s].variable = i /\ F.op[i] = "Br"
                                /\ HasStates(F.bb[i]) /\ s = LastStateOf(F.bb[i])
<1>1. input \in Schedules /\ IsControlFlow(F) /\ firstState \in [Blocks(F) -> Nat]
  BY SchedulesAssumption DEF IInv, ShapeOK, F
<1>2. PICK b, p, k : Located(s, b, p, k)
  BY StateLocated
<1>3. /\ b \in Blocks(F) /\ HasStates(b) /\ FinishedRun(b, p) /\ k \in 0..input.statesNum[b]
      /\ s = list[p + k]
  BY <1>2 DEF Located
<1>4. input.statesNum[b] \in Nat
  BY <1>1, <1>3, LastStateIs
<1>5. /\ k < input.statesNum[b] => state[s].transitions = << >>
      /\ k = input.statesNum[b] =>
           /\ state[s].transitions = Branch(b, NewState).transitions
           /\ state[s].transitions # << >> => state[s].variable = Terminator(F, b)
  BY <1>3 DEF FinishedRun, LinkedAt
<1>6. k = input.statesNum[b]
  BY <1>3, <1>4, <1>5
<1>7. PICK t : t = Terminator(F, b)
  OBVIOUS
<1>8. t \in BlockInstrs(F, b) /\ F.op[t] \in Terminators
  BY <1>1, <1>3, <1>7, TerminatorOf
<1>9. t \in Instrs(F) /\ F.bb[t] = b
  BY <1>8 DEF BlockInstrs
<1>10. F.op[t] # "Ret"
  <2>1. NewState \in StateRecords /\ NewState.transitions = << >>
    BY DEF NewState, StateRecords, Null, NoVariable
  <2>2. Len(F.succ[b]) = 0 => Branch(b, NewState).transitions = << >>
    BY <1>1, <1>3, <2>1, BranchFields
  <2>3. F.op[t] = "Ret" => Len(F.succ[b]) = 0
    BY <1>1, <1>3, <1>7, TerminatorOf
  <2> QED BY <2>2, <2>3, <1>5, <1>6
<1>11. F.op[t] = "Br"
  BY <1>1, <1>8, <1>9, <1>10, FunctionSupported DEF Terminators, BinaryOps, Comparisons
<1>12. s = LastStateOf(b)
  <2>1. PICK q : LastStateOf(b) = list[q + input.statesNum[b]] /\ FinishedRun(b, q) /\ q \in Nat
    <3>1. PICK q : /\ \A m \in 0..input.statesNum[b] : Located(list[q + m], b, q, m)
                   /\ FinishedRun(b, q) /\ LastStateOf(b) = list[q + input.statesNum[b]]
      BY <1>3, ChainLocated
    <3>2. 0 \in 0..input.statesNum[b]
      BY <1>4
    <3> QED BY <3>1, <3>2 DEF Located
  <2>2. p \in Nat
    BY <1>2 DEF Located
  <2>3. p = q
    BY <1>3, <2>1, <2>2, RunsOnce
  <2> QED BY <2>1, <2>3, <1>3, <1>6
<1> QED BY <1>3, <1>5, <1>6, <1>7, <1>9, <1>11, <1>12

(* What a supported value is read from is an operation whose register is kept. *)
LEMMA SupportedRead ==
    ASSUME IInv, pc = "done", NEW i \in Instrs(F), F.op[i] # "PHI",
           NEW n \in DOMAIN F.operands[i], NEW x, x = F.operands[i][n], x > 0, Supported[x]
    PROVE  /\ x \in Dominating(F, i) /\ x \in Kept /\ x \in Instrs(F)
           /\ F.op[x] \in BinaryOps \cup Comparisons /\ HasStates(F.bb[x])
<1>1. input \in Schedules
  BY DEF IInv, ShapeOK
<1>2. x \in Instrs(F) /\ x \in ToSet(F.operands[i])
  BY <1>1, FunctionSupported DEF ToSet
<1>3. x \in Dominating(F, i)
  BY <1>2 DEF Dominating
<1>4. ~IsTerminator(F, x) /\ HasStates(F.bb[x])
  BY <1>3, ReadIsComputed
<1>5. F.op[x] \notin {"Load", "PHI"}
  BY <1>1, <1>2, SupportedIs DEF SupportedFrom
<1>6. F.op[x] \in BinaryOps \cup Comparisons
  BY <1>1, <1>2, <1>4, <1>5, FunctionSupported DEF IsTerminator, Terminators
<1>7. x \in Kept
  BY <1>1, ReadIsKept
<1> QED BY <1>2, <1>3, <1>4, <1>6, <1>7

-----------------------------------------------------------------------------
(* Values and widths.                                                      *)

LEMMA CutTo ==
    ASSUME NEW v, NEW t, NEW a \in Int, v = Value(t, a), NEW w \in Int, w <= a
    PROVE  Cut(v, w) = Value(t, w)
<1>1. v.term = t /\ v.bits = a
  BY DEF Value
<1>2. Min({a, w}) = w
  <2>1. \E x \in {a, w} : \A y \in {a, w} : x =< y
    OBVIOUS
  <2>2. Min({a, w}) \in {a, w} /\ \A y \in {a, w} : Min({a, w}) =< y
    BY <2>1 DEF Min
  <2> QED BY <2>2
<1> QED BY <1>1, <1>2 DEF Cut

LEMMA DriverValueIs ==
    ASSUME NEW v
    PROVE  /\ \A name : DriverValue(Named(name), v) = v[name]
           /\ \A t, w : DriverValue(Constant(t, w), v) = Value(t, w)
           /\ \A op, a, b : a[1] # "operation" /\ b[1] # "operation" =>
                DriverValue(Operation(op, a, b), v) = Computed(op, DriverValue(a, v), DriverValue(b, v))
<1>1. \A name : DriverValue(Named(name), v) = v[name]
  BY DEF DriverValue, Named
<1>2. \A t, w : DriverValue(Constant(t, w), v) = Value(t, w)
  BY DEF DriverValue, Constant
<1>3. ASSUME NEW op, NEW a, NEW b, a[1] # "operation", b[1] # "operation"
      PROVE  DriverValue(Operation(op, a, b), v) = Computed(op, DriverValue(a, v), DriverValue(b, v))
  <2>1. PICK d : d = Operation(op, a, b)
    OBVIOUS
  <2>2. d[1] = "operation" /\ d[2] = op /\ d[3] = a /\ d[4] = b
    BY <2>1 DEF Operation
  <2>3. DriverValue(d, v) = Computed(op, DriverValue(a, v), DriverValue(b, v))
    BY <2>2, <1>3 DEF DriverValue
  <2> QED BY <2>1, <2>3
<1> QED BY <1>1, <1>2, <1>3

(* The value of an operation has the width of its type, and so has what is  *)
(* read.                                                                    *)
LEMMA MeaningOfOperation ==
    ASSUME input \in Schedules, NEW i \in Instrs(F), F.op[i] \in BinaryOps \cup Comparisons
    PROVE  /\ Meaning[i] = Value(<<F.op[i], MeaningOf(i, 1), MeaningOf(i, 2)>>, F.type[i])
           /\ F.type[i] \in Int /\ F.type[i] < Unlimited /\ F.type[i] > 0
           /\ F.op[i] \in Comparisons => F.type[i] = 1
<1>1. F \in {s.func : s \in Schedules}
  BY DEF F
<1>2. /\ F.type \in [Instrs(F) -> 0..(Unlimited - 1)]
      /\ F.type[i] > 0 /\ (F.op[i] \in Comparisons => F.type[i] = 1)
  BY <1>1, TypesAssumption
<1>3. F.type[i] \in 0..(Unlimited - 1)
  BY <1>2
<1>4. F.type[i] \in Int /\ F.type[i] < Unlimited
  BY <1>3 DEF Unlimited
<1> QED BY <1>2, <1>4, MeaningIs DEF MeaningFrom, MeaningOf

LEMMA MeaningOfOperand ==
    ASSUME input \in Schedules, NEW i \in Instrs(F), NEW n \in DOMAIN F.operands[i],
           NEW x, x = F.operands[i][n],
           x > 0 => F.op[x] \in BinaryOps \cup Comparisons
    PROVE  /\ x > 0 => MeaningOf(i, n) = Meaning[x]
           /\ x < 0 => MeaningOf(i, n) = Value(<<Arg(-x), given>>, F.args[-x])
           /\ x = 0 => MeaningOf(i, n) = Value(<<"operand", i>>, OperandWidth(i, n))
           /\ \E t : MeaningOf(i, n) = Value(t, OperandWidth(i, n))
<1>1. x \in Int /\ (x > 0 => x \in Instrs(F))
  BY FunctionSupported
<1>2. CASE x > 0
  <2>0. ~(x < 0)
    BY <1>1, <1>2
  <2>1. MeaningOf(i, n) = Meaning[x] /\ OperandWidth(i, n) = F.type[x]
    BY <2>0, <1>2 DEF MeaningOf, OperandMeaning, OperandWidth, WidthOf
  <2>2. Meaning[x] = Value(<<F.op[x], MeaningOf(x, 1), MeaningOf(x, 2)>>, F.type[x])
    BY <1>1, <1>2, MeaningOfOperation
  <2>3. ~(x < 0) /\ ~(x = 0)
    BY <1>1, <1>2
  <2> QED BY <2>1, <2>2, <2>3
<1>3. CASE x < 0
  <2>1. ~(x > 0) /\ ~(x = 0)
    BY <1>1, <1>3
  <2>2. /\ MeaningOf(i, n) = Value(<<Arg(-x), given>>, F.args[-x])
        /\ OperandWidth(i, n) = F.args[-x]
    BY <2>1, <1>3 DEF MeaningOf, OperandMeaning, OperandWidth, WidthOf
  <2> QED BY <2>1, <2>2
<1>4. CASE x = 0
  <2>1. ~(x > 0) /\ ~(x < 0)
    BY <1>4
  <2>2. MeaningOf(i, n) = Value(<<"operand", i>>, OperandWidth(i, n))
    BY <2>1, <1>4 DEF MeaningOf, OperandMeaning
  <2> QED BY <2>1, <2>2
<1> QED BY <1>1, <1>2, <1>3, <1>4

-----------------------------------------------------------------------------
(* The registers.                                                          *)

(* A register that shares none is one; the others are lent one that is.     *)
LEMMA HolderIs ==
    ASSUME Working, NEW x \in Kept, NEW h, h = HolderIn(module, x)
    PROVE  /\ h \in Kept /\ Reg(h) \in Registers /\ IsOwn(h, module[Reg(h)]) /\ x \in Led(h)
           /\ Reg(x) \in DOMAIN module
           /\ \/ h = x
              \/ module[Reg(x)].type = "wire" /\ IsLent(x, module[Reg(x)]) /\ h = Leader(x)
<1>1. \A y \in Kept : Reg(y) \in DOMAIN module /\ (IsOwn(y, module[Reg(y)]) \/ IsLent(y, module[Reg(y)]))
  BY WorkingIs, ProperReg DEF RegistersIn, AllProper
<1>2. ASSUME NEW y \in Kept, IsOwn(y, module[Reg(y)])
      PROVE  Reg(y) \in Registers
  BY <1>1, <1>2, NamesApart DEF IsOwn, Registers, isRegister
<1>3. CASE IsOwn(x, module[Reg(x)])
  <2>1. module[Reg(x)].type # "wire"
    BY <1>3 DEF IsOwn
  <2>2. h = x
    BY <2>1 DEF HolderIn
  <2> QED BY <2>2, <1>1, <1>2, <1>3 DEF Led
<1>4. CASE IsLent(x, module[Reg(x)])
  <2>1. module[Reg(x)].type = "wire" /\ Leader(x) \in Kept /\ phase = "done" /\ x \in Bindable /\ Joins(x)
    BY <1>4 DEF IsLent
  <2>2. h = Leader(x)
    BY <2>1 DEF HolderIn
  <2>3. ~Joins(h)
    BY <2>1, <2>2, WorkingIs, LeaderLeads
  <2>4. IsOwn(h, module[Reg(h)])
    BY <1>1, <2>1, <2>2, <2>3 DEF IsLent
  <2>5. x \in Led(h)
    BY <2>1, <2>2 DEF Led
  <2> QED BY <2>1, <2>2, <2>4, <2>5, <1>1, <1>2, <1>4
<1> QED BY <1>1, <1>3, <1>4

(* The register of x, or the one it is lent, has what x computes. *)
HasValue(x) == content[Reg(HolderIn(module, x))] = Meaning[x]

LEMMA RegisterHolds ==
    ASSUME Working, NEW x \in Kept, F.op[x] \in BinaryOps \cup Comparisons, HasValue(x)
    PROVE  Signal[Reg(x)] = Meaning[x]
<1>1. PICK h : h = HolderIn(module, x)
  OBVIOUS
<1>2. h \in Kept /\ Reg(h) \in Registers /\ Reg(x) \in DOMAIN module /\ Reg(h) \in DOMAIN module
  BY <1>1, HolderIs DEF Registers
<1>3. Signal[Reg(h)] = Meaning[x]
  BY <1>1, <1>2, SignalOfRegister DEF HasValue
<1>4. CASE h = x
  BY <1>3, <1>4
<1>5. CASE module[Reg(x)].type = "wire" /\ IsLent(x, module[Reg(x)]) /\ h = Leader(x)
  <2>1. PICK g : g = module[Reg(x)]
    OBVIOUS
  <2>2. g.type = "wire" /\ g.width = F.type[x] /\ g.conditions = << >> /\ g.drivers = <<Named(Reg(h))>>
    BY <2>1, <1>5 DEF IsLent
  <2>3. IsSignal(g)
    BY <2>1, <1>2, SignalOfBoth
  <2>4. g.drivers # << >> /\ g.drivers[1] = Named(Reg(h))
    BY <2>2, SingletonIs
  <2>5. WireDriver(g, cur_state) = Named(Reg(h))
    BY <2>2, <2>3, <2>4, WireDriverIs
  <2>6. DriverValue(WireDriver(g, cur_state), Signal) = Meaning[x]
    BY <2>5, <1>3, DriverValueIs
  <2>7. Signal[Reg(x)] = Cut(DriverValue(WireDriver(g, cur_state), Signal), F.type[x])
    BY <2>1, <2>2, <1>2, SignalOfRegister
  <2>8. Signal[Reg(x)] = Cut(Meaning[x], F.type[x])
    BY <2>6, <2>7
  <2>9. input \in Schedules /\ x \in Instrs(F)
    BY WorkingIs DEF Kept
  <2>10. PICK t : Meaning[x] = Value(t, F.type[x])
    BY <2>9, MeaningOfOperation
  <2>11. F.type[x] \in Int
    BY <2>9, MeaningOfOperation
  <2>12. F.type[x] <= F.type[x]
    BY <2>11
  <2> QED BY <2>8, <2>10, <2>11, <2>12, CutTo
<1> QED BY <1>1, <1>4, <1>5, HolderIs

(* What an instruction reads is there when the registers hold it. *)
LEMMA OperandArrives ==
    ASSUME Working, NEW i \in Instrs(F), F.op[i] # "PHI", NEW n \in DOMAIN F.operands[i],
           SupportedOperand(i, n),
           NEW x, x = F.operands[i][n], x > 0 => HasValue(x)
    PROVE  /\ DriverValue(getOperandSignal(i, n), Signal) = MeaningOf(i, n)
           /\ \E t : MeaningOf(i, n) = Value(t, OperandWidth(i, n))
<1>1. IInv /\ pc = "done" /\ input \in Schedules /\ RegistersIn(module)
  BY WorkingIs
<1>2. x \in Int
  BY <1>1, FunctionSupported
<1>3. x > 0 => x \in Kept /\ F.op[x] \in BinaryOps \cup Comparisons
  BY <1>1, SupportedRead DEF SupportedOperand
<1>4. /\ x > 0 => MeaningOf(i, n) = Meaning[x]
      /\ x < 0 => MeaningOf(i, n) = Value(<<Arg(-x), given>>, F.args[-x])
      /\ x = 0 => MeaningOf(i, n) = Value(<<"operand", i>>, OperandWidth(i, n))
      /\ \E t : MeaningOf(i, n) = Value(t, OperandWidth(i, n))
  BY <1>1, <1>3, MeaningOfOperand
<1>5. CASE x > 0
  <2>0. ~(x < 0)
    BY <1>2, <1>5
  <2>1. getOperandSignal(i, n) = Named(Reg(x))
    BY <2>0, <1>5 DEF getOperandSignal
  <2>2. Signal[Reg(x)] = Meaning[x]
    BY <1>3, <1>5, RegisterHolds
  <2> QED BY <2>1, <2>2, <1>4, <1>5, DriverValueIs
<1>6. CASE x < 0
  <2>1. getOperandSignal(i, n) = Named(Arg(-x))
    BY <1>2, <1>6 DEF getOperandSignal
  <2>2. -x \in DOMAIN F.args
    BY <1>1, <1>6, FunctionSupported
  <2>3. Arg(-x) \in DOMAIN module
    BY <2>2, <1>1 DEF RegistersIn, PortNames
  <2>4. Proper(Arg(-x), module[Arg(-x)])
    BY <2>3, SignalIs
  <2>5. module[Arg(-x)].type = "input wire" /\ module[Arg(-x)].width = F.args[-x]
    BY <2>2, <2>4 DEF Proper
  <2>6. Signal[Arg(-x)] = Value(<<Arg(-x), given>>, F.args[-x])
    BY <2>3, <2>5, SignalOfRegister
  <2> QED BY <2>1, <2>6, <1>4, <1>6, DriverValueIs
<1>7. CASE x = 0
  <2>1. getOperandSignal(i, n) = Constant(<<"operand", i>>, OperandWidth(i, n))
    BY <1>7 DEF getOperandSignal
  <2>2. \A t, w : DriverValue(Constant(t, w), Signal) = Value(t, w)
    BY DriverValueIs
  <2>3. MeaningOf(i, n) = Value(<<"operand", i>>, OperandWidth(i, n))
    BY <1>4, <1>7
  <2>4. DriverValue(getOperandSignal(i, n), Signal) = MeaningOf(i, n)
    BY <2>1, <2>2, <2>3
  <2> QED BY <2>4, <1>4
<1>8. x > 0 \/ x < 0 \/ x = 0
  BY <1>2
<1> QED BY <1>5, <1>6, <1>7, <1>8

-----------------------------------------------------------------------------
(* The wires.                                                              *)

(* A parallel signal that has a pair for a state matches it. *)
LEMMA HasMatches ==
    ASSUME NEW x, NEW c, NEW d, Has(module, x, <<c, d>>), NEW g, g = module[x]
    PROVE  x \in DOMAIN module /\ Matching(g, c.state) # {} /\ g.conditions # << >>
<1>1. x \in DOMAIN module /\ <<c, d>> \in Pairs(g)
  BY DEF Has
<1>2. PICK k \in DOMAIN g.conditions : <<c, d>> = <<g.conditions[k], g.drivers[k]>>
  BY <1>1 DEF Pairs
<1>3. g.conditions[k] = c
  BY <1>2
<1>4. k \in Matching(g, c.state)
  BY <1>2, <1>3 DEF Matching
<1> QED BY <1>1, <1>2, <1>4

(* What is led to a unit in a state is what the instruction that it is for  *)
(* in this state reads.                                                     *)
LEMMA OperandWire ==
    ASSUME Working, NEW s, s = cur_state, NEW x \in Bindable, unitOf[x] # Unbound,
           x \in ToSet(state[s].instrs), NEW k \in {1, 2},
           NEW name, name = IF k = 1 THEN Op0(x) ELSE Op1(x),
           NEW d, d = getOperandSignal(x, k), Has(module, name, <<InState(s), d>>)
    PROVE  Signal[name] = Cut(DriverValue(d, Signal), F.width[x])
<1>1. PICK g : g = module[name]
  OBVIOUS
<1>2. InState(s).state = s
  BY DEF InState
<1>3. name \in DOMAIN module /\ Matching(g, s) # {} /\ g.conditions # << >>
  BY <1>1, <1>2, HasMatches
<1>4. IsSignal(g) /\ Parallel(g)
  BY <1>1, <1>3, SignalOfBoth
<1>5. Proper(name, g)
  BY <1>1, <1>3, SignalIs
<1>6. IsOperand(x, k, g)
  BY <1>5, ProperUnit
<1>7. g.drivers # << >>
  <2>1. g.drivers \in Seq(ToSet(g.drivers)) /\ g.conditions \in Seq(ToSet(g.conditions))
        /\ Len(g.drivers) = Len(g.conditions)
    BY <1>4 DEF IsSignal, IsSequence, Parallel
  <2>2. Len(g.conditions) # 0
    BY <2>1, <1>3
  <2> QED BY <2>1, <2>2
<1>8. PICK n \in Matching(g, s) : WireDriver(g, s) = g.drivers[n]
  BY <1>3, <1>4, <1>7, WireDriverIs
<1>9. n \in DOMAIN g.conditions /\ g.conditions[n].state = s
  BY <1>8 DEF Matching
<1>10. PICK t \in DOMAIN state : \E j \in SameUnit(x) :
         j \in ToSet(state[t].instrs) /\ <<g.conditions[n], g.drivers[n]>> = <<InState(t), getOperandSignal(j, k)>>
  BY <1>6, <1>9 DEF IsOperand, Pairs
<1>11. PICK j \in SameUnit(x) :
         j \in ToSet(state[t].instrs) /\ <<g.conditions[n], g.drivers[n]>> = <<InState(t), getOperandSignal(j, k)>>
  BY <1>10
<1>12. g.conditions[n] = InState(t) /\ g.drivers[n] = getOperandSignal(j, k)
  BY <1>11
<1>13. t = s
  BY <1>9, <1>12 DEF InState
<1>14. IInv /\ pc = "done" /\ BInv /\ s \in DOMAIN state
  BY WorkingIs
<1>15. startState[j] = s /\ startState[x] = s
  BY <1>11, <1>13, <1>14, ListedWhereStarted
<1>16. j \in Bindable /\ unitOf[j] # Unbound /\ FuInstName(j) = FuInstName(x)
  BY DEF SameUnit
<1>17. FuOf(j) = FuOf(x) /\ unitOf[j] = unitOf[x]
  BY <1>16, UnitOfOne
<1>18. j = x
  BY <1>14, <1>15, <1>16, <1>17 DEF BInv, BindInv, Assigned
<1>19. WireDriver(g, cur_state) = d
  BY <1>8, <1>12, <1>18
<1>20. Signal[name] = Cut(DriverValue(WireDriver(g, cur_state), Signal), g.width)
  BY <1>1, <1>3, <1>6, SignalOfRegister DEF IsOperand
<1>21. g.width = F.width[x]
  BY <1>6 DEF IsOperand
<1> QED BY <1>19, <1>20, <1>21

(* Two operands that have arrived make the value of the operation. *)
LEMMA ComputedIs ==
    ASSUME input \in Schedules, NEW x \in Instrs(F), F.op[x] \in BinaryOps \cup Comparisons,
           NEW v, v = Computed(F.op[x], MeaningOf(x, 1), MeaningOf(x, 2))
    PROVE  Cut(v, F.type[x]) = Meaning[x]
<1>1. PICK t : t = <<F.op[x], MeaningOf(x, 1), MeaningOf(x, 2)>>
  OBVIOUS
<1>2. /\ Meaning[x] = Value(t, F.type[x]) /\ F.type[x] \in Int /\ F.type[x] < Unlimited
      /\ F.op[x] \in Comparisons => F.type[x] = 1
  BY <1>1, MeaningOfOperation
<1>3. CASE F.op[x] \in Comparisons
  <2>1. v = Value(t, 1) /\ F.type[x] = 1
    BY <1>1, <1>2, <1>3 DEF Computed
  <2>2. F.type[x] <= 1
    BY <2>1
  <2> QED BY <2>1, <2>2, <1>2, CutTo
<1>4. CASE F.op[x] \notin Comparisons
  <2>1. v = Value(t, Unlimited)
    BY <1>1, <1>4 DEF Computed
  <2>2. Unlimited \in Int /\ F.type[x] <= Unlimited
    BY <1>2 DEF Unlimited
  <2> QED BY <2>1, <2>2, <1>2, CutTo
<1> QED BY <1>3, <1>4

(* A value is not cut twice. *)
LEMMA CutTwice ==
    ASSUME input \in Schedules, NEW x \in Instrs(F), F.op[x] \in BinaryOps \cup Comparisons
    PROVE  Cut(Meaning[x], F.type[x]) = Meaning[x]
<1>1. PICK t : Meaning[x] = Value(t, F.type[x])
  BY MeaningOfOperation
<1>2. F.type[x] \in Int
  BY MeaningOfOperation
<1>3. F.type[x] <= F.type[x]
  BY <1>2
<1> QED BY <1>1, <1>2, <1>3, CutTo

(* An operand of x is led to where x reads it in this state. *)
Reaches(x, n) == DriverValue(getOperandSignal(x, n), Signal) = MeaningOf(x, n)

LEMMA UnitComputes ==
    ASSUME Working, WidthsAgree, NEW s, s = cur_state, NEW x \in Bindable, unitOf[x] # Unbound,
           x \in ToSet(state[s].instrs), DrivenIn(module, x, s), Fu(x) \in DOMAIN module,
           Reaches(x, 1), Reaches(x, 2),
           \E t : MeaningOf(x, 1) = Value(t, OperandWidth(x, 1)),
           \E t : MeaningOf(x, 2) = Value(t, OperandWidth(x, 2))
    PROVE  Signal[Fu(x)] = Meaning[x]
<1>1. input \in Schedules /\ BInv
  BY WorkingIs
<1>2. /\ x \in Instrs(F) /\ F.op[x] \in BinaryOps \cup Comparisons
      /\ OperandWidth(x, 1) = F.width[x] /\ OperandWidth(x, 2) = F.width[x]
  BY <1>1, UnitOperands
<1>3. F.width[x] \in Int
  <2>1. FuOf(x) \in Units
    BY UnitsOfInstructions
  <2>2. FuOf(x) = <<F.op[x], F.width[x]>>
    BY UnitOfOne
  <2> QED BY <2>1, <2>2 DEF Units, FuWidths
<1>4. F.width[x] <= F.width[x]
  BY <1>3
<1>5. Cut(MeaningOf(x, 1), F.width[x]) = MeaningOf(x, 1) /\ Cut(MeaningOf(x, 2), F.width[x]) = MeaningOf(x, 2)
  <2>1. PICK t1 : MeaningOf(x, 1) = Value(t1, F.width[x])
    BY <1>2
  <2>2. PICK t2 : MeaningOf(x, 2) = Value(t2, F.width[x])
    BY <1>2
  <2>3. Cut(MeaningOf(x, 1), F.width[x]) = Value(t1, F.width[x])
    BY <2>1, <1>3, <1>4, CutTo
  <2>4. Cut(MeaningOf(x, 2), F.width[x]) = Value(t2, F.width[x])
    BY <2>2, <1>3, <1>4, CutTo
  <2> QED BY <2>1, <2>2, <2>3, <2>4
<1>6. PICK g : g = module[Fu(x)]
  OBVIOUS
<1>7. IsSignal(g) /\ IsUnit(x, g) /\ \A k \in DOMAIN g.drivers : Printable(g.drivers[k])
  <2>1. Proper(Fu(x), g) /\ \A k \in DOMAIN g.drivers : Printable(g.drivers[k])
    BY <1>6, SignalIs
  <2>2. IsUnit(x, g)
    BY <2>1, ProperUnit
  <2> QED BY <2>1, <2>2, <1>6, SignalOfBoth
<1>8. PICK c \in SameUnit(x) :
        /\ g.width = F.type[c]
        /\ g.drivers = <<createFu(c, Named(Op0(c)),
                                  IF F.op[c] \in BinaryOps THEN Named(Op1(c)) ELSE NoSignal)>>
  BY <1>7 DEF IsUnit
<1>9. c \in Bindable /\ unitOf[c] # Unbound /\ FuInstName(c) = FuInstName(x)
  BY DEF SameUnit
<1>10. FuOf(c) = FuOf(x) /\ unitOf[c] = unitOf[x] /\ F.op[c] = F.op[x]
  BY <1>9, UnitOfOne
<1>11. F.type[c] = F.type[x]
  <2>1. ToSet(address) = Bindable
    BY <1>1 DEF BInv, BindInv, Addressed
  <2> QED BY <2>1, <1>9, <1>10 DEF WidthsAgree
<1>12. Op0(c) = Op0(x) /\ Op1(c) = Op1(x)
  BY <1>9, NamesDiffer
<1>13. PICK b : b = IF F.op[x] \in BinaryOps THEN Named(Op1(x)) ELSE NoSignal
  OBVIOUS
<1>14. g.drivers = <<Operation(F.op[x], Named(Op0(x)), b)>>
  BY <1>8, <1>10, <1>12, <1>13 DEF createFu
<1>15. g.drivers # << >> /\ DOMAIN g.drivers = {1} /\ g.drivers[1] = Operation(F.op[x], Named(Op0(x)), b)
  BY <1>14, SingletonIs
<1>16. b # NoSignal
  <2>1. PICK o : o = Operation(F.op[x], Named(Op0(x)), b)
    OBVIOUS
  <2>2. Printable(o)
    BY <2>1, <1>7, <1>15
  <2>3. o[1] = "operation" /\ o[4] = b
    BY <2>1 DEF Operation
  <2> QED BY <2>2, <2>3 DEF Printable
<1>17. F.op[x] \in BinaryOps /\ b = Named(Op1(x))
  BY <1>13, <1>16
<1>18. Has(module, Op0(x), <<InState(s), getOperandSignal(x, 1)>>)
       /\ Has(module, Op1(x), <<InState(s), getOperandSignal(x, 2)>>)
  BY <1>2, <1>17 DEF DrivenIn
<1>19. Signal[Op0(x)] = MeaningOf(x, 1)
  <2>1. Signal[Op0(x)] = Cut(DriverValue(getOperandSignal(x, 1), Signal), F.width[x])
    BY <1>18, OperandWire
  <2> QED BY <2>1, <1>5 DEF Reaches
<1>20. Signal[Op1(x)] = MeaningOf(x, 2)
  <2>0. Op1(x) = IF 2 = 1 THEN Op0(x) ELSE Op1(x)
    OBVIOUS
  <2>1. Signal[Op1(x)] = Cut(DriverValue(getOperandSignal(x, 2), Signal), F.width[x])
    BY <2>0, <1>18, OperandWire
  <2> QED BY <2>1, <1>5 DEF Reaches
<1>21. DriverValue(Operation(F.op[x], Named(Op0(x)), b), Signal) =
         Computed(F.op[x], MeaningOf(x, 1), MeaningOf(x, 2))
  <2>1. PICK a : a = Named(Op0(x))
    OBVIOUS
  <2>2. a[1] # "operation" /\ b[1] # "operation"
    BY <2>1, <1>17 DEF Named
  <2>5. \A op, p, q : p[1] # "operation" /\ q[1] # "operation" =>
          DriverValue(Operation(op, p, q), Signal) = Computed(op, DriverValue(p, Signal), DriverValue(q, Signal))
    BY DriverValueIs
  <2>3. DriverValue(Operation(F.op[x], a, b), Signal) =
          Computed(F.op[x], DriverValue(a, Signal), DriverValue(b, Signal))
    BY <2>2, <2>5
  <2>4. DriverValue(a, Signal) = MeaningOf(x, 1) /\ DriverValue(b, Signal) = MeaningOf(x, 2)
    BY <2>1, <1>17, <1>19, <1>20, DriverValueIs
  <2> QED BY <2>1, <2>3, <2>4
<1>22. WireDriver(g, cur_state) = Operation(F.op[x], Named(Op0(x)), b)
  BY <1>7, <1>15, WireDriverIs DEF IsUnit
<1>23. Signal[Fu(x)] = Cut(DriverValue(WireDriver(g, cur_state), Signal), g.width)
  BY <1>6, <1>7, SignalOfRegister DEF IsUnit
<1>24. Signal[Fu(x)] = Cut(Computed(F.op[x], MeaningOf(x, 1), MeaningOf(x, 2)), F.type[x])
  BY <1>8, <1>11, <1>21, <1>22, <1>23
<1> QED BY <1>1, <1>2, <1>24, ComputedIs

(* Every instruction of a state has been visited. *)
LEMMA VisitedIn ==
    ASSUME Working, NEW s \in DOMAIN state, NEW i \in ToSet(state[s].instrs)
    PROVE  DrivenIn(module, i, s)
<1>1. PICK q \in 1..Len(list) : list[q] = s
  BY AtWork DEF Working, DataInv
<1>2. q <= visited
  BY <1>1, WorkingIs
<1>3. i \in Seen(q)
  BY <1>1, <1>2 DEF Seen
<1>4. \A p \in 1..Len(list) : \A t : t = list[p] => \A j \in Seen(p) : DrivenIn(module, j, t)
  BY WorkingIs DEF Data
<1> QED BY <1>1, <1>3, <1>4

(* An operand is not an operation. *)
LEMMA OperandSignalIs ==
    ASSUME NEW i, NEW n
    PROVE  getOperandSignal(i, n)[1] \notin {"operation", "null"}
<1>1. PICK x, d : x = F.operands[i][n] /\ d = getOperandSignal(i, n)
  OBVIOUS
<1>2. \/ d = Named(Reg(x)) \/ d = Named(Arg(-x))
      \/ d = Constant(<<"operand", i>>, OperandWidth(i, n))
  BY <1>1 DEF getOperandSignal
<1>3. d[1] \in {"signal", "constant"}
  BY <1>2 DEF Named, Constant
<1> QED BY <1>1, <1>3

(* What x reads is led to where x reads it in this state. *)
Supplied(x) ==
    \A n \in {1, 2} : Reaches(x, n) /\ \E t : MeaningOf(x, n) = Value(t, OperandWidth(x, n))

(* The wire of an instruction whose operands arrive has its value. *)
LEMMA WireValue ==
    ASSUME Working, WidthsAgree, NEW s, s = cur_state, NEW x \in ToSet(state[s].instrs),
           F.op[x] \in BinaryOps \cup Comparisons, Supplied(x)
    PROVE  Wire(x) \in DOMAIN module /\ Signal[Wire(x)] = Meaning[x]
<1>1. /\ IInv /\ pc = "done" /\ input \in Schedules /\ s \in DOMAIN state
      /\ unitOf[x] # Unbound => x \in Bindable /\ x \in Instrs(F)
  <2>1. IInv /\ pc = "done" /\ input \in Schedules /\ s \in DOMAIN state
    BY WorkingIs
  <2>2. x \in Instrs(F)
    BY <2>1, ListedWhereStarted
  <2> QED BY <2>1, <2>2, WorkingIs
<1>2. x \in Instrs(F)
  BY <1>1, ListedWhereStarted
<1>3. DrivenIn(module, x, s)
  BY <1>1, VisitedIn
<1>4. Wire(x) \in DOMAIN module /\ module[Wire(x)].drivers # << >>
  BY <1>3 DEF DrivenIn, IsDriven
<1>5. PICK g : g = module[Wire(x)]
  OBVIOUS
<1>6. IsSignal(g) /\ (Parallel(g) \/ g.conditions = << >>)
  BY <1>4, <1>5, SignalOfBoth
<1>7. Proper(Wire(x), g) /\ \A k \in DOMAIN g.drivers : Connected(module, g.drivers[k])
  BY <1>4, <1>5, SignalIs
<1>8. IsWire(x, g)
  BY <1>2, <1>7, ProperWire
<1>9. PICK k \in DOMAIN g.drivers : WireDriver(g, cur_state) = g.drivers[k]
  BY <1>4, <1>5, <1>6, WireDriverIs
<1>10. WireDriver(g, cur_state) = Source(x) /\ Connected(module, Source(x))
  <2>1. g.drivers[k] = Source(x)
    BY <1>8 DEF IsWire
  <2> QED BY <2>1, <1>7, <1>9
<1>11. Signal[Wire(x)] = Cut(DriverValue(Source(x), Signal), F.type[x])
  BY <1>4, <1>5, <1>8, <1>10, SignalOfRegister DEF IsWire
<1>12. Reaches(x, 1) /\ Reaches(x, 2) /\ (\E t : MeaningOf(x, 1) = Value(t, OperandWidth(x, 1)))
       /\ (\E t : MeaningOf(x, 2) = Value(t, OperandWidth(x, 2)))
  BY DEF Supplied
<1>13. CASE unitOf[x] # Unbound
  <2>1. Source(x) = Named(Fu(x))
    BY <1>13 DEF Source
  <2>2. Fu(x) \in DOMAIN module
    <3>1. Connected(module, Named(Fu(x)))
      BY <2>1, <1>10
    <3>2. Named(Fu(x))[1] = "signal" /\ Named(Fu(x))[2] = Fu(x)
      BY DEF Named
    <3> QED BY <3>1, <3>2 DEF Connected, Found
  <2>3. x \in Bindable
    BY <1>1, <1>13
  <2>4. Signal[Fu(x)] = Meaning[x]
    BY <1>3, <1>12, <1>13, <2>2, <2>3, UnitComputes
  <2>5. DriverValue(Source(x), Signal) = Meaning[x]
    BY <2>1, <2>4, DriverValueIs
  <2> QED BY <2>5, <1>1, <1>2, <1>4, <1>11, CutTwice
<1>14. CASE unitOf[x] = Unbound
  <2>1. PICK a, b : a = getOperandSignal(x, 1) /\ b = getOperandSignal(x, 2)
    OBVIOUS
  <2>2. Source(x) = Operation(F.op[x], a, b)
    BY <1>14, <2>1 DEF Source, createFu
  <2>3. a[1] # "operation" /\ b[1] # "operation"
    BY <2>1, OperandSignalIs
  <2>4. \A op, p, q : p[1] # "operation" /\ q[1] # "operation" =>
          DriverValue(Operation(op, p, q), Signal) = Computed(op, DriverValue(p, Signal), DriverValue(q, Signal))
    BY DriverValueIs
  <2>5. DriverValue(a, Signal) = MeaningOf(x, 1) /\ DriverValue(b, Signal) = MeaningOf(x, 2)
    BY <2>1, <1>12 DEF Reaches
  <2>6. DriverValue(Source(x), Signal) = Computed(F.op[x], DriverValue(a, Signal), DriverValue(b, Signal))
    BY <2>2, <2>3, <2>4
  <2>7. DriverValue(Source(x), Signal) = Computed(F.op[x], MeaningOf(x, 1), MeaningOf(x, 2))
    BY <2>5, <2>6
  <2> QED BY <2>7, <1>1, <1>2, <1>4, <1>11, ComputedIs
<1> QED BY <1>13, <1>14

-----------------------------------------------------------------------------
(* An instruction is in one group of its unit, which its leader begins.     *)
GroupOf(i, h, u, n) ==
    /\ u \in UnitInstances /\ n \in DOMAIN groups[u] /\ 1 \in DOMAIN groups[u][n]
    /\ i \in ToSet(groups[u][n]) /\ groups[u][n][1] = h
    /\ h \in Bindable /\ u = <<FuOf(h), unitOf[h]>>
    /\ \A m \in DOMAIN groups[u] : h \in ToSet(groups[u][m]) => m = n

LEMMA LeaderGroups ==
    ASSUME BInv, phase = "done", NEW i \in Bindable, unitOf[i] # Unbound,
           NEW h, h = Leader(i), NEW u, u = <<FuOf(i), unitOf[i]>>
    PROVE  \E n : GroupOf(i, h, u, n)
<1> DEFINE Holding == CHOOSE n \in DOMAIN groups[u] : i \in ToSet(groups[u][n])
<1>1. u \in UnitInstances
  BY DEF BInv, BindInv, Assigned, Bindable
<1>2. IsBoundTo(i, u)
  BY <1>1 DEF IsBoundTo
<1>3. /\ {At(u, p) : p \in Places(u)} = {k \in Bindable : IsBoundTo(k, u)}
      /\ \A p, q \in Places(u) : At(u, p) = At(u, q) => p = q
  BY <1>1 DEF BInv, BindInv, Known, Shared, GroupsIndependent
<1>4. PICK p \in Places(u) : At(u, p) = i
  BY <1>2, <1>3
<1>5. PICK n0 \in DOMAIN groups[u] : i \in ToSet(groups[u][n0])
  BY <1>4 DEF Places, At, ToSet
<1>6. Holding \in DOMAIN groups[u] /\ i \in ToSet(groups[u][Holding])
  BY <1>5
<1>7. PICK n : n = Holding
  OBVIOUS
<1>8. n \in DOMAIN groups[u] /\ i \in ToSet(groups[u][n])
  BY <1>6, <1>7
<1>9. 1 \in DOMAIN groups[u][n]
  <2>1. groups[u] \in Seq(Seq(Instrs(F)))
    BY <1>1 DEF BInv, Shared
  <2>2. PICK G : G = groups[u]
    OBVIOUS
  <2>3. G \in Seq(Seq(Instrs(F))) /\ n \in DOMAIN G
    BY <1>8, <2>1, <2>2
  <2>4. G[n] \in Seq(Instrs(F))
    BY <2>3
  <2>5. \E k \in DOMAIN G[n] : G[n][k] = i
    BY <1>8, <2>2 DEF ToSet
  <2> QED BY <2>2, <2>4, <2>5
<1>10. groups[u][n][1] = h
  BY <1>7 DEF Leader
<1> HIDE DEF Holding
<1>11. \A m \in DOMAIN groups[u] : \A k \in DOMAIN groups[u][m] :
          <<m, k>> \in Places(u) /\ At(u, <<m, k>>) = groups[u][m][k]
  BY DEF Places, At
<1>12. <<n, 1>> \in Places(u) /\ At(u, <<n, 1>>) = h
  BY <1>8, <1>9, <1>10, <1>11
<1>13. h \in Bindable /\ IsBoundTo(h, u)
  BY <1>3, <1>12
<1>14. u = <<FuOf(h), unitOf[h]>>
  BY <1>13 DEF IsBoundTo
<1>15. ASSUME NEW m \in DOMAIN groups[u], h \in ToSet(groups[u][m])
      PROVE  m = n
  <2>1. PICK k \in DOMAIN groups[u][m] : groups[u][m][k] = h
    BY <1>15 DEF ToSet
  <2>2. <<m, k>> \in Places(u) /\ At(u, <<m, k>>) = h
    BY <2>1, <1>11
  <2>3. <<m, k>> = <<n, 1>>
    BY <2>2, <1>3, <1>12
  <2> QED BY <2>3
<1> QED BY <1>1, <1>8, <1>9, <1>10, <1>13, <1>14, <1>15 DEF GroupOf

(* Those that a register is for are of one unit. *)
LEMMA LedUnit ==
    ASSUME BInv, NEW h \in Kept, NEW x \in Led(h), x # h
    PROVE  /\ phase = "done" /\ x \in Bindable /\ unitOf[x] # Unbound /\ Leader(x) = h
           /\ h \in Bindable /\ <<FuOf(x), unitOf[x]>> = <<FuOf(h), unitOf[h]>>
           /\ unitOf[h] # Unbound
<1>1. phase = "done" /\ x \in Bindable /\ unitOf[x] # Unbound /\ Leader(x) = h
  BY DEF Led, Joins
<1>2. PICK u : u = <<FuOf(x), unitOf[x]>>
  OBVIOUS
<1>3. PICK n : GroupOf(x, h, u, n)
  BY <1>1, <1>2, LeaderGroups
<1>4. h \in Bindable /\ u = <<FuOf(h), unitOf[h]>>
  BY <1>3 DEF GroupOf
<1> QED BY <1>1, <1>2, <1>4

(* They are in a group of registers that are shared. *)
LEMMA LedDoNotClash ==
    ASSUME BInv, SharedNeverClash, NEW h \in Kept, NEW x \in Led(h), NEW j \in Led(h), x # j
    PROVE  ~Clash(x, j)
<1>1. PICK i : i \in {x, j} /\ i # h
  OBVIOUS
<1>2. PICK u : u = <<FuOf(h), unitOf[h]>>
  OBVIOUS
<1>3. phase = "done"
  BY <1>1, LedUnit
<1>4. PICK n : GroupOf(i, h, u, n)
  <2>1. i \in Led(h)
    BY <1>1
  <2>2. i \in Bindable /\ unitOf[i] # Unbound /\ Leader(i) = h /\ <<FuOf(i), unitOf[i]>> = u
    BY <1>1, <1>2, <2>1, LedUnit
  <2> QED BY <1>3, <2>2, LeaderGroups
<1>5. /\ u \in UnitInstances /\ n \in DOMAIN groups[u] /\ 1 \in DOMAIN groups[u][n]
      /\ groups[u][n][1] = h /\ \A m \in DOMAIN groups[u] : h \in ToSet(groups[u][m]) => m = n
  BY <1>4 DEF GroupOf
<1>6. ASSUME NEW y \in Led(h)
      PROVE  \E k \in DOMAIN groups[u][n] : groups[u][n][k] = y
  <2>1. CASE y = h
    BY <1>5, <2>1
  <2>2. CASE y # h
    <3>1. y \in Bindable /\ unitOf[y] # Unbound /\ Leader(y) = h /\ <<FuOf(y), unitOf[y]>> = u
      BY <1>2, <2>2, LedUnit
    <3>2. PICK m : GroupOf(y, h, u, m)
      BY <1>3, <3>1, LeaderGroups
    <3>3. /\ m \in DOMAIN groups[u] /\ y \in ToSet(groups[u][m]) /\ 1 \in DOMAIN groups[u][m]
          /\ groups[u][m][1] = h
      BY <3>2 DEF GroupOf
    <3>4. h \in ToSet(groups[u][m])
      BY <3>3 DEF ToSet
    <3>5. m = n
      BY <1>5, <3>3, <3>4
    <3> QED BY <3>3, <3>5 DEF ToSet
  <2> QED BY <2>1, <2>2
<1>7. PICK k \in DOMAIN groups[u][n] : groups[u][n][k] = x
  BY <1>6
<1>8. PICK m \in DOMAIN groups[u][n] : groups[u][n][m] = j
  BY <1>6
<1>9. k # m
  BY <1>7, <1>8
<1> QED BY <1>3, <1>5, <1>7, <1>8, <1>9 DEF SharedNeverClash

(* A register whose value is still needed takes it in the state in which it *)
(* is computed, and keeps it in the others.                                 *)
LEMMA LatchedValue ==
    ASSUME Working, WidthsAgree, SharedNeverClash, NEW s, s = cur_state,
           NEW x \in Kept, F.op[x] \in BinaryOps \cup Comparisons, s \in NeededAfter(x),
           NEW h, h = HolderIn(module, x),
           \/ s = endState[x] /\ x \in ToSet(state[s].instrs) /\ Supplied(x)
           \/ s # endState[x] /\ HasValue(x)
    PROVE  Reg(h) \in Registers /\ Latched(Reg(h)) = Meaning[x]
<1>1. /\ BInv /\ input \in Schedules /\ x \in Instrs(F)
  BY WorkingIs DEF Kept
<1>2. h \in Kept /\ Reg(h) \in Registers /\ IsOwn(h, module[Reg(h)]) /\ x \in Led(h)
  BY HolderIs
<1>3. PICK g : g = module[Reg(h)]
  OBVIOUS
<1>4. Has(module, Reg(h), <<InState(endState[x]), Named(Wire(x))>>)
  <2>1. x \in Linkable
    <3>1. F.op[x] # "PHI" /\ part = "run"
      BY DEF BinaryOps, Comparisons, Working
    <3> QED BY <3>1 DEF Linkable
  <2>2. Linked(module, x)
    BY <2>1, WorkingIs DEF Data
  <2> QED BY <2>2 DEF Linked
<1>5. /\ Reg(h) \in DOMAIN module /\ Matching(g, endState[x]) # {} /\ g.conditions # << >>
  <2>1. PICK c : c = InState(endState[x])
    OBVIOUS
  <2>2. c.state = endState[x]
    BY <2>1 DEF InState
  <2> QED BY <1>3, <1>4, <2>1, <2>2, HasMatches
<1>6. IsSignal(g) /\ Parallel(g)
  BY <1>3, <1>5, SignalOfBoth
<1>7. ASSUME NEW k \in Matching(g, s)
      PROVE  g.drivers[k] = Named(Wire(x)) /\ s = endState[x]
  <2>1. k \in DOMAIN g.conditions /\ g.conditions[k].state = s
    BY <1>7 DEF Matching
  <2>2. PICK j \in Led(h) : <<g.conditions[k], g.drivers[k]>> = <<InState(endState[j]), Named(Wire(j))>>
    BY <2>1, <1>2, <1>3 DEF IsOwn, Pairs
  <2>3. g.conditions[k] = InState(endState[j]) /\ g.drivers[k] = Named(Wire(j))
    BY <2>2
  <2>4. endState[j] = s
    BY <2>1, <2>3 DEF InState
  <2>5. j = x
    <3>1. SUFFICES ASSUME x # j PROVE FALSE
      OBVIOUS
    <3>2. ~Clash(x, j)
      BY <1>1, <1>2, <3>1, LedDoNotClash
    <3> QED BY <2>4, <3>2 DEF Clash
  <2> QED BY <2>3, <2>4, <2>5
<1>8. CASE s = endState[x] /\ x \in ToSet(state[s].instrs) /\ Supplied(x)
  <2>1. PICK k \in Matching(g, s) : RegisterDriver(g, s) = g.drivers[k]
    BY <1>5, <1>6, <1>8, DriverOf
  <2>2. RegisterDriver(g, cur_state) = Named(Wire(x))
    BY <2>1, <1>7
  <2>3. Named(Wire(x)) # NoSignal
    BY DEF Named, NoSignal
  <2>4. Latched(Reg(h)) = Cut(DriverValue(Named(Wire(x)), Signal), g.width)
    BY <2>2, <2>3, <1>3 DEF Latched
  <2>5. DriverValue(Named(Wire(x)), Signal) = Meaning[x]
    BY <1>8, WireValue, DriverValueIs
  <2>6. g.width = F.type[x]
    <3>1. g.width = F.type[h]
      BY <1>2, <1>3 DEF IsOwn
    <3>2. CASE h = x
      BY <3>1, <3>2
    <3>3. CASE h # x
      <4>1. /\ x \in Bindable /\ h \in Bindable /\ unitOf[x] # Unbound /\ unitOf[h] # Unbound
            /\ <<FuOf(x), unitOf[x]>> = <<FuOf(h), unitOf[h]>>
        BY <1>1, <1>2, <3>3, LedUnit
      <4>2. ToSet(address) = Bindable
        BY <1>1 DEF BInv, BindInv, Addressed
      <4>3. F.type[x] = F.type[h]
        BY <4>1, <4>2 DEF WidthsAgree
      <4> QED BY <3>1, <4>3
    <3> QED BY <3>2, <3>3
  <2>7. Cut(Meaning[x], F.type[x]) = Meaning[x]
    BY <1>1, CutTwice
  <2> QED BY <1>2, <2>4, <2>5, <2>6, <2>7
<1>9. CASE s # endState[x] /\ HasValue(x)
  <2>1. Matching(g, s) = {}
    BY <1>7, <1>9
  <2>2. RegisterDriver(g, cur_state) = NoSignal
    BY <2>1, <1>5, <1>6, DriverOf
  <2>3. Latched(Reg(h)) = content[Reg(h)]
    BY <2>2, <1>3 DEF Latched
  <2> QED BY <1>2, <1>9, <2>3 DEF HasValue
<1> QED BY <1>8, <1>9

-----------------------------------------------------------------------------
(* The values of the registers: what has been computed since the machine    *)
(* left the wait state is held until it is read.                            *)
Arriving ==
    part = "run" /\ WidthsAgree /\ SharedNeverClash =>
        \A s : s = cur_state =>
            \A x \in Kept : /\ F.op[x] \in BinaryOps \cup Comparisons /\ Supported[x]
                            /\ HeldIn(x, s) /\ ComputedBefore(x, s)
                            => HasValue(x)

(* What an instruction reads is there when it is read. *)
LEMMA ReaderSupplied ==
    ASSUME Working, WidthsAgree, SharedNeverClash, Arriving, NEW s, s = cur_state,
           NEW i \in Instrs(F), F.op[i] # "PHI",
           s = startState[i] \/ (F.op[i] = "Br" /\ s = LastStateOf(F.bb[i])),
           NEW n \in DOMAIN F.operands[i], SupportedOperand(i, n)
    PROVE  Reaches(i, n) /\ \E t : MeaningOf(i, n) = Value(t, OperandWidth(i, n))
<1>1. PICK x : x = F.operands[i][n]
  OBVIOUS
<1>2. IInv /\ pc = "done"
  BY WorkingIs
<1>3. x > 0 => HasValue(x)
  <2>1. SUFFICES ASSUME x > 0 PROVE HasValue(x)
    OBVIOUS
  <2>2. Supported[x]
    BY <1>1, <2>1 DEF SupportedOperand
  <2>3. /\ x \in Dominating(F, i) /\ x \in Kept /\ F.op[x] \in BinaryOps \cup Comparisons
    BY <1>1, <1>2, <2>1, <2>2, SupportedRead
  <2>4. HeldIn(x, s) /\ ComputedBefore(x, s)
    BY <1>2, <2>3, ReadIsHeld
  <2> QED BY <2>2, <2>3, <2>4 DEF Arriving, Working
<1> QED BY <1>1, <1>3, OperandArrives DEF Reaches

(* What a clock edge leaves as it is. *)
LEMMA SameMeaning ==
    ASSUME UNCHANGED vars, UNCHANGED genVars
    PROVE  /\ Kept' = Kept /\ F' = F /\ Supported' = Supported
           /\ (WidthsAgree' <=> WidthsAgree) /\ (SharedNeverClash' <=> SharedNeverClash)
           /\ given' = given => Meaning' = Meaning
<1>1. F' = F
  BY DEF vars, bindVars, lvaVars, mapVars, F
<1>2. Kept' = Kept
  BY <1>1 DEF Kept, shouldIgnoreInstruction, Users
<1>3. Supported' = Supported
  BY <1>1 DEF Supported, Operands
<1>4. WidthsAgree' <=> WidthsAgree
  BY <1>1 DEF WidthsAgree, vars, bindVars, lvaVars, FuOf
<1>5. given' = given => Meaning' = Meaning
  BY <1>1 DEF Meaning, OperandMeaning, OperandWidth
<1>6. SharedNeverClash' <=> SharedNeverClash
  BY <1>1 DEF SharedNeverClash, UnitInstances, Clash, vars, bindVars, lvaVars, mapVars, NeededAfter, Needing, Successors, ReadIn,
     Users, LastStateOf
<1> QED BY <1>1, <1>2, <1>3, <1>4, <1>5, <1>6

(* What is computed before a state depends on the state machine only. *)
LEMMA SameComputed ==
    ASSUME UNCHANGED vars, NEW x, NEW s
    PROVE  ComputedBefore(x, s)' <=> ComputedBefore(x, s)
<1>0. F' = F
  BY DEF vars, bindVars, lvaVars, mapVars, F
<1>1. UNCHANGED mapVars
  BY DEF vars, bindVars, lvaVars
<1>2. \A b, k : InstrsIn(b, k)' = InstrsIn(b, k)
  BY <1>0, <1>1 DEF InstrsIn, LayoutOrder, mapVars
<1>3. \A b : Branch(b, NewState)' = Branch(b, NewState)
  BY <1>0, <1>1 DEF Branch, NewState, mapVars
<1>4. \A b, p : LinkedAt(b, p)' <=> LinkedAt(b, p)
  BY <1>0, <1>1, <1>2, <1>3 DEF LinkedAt, mapVars
<1>5. \A b, p : PlacedAt(b, p)' <=> PlacedAt(b, p)
  BY <1>0, <1>1 DEF PlacedAt, mapVars
<1>6. \A b, p : FinishedRun(b, p)' <=> FinishedRun(b, p)
  <2>1. \A k : RankInBlock(k)' = RankInBlock(k)
    BY <1>1 DEF RankInBlock, mapVars
  <2> QED BY <1>1, <1>4, <1>5, <2>1 DEF FinishedRun, mapVars
<1>7. \A t, b, p, k : Located(t, b, p, k)' <=> Located(t, b, p, k)
  BY <1>0, <1>1, <1>6 DEF Located, HasStates, mapVars
<1>8. EndOf(x)' = EndOf(x)
  BY <1>0, <1>1 DEF EndOf, mapVars
<1> QED BY <1>0, <1>7, <1>8 DEF ComputedBefore

LEMMA SameHolding ==
    ASSUME UNCHANGED vars, UNCHANGED genVars, NEW x, NEW s
    PROVE  /\ HeldIn(x, s)' <=> HeldIn(x, s)
           /\ ComputedBefore(x, s)' <=> ComputedBefore(x, s)
           /\ HolderIn(module, x)' = HolderIn(module, x)
<1>1. F' = F
  BY DEF vars, bindVars, lvaVars, mapVars, F
<1>2. HeldIn(x, s)' <=> HeldIn(x, s)
  BY <1>1 DEF HeldIn, vars, bindVars, lvaVars, mapVars, NeededAfter, Needing, Successors, ReadIn,
     Users, LastStateOf
<1>3. ComputedBefore(x, s)' <=> ComputedBefore(x, s)
  BY SameComputed
<1>4. HolderIn(module, x)' = HolderIn(module, x)
  BY <1>1 DEF HolderIn, Leader, FuOf, vars, bindVars, genVars
<1> QED BY <1>2, <1>3, <1>4

(* An operation is in the list of the state it starts in, and ends in it. *)
LEMMA StartsWhereEnds ==
    ASSUME IInv, pc = "done", NEW x \in Instrs(F), HasStates(F.bb[x]), Cycles(F, x) = 0
    PROVE  startState[x] = endState[x]
<1>1. PICK p : /\ \A k \in 0..input.statesNum[F.bb[x]] : Located(list[p + k], F.bb[x], p, k)
               /\ Located(endState[x], F.bb[x], p, EndOf(x))
               /\ Located(startState[x], F.bb[x], p, input.start[x])
  BY InstructionLocated
<1>2. EndOf(x) = input.start[x]
  BY InstructionLocated
<1> QED BY <1>1, <1>2 DEF Located

LEMMA StartedIsListed ==
    ASSUME IInv, pc = "done", NEW x \in Instrs(F), HasStates(F.bb[x])
    PROVE  x \in ToSet(state[startState[x]].instrs)
<1>1. input \in Schedules
  BY DEF IInv, ShapeOK
<1>2. PICK b : b = F.bb[x]
  OBVIOUS
<1>3. PICK p : Located(startState[x], b, p, input.start[x])
  BY <1>2, InstructionLocated
<1>4. PICK k, s : k = input.start[x] /\ s = startState[x]
  OBVIOUS
<1>5. b \in Blocks(F) /\ FinishedRun(b, p) /\ k \in 0..input.statesNum[b] /\ s = list[p + k]
  BY <1>3, <1>4 DEF Located
<1>6. state[s].instrs = InstrsIn(b, k)
  BY <1>5 DEF FinishedRun, LinkedAt
<1>7. x \in BlockInstrs(F, b)
  BY <1>2 DEF BlockInstrs
<1>8. x \in ToSet(InstrsIn(b, k))
  BY <1>1, <1>4, <1>5, <1>7, InstrsInRange
<1> QED BY <1>4, <1>6, <1>8

(* A clock edge keeps the values, and adds those that are computed. *)
LEMMA ClockArrives ==
    ASSUME DataInv, Arriving, Clock
    PROVE  Arriving'
<1>1. Working /\ UNCHANGED vars /\ UNCHANGED genVars /\ part' = part
  BY DEF Clock, Working, genVars
<1>2. SUFFICES ASSUME WidthsAgree, SharedNeverClash, NEW t, t = cur_state', NEW x \in Kept,
                      F.op[x] \in BinaryOps \cup Comparisons, Supported[x],
                      HeldIn(x, t), ComputedBefore(x, t)
               PROVE  HasValue(x)'
  <2>1. ASSUME WidthsAgree', SharedNeverClash', NEW t, t = cur_state', NEW x \in Kept',
               F'.op[x] \in BinaryOps \cup Comparisons, Supported'[x],
               HeldIn(x, t)', ComputedBefore(x, t)'
        PROVE  HasValue(x)'
    <3>1. WidthsAgree /\ SharedNeverClash /\ x \in Kept /\ F.op[x] \in BinaryOps \cup Comparisons /\ Supported[x]
      BY <1>1, <2>1, SameMeaning
    <3>2. HeldIn(x, t) /\ ComputedBefore(x, t)
      BY <1>1, <2>1, SameHolding
    <3> QED BY <1>2, <2>1, <3>1, <3>2
  <2> QED BY <2>1 DEF Arriving
<1>3. PICK s : s = cur_state
  OBVIOUS
<1>4. IInv /\ pc = "done" /\ input \in Schedules /\ s \in DOMAIN state /\ x \in Instrs(F)
  BY <1>1, <1>3, WorkingIs DEF Kept
<1>5. t # Wait
  BY <1>2, <1>4, NothingAtWait
<1>6. t = Following
  <2>1. CtlInv /\ part = "run"
    BY <1>1 DEF Working, DataInv
  <2>2. t = NextCurState
    BY <1>2 DEF Clock
  <2>3. list[1] = Wait
    BY <2>1, AtWork
  <2> QED BY <1>5, <2>1, <2>2, <2>3, NextCurStateIs
<1>7. t \in Successors(s)
  <2>1. CASE state[s].transitions # << >> /\ OperandBit
    <3>1. 1 \in DOMAIN state[s].transitions
      BY <1>4, <2>1, TransitionsFew
    <3> QED BY <1>3, <1>6, <2>1, <3>1 DEF Following, Successors
  <2>2. CASE ~(state[s].transitions # << >> /\ OperandBit)
    BY <1>3, <1>6, <2>2 DEF Following, Successors
  <2> QED BY <2>1, <2>2
<1>8. given' = given
  BY <1>2, <1>5 DEF Clock
<1>9. HasStates(F.bb[x])
  <2>1. ~IsTerminator(F, x)
    BY <1>2, <1>4 DEF IsTerminator, Terminators, BinaryOps, Comparisons
  <2> QED BY <2>1, <1>4, NotTerminatorHasStates
<1>10. s \in NeededAfter(x)
  BY <1>2, <1>4, <1>7, NeededBeforeHeld
<1>11. s = endState[x] \/ ComputedBefore(x, s)
  BY <1>2, <1>4, <1>7, <1>9, ComputedEarlier
<1>12. PICK h : h = HolderIn(module, x)
  OBVIOUS
<1>13. \/ s = endState[x] /\ x \in ToSet(state[s].instrs) /\ Supplied(x)
       \/ s # endState[x] /\ HasValue(x)
  <2>1. CASE s = endState[x]
    <3>1. startState[x] = s
      <4>1. Cycles(F, x) = 0
        BY <1>2 DEF Cycles, MemoryOps, BinaryOps, Comparisons
      <4>2. startState[x] = endState[x]
        BY <1>4, <1>9, <4>1, StartsWhereEnds
      <4> QED BY <2>1, <4>2
    <3>2. x \in ToSet(state[s].instrs)
      BY <1>4, <1>9, <3>1, StartedIsListed
    <3>3. ASSUME NEW n \in {1, 2}
          PROVE  Reaches(x, n) /\ \E v : MeaningOf(x, n) = Value(v, OperandWidth(x, n))
      <4>1. Len(F.operands[x]) = 2 /\ F.operands[x] \in Seq(Int) /\ F.op[x] # "PHI"
        BY <1>2, <1>4, FunctionSupported DEF BinaryOps, Comparisons
      <4>2. n \in DOMAIN F.operands[x]
        BY <4>1
      <4>3. SupportedOperand(x, n)
        <5>1. SupportedFrom(Supported, x)
          BY <1>2, <1>4, SupportedIs
        <5>2. SUFFICES ASSUME F.operands[x][n] > 0 PROVE Supported[F.operands[x][n]]
          BY DEF SupportedOperand
        <5>3. n \in Operands(x)
          BY <4>2, <5>2 DEF Operands
        <5> QED BY <5>1, <5>3 DEF SupportedFrom
      <4> QED BY <1>1, <1>2, <1>3, <1>4, <3>1, <4>1, <4>2, <4>3, ReaderSupplied
    <3> QED BY <2>1, <3>2, <3>3 DEF Supplied
  <2>2. CASE ComputedBefore(x, s)
    <3>1. s # endState[x]
      BY <1>4, <1>9, <2>2, NotComputedHere
    <3>2. HeldIn(x, s)
      BY <1>10, <3>1 DEF HeldIn
    <3>3. HasValue(x)
      BY <1>1, <1>2, <1>3, <2>2, <3>2 DEF Arriving, Working
    <3> QED BY <3>1, <3>3
  <2> QED BY <1>11, <2>1, <2>2
<1>14. Reg(h) \in Registers /\ Latched(Reg(h)) = Meaning[x]
  BY <1>1, <1>2, <1>3, <1>10, <1>12, <1>13, LatchedValue
<1>15. content'[Reg(h)] = Meaning[x]
  <2>1. content' = [name \in Registers |-> Latched(name)]
    BY DEF Clock
  <2> QED BY <2>1, <1>14
<1>16. Meaning' = Meaning /\ HolderIn(module, x)' = h
  <2>1. Meaning' = Meaning
    BY <1>1, <1>8, SameMeaning
  <2>2. HolderIn(module, x)' = HolderIn(module, x)
    BY <1>1, SameHolding
  <2> QED BY <2>1, <2>2, <1>12
<1> QED BY <1>15, <1>16 DEF HasValue, Reg

(* The registers hold what is read of them, throughout. *)
ValueInv == DataInv /\ Arriving

LEMMA InitArrives == DatapathInit => Arriving
BY DEF DatapathInit, GenInit, Arriving

(* The module is waiting when it is switched on. *)
LEMMA PowerUpArrives ==
    ASSUME DataInv, PowerUp
    PROVE  Arriving'
<1>1. UNCHANGED vars /\ cur_state' = cur_state /\ part = "printed"
  BY DEF PowerUp
<1>2. IInv /\ pc = "done"
  BY <1>1, AtWork DEF DataInv
<1>3. cur_state = Wait
  BY <1>1 DEF DataInv, CtlInv, HardwareOK
<1>4. ASSUME NEW s, s = cur_state', NEW x
      PROVE  ~ComputedBefore(x, s)'
  <2>1. s = Wait
    BY <1>1, <1>3, <1>4
  <2>2. ~ComputedBefore(x, s)
    BY <1>2, <2>1, NothingAtWait
  <2> QED BY <1>1, <2>2, SameComputed
<1> QED BY <1>4 DEF Arriving

LEMMA StillArrives ==
    ASSUME Arriving, UNCHANGED allVars
    PROVE  Arriving'
<1>1. UNCHANGED vars /\ UNCHANGED genVars /\ cur_state' = cur_state /\ content' = content /\ given' = given
      /\ part' = part
  BY DEF allVars, genVars, hwVars
<1>2. Meaning' = Meaning
  BY <1>1, SameMeaning
<1>3. \A x : HasValue(x)' <=> HasValue(x)
  <2>1. \A x : HolderIn(module, x)' = HolderIn(module, x)
    BY <1>1, SameHolding
  <2> QED BY <1>1, <1>2, <2>1 DEF HasValue, Reg
<1>4. SUFFICES ASSUME part = "run", WidthsAgree', SharedNeverClash', NEW t, t = cur_state', NEW x \in Kept',
                      F'.op[x] \in BinaryOps \cup Comparisons, Supported'[x],
                      HeldIn(x, t)', ComputedBefore(x, t)'
               PROVE  HasValue(x)'
  BY <1>1 DEF Arriving
<1>5. WidthsAgree /\ SharedNeverClash /\ x \in Kept /\ F.op[x] \in BinaryOps \cup Comparisons /\ Supported[x]
  BY <1>1, <1>4, SameMeaning
<1>6. HeldIn(x, t) /\ ComputedBefore(x, t) /\ t = cur_state
  BY <1>1, <1>4, SameHolding
<1>7. HasValue(x)
  BY <1>4, <1>5, <1>6 DEF Arriving
<1> QED BY <1>3, <1>7

LEMMA ValueInvKept == ValueInv /\ [DatapathNext]_allVars => ValueInv'
<1> SUFFICES ASSUME ValueInv, [DatapathNext]_allVars PROVE ValueInv'
  OBVIOUS
<1>1. DataInv /\ Arriving /\ DataInv'
  BY DataInvKept DEF ValueInv
<1>2. Arriving'
  <2>1. CASE Generate
    BY <2>1, StillGenerating DEF Arriving
  <2>2. CASE PowerUp
    BY <2>2, <1>1, PowerUpArrives
  <2>3. CASE Clock
    BY <2>3, <1>1, ClockArrives
  <2>4. CASE UNCHANGED allVars
    BY <2>4, <1>1, StillArrives
  <2> QED BY <2>1, <2>2, <2>3, <2>4 DEF DatapathNext, Aborted
<1> QED BY <1>1, <1>2 DEF ValueInv

(* The invariant of the values: a register holds what its instruction has   *)
(* computed from the arguments of this call for as long as it is to be read.*)
THEOREM ValueInvariance == DatapathSpec => []ValueInv
<1>1. DatapathInit => ValueInv
  BY InitDataInv, InitArrives DEF ValueInv
<1> QED BY <1>1, ValueInvKept, PTL DEF DatapathSpec

-----------------------------------------------------------------------------
LEMMA ValuesArrive == ValueInv => OperandsArrive
<1> SUFFICES ASSUME ValueInv, part = "run", Undisturbed,
                    NEW i \in ToSet(state[cur_state].instrs) \cup
                                (IF cur_state # Wait /\ state[cur_state].transitions # << >>
                                 THEN {state[cur_state].variable} ELSE {}),
                    F.op[i] # "PHI", NEW n \in DOMAIN F.operands[i], SupportedOperand(i, n)
             PROVE  DriverValue(getOperandSignal(i, n), Signal) = MeaningOf(i, n)
  BY DEF OperandsArrive
<1>1. Working /\ Arriving /\ WidthsAgree /\ SharedNeverClash
  BY DEF ValueInv, Working, Undisturbed
<1>2. PICK s : s = cur_state
  OBVIOUS
<1>3. IInv /\ pc = "done" /\ s \in DOMAIN state
  BY <1>1, <1>2, WorkingIs
<1>4. i \in Instrs(F) /\ (s = startState[i] \/ (F.op[i] = "Br" /\ s = LastStateOf(F.bb[i])))
  <2>1. CASE i \in ToSet(state[s].instrs)
    BY <2>1, <1>3, ListedWhereStarted
  <2>2. CASE s # Wait /\ state[s].transitions # << >> /\ i = state[s].variable
    BY <2>2, <1>3, BranchesLast
  <2> QED BY <1>2, <2>1, <2>2
<1>5. Reaches(i, n)
  BY <1>1, <1>2, <1>4, ReaderSupplied
<1> QED BY <1>5 DEF Reaches

(* In every state, what is read is what the function has computed from the  *)
(* arguments of this call.                                                  *)
THEOREM OperandsArriveAlways == DatapathSpec => []OperandsArrive
BY ValueInvariance, ValuesArrive, PTL

-----------------------------------------------------------------------------
(* What is as wide as the register or narrower is not cut. *)
LEMMA CutNothing ==
    ASSUME NEW v, NEW t, NEW a \in Int, v = Value(t, a), NEW w \in Int, a <= w
    PROVE  Cut(v, w) = v
<1>1. v.term = t /\ v.bits = a
  BY DEF Value
<1>2. Min({a, w}) = a
  <2>1. \E x \in {a, w} : \A y \in {a, w} : x =< y
    OBVIOUS
  <2>2. Min({a, w}) \in {a, w} /\ \A y \in {a, w} : Min({a, w}) =< y
    BY <2>1 DEF Min
  <2> QED BY <2>2
<1> QED BY <1>1, <1>2 DEF Cut

(* A state returns once. *)
LEMMA ReturnsOnce ==
    ASSUME IInv, pc = "done", NEW s \in DOMAIN state, NEW i \in ReturnsIn(s), NEW r \in ReturnsIn(s)
    PROVE  r = i
<1>1. input \in Schedules /\ IsControlFlow(F)
  BY SchedulesAssumption DEF IInv, ShapeOK, F
<1>2. ASSUME NEW j \in ReturnsIn(s)
      PROVE  /\ j \in Instrs(F) /\ F.op[j] = "Ret" /\ F.bb[j] = state[s].block
             /\ F.bb[j] \in Blocks(F)
  <2>1. j \in Instrs(F) /\ HasStates(F.bb[j]) /\ s = startState[j] /\ F.op[j] = "Ret"
    BY <1>2, ListedWhereStarted DEF ReturnsIn
  <2>2. PICK p : Located(s, F.bb[j], p, input.start[j])
    BY <2>1, InstructionLocated
  <2>3. state[s].block = F.bb[j] /\ F.bb[j] \in Blocks(F)
    BY <2>2, LocatedOnce DEF Located
  <2> QED BY <2>1, <2>3
<1>3. PICK b : b = state[s].block
  OBVIOUS
<1>4. i \in BlockInstrs(F, b) /\ r \in BlockInstrs(F, b) /\ b \in Blocks(F)
  BY <1>2, <1>3 DEF BlockInstrs
<1>5. F.op[i] \in Terminators /\ F.op[r] \in Terminators
  BY <1>2 DEF Terminators
<1> QED BY <1>1, <1>4, <1>5, TerminatorOf

(* What is returned fits into return_val. *)
LEMMA ReturnTypes ==
    ASSUME input \in Schedules, NEW i \in Instrs(F), F.op[i] = "Ret", F.operands[i] # << >>
    PROVE  /\ 1 \in DOMAIN F.operands[i] /\ F.result \in Int
           /\ OperandWidth(i, 1) \in Int /\ OperandWidth(i, 1) <= F.result
<1>1. /\ F.result \in Nat /\ F.args \in Seq(Nat)
      /\ F.type \in [Instrs(F) -> 0..(Unlimited - 1)] /\ F.reads \in [Instrs(F) -> Nat]
      /\ Len(F.operands[i]) = 1 /\ WidthOf(F, i, 1) <= F.result
  BY TypesAssumption DEF F
<1>2. F.operands[i] \in Seq(Int)
  BY FunctionSupported
<1>3. 1 \in DOMAIN F.operands[i]
  BY <1>1, <1>2
<1>4. PICK x : x = F.operands[i][1]
  OBVIOUS
<1>5. x \in Int /\ (x > 0 => x \in Instrs(F)) /\ (x < 0 => -x \in DOMAIN F.args)
  BY <1>2, <1>3, <1>4, FunctionSupported
<1>6. WidthOf(F, i, 1) \in Int
  <2>1. CASE x > 0
    <3>1. WidthOf(F, i, 1) = F.type[x]
      <4>1. ~(x < 0)
        BY <1>5, <2>1
      <4> QED BY <1>4, <2>1, <4>1 DEF WidthOf
    <3>2. F.type[x] \in 0..(Unlimited - 1)
      BY <1>1, <1>5, <2>1
    <3>3. PICK w : w = F.type[x]
      OBVIOUS
    <3>4. w \in 0..(Unlimited - 1)
      BY <3>2, <3>3
    <3>5. w \in Int
      BY <3>4 DEF Unlimited
    <3> QED BY <3>1, <3>3, <3>5
  <2>2. CASE x < 0
    <3>1. WidthOf(F, i, 1) = F.args[-x]
      <4>1. ~(x > 0)
        BY <1>5, <2>2
      <4> QED BY <1>4, <2>2, <4>1 DEF WidthOf
    <3>2. F.args[-x] \in Nat
      <4>1. F.args \in Seq(Nat) /\ -x \in DOMAIN F.args
        BY <1>1, <1>5, <2>2
      <4> QED BY <4>1
    <3> QED BY <3>1, <3>2
  <2>3. CASE x = 0
    <3>1. WidthOf(F, i, 1) = F.reads[i]
      BY <1>4, <2>3 DEF WidthOf
    <3> QED BY <3>1, <1>1
  <2>4. x > 0 \/ x < 0 \/ x = 0
    BY <1>5
  <2> QED BY <2>1, <2>2, <2>3, <2>4
<1> QED BY <1>1, <1>3, <1>6 DEF OperandWidth

(* In a state that returns, return_val takes the value. *)
LEMMA ReturnsValue ==
    ASSUME ValueInv, Clock, Undisturbed, NEW i \in ToSet(state[cur_state].instrs), F.op[i] = "Ret",
           F.operands[i] # << >>, SupportedOperand(i, 1)
    PROVE  content'[ReturnVal] = MeaningOf(i, 1)
<1>1. Working /\ Arriving /\ WidthsAgree /\ SharedNeverClash
  BY DEF ValueInv, Working, Undisturbed, Clock
<1>2. PICK s : s = cur_state
  OBVIOUS
<1>3. IInv /\ pc = "done" /\ input \in Schedules /\ s \in DOMAIN state
  BY <1>1, <1>2, WorkingIs
<1>4. i \in Instrs(F) /\ s = startState[i] /\ s # Wait
  BY <1>2, <1>3, ListedWhereStarted
<1>5. /\ 1 \in DOMAIN F.operands[i] /\ F.result \in Int
      /\ OperandWidth(i, 1) \in Int /\ OperandWidth(i, 1) <= F.result
  BY <1>3, <1>4, ReturnTypes
<1>6. PICK d : d = getOperandSignal(i, 1)
  OBVIOUS
<1>7. DriverValue(d, Signal) = MeaningOf(i, 1) /\ \E t : MeaningOf(i, 1) = Value(t, OperandWidth(i, 1))
  BY <1>1, <1>2, <1>4, <1>5, <1>6, ReaderSupplied DEF Reaches
<1>8. Cut(MeaningOf(i, 1), F.result) = MeaningOf(i, 1)
  BY <1>5, <1>7, CutNothing
<1>9. Has(module, ReturnVal, <<InState(s), d>>)
  <2>1. DrivenIn(module, i, s)
    BY <1>1, <1>2, <1>3, VisitedIn
  <2> QED BY <2>1, <1>6 DEF DrivenIn
<1>10. PICK g : g = module[ReturnVal]
  OBVIOUS
<1>11. ReturnVal \in DOMAIN module /\ Matching(g, s) # {} /\ g.conditions # << >>
  <2>1. PICK c : c = InState(s)
    OBVIOUS
  <2>2. c.state = s
    BY <2>1 DEF InState
  <2> QED BY <1>9, <1>10, <2>1, <2>2, HasMatches
<1>12. IsSignal(g) /\ Parallel(g)
  BY <1>1, <1>10, <1>11, SignalOfBoth
<1>13. IsResult(g)
  <2>1. Proper(ReturnVal, g)
    BY <1>1, <1>10, <1>11, SignalIs
  <2> QED BY <2>1 DEF Proper
<1>14. PICK k \in Matching(g, s) : RegisterDriver(g, s) = g.drivers[k]
  BY <1>11, <1>12, DriverOf
<1>15. g.drivers[k] = d
  <2>1. k \in DOMAIN g.conditions /\ g.conditions[k].state = s
    BY <1>14 DEF Matching
  <2>2. PICK t \in DOMAIN state :
          /\ <<g.conditions[k], g.drivers[k]>>[1] = InState(t)
          /\ t = Wait \/ \E r \in ReturnsIn(t) : <<g.conditions[k], g.drivers[k]>>[2] = getOperandSignal(r, 1)
    BY <2>1, <1>13 DEF IsResult, Pairs
  <2>3. g.conditions[k] = InState(t) /\ (t = Wait \/ \E r \in ReturnsIn(t) : g.drivers[k] = getOperandSignal(r, 1))
    BY <2>2
  <2>4. t = s
    BY <2>1, <2>3 DEF InState
  <2>5. PICK r \in ReturnsIn(s) : g.drivers[k] = getOperandSignal(r, 1)
    BY <1>4, <2>3, <2>4
  <2>6. i \in ReturnsIn(s)
    BY <1>2 DEF ReturnsIn
  <2>7. r = i
    BY <1>3, <2>5, <2>6, ReturnsOnce
  <2> QED BY <1>6, <2>5, <2>7
<1>16. d # NoSignal
  <2>1. d[1] # "null"
    BY <1>6, OperandSignalIs
  <2> QED BY <2>1 DEF NoSignal
<1>17. Latched(ReturnVal) = Cut(DriverValue(d, Signal), F.result)
  BY <1>2, <1>10, <1>13, <1>14, <1>15, <1>16 DEF Latched, IsResult
<1>18. ReturnVal \in Registers
  <2>1. ReturnVal # CurState
    BY NamesApart DEF ReturnVal, CurState
  <2> QED BY <2>1, <1>10, <1>11, <1>13 DEF Registers, isRegister, IsResult
<1>19. content'[ReturnVal] = Latched(ReturnVal)
  <2>1. content' = [name \in Registers |-> Latched(name)]
    BY DEF Clock
  <2> QED BY <2>1, <1>18
<1> QED BY <1>7, <1>8, <1>17, <1>19

(* When finish rises, return_val is the result of this call. *)
THEOREM ResultIsCorrect == DatapathSpec => ResultCorrect
<1> DEFINE A == part = "run" /\ content'[Finish] = Value(ONE[2], 1) =>
         \A i \in {r \in ToSet(state[cur_state].instrs) : F.op[r] = "Ret"} :
            F.operands[i] # << >> =>
                \/ content'[ReturnVal] = MeaningOf(i, 1)
                \/ ~SupportedOperand(i, 1)
                \/ ~Undisturbed
<1>1. ValueInv /\ [DatapathNext]_allVars => [A]_allVars
  <2>1. SUFFICES ASSUME ValueInv, DatapathNext, part = "run", Undisturbed,
                        NEW i \in ToSet(state[cur_state].instrs), F.op[i] = "Ret",
                        F.operands[i] # << >>, SupportedOperand(i, 1)
                 PROVE  content'[ReturnVal] = MeaningOf(i, 1)
    OBVIOUS
  <2>2. Clock
    BY <2>1, StillGenerating DEF DatapathNext, PowerUp, Aborted
  <2> QED BY <2>1, <2>2, ReturnsValue
<1> QED BY <1>1, ValueInvariance, PTL DEF DatapathSpec, ResultCorrect

=============================================================================
