-------------------------- MODULE SdcSchedulerProofs --------------------------
(***************************************************************************)
(* Proofs about the scheduler, for every set of functions: its data stay   *)
(* well typed, its buffers suffice, no system it hands to the solver is    *)
(* unsolvable, the mobility is not negative, the block scheduled last is   *)
(* within its limits, and the schedule it returns is one its caller may    *)
(* rely on.                                                                *)
(*                                                                         *)
(* The inductive invariant follows the constraint rows: those that an      *)
(* instruction's dependencies ask for are added before the first solve and *)
(* never deleted, so that the columns the last solve returned satisfy      *)
(* them, and the states copied from the columns do.  That there is a       *)
(* solution follows from an order in which the keys of the instructions    *)
(* satisfy the rows of the resources as well: the rows of a limit were     *)
(* added in the order of a solution, which dominance extends.              *)
(***************************************************************************)
EXTENDS SdcScheduler, FiniteSetLemmas

-----------------------------------------------------------------------------
(* The inductive invariant.                                                *)

(* The loops of these methods run over the instructions. *)
OverInstrs == {"addMulticycleConstraints", "addDependencyConstraints",
               "addResourseConstraint"}

CursorOK ==
    IF pc \in OverInstrs THEN cursor \in Instrs(func)
    ELSE IF pc = "mapSchedule" THEN cursor \in Blocks(func)
    ELSE cursor = 1

(* A row is among the first n. *)
Among(rs, r, n) == \E k \in 1..n : rs[k] = r

(* The rows that no method deletes: those of the first solve while the     *)
(* rows of the second are there.                                           *)
Kept == IF pc \in {"scheduleAlap", "deleteAlapConstraints"} THEN nAsap ELSE Len(rows)

MulticyclePresent(i) ==
    Cycles(func, i) = 1 => Among(rows, Row(<<i, 1>>, <<i, 0>>, "EQ", 1), Kept)

DependenciesPresent(i) ==
    /\ \A d \in func.deps[i] : Among(rows, DependencyRow(func, i, d), Kept)
    /\ \A d \in func.mem[i] : Among(rows, MemoryRow(func, i, d), Kept)

MulticycleAdded(i) == pc # "addMulticycleConstraints" \/ i < cursor

DependenciesAdded(i) ==
    /\ pc # "addMulticycleConstraints"
    /\ pc # "addDependencyConstraints" \/ i < cursor

RowsPresent ==
    /\ Kept <= Len(rows)
    /\ \A i \in Instrs(func) :
          /\ MulticycleAdded(i) => MulticyclePresent(i)
          /\ DependenciesAdded(i) => DependenciesPresent(i)

(* The columns satisfy the dependencies of the functions. *)
Respects(x) ==
    \A i \in Instrs(func) :
        /\ x[End(func, i)] = x[First(i)] + Cycles(func, i)
        /\ \A d \in func.deps[i] : x[First(i)] - x[End(func, d)] >= 1
        /\ \A d \in func.mem[i] : x[First(i)] - x[End(func, d)] >= 0

Solved == pc \in {"mapSchedule", "done"} => Respects(sol)

(* The blocks the loop of mapSchedule has passed. *)
Passed(b) == pc = "done" \/ (pc = "mapSchedule" /\ b < cursor)

Mapped ==
    /\ \A i \in Instrs(func) : Passed(func.bb[i]) => start[i] = MappedState(func, sol, i)
    /\ \A b \in Blocks(func) : Passed(b) => statesNum[b] = BlockStates(func, sol, b)

IInv == TypeOK /\ CursorOK /\ RowsPresent /\ Solved /\ Mapped

-----------------------------------------------------------------------------
(* What the definitions of the model return.                               *)

(* The instructions and the blocks of a function are intervals, and every  *)
(* block has an instruction.                                               *)
LEMMA FunctionShape ==
    ASSUME NEW f, IsFunction(f, Opcodes, Widths)
    PROVE  /\ Len(f.op) \in Nat \ {0} /\ Instrs(f) = 1..Len(f.op)
           /\ Len(f.succ) \in Nat \ {0} /\ Blocks(f) = 1..Len(f.succ)
           /\ IsFiniteSet(Instrs(f))
           /\ \A i \in Instrs(f) : f.bb[i] \in Blocks(f)
           /\ \A i \in Instrs(f) : f.deps[i] \subseteq Instrs(f) /\ f.mem[i] \subseteq Instrs(f)
           /\ \A b \in Blocks(f) : BlockInstrs(f, b) # {}
<1>1. WellTyped(f, Opcodes, Widths) /\ IsControlFlow(f) /\ IsLaidOut(f)
  BY DEF IsFunction, IsControlFlow
<1>2. /\ Len(f.op) \in Nat /\ Instrs(f) = 1..Len(f.op)
      /\ Len(f.succ) \in Nat \ {0} /\ Blocks(f) = 1..Len(f.succ)
  BY <1>1 DEF WellTyped, IsControlFlow, Instrs, Blocks
<1>3. \A b \in Blocks(f) : BlockInstrs(f, b) # {}
  BY <1>1 DEF IsLaidOut
<1>4. Len(f.op) # 0
  <2>1. 1 \in Blocks(f)
    BY <1>2
  <2>2. PICK i \in Instrs(f) : TRUE
    BY <2>1, <1>3 DEF BlockInstrs
  <2> QED BY <2>2, <1>2
<1>5. IsFiniteSet(Instrs(f))
  BY <1>2, FS_Interval
<1>6. \A i \in Instrs(f) :
         f.bb[i] \in Blocks(f) /\ f.deps[i] \subseteq Instrs(f) /\ f.mem[i] \subseteq Instrs(f)
  BY <1>1 DEF WellTyped, IsControlFlow, Instrs, Blocks
<1> QED BY <1>2, <1>3, <1>4, <1>5, <1>6

(* An instruction takes at most one extra state.                           *)
LEMMA CyclesRange == \A f, i : Cycles(f, i) \in {0, 1}
BY DEF Cycles

(* The first and the last column of an instruction are columns.            *)
LEMMA ColumnsOf ==
    ASSUME NEW f, NEW i \in Instrs(f)
    PROVE  First(i) \in Cols(f) /\ End(f, i) \in Cols(f)
BY DEF Cols

(* The greatest value of a quantity over the instructions of a block.      *)
LEMMA BlockMaximum ==
    ASSUME NEW f, IsFunction(f, Opcodes, Widths), NEW b \in Blocks(f),
           NEW g \in [BlockInstrs(f, b) -> Nat]
    PROVE  LET S == {g[i] : i \in BlockInstrs(f, b)}
           IN Max(S) \in Nat /\ \A i \in BlockInstrs(f, b) : g[i] <= Max(S)
<1> DEFINE B == BlockInstrs(f, b)
           S == {g[i] : i \in B}
<1>1. IsFiniteSet(B)
  <2>1. B \in SUBSET Instrs(f) /\ IsFiniteSet(Instrs(f))
    BY FunctionShape DEF BlockInstrs
  <2> QED BY <2>1, FS_Subset
<1>2. B # {}
  BY FunctionShape
<1> HIDE DEF B
<1>3. IsFiniteSet(S)
  BY <1>1, FiniteRange DEF B
<1>4. S \subseteq Nat /\ S \subseteq Int /\ S # {}
  BY <1>2 DEF B
<1> HIDE DEF S
<1>5. Max(S) \in S /\ \A n \in S : Max(S) >= n
  BY <1>3, <1>4, MaxIsGreatest
<1>6. \A i \in B : g[i] \in S
  BY DEF S
<1>7. Max(S) \in Nat
  BY <1>4, <1>5
<1>8. \A i \in B : g[i] <= Max(S)
  BY <1>4, <1>5, <1>6, <1>7
<1> QED BY <1>7, <1>8 DEF S, B

(* The bound addAlapConstraints puts on a block is a number.               *)
LEMMA LastEndType ==
    ASSUME NEW f, IsFunction(f, Opcodes, Widths), NEW x \in [Cols(f) -> Nat],
           NEW b \in Blocks(f)
    PROVE  LastEnd(f, x, b) \in Nat
<1> DEFINE g == [i \in BlockInstrs(f, b) |-> x[End(f, i)]]
<1>1. g \in [BlockInstrs(f, b) -> Nat]
  BY ColumnsOf DEF BlockInstrs
<1>2. {g[i] : i \in BlockInstrs(f, b)} = {x[End(f, i)] : i \in BlockInstrs(f, b)}
  OBVIOUS
<1> HIDE DEF g
<1>3. Max({g[i] : i \in BlockInstrs(f, b)}) \in Nat
  BY <1>1, BlockMaximum
<1> QED BY <1>2, <1>3 DEF LastEnd

(* A block lasts until its last instruction has ended.                     *)
LEMMA BlockStatesBound ==
    ASSUME NEW f, IsFunction(f, Opcodes, Widths), NEW x \in [Cols(f) -> Nat],
           NEW b \in Blocks(f)
    PROVE  /\ BlockStates(f, x, b) \in Nat
           /\ \A i \in BlockInstrs(f, b) : x[First(i)] + Cycles(f, i) <= BlockStates(f, x, b)
<1> DEFINE g == [i \in BlockInstrs(f, b) |-> x[First(i)] + Cycles(f, i)]
<1>1. g \in [BlockInstrs(f, b) -> Nat]
  BY ColumnsOf, CyclesRange DEF BlockInstrs
<1>2. {g[i] : i \in BlockInstrs(f, b)}
        = {x[First(i)] + Cycles(f, i) : i \in BlockInstrs(f, b)}
  OBVIOUS
<1>3. \A i \in BlockInstrs(f, b) : g[i] = x[First(i)] + Cycles(f, i)
  OBVIOUS
<1> HIDE DEF g
<1>4. /\ Max({g[i] : i \in BlockInstrs(f, b)}) \in Nat
      /\ \A i \in BlockInstrs(f, b) : g[i] <= Max({g[j] : j \in BlockInstrs(f, b)})
  BY <1>1, BlockMaximum
<1> QED BY <1>2, <1>3, <1>4 DEF BlockStates

(* The state mapSchedule gives an instruction is a number.                 *)
LEMMA MappedStateType ==
    ASSUME NEW f, IsFunction(f, Opcodes, Widths), NEW x \in [Cols(f) -> Nat],
           NEW i \in Instrs(f)
    PROVE  MappedState(f, x, i) \in Nat
<1>1. f.bb[i] \in Blocks(f)
  BY FunctionShape
<1>2. BlockStates(f, x, f.bb[i]) \in Nat
  BY <1>1, BlockStatesBound
<1>3. x[First(i)] \in Nat
  BY ColumnsOf
<1> QED BY <1>2, <1>3 DEF MappedState

(* What solve returns satisfies the rows, when it succeeds.                *)
LEMMA SolveSound ==
    ASSUME NEW goal, NEW C, NEW rs
    PROVE  LET result == Solve(goal, C, rs)
           IN /\ result.vars \in [C -> Nat]
              /\ result.status = OPTIMAL => Feasible(C, rs, result.vars)
BY DEF Solve, Feasible, OPTIMAL, NO_OPTIMUM

-----------------------------------------------------------------------------
(* The rows are rows over the columns of the function.                     *)

(* A row over two columns is a row.                                        *)
LEMMA RowType ==
    ASSUME NEW f, NEW c \in Cols(f), NEW d \in Cols(f) \cup {Zero},
           NEW op \in {"GE", "LE", "EQ"}, NEW n \in Int
    PROVE  Row(c, d, op, n) \in RowsOver(Cols(f))
BY DEF Row, RowsOver

(* A function over an initial interval is a sequence.                      *)
LEMMA IntervalSequence ==
    ASSUME NEW R, NEW n \in Nat, NEW g \in [1..n -> R]
    PROVE  g \in Seq(R) /\ Len(g) = n
OBVIOUS

(* addMulticycleConstraints adds rows, among them that of a memory access. *)
LEMMA MulticycleRowsType ==
    ASSUME NEW f, NEW i \in Instrs(f)
    PROVE  /\ MulticycleRows(f, i) \in Seq(RowsOver(Cols(f)))
           /\ Cycles(f, i) = 1 =>
                 \E k \in 1..Len(MulticycleRows(f, i)) :
                    MulticycleRows(f, i)[k] = Row(<<i, 1>>, <<i, 0>>, "EQ", 1)
<1> DEFINE C == Cycles(f, i)
           R == RowsOver(Cols(f))
           M == MulticycleRows(f, i)
<1>1. C \in {0, 1}
  BY CyclesRange
<1>2. M = [k \in 1..C |-> Row(<<i, k>>, <<i, k - 1>>, "EQ", 1)]
  BY DEF MulticycleRows
<1>3. C = 1 => Row(<<i, 1>>, <<i, 0>>, "EQ", 1) \in R
  <2>1. C = 1 => <<i, 1>> \in Cols(f) /\ <<i, 0>> \in Cols(f)
    BY ColumnsOf DEF First, End
  <2> QED BY <2>1, RowType
<1>4. \A k \in 1..C : M[k] \in R /\ (C = 1 => M[k] = Row(<<i, 1>>, <<i, 0>>, "EQ", 1))
  <2> SUFFICES ASSUME NEW k \in 1..C
               PROVE  M[k] \in R /\ (C = 1 => M[k] = Row(<<i, 1>>, <<i, 0>>, "EQ", 1))
    OBVIOUS
  <2>1. C = 1 /\ k = 1
    BY <1>1
  <2>2. M[k] = Row(<<i, k>>, <<i, k - 1>>, "EQ", 1)
    BY <1>2
  <2>3. <<i, k>> = <<i, 1>> /\ <<i, k - 1>> = <<i, 0>>
    BY <2>1
  <2> QED BY <1>3, <2>1, <2>2, <2>3
<1> HIDE DEF C, R, M
<1>5. M \in Seq(R) /\ Len(M) = C
  BY <1>1, <1>2, <1>4
<1> QED BY <1>1, <1>4, <1>5 DEF C, R, M

(* addDependencyConstraints adds rows, among them one per dependency.      *)
LEMMA DependencyRowsType ==
    ASSUME NEW f, IsFunction(f, Opcodes, Widths), NEW i \in Instrs(f)
    PROVE  LET D == DependencyRows(f, i)
           IN /\ D \in Seq(RowsOver(Cols(f))) /\ Len(D) # 0
              /\ \A d \in f.deps[i] : \E k \in 1..Len(D) : D[k] = DependencyRow(f, i, d)
              /\ \A d \in f.mem[i] : \E k \in 1..Len(D) : D[k] = MemoryRow(f, i, d)
<1> DEFINE R == RowsOver(Cols(f))
           p == SetToSeq(f.deps[i])
           q == SetToSeq(f.mem[i])
           A == <<StartRow(i)>>
           P == [k \in DOMAIN p |-> DependencyRow(f, i, p[k])]
           Q == [k \in DOMAIN q |-> MemoryRow(f, i, q[k])]
<1>1. f.deps[i] \in SUBSET Instrs(f) /\ f.mem[i] \in SUBSET Instrs(f) /\ IsFiniteSet(Instrs(f))
  BY FunctionShape
<1>2. IsFiniteSet(f.deps[i]) /\ IsFiniteSet(f.mem[i])
  BY <1>1, FS_Subset
<1>3. /\ p \in Seq(f.deps[i])
      /\ \A d \in f.deps[i] : \E k \in DOMAIN p : p[k] = d
      /\ q \in Seq(f.mem[i])
      /\ \A d \in f.mem[i] : \E k \in DOMAIN q : q[k] = d
  BY <1>2, SetToSeqRange
<1> HIDE DEF p, q
<1>4. StartRow(i) \in R
  BY ColumnsOf DEF StartRow, Row, RowsOver
<1>5. \A d \in Instrs(f) : DependencyRow(f, i, d) \in R /\ MemoryRow(f, i, d) \in R
  BY ColumnsOf, RowType DEF DependencyRow, MemoryRow
<1> HIDE DEF R
<1>6. A \in Seq(R) /\ Len(A) = 1
  BY <1>4
<1>7. P \in Seq(R) /\ Len(P) = Len(p) /\ \A k \in 1..Len(p) : P[k] = DependencyRow(f, i, p[k])
  <2>1. DOMAIN p = 1..Len(p) /\ Len(p) \in Nat
    BY <1>3
  <2>2. \A k \in 1..Len(p) : p[k] \in Instrs(f)
    BY <1>1, <1>3
  <2>3. P \in [1..Len(p) -> R]
    BY <1>5, <2>1, <2>2
  <2> QED BY <2>1, <2>3, IntervalSequence
<1>8. Q \in Seq(R) /\ Len(Q) = Len(q) /\ \A k \in 1..Len(q) : Q[k] = MemoryRow(f, i, q[k])
  <2>1. DOMAIN q = 1..Len(q) /\ Len(q) \in Nat
    BY <1>3
  <2>2. \A k \in 1..Len(q) : q[k] \in Instrs(f)
    BY <1>1, <1>3
  <2>3. Q \in [1..Len(q) -> R]
    BY <1>5, <2>1, <2>2
  <2> QED BY <2>1, <2>3, IntervalSequence
<1>9. DependencyRows(f, i) = A \o P \o Q
  BY DEF DependencyRows, p, q
<1> HIDE DEF A, P, Q
<1> DEFINE D == A \o P \o Q
<1>10. /\ A \o P \in Seq(R) /\ Len(A \o P) = 1 + Len(p)
       /\ \A k \in 1..Len(p) : (A \o P)[1 + k] = P[k]
  <2>1. A \in Seq(R) /\ P \in Seq(R)
    BY <1>6, <1>7
  <2>2. /\ A \o P \in Seq(R)
        /\ Len(A \o P) = Len(A) + Len(P)
        /\ \A k \in 1..Len(P) : (A \o P)[Len(A) + k] = P[k]
    BY <2>1
  <2> QED BY <1>6, <1>7, <2>2
<1>11. /\ D \in Seq(R) /\ Len(D) = 1 + Len(p) + Len(q)
       /\ \A k \in 1..(1 + Len(p)) : D[k] = (A \o P)[k]
       /\ \A k \in 1..Len(q) : D[1 + Len(p) + k] = Q[k]
  <2> DEFINE T == A \o P
  <2>1. T \in Seq(R) /\ Len(T) = 1 + Len(p) /\ D = T \o Q
    BY <1>10
  <2> HIDE DEF T, D
  <2>2. /\ T \o Q \in Seq(R)
        /\ Len(T \o Q) = Len(T) + Len(Q)
        /\ \A k \in 1..Len(T) : (T \o Q)[k] = T[k]
        /\ \A k \in 1..Len(Q) : (T \o Q)[Len(T) + k] = Q[k]
    <3>1. T \in Seq(R) /\ Q \in Seq(R)
      BY <1>8, <2>1
    <3> QED BY <3>1
  <2> QED BY <1>8, <2>1, <2>2 DEF T
<1>12. Len(p) \in Nat /\ Len(q) \in Nat
  BY <1>3
<1> HIDE DEF D
<1>13. \A d \in f.deps[i] : \E k \in 1..Len(D) : D[k] = DependencyRow(f, i, d)
  <2> SUFFICES ASSUME NEW d \in f.deps[i]
               PROVE  \E k \in 1..Len(D) : D[k] = DependencyRow(f, i, d)
    OBVIOUS
  <2>1. PICK k \in 1..Len(p) : p[k] = d
    BY <1>3
  <2>2. 1 + k \in 1..Len(D) /\ 1 + k \in 1..(1 + Len(p))
    BY <1>11, <1>12
  <2>3. D[1 + k] = DependencyRow(f, i, p[k])
    BY <1>7, <1>10, <1>11, <2>2
  <2> QED BY <2>1, <2>2, <2>3
<1>14. \A d \in f.mem[i] : \E k \in 1..Len(D) : D[k] = MemoryRow(f, i, d)
  <2> SUFFICES ASSUME NEW d \in f.mem[i]
               PROVE  \E k \in 1..Len(D) : D[k] = MemoryRow(f, i, d)
    OBVIOUS
  <2>1. PICK k \in 1..Len(q) : q[k] = d
    BY <1>3
  <2>2. 1 + Len(p) + k \in 1..Len(D)
    BY <1>11, <1>12
  <2>3. D[1 + Len(p) + k] = MemoryRow(f, i, q[k])
    BY <1>8, <1>11
  <2> QED BY <2>1, <2>2, <2>3
<1>15. Len(D) # 0
  BY <1>11, <1>12
<1> QED BY <1>9, <1>11, <1>13, <1>14, <1>15 DEF D, R

(* addAlapConstraints adds rows.                                           *)
LEMMA AlapRowsType ==
    ASSUME NEW f, IsFunction(f, Opcodes, Widths), NEW x \in [Cols(f) -> Nat]
    PROVE  [i \in Instrs(f) |-> AlapRow(f, x, i)] \in Seq(RowsOver(Cols(f)))
<1>1. ASSUME NEW i \in Instrs(f)
      PROVE  AlapRow(f, x, i) \in RowsOver(Cols(f))
  <2>1. f.bb[i] \in Blocks(f)
    BY FunctionShape
  <2>2. LastEnd(f, x, f.bb[i]) \in Int /\ Cycles(f, i) \in Int
    BY <2>1, LastEndType, CyclesRange
  <2>3. End(f, i) \in Cols(f)
    BY ColumnsOf
  <2> QED BY <2>2, <2>3, RowType DEF AlapRow
<1>2. Len(f.op) \in Nat /\ Instrs(f) = 1..Len(f.op)
  BY FunctionShape
<1> QED BY <1>1, <1>2

(* addResourseConstraint adds rows, whatever the limit of the unit.        *)
LEMMA ResourceRowsType ==
    ASSUME NEW f, NEW x, NEW op, IsFunction(f, Opcodes, Widths),
           NEW q \in SortedByAlap(f, x, op), NEW unit
    PROVE  ResourceRows(q, FuLimit(unit)) \in Seq(RowsOver(Cols(f)))
<1> DEFINE n == Len(q) - FuLimit(unit)
           R == RowsOver(Cols(f))
           S == Constrained(f, op)
<1>1. IsFiniteSet(S)
  <2>1. S \in SUBSET Instrs(f) /\ IsFiniteSet(Instrs(f))
    BY FunctionShape DEF Constrained, BlockInstrs
  <2> QED BY <2>1, FS_Subset
<1>2. q \in [1..Cardinality(S) -> S] /\ Cardinality(S) \in Nat
  BY <1>1, FS_CardinalityType DEF SortedByAlap, SetToSeqs
<1>3. \A k \in 1..Len(q) : q[k] \in Instrs(f)
  BY <1>2 DEF Constrained, BlockInstrs
<1>4. FuLimit(unit) \in 1..2 /\ Len(q) \in Nat
  BY <1>2 DEF FuLimit
<1>5. \A k \in 1..n : Row(First(q[k + FuLimit(unit)]), First(q[k]), "GE", 1) \in R
  <2> SUFFICES ASSUME NEW k \in 1..n
               PROVE  Row(First(q[k + FuLimit(unit)]), First(q[k]), "GE", 1) \in R
    OBVIOUS
  <2>1. k \in 1..Len(q) /\ k + FuLimit(unit) \in 1..Len(q)
    BY <1>4
  <2>2. First(q[k]) \in Cols(f) /\ First(q[k + FuLimit(unit)]) \in Cols(f)
    BY <1>3, <2>1, ColumnsOf
  <2> QED BY <2>2, RowType
<1>6. ResourceRows(q, FuLimit(unit))
        = [k \in 1..n |-> Row(First(q[k + FuLimit(unit)]), First(q[k]), "GE", 1)]
  BY DEF ResourceRows
<1>7. \E m \in Nat : 1..n = 1..m
  <2>1. CASE n >= 0
    BY <1>4, <2>1
  <2>2. CASE n < 0
    <3>1. 1..n = 1..0
      BY <1>4, <2>2
    <3> QED BY <3>1
  <2> QED BY <1>4, <2>1, <2>2
<1> HIDE DEF n, R
<1>8. PICK m \in Nat : 1..n = 1..m
  BY <1>7
<1>9. ResourceRows(q, FuLimit(unit)) \in [1..m -> R]
  BY <1>5, <1>6, <1>8
<1> QED BY <1>9, IntervalSequence DEF R


-----------------------------------------------------------------------------
(* Init establishes the invariant, and every action preserves it.          *)

(* The invariant holds before the first method.                            *)
LEMMA InvariantInit == Init => IInv
<1> SUFFICES ASSUME Init PROVE IInv
  OBVIOUS
<1> USE DEF Init
<1>1. IsFunction(func, Opcodes, Widths)
  BY FunctionsAssumption
<1>2. Len(func.op) \in Nat \ {0} /\ Instrs(func) = 1..Len(func.op)
  BY <1>1, FunctionShape
<1>3. TypeOK
  BY <1>1 DEF TypeOK, Steps
<1>4. CursorOK
  BY <1>2 DEF CursorOK, OverInstrs
<1>5. RowsPresent
  BY <1>2 DEF RowsPresent, Kept, MulticycleAdded, DependenciesAdded
<1>6. Solved /\ Mapped
  BY DEF Solved, Mapped, Passed
<1> QED BY <1>3, <1>4, <1>5, <1>6 DEF IInv

(* Rows that stay where they are stay present. *)
LEMMA KeptRows ==
    ASSUME Kept \in Nat, Kept' \in Nat, Kept <= Kept', func' = func,
           \A k \in 1..Kept : rows'[k] = rows[k],
           NEW i
    PROVE  /\ MulticyclePresent(i) => MulticyclePresent(i)'
           /\ DependenciesPresent(i) => DependenciesPresent(i)'
<1>1. ASSUME NEW r, Among(rows, r, Kept)
      PROVE  Among(rows', r, Kept')
  <2>1. PICK k \in 1..Kept : rows[k] = r
    BY <1>1 DEF Among
  <2>2. k \in 1..Kept' /\ rows'[k] = r
    BY <2>1
  <2> QED BY <2>2 DEF Among
<1> QED BY <1>1 DEF MulticyclePresent, DependenciesPresent

(* The steps before the last solve are no part of the last two conjuncts. *)
LEMMA BeforeMapping ==
    ASSUME pc' \notin {"mapSchedule", "done"}
    PROVE  Solved' /\ Mapped'
BY DEF Solved, Mapped, Passed

(* addMulticycleConstraints preserves the invariant.                       *)
LEMMA addMulticycleConstraintsInvariant ==
    IInv /\ addMulticycleConstraints => IInv'
<1> SUFFICES ASSUME IInv, addMulticycleConstraints PROVE IInv'
  OBVIOUS
<1> DEFINE M == MulticycleRows(func, cursor)
           R == RowsOver(Cols(func))
<1>1. /\ pc = "addMulticycleConstraints" /\ cursor \in Instrs(func)
      /\ IsFunction(func, Opcodes, Widths) /\ rows \in Seq(R)
      /\ rows' = rows \o M /\ func' = func
  BY DEF IInv, TypeOK, CursorOK, OverInstrs, addMulticycleConstraints
<1>2. /\ Len(func.op) \in Nat \ {0} /\ Instrs(func) = 1..Len(func.op)
  BY <1>1, FunctionShape
<1>3. /\ M \in Seq(R)
      /\ Cycles(func, cursor) = 1 =>
           \E k \in 1..Len(M) : M[k] = Row(<<cursor, 1>>, <<cursor, 0>>, "EQ", 1)
  BY <1>1, MulticycleRowsType
<1>4. IF cursor < Len(func.op)
      THEN cursor' = cursor + 1 /\ pc' = pc
      ELSE cursor' = 1 /\ pc' = "addDependencyConstraints"
  BY DEF addMulticycleConstraints, Advance
<1> HIDE DEF M, R
<1>5. /\ rows' \in Seq(R) /\ Len(rows') = Len(rows) + Len(M)
      /\ \A k \in 1..Len(rows) : rows'[k] = rows[k]
      /\ \A k \in 1..Len(M) : rows'[Len(rows) + k] = M[k]
      /\ Len(rows) \in Nat /\ Len(M) \in Nat
  BY <1>1, <1>3
<1>6. TypeOK'
  BY <1>1, <1>2, <1>4, <1>5 DEF IInv, TypeOK, Steps, addMulticycleConstraints, R
<1>7. CursorOK'
  BY <1>1, <1>2, <1>4 DEF CursorOK, OverInstrs
<1>8. RowsPresent'
  <2>1. Kept = Len(rows) /\ Kept' = Len(rows')
    BY <1>1, <1>4 DEF Kept
  <2>2. ASSUME NEW i \in Instrs(func), MulticycleAdded(i)' PROVE MulticyclePresent(i)'
    <3>1. CASE i < cursor
      <4>1. MulticyclePresent(i)
        BY <1>1, <3>1 DEF IInv, RowsPresent, MulticycleAdded
      <4> QED BY <4>1, <2>1, <1>1, <1>5, KeptRows
    <3>2. CASE i = cursor
      <4> SUFFICES ASSUME Cycles(func, i) = 1
                   PROVE  Among(rows', Row(<<i, 1>>, <<i, 0>>, "EQ", 1), Kept')
        BY <1>1 DEF MulticyclePresent
      <4>1. PICK k \in 1..Len(M) : M[k] = Row(<<i, 1>>, <<i, 0>>, "EQ", 1)
        BY <1>3, <3>2
      <4>2. Len(rows) + k \in 1..Len(rows')
        BY <1>5
      <4> QED BY <1>5, <2>1, <4>1, <4>2 DEF Among
    <3>3. i <= cursor
      BY <1>1, <1>2, <1>4, <2>2 DEF MulticycleAdded
    <3> QED BY <1>1, <1>2, <3>1, <3>2, <3>3
  <2>3. ASSUME NEW i \in Instrs(func) PROVE ~DependenciesAdded(i)'
    BY <1>1, <1>2, <1>4 DEF DependenciesAdded
  <2> QED BY <1>1, <1>5, <2>1, <2>2, <2>3 DEF RowsPresent
<1>9. Solved' /\ Mapped'
  BY <1>1, <1>4, BeforeMapping
<1> QED BY <1>6, <1>7, <1>8, <1>9 DEF IInv

(* addDependencyConstraints preserves the invariant.                       *)
LEMMA addDependencyConstraintsInvariant ==
    IInv /\ addDependencyConstraints => IInv'
<1> SUFFICES ASSUME IInv, addDependencyConstraints PROVE IInv'
  OBVIOUS
<1> DEFINE D == DependencyRows(func, cursor)
           R == RowsOver(Cols(func))
<1>1. /\ pc = "addDependencyConstraints" /\ cursor \in Instrs(func)
      /\ IsFunction(func, Opcodes, Widths) /\ rows \in Seq(R)
      /\ rows' = rows \o D /\ func' = func
  BY DEF IInv, TypeOK, CursorOK, OverInstrs, addDependencyConstraints
<1>2. Len(func.op) \in Nat \ {0} /\ Instrs(func) = 1..Len(func.op)
  BY <1>1, FunctionShape
<1>3. /\ D \in Seq(R)
      /\ \A d \in func.deps[cursor] : \E k \in 1..Len(D) : D[k] = DependencyRow(func, cursor, d)
      /\ \A d \in func.mem[cursor] : \E k \in 1..Len(D) : D[k] = MemoryRow(func, cursor, d)
  BY <1>1, DependencyRowsType
<1>4. IF cursor < Len(func.op)
      THEN cursor' = cursor + 1 /\ pc' = pc
      ELSE cursor' = 1 /\ pc' = "scheduleAsap"
  BY DEF addDependencyConstraints, Advance
<1> HIDE DEF D, R
<1>5. /\ rows' \in Seq(R) /\ Len(rows') = Len(rows) + Len(D)
      /\ \A k \in 1..Len(rows) : rows'[k] = rows[k]
      /\ \A k \in 1..Len(D) : rows'[Len(rows) + k] = D[k]
      /\ Len(rows) \in Nat /\ Len(D) \in Nat
  BY <1>1, <1>3
<1>6. TypeOK'
  BY <1>1, <1>2, <1>4, <1>5 DEF IInv, TypeOK, Steps, addDependencyConstraints, R
<1>7. CursorOK'
  BY <1>1, <1>2, <1>4 DEF CursorOK, OverInstrs
<1>8. RowsPresent'
  <2>1. Kept = Len(rows) /\ Kept' = Len(rows')
    BY <1>1, <1>4 DEF Kept
  <2>2. ASSUME NEW i \in Instrs(func) PROVE MulticyclePresent(i)'
    <3>1. MulticyclePresent(i)
      BY <1>1 DEF IInv, RowsPresent, MulticycleAdded
    <3> QED BY <3>1, <2>1, <1>1, <1>5, KeptRows
  <2>3. ASSUME NEW i \in Instrs(func), DependenciesAdded(i)' PROVE DependenciesPresent(i)'
    <3>1. CASE i < cursor
      <4>1. DependenciesPresent(i)
        BY <1>1, <3>1 DEF IInv, RowsPresent, DependenciesAdded
      <4> QED BY <4>1, <2>1, <1>1, <1>5, KeptRows
    <3>2. CASE i = cursor
      <4>1. \A k \in 1..Len(D) : Len(rows) + k \in 1..Kept' /\ rows'[Len(rows) + k] = D[k]
        BY <1>5, <2>1
      <4>2. \A d \in func.deps[i] : Among(rows', DependencyRow(func, i, d), Kept')
        BY <1>3, <3>2, <4>1 DEF Among
      <4>3. \A d \in func.mem[i] : Among(rows', MemoryRow(func, i, d), Kept')
        BY <1>3, <3>2, <4>1 DEF Among
      <4> QED BY <1>1, <4>2, <4>3 DEF DependenciesPresent
    <3>3. i <= cursor
      BY <1>1, <1>2, <1>4, <2>3 DEF DependenciesAdded
    <3> QED BY <1>1, <1>2, <3>1, <3>2, <3>3
  <2> QED BY <1>1, <1>5, <2>1, <2>2, <2>3 DEF RowsPresent
<1>9. Solved' /\ Mapped'
  BY <1>1, <1>4, BeforeMapping
<1> QED BY <1>6, <1>7, <1>8, <1>9 DEF IInv

(* A successful solve of the first two does not touch the rows. *)
LEMMA solveInvariant ==
    IInv /\ (scheduleAsap \/ scheduleAlap) => IInv'
<1> SUFFICES ASSUME IInv, scheduleAsap \/ scheduleAlap PROVE IInv'
  OBVIOUS
<1>1. /\ pc \in {"scheduleAsap", "scheduleAlap"} /\ cursor = 1
      /\ UNCHANGED <<func, cursor, rows, nAsap, seen, start, statesNum>>
      /\ pc = "scheduleAsap" => pc' \in {"addAlapConstraints", "fatal"}
      /\ pc = "scheduleAlap" => pc' \in {"deleteAlapConstraints", "fatal"}
  BY DEF IInv, CursorOK, OverInstrs, scheduleAsap, scheduleAlap, scheduleAxap
<1>2. sol' \in [Cols(func) -> Nat]
  <2>1. \A goal : Solve(goal, Cols(func), rows).vars \in [Cols(func) -> Nat]
    BY SolveSound
  <2> QED BY <2>1 DEF scheduleAsap, scheduleAlap, scheduleAxap
<1>3. TypeOK'
  BY <1>1, <1>2 DEF IInv, TypeOK, Steps
<1>4. CursorOK'
  BY <1>1 DEF CursorOK, OverInstrs
<1>5. RowsPresent'
  <2>1. Kept \in Nat /\ Kept' \in Nat /\ Kept <= Kept' /\ Kept' <= Len(rows)
    BY <1>1 DEF IInv, TypeOK, RowsPresent, Kept
  <2>2. ASSUME NEW i \in Instrs(func) PROVE MulticyclePresent(i)' /\ DependenciesPresent(i)'
    <3>1. MulticyclePresent(i) /\ DependenciesPresent(i)
      BY <1>1 DEF IInv, RowsPresent, MulticycleAdded, DependenciesAdded
    <3> QED BY <1>1, <2>1, <3>1, KeptRows
  <2> QED BY <1>1, <2>1, <2>2 DEF RowsPresent
<1>6. Solved' /\ Mapped'
  BY <1>1, BeforeMapping
<1> QED BY <1>3, <1>4, <1>5, <1>6 DEF IInv

(* addAlapConstraints preserves the invariant: it only appends.            *)
LEMMA addAlapConstraintsInvariant ==
    IInv /\ addAlapConstraints => IInv'
<1> SUFFICES ASSUME IInv, addAlapConstraints PROVE IInv'
  OBVIOUS
<1> DEFINE A == [i \in Instrs(func) |-> AlapRow(func, sol, i)]
           R == RowsOver(Cols(func))
<1>1. /\ pc = "addAlapConstraints" /\ pc' = "scheduleAlap" /\ cursor = 1
      /\ IsFunction(func, Opcodes, Widths) /\ rows \in Seq(R) /\ sol \in [Cols(func) -> Nat]
      /\ rows' = rows \o A /\ nAsap' = Len(rows)
      /\ UNCHANGED <<func, cursor, sol, seen, start, statesNum>>
  BY DEF IInv, TypeOK, CursorOK, OverInstrs, addAlapConstraints
<1>2. A \in Seq(R)
  BY <1>1, AlapRowsType
<1> HIDE DEF A, R
<1>3. /\ rows' \in Seq(R) /\ Len(rows') = Len(rows) + Len(A)
      /\ \A k \in 1..Len(rows) : rows'[k] = rows[k]
      /\ Len(rows) \in Nat /\ Len(A) \in Nat
  BY <1>1, <1>2
<1>4. TypeOK'
  BY <1>1, <1>3 DEF IInv, TypeOK, Steps, R
<1>5. CursorOK'
  BY <1>1 DEF CursorOK, OverInstrs
<1>6. RowsPresent'
  <2>1. Kept = Len(rows) /\ Kept' = Len(rows)
    BY <1>1 DEF Kept
  <2>2. ASSUME NEW i \in Instrs(func) PROVE MulticyclePresent(i)' /\ DependenciesPresent(i)'
    <3>1. MulticyclePresent(i) /\ DependenciesPresent(i)
      BY <1>1 DEF IInv, RowsPresent, MulticycleAdded, DependenciesAdded
    <3> QED BY <1>1, <1>3, <2>1, <3>1, KeptRows
  <2> QED BY <1>1, <1>3, <2>1, <2>2 DEF RowsPresent
<1>7. Solved' /\ Mapped'
  BY <1>1, BeforeMapping
<1> QED BY <1>4, <1>5, <1>6, <1>7 DEF IInv

(* deleteAlapConstraints preserves it: no kept row is deleted.             *)
LEMMA deleteAlapConstraintsInvariant ==
    IInv /\ deleteAlapConstraints => IInv'
<1> SUFFICES ASSUME IInv, deleteAlapConstraints PROVE IInv'
  OBVIOUS
<1> DEFINE R == RowsOver(Cols(func))
<1>1. /\ pc = "deleteAlapConstraints" /\ pc' = "addResourseConstraint" /\ cursor = 1
      /\ IsFunction(func, Opcodes, Widths) /\ rows \in Seq(R)
      /\ nAsap \in Nat /\ nAsap <= Len(rows) /\ rows' = SubSeq(rows, 1, nAsap)
      /\ UNCHANGED <<func, cursor, nAsap, sol, seen, start, statesNum>>
  BY DEF IInv, TypeOK, CursorOK, OverInstrs, RowsPresent, Kept, deleteAlapConstraints
<1> HIDE DEF R
<1>2. /\ rows' \in Seq(R) /\ Len(rows') = nAsap
      /\ \A k \in 1..nAsap : rows'[k] = rows[k]
  BY <1>1
<1>3. TypeOK'
  BY <1>1, <1>2 DEF IInv, TypeOK, Steps, R
<1>4. CursorOK'
  <2>1. 1 \in Instrs(func)
    BY <1>1, FunctionShape
  <2> QED BY <1>1, <2>1 DEF CursorOK, OverInstrs
<1>5. RowsPresent'
  <2>1. Kept = nAsap /\ Kept' = nAsap
    BY <1>1, <1>2 DEF Kept
  <2>2. ASSUME NEW i \in Instrs(func) PROVE MulticyclePresent(i)' /\ DependenciesPresent(i)'
    <3>1. MulticyclePresent(i) /\ DependenciesPresent(i)
      BY <1>1 DEF IInv, RowsPresent, MulticycleAdded, DependenciesAdded
    <3> QED BY <1>1, <1>2, <2>1, <3>1, KeptRows
  <2> QED BY <1>1, <1>2, <2>1, <2>2 DEF RowsPresent
<1>6. Solved' /\ Mapped'
  BY <1>1, BeforeMapping
<1> QED BY <1>3, <1>4, <1>5, <1>6 DEF IInv

(* addResourseConstraint appends rows, or none. *)
LEMMA ResourceRowsAppended ==
    ASSUME IInv, addResourseConstraint
    PROVE  \E e \in Seq(RowsOver(Cols(func))) : rows' = rows \o e
<1> DEFINE R == RowsOver(Cols(func))
<1>1. IsFunction(func, Opcodes, Widths) /\ rows \in Seq(R)
  BY DEF IInv, TypeOK
<1>2. CASE rows' = rows
  <2>1. << >> \in Seq(R) /\ rows' = rows \o << >>
    BY <1>1, <1>2
  <2> QED BY <2>1
<1>3. CASE rows' # rows
  <2>1. PICK q \in SortedByAlap(func, sol, func.op[cursor]) :
           rows' = rows \o ResourceRows(q, FuLimit(UnitOf(func, cursor)))
    BY <1>3 DEF addResourseConstraint
  <2>2. ResourceRows(q, FuLimit(UnitOf(func, cursor))) \in Seq(R)
    BY <1>1, ResourceRowsType
  <2> QED BY <2>1, <2>2
<1> QED BY <1>2, <1>3

(* addResourseConstraint preserves the invariant: it only appends.         *)
LEMMA addResourseConstraintInvariant ==
    IInv /\ addResourseConstraint => IInv'
<1> SUFFICES ASSUME IInv, addResourseConstraint PROVE IInv'
  OBVIOUS
<1> DEFINE R == RowsOver(Cols(func))
<1>1. /\ pc = "addResourseConstraint" /\ cursor \in Instrs(func)
      /\ IsFunction(func, Opcodes, Widths) /\ rows \in Seq(R)
      /\ seen' = seen \cup {func.op[cursor]}
      /\ UNCHANGED <<func, nAsap, sol, start, statesNum>>
      /\ IF cursor < Len(func.op)
         THEN cursor' = cursor + 1 /\ pc' = pc
         ELSE cursor' = 1 /\ pc' = "scheduleResourseConstrained"
  BY DEF IInv, TypeOK, CursorOK, OverInstrs, addResourseConstraint, Advance
<1>2. \E e \in Seq(R) : rows' = rows \o e
  BY ResourceRowsAppended
<1> HIDE DEF R
<1>3. PICK e \in Seq(R) : rows' = rows \o e
  BY <1>2
<1>4. /\ rows' \in Seq(R) /\ Len(rows') = Len(rows) + Len(e)
      /\ \A k \in 1..Len(rows) : rows'[k] = rows[k]
      /\ Len(rows) \in Nat /\ Len(e) \in Nat
  BY <1>1, <1>3
<1>5. Len(func.op) \in Nat \ {0} /\ Instrs(func) = 1..Len(func.op)
  BY <1>1, FunctionShape
<1>6. TypeOK'
  <2>1. func.op[cursor] \in Opcodes
    BY <1>1 DEF IsFunction, WellTyped, Instrs
  <2>2. seen' \subseteq Opcodes /\ cursor' \in Nat
    BY <1>1, <1>5, <2>1 DEF IInv, TypeOK
  <2> QED BY <1>1, <1>4, <2>2 DEF IInv, TypeOK, Steps, R
<1>7. CursorOK'
  BY <1>1, <1>5 DEF CursorOK, OverInstrs
<1>8. RowsPresent'
  <2>1. Kept = Len(rows) /\ Kept' = Len(rows')
    BY <1>1 DEF Kept
  <2>2. ASSUME NEW i \in Instrs(func) PROVE MulticyclePresent(i)' /\ DependenciesPresent(i)'
    <3>1. MulticyclePresent(i) /\ DependenciesPresent(i)
      BY <1>1 DEF IInv, RowsPresent, MulticycleAdded, DependenciesAdded
    <3> QED BY <1>1, <1>4, <2>1, <3>1, KeptRows
  <2> QED BY <1>1, <1>4, <2>1, <2>2 DEF RowsPresent
<1>9. Solved' /\ Mapped'
  BY <1>1, BeforeMapping
<1> QED BY <1>6, <1>7, <1>8, <1>9 DEF IInv

(* Columns that satisfy every row respect the dependencies, when the rows  *)
(* of the dependencies are there.                                          *)
LEMMA FeasibleRespects ==
    ASSUME NEW x \in [Cols(func) -> Nat], Feasible(Cols(func), rows, x),
           IsFunction(func, Opcodes, Widths), rows \in Seq(RowsOver(Cols(func))),
           Kept \in Nat, Kept <= Len(rows),
           \A i \in Instrs(func) : MulticyclePresent(i) /\ DependenciesPresent(i)
    PROVE  Respects(x)
<1>1. ASSUME NEW r, Among(rows, r, Kept) PROVE Holds(x, r)
  <2>1. PICK k \in 1..Kept : rows[k] = r
    BY <1>1 DEF Among
  <2>2. k \in DOMAIN rows
    OBVIOUS
  <2> QED BY <2>1, <2>2 DEF Feasible
<1>2. ASSUME NEW i \in Instrs(func)
      PROVE  First(i) # Zero /\ End(func, i) # Zero
  <2>1. i # 0
    BY FunctionShape
  <2> QED BY <2>1 DEF First, End, Zero
<1> SUFFICES ASSUME NEW i \in Instrs(func)
             PROVE  /\ x[End(func, i)] = x[First(i)] + Cycles(func, i)
                    /\ \A d \in func.deps[i] : x[First(i)] - x[End(func, d)] >= 1
                    /\ \A d \in func.mem[i] : x[First(i)] - x[End(func, d)] >= 0
  BY DEF Respects
<1>3. x[First(i)] \in Nat /\ x[End(func, i)] \in Nat
  BY ColumnsOf
<1>4. x[End(func, i)] = x[First(i)] + Cycles(func, i)
  <2>1. CASE Cycles(func, i) = 0
    <3>1. End(func, i) = First(i)
      BY <2>1 DEF End, First
    <3> QED BY <1>3, <2>1, <3>1
  <2>2. CASE Cycles(func, i) = 1
    <3>1. Holds(x, Row(<<i, 1>>, <<i, 0>>, "EQ", 1))
      BY <1>1, <2>2 DEF MulticyclePresent
    <3>2. End(func, i) = <<i, 1>> /\ First(i) = <<i, 0>>
      BY <2>2 DEF End, First
    <3>3. /\ Value(x, <<i, 1>>) - Value(x, <<i, 0>>) >= 1
          /\ Value(x, <<i, 1>>) - Value(x, <<i, 0>>) <= 1
      BY <3>1 DEF Holds, Row
    <3>4. Value(x, <<i, 1>>) = x[End(func, i)] /\ Value(x, <<i, 0>>) = x[First(i)]
      BY <1>2, <3>2 DEF Value
    <3> QED BY <1>3, <2>2, <3>3, <3>4
  <2> QED BY <2>1, <2>2, CyclesRange
<1>5. ASSUME NEW d \in func.deps[i] PROVE x[First(i)] - x[End(func, d)] >= 1
  <2>1. d \in Instrs(func)
    BY FunctionShape
  <2>2. Holds(x, DependencyRow(func, i, d))
    BY <1>1 DEF DependenciesPresent
  <2>3. Value(x, First(i)) - Value(x, End(func, d)) >= 1
    BY <2>2 DEF Holds, DependencyRow, Row
  <2> QED BY <1>2, <2>1, <2>3 DEF Value
<1>6. ASSUME NEW d \in func.mem[i] PROVE x[First(i)] - x[End(func, d)] >= 0
  <2>1. d \in Instrs(func)
    BY FunctionShape
  <2>2. Holds(x, MemoryRow(func, i, d))
    BY <1>1 DEF DependenciesPresent
  <2>3. Value(x, First(i)) - Value(x, End(func, d)) >= 0
    BY <2>2 DEF Holds, MemoryRow, Row
  <2> QED BY <1>2, <2>1, <2>3 DEF Value
<1> QED BY <1>4, <1>5, <1>6

(* The last solve makes the columns satisfy every kept row.                *)
LEMMA scheduleResourseConstrainedInvariant ==
    IInv /\ scheduleResourseConstrained => IInv'
<1> SUFFICES ASSUME IInv, scheduleResourseConstrained PROVE IInv'
  OBVIOUS
<1> DEFINE result == Solve("minim", Cols(func), rows)
<1>1. /\ pc = "scheduleResourseConstrained" /\ cursor = 1
      /\ IsFunction(func, Opcodes, Widths) /\ rows \in Seq(RowsOver(Cols(func)))
      /\ UNCHANGED <<func, cursor, rows, nAsap, seen, start, statesNum>>
      /\ sol' = result.vars
      /\ pc' = IF result.status = OPTIMAL THEN "mapSchedule" ELSE "fatal"
  BY DEF IInv, TypeOK, CursorOK, OverInstrs, scheduleResourseConstrained, scheduleAxap
<1>2. /\ sol' \in [Cols(func) -> Nat]
      /\ pc' = "mapSchedule" => Feasible(Cols(func), rows, sol')
  BY <1>1, SolveSound
<1> HIDE DEF result
<1>3. pc' \in {"mapSchedule", "fatal"}
  BY <1>1
<1>4. TypeOK'
  BY <1>1, <1>2, <1>3 DEF IInv, TypeOK, Steps
<1>5. CursorOK'
  <2>1. 1 \in Blocks(func)
    BY <1>1, FunctionShape
  <2> QED BY <1>1, <1>3, <2>1 DEF CursorOK, OverInstrs
<1>6. /\ Kept = Len(rows) /\ Kept' = Len(rows)
      /\ \A i \in Instrs(func) : MulticyclePresent(i) /\ DependenciesPresent(i)
  BY <1>1, <1>3 DEF IInv, RowsPresent, Kept, MulticycleAdded, DependenciesAdded
<1>7. RowsPresent'
  <2>1. Len(rows) \in Nat
    BY <1>1
  <2>2. ASSUME NEW i \in Instrs(func) PROVE MulticyclePresent(i)' /\ DependenciesPresent(i)'
    BY <1>1, <1>6, <2>1, KeptRows
  <2> QED BY <1>1, <1>6, <2>1, <2>2 DEF RowsPresent
<1>8. Solved'
  <2> SUFFICES ASSUME pc' = "mapSchedule" PROVE Respects(sol)'
    BY <1>3 DEF Solved
  <2>1. Len(rows) \in Nat
    BY <1>1
  <2>2. Respects(sol')
    BY <1>1, <1>2, <1>6, <2>1, FeasibleRespects
  <2> QED BY <1>1, <2>2 DEF Respects
<1>9. Mapped'
  <2>1. \A b \in Blocks(func) : ~(b < 1)
    BY <1>1, FunctionShape
  <2>2. \A i \in Instrs(func) : func.bb[i] \in Blocks(func)
    BY <1>1, FunctionShape
  <2> QED BY <1>1, <1>3, <2>1, <2>2 DEF Mapped, Passed
<1> QED BY <1>4, <1>5, <1>7, <1>8, <1>9 DEF IInv

(* mapSchedule preserves it: a block is mapped once, from the columns.     *)
LEMMA mapScheduleInvariant ==
    IInv /\ mapSchedule => IInv'
<1> SUFFICES ASSUME IInv, mapSchedule PROVE IInv'
  OBVIOUS
<1>1. /\ pc = "mapSchedule" /\ cursor \in Blocks(func)
      /\ IsFunction(func, Opcodes, Widths) /\ sol \in [Cols(func) -> Nat]
      /\ start \in [Instrs(func) -> Nat] /\ statesNum \in [Blocks(func) -> Nat]
      /\ start' = [i \in Instrs(func) |->
                     IF func.bb[i] = cursor THEN MappedState(func, sol, i) ELSE start[i]]
      /\ statesNum' = [statesNum EXCEPT ![cursor] = BlockStates(func, sol, cursor)]
      /\ UNCHANGED <<func, rows, nAsap, sol, seen>>
      /\ IF cursor < Len(func.succ)
         THEN cursor' = cursor + 1 /\ pc' = pc
         ELSE cursor' = 1 /\ pc' = "done"
  BY DEF IInv, TypeOK, CursorOK, OverInstrs, mapSchedule, Advance
<1>2. /\ Len(func.succ) \in Nat \ {0} /\ Blocks(func) = 1..Len(func.succ)
      /\ \A i \in Instrs(func) : func.bb[i] \in Blocks(func)
  BY <1>1, FunctionShape
<1>3. TypeOK'
  <2>1. \A i \in Instrs(func) : MappedState(func, sol, i) \in Nat
    BY <1>1, MappedStateType
  <2>2. BlockStates(func, sol, cursor) \in Nat
    BY <1>1, BlockStatesBound
  <2>3. start' \in [Instrs(func) -> Nat] /\ statesNum' \in [Blocks(func) -> Nat]
    BY <1>1, <2>1, <2>2
  <2> QED BY <1>1, <1>2, <2>3 DEF IInv, TypeOK, Steps
<1>4. CursorOK'
  BY <1>1, <1>2 DEF CursorOK, OverInstrs
<1>5. RowsPresent'
  <2>1. Kept = Len(rows) /\ Kept' = Len(rows) /\ Len(rows) \in Nat
    BY <1>1 DEF IInv, TypeOK, Kept
  <2>2. ASSUME NEW i \in Instrs(func) PROVE MulticyclePresent(i)' /\ DependenciesPresent(i)'
    <3>1. MulticyclePresent(i) /\ DependenciesPresent(i)
      BY <1>1 DEF IInv, RowsPresent, MulticycleAdded, DependenciesAdded
    <3> QED BY <1>1, <2>1, <3>1, KeptRows
  <2> QED BY <1>1, <2>1, <2>2 DEF RowsPresent
<1>6. Solved'
  <2>1. Respects(sol)
    BY <1>1 DEF IInv, Solved
  <2> QED BY <1>1, <2>1 DEF Solved, Respects
<1>7. \A b \in Blocks(func) : Passed(b)' => Passed(b) \/ b = cursor
  BY <1>1, <1>2 DEF Passed
<1>8. Mapped'
  <2>1. ASSUME NEW i \in Instrs(func), Passed(func.bb[i])'
        PROVE  start'[i] = MappedState(func, sol, i)
    <3>1. CASE func.bb[i] = cursor
      BY <1>1, <3>1
    <3>2. CASE func.bb[i] # cursor
      <4>1. Passed(func.bb[i])
        BY <1>1, <1>2, <1>7, <2>1, <3>2 DEF Passed
      <4>2. start[i] = MappedState(func, sol, i)
        BY <4>1 DEF IInv, Mapped
      <4> QED BY <1>1, <3>2, <4>2
    <3> QED BY <3>1, <3>2
  <2>2. ASSUME NEW b \in Blocks(func), Passed(b)'
        PROVE  statesNum'[b] = BlockStates(func, sol, b)
    <3>1. CASE b = cursor
      BY <1>1, <3>1
    <3>2. CASE b # cursor
      <4>1. statesNum[b] = BlockStates(func, sol, b)
        BY <1>7, <2>2, <3>2 DEF IInv, Mapped
      <4> QED BY <1>1, <3>2, <4>1
    <3> QED BY <3>1, <3>2
  <2> QED BY <1>1, <2>1, <2>2 DEF Mapped
<1> QED BY <1>3, <1>4, <1>5, <1>6, <1>8 DEF IInv

(* Every step preserves the invariant.                                     *)
LEMMA InvariantNext == IInv /\ [Next]_vars => IInv'
<1> SUFFICES ASSUME IInv, [Next]_vars PROVE IInv'
  OBVIOUS
<1>1. CASE UNCHANGED vars
  BY <1>1 DEF vars, IInv, TypeOK, CursorOK, RowsPresent, Solved, Mapped, Respects, Kept,
              MulticycleAdded, DependenciesAdded, MulticyclePresent, DependenciesPresent, Passed
<1>2. CASE Returned
  BY <1>1, <1>2 DEF Returned
<1> QED BY <1>1, <1>2, addMulticycleConstraintsInvariant, addDependencyConstraintsInvariant,
           solveInvariant, addAlapConstraintsInvariant, deleteAlapConstraintsInvariant,
           addResourseConstraintInvariant, scheduleResourseConstrainedInvariant,
           mapScheduleInvariant DEF Next

-----------------------------------------------------------------------------
(* The theorems.                                                           *)

(* The invariant holds throughout: no row a dependency needs is ever lost. *)
THEOREM Invariance == Spec => []IInv
BY InvariantInit, InvariantNext, PTL DEF Spec

(* The scheduler's data are always of their types: the loops stay within   *)
(* the instructions and the blocks, and no maximum is taken of nothing.    *)
THEOREM TypeCorrect == Spec => []TypeOK
<1>1. IInv => TypeOK
  BY DEF IInv
<1> QED BY <1>1, Invariance, PTL

(* What schedule() has computed when it returns is a schedule.             *)
LEMMA DoneIsSchedule == IInv /\ pc = "done" => IsSchedule(func, start, statesNum)
<1> SUFFICES ASSUME IInv, pc = "done" PROVE IsSchedule(func, start, statesNum)
  OBVIOUS
<1>1. /\ IsFunction(func, Opcodes, Widths) /\ sol \in [Cols(func) -> Nat]
      /\ start \in [Instrs(func) -> Nat] /\ statesNum \in [Blocks(func) -> Nat]
      /\ Respects(sol)
      /\ \A i \in Instrs(func) : start[i] = MappedState(func, sol, i)
      /\ \A b \in Blocks(func) : statesNum[b] = BlockStates(func, sol, b)
  BY DEF IInv, TypeOK, Solved, Mapped, Passed
<1>2. ASSUME NEW i \in Instrs(func)
      PROVE  /\ sol[First(i)] \in Nat
             /\ Cycles(func, i) \in Nat
             /\ statesNum[func.bb[i]] \in Nat
             /\ sol[First(i)] + Cycles(func, i) <= statesNum[func.bb[i]]
             /\ func.op[i] = "Ret" => start[i] = statesNum[func.bb[i]] /\ Cycles(func, i) = 0
             /\ func.op[i] # "Ret" => start[i] = sol[First(i)]
  <2>1. func.bb[i] \in Blocks(func) /\ i \in BlockInstrs(func, func.bb[i])
    BY <1>1, FunctionShape DEF BlockInstrs
  <2>2. /\ sol[First(i)] + Cycles(func, i) <= BlockStates(func, sol, func.bb[i])
        /\ BlockStates(func, sol, func.bb[i]) \in Nat
    BY <1>1, <2>1, BlockStatesBound
  <2>3. sol[First(i)] \in Nat /\ Cycles(func, i) \in Nat
    BY <1>1, ColumnsOf, CyclesRange
  <2>4. func.op[i] = "Ret" => Cycles(func, i) = 0
    BY DEF Cycles, MemoryOps
  <2> QED BY <1>1, <2>1, <2>2, <2>3, <2>4 DEF MappedState
<1>3. ASSUME NEW i \in Instrs(func)
      PROVE  start[i] >= sol[First(i)] /\ start[i] + Cycles(func, i) <= statesNum[func.bb[i]]
  BY <1>2
(* No instruction depends on a terminator. *)
<1>4. ASSUME NEW i \in Instrs(func), NEW d \in func.deps[i] \cup func.mem[i]
      PROVE  d \in Instrs(func) /\ start[d] + Cycles(func, d) = sol[End(func, d)]
  <2>1. d \in Instrs(func)
    BY <1>1, FunctionShape
  <2>2. func.op[d] # "Ret"
    BY <1>1, <2>1 DEF IsFunction, IsDominated, IsTerminator, Terminators
  <2>3. start[d] = sol[First(d)]
    BY <1>2, <2>1, <2>2
  <2> QED BY <1>1, <2>1, <2>3 DEF Respects
<1>5. ASSUME NEW i \in Instrs(func), NEW d \in func.deps[i] \cup func.mem[i]
      PROVE  sol[End(func, d)] \in Nat /\ start[i] \in Nat
  BY <1>1, <1>4, ColumnsOf
<1>6. RegistersReady(func, start)
  <2> SUFFICES ASSUME NEW i \in Instrs(func), NEW d \in func.deps[i]
               PROVE  start[d] + Cycles(func, d) < start[i]
    BY DEF RegistersReady
  <2>1. sol[First(i)] - sol[End(func, d)] >= 1
    BY <1>1 DEF Respects
  <2> QED BY <1>2, <1>3, <1>4, <1>5, <2>1
<1>7. MemoryOrdered(func, start)
  <2> SUFFICES ASSUME NEW i \in Instrs(func), NEW d \in func.mem[i]
               PROVE  start[d] + Cycles(func, d) <= start[i]
    BY DEF MemoryOrdered
  <2>1. sol[First(i)] - sol[End(func, d)] >= 0
    BY <1>1 DEF Respects
  <2> QED BY <1>2, <1>3, <1>4, <1>5, <2>1
<1>8. WithinBlock(func, start, statesNum)
  BY <1>2, <1>3 DEF WithinBlock
<1> QED BY <1>1, <1>6, <1>7, <1>8 DEF IsSchedule

(* Every run of the scheduler delivers a schedule, once: registers are     *)
(* written before the states that read them, accesses to one address keep  *)
(* their order, and every block lasts until its last instruction ended.    *)
THEOREM SchedulerImplementsSchedule == Spec => ImplementsSchedule
<1>1. Init => Promise!Init
  BY DEF Init, Promise!Init, Promise!Instrs, Promise!Blocks, Instrs, Blocks
<1>2. (IInv /\ pc = "done" => IsSchedule(func, start, statesNum))'
  BY DoneIsSchedule, PTL
<1>3. IInv' /\ [Next]_vars => [Promise!Next]_(Promise!vars)
  <2> SUFFICES ASSUME IInv', [Next]_vars PROVE [Promise!Next]_(Promise!vars)
    OBVIOUS
  <2>1. CASE UNCHANGED vars
    BY <2>1 DEF vars, Promise!vars
  <2>2. CASE Returned
    BY <2>1, <2>2 DEF Returned
  <2>3. CASE pc # "done" /\ func' = func /\ pc' # "done"
    BY <2>3 DEF Promise!vars
  <2>4. CASE pc # "done" /\ func' = func /\ pc' = "done"
    <3>1. IsSchedule(func', start', statesNum')
      BY <1>2, <2>4
    <3>2. Promise!IsSchedule(func, start', statesNum')
      BY <2>4, <3>1
         DEF IsSchedule, RegistersReady, MemoryOrdered, WithinBlock,
             Cycles, MemoryOps, Instrs, Blocks,
             Promise!IsSchedule, Promise!RegistersReady, Promise!MemoryOrdered,
             Promise!WithinBlock, Promise!Cycles, Promise!MemoryOps,
             Promise!Instrs, Promise!Blocks
    <3>3. Promise!Deliver
      BY <2>4, <3>2 DEF Promise!Deliver
    <3> QED BY <3>3 DEF Promise!Next
  <2>5. Next /\ ~Returned => pc # "done" /\ func' = func
    BY DEF Next, addMulticycleConstraints, addDependencyConstraints, scheduleAsap,
           addAlapConstraints, scheduleAlap, deleteAlapConstraints, addResourseConstraint,
           scheduleResourseConstrained, mapSchedule
  <2> QED BY <2>1, <2>2, <2>3, <2>4, <2>5
<1>4. IInv /\ [Next]_vars => IInv'
  BY InvariantNext
<1> QED BY <1>1, <1>3, <1>4, InvariantInit, PTL DEF Spec, ImplementsSchedule, Promise!Spec

-----------------------------------------------------------------------------
(* The rows are never fewer than the columns.                               *)

(* The columns that a row was added for: one for the first state of every   *)
(* instruction, and one for the last of those that take two.                *)
Covered ==
    {First(i) : i \in {j \in Instrs(func) : DependenciesAdded(j)}}
    \cup {End(func, i) : i \in {j \in Instrs(func) : MulticycleAdded(j) /\ Cycles(func, j) = 1}}

(* There are no fewer rows that stay. *)
RowsSuffice == IsFiniteSet(Covered) /\ Cardinality(Covered) <= Kept

(* Where a row is added for one column more, they still suffice. *)
LEMMA OneMoreColumn ==
    ASSUME NEW S, IsFiniteSet(S), NEW T, NEW x, T \subseteq S \cup {x}
    PROVE  /\ IsFiniteSet(T) /\ Cardinality(T) \in Nat /\ Cardinality(S) \in Nat
           /\ Cardinality(T) <= Cardinality(S) + 1
           /\ T \subseteq S => Cardinality(T) <= Cardinality(S)
<1>1. IsFiniteSet(S \cup {x}) /\ Cardinality(S \cup {x}) <= Cardinality(S) + 1
  <2>1. Cardinality(S \cup {x}) = IF x \in S THEN Cardinality(S) ELSE Cardinality(S) + 1
    BY FS_AddElement
  <2>2. Cardinality(S) \in Nat /\ IsFiniteSet(S \cup {x})
    BY FS_AddElement, FS_CardinalityType
  <2> QED BY <2>1, <2>2
<1>2. IsFiniteSet(T) /\ Cardinality(T) <= Cardinality(S \cup {x})
  BY <1>1, FS_Subset
<1>3. T \subseteq S => Cardinality(T) <= Cardinality(S)
  BY FS_Subset
<1>4. Cardinality(T) \in Nat /\ Cardinality(S) \in Nat /\ Cardinality(S \cup {x}) \in Nat
  BY <1>1, <1>2, FS_CardinalityType
<1> QED BY <1>1, <1>2, <1>3, <1>4

(* Every column has a row of its own: there are always enough.              *)
LEMMA RowsStaySufficient == Spec => []RowsSuffice
<1>1. ASSUME Init PROVE RowsSuffice
  <2>1. IsFunction(func, Opcodes, Widths)
    BY <1>1, FunctionsAssumption DEF Init
  <2>2. Covered = {}
    BY <1>1, <2>1, FunctionShape DEF Init, Covered, DependenciesAdded, MulticycleAdded
  <2>3. Kept = 0
    BY <1>1 DEF Init, Kept
  <2> QED BY <2>2, <2>3, FS_EmptySet DEF RowsSuffice
<1>2. IInv /\ IInv' /\ RowsSuffice /\ [Next]_vars => RowsSuffice'
  <2> SUFFICES ASSUME IInv, IInv', RowsSuffice, [Next]_vars PROVE RowsSuffice'
    OBVIOUS
  <2>1. /\ IsFunction(func, Opcodes, Widths) /\ rows \in Seq(RowsOver(Cols(func)))
        /\ nAsap \in Nat /\ Kept <= Len(rows)
    BY DEF IInv, TypeOK, RowsPresent
  <2>2. Len(func.op) \in Nat \ {0} /\ Instrs(func) = 1..Len(func.op)
    BY <2>1, FunctionShape
  <2>3. Len(rows) \in Nat /\ Kept \in Nat
    BY <2>1 DEF Kept
  <2>4. PICK S : S = Covered /\ IsFiniteSet(S) /\ Cardinality(S) <= Kept
    BY DEF RowsSuffice
  <2>5. ASSUME NEW x, Covered' \subseteq S \cup {x}, Kept' \in Nat,
               Kept < Kept' \/ (Covered' \subseteq S /\ Kept <= Kept')
        PROVE  RowsSuffice'
    <3>1. PICK T : T = Covered'
      OBVIOUS
    <3>2. /\ IsFiniteSet(T) /\ Cardinality(T) \in Nat /\ Cardinality(S) \in Nat
          /\ Cardinality(T) <= Cardinality(S) + 1
          /\ T \subseteq S => Cardinality(T) <= Cardinality(S)
      BY <2>4, <2>5, <3>1, OneMoreColumn
    <3>3. Cardinality(T) <= Kept'
      BY <2>3, <2>4, <2>5, <3>1, <3>2
    <3> QED BY <3>1, <3>2, <3>3 DEF RowsSuffice
  <2>6. CASE addMulticycleConstraints
    <3> DEFINE M == MulticycleRows(func, cursor)
    <3>1. /\ pc = "addMulticycleConstraints" /\ cursor \in Instrs(func)
          /\ rows' = rows \o M /\ func' = func
          /\ IF cursor < Len(func.op)
             THEN cursor' = cursor + 1 /\ pc' = pc
             ELSE cursor' = 1 /\ pc' = "addDependencyConstraints"
      BY <2>6 DEF IInv, CursorOK, OverInstrs, addMulticycleConstraints, Advance
    <3>2. M \in Seq(RowsOver(Cols(func))) /\ Len(M) = Cycles(func, cursor)
      <4>1. M \in Seq(RowsOver(Cols(func)))
        BY <3>1, MulticycleRowsType
      <4>2. PICK c \in {0, 1} : c = Cycles(func, cursor)
        BY CyclesRange
      <4>3. M = [k \in 1..c |-> Row(<<cursor, k>>, <<cursor, k - 1>>, "EQ", 1)]
        BY <4>2 DEF MulticycleRows
      <4> QED BY <4>1, <4>2, <4>3
    <3> HIDE DEF M
    <3>3. Kept = Len(rows) /\ Kept' = Len(rows')
      BY <3>1 DEF Kept
    <3>4. Kept' = Kept + Cycles(func, cursor) /\ Cycles(func, cursor) \in {0, 1}
      BY <2>1, <3>1, <3>2, <3>3, CyclesRange
    <3>5. PICK c \in Instrs(func) : c = cursor
      BY <3>1
    <3>6. \A j \in Instrs(func) : MulticycleAdded(j)' => MulticycleAdded(j) \/ j = c
      BY <2>2, <3>1, <3>5 DEF MulticycleAdded
    <3>7. \A j \in Instrs(func) : ~DependenciesAdded(j)'
      BY <2>2, <3>1 DEF DependenciesAdded
    <3>8. PICK f : f = func
      OBVIOUS
    <3>9. /\ Covered' \subseteq S \cup {End(f, c)}
          /\ Cycles(f, c) # 1 => Covered' \subseteq S
      BY <2>4, <3>1, <3>6, <3>7, <3>8 DEF Covered
    <3>10. Kept < Kept' \/ (Covered' \subseteq S /\ Kept <= Kept')
      BY <2>3, <3>4, <3>5, <3>8, <3>9
    <3> QED BY <2>3, <2>5, <3>4, <3>9, <3>10
  <2>7. CASE addDependencyConstraints
    <3> DEFINE D == DependencyRows(func, cursor)
    <3>1. /\ pc = "addDependencyConstraints" /\ cursor \in Instrs(func)
          /\ rows' = rows \o D /\ func' = func
          /\ IF cursor < Len(func.op)
             THEN cursor' = cursor + 1 /\ pc' = pc
             ELSE cursor' = 1 /\ pc' = "scheduleAsap"
      BY <2>7 DEF IInv, CursorOK, OverInstrs, addDependencyConstraints, Advance
    <3>2. D \in Seq(RowsOver(Cols(func))) /\ Len(D) # 0
      BY <2>1, <3>1, DependencyRowsType
    <3> HIDE DEF D
    <3>3. Kept = Len(rows) /\ Kept' = Len(rows')
      BY <3>1 DEF Kept
    <3>4. Kept' \in Nat /\ Kept < Kept'
      BY <2>1, <3>1, <3>2, <3>3
    <3>5. PICK c \in Instrs(func) : c = cursor
      BY <3>1
    <3>6. \A j \in Instrs(func) : MulticycleAdded(j)
      BY <3>1 DEF MulticycleAdded
    <3>7. \A j \in Instrs(func) : DependenciesAdded(j)' => DependenciesAdded(j) \/ j = c
      BY <2>2, <3>1, <3>5 DEF DependenciesAdded
    <3>8. Covered' \subseteq S \cup {First(c)}
      BY <2>4, <3>1, <3>6, <3>7 DEF Covered, Instrs
    <3> QED BY <2>5, <3>4, <3>8
  <2>8. ASSUME Covered' = Covered, Kept' \in Nat, Kept <= Kept' PROVE RowsSuffice'
    BY <2>4, <2>5, <2>8
  <2>9. CASE ~addMulticycleConstraints /\ ~addDependencyConstraints
    <3>1. /\ func' = func
          /\ pc' = pc \/ pc' \notin {"addMulticycleConstraints", "addDependencyConstraints"}
          /\ pc' = pc /\ pc \in {"addMulticycleConstraints", "addDependencyConstraints"}
               => cursor' = cursor
          /\ pc \in {"addMulticycleConstraints", "addDependencyConstraints"} => pc' = pc
      BY <2>9 DEF Next, vars, scheduleAsap, scheduleAxap, addAlapConstraints, scheduleAlap,
                  deleteAlapConstraints, addResourseConstraint, scheduleResourseConstrained,
                  mapSchedule, Returned, Advance
    <3>2. /\ \A i \in Instrs(func) : DependenciesAdded(i)' <=> DependenciesAdded(i)
          /\ \A i \in Instrs(func) : MulticycleAdded(i)' <=> MulticycleAdded(i)
      BY <3>1 DEF DependenciesAdded, MulticycleAdded
    <3>3. Covered' = Covered
      BY <3>1, <3>2 DEF Covered
    <3>4. Kept' \in Nat /\ Kept <= Kept'
      <4>1. CASE addAlapConstraints
        <5>1. Kept = Len(rows) /\ Kept' = Len(rows)
          BY <4>1 DEF addAlapConstraints, Kept
        <5> QED BY <2>3, <5>1
      <4>2. CASE deleteAlapConstraints
        <5>1. /\ Kept = nAsap /\ nAsap <= Len(rows) /\ Kept' = Len(rows')
              /\ rows' = SubSeq(rows, 1, nAsap)
          BY <2>1, <4>2 DEF deleteAlapConstraints, Kept
        <5>2. Len(rows') = nAsap
          BY <2>1, <2>3, <5>1
        <5> QED BY <2>1, <5>1, <5>2
      <4>3. CASE addResourseConstraint
        <5>1. PICK e \in Seq(RowsOver(Cols(func))) : rows' = rows \o e
          BY <4>3, ResourceRowsAppended
        <5>2. Kept = Len(rows) /\ Kept' = Len(rows')
          BY <4>3 DEF addResourseConstraint, Advance, Kept
        <5>3. Len(rows') = Len(rows) + Len(e) /\ Len(e) \in Nat
          BY <2>1, <5>1
        <5> QED BY <2>3, <5>2, <5>3
      <4>4. CASE scheduleAlap
        <5>1. Kept = nAsap /\ (Kept' = nAsap \/ Kept' = Len(rows)) /\ nAsap <= Len(rows)
          BY <2>1, <4>4 DEF scheduleAlap, scheduleAxap, Kept
        <5> QED BY <2>1, <2>3, <5>1
      <4>5. CASE scheduleAsap \/ scheduleResourseConstrained
        BY <2>3, <4>5 DEF scheduleAsap, scheduleResourseConstrained, scheduleAxap, Kept
      <4>6. CASE mapSchedule
        BY <2>3, <4>6 DEF mapSchedule, Advance, Kept
      <4>7. CASE Returned \/ UNCHANGED vars
        BY <2>3, <4>7 DEF Returned, vars, Kept
      <4> QED BY <2>9, <4>1, <4>2, <4>3, <4>4, <4>5, <4>6, <4>7 DEF Next
    <3> QED BY <2>8, <3>3, <3>4
  <2> QED BY <2>6, <2>7, <2>9
<1>3. IInv /\ RowsSuffice /\ [Next]_vars => RowsSuffice'
  BY <1>2, InvariantNext
<1> QED BY <1>1, <1>3, Invariance, PTL DEF Spec

(* The buffers into which the columns are copied are large enough: see      *)
(* BuffersFit.                                                              *)
THEOREM BuffersAlwaysFit == Spec => []BuffersFit
<1>1. IInv /\ RowsSuffice => BuffersFit
  <2> SUFFICES ASSUME IInv, RowsSuffice,
                      pc \in {"addAlapConstraints", "addResourseConstraint", "mapSchedule"}
               PROVE  Len(rows) >= Cardinality(Cols(func))
    BY DEF BuffersFit
  <2>1. \A i \in Instrs(func) : DependenciesAdded(i) /\ MulticycleAdded(i)
    BY DEF DependenciesAdded, MulticycleAdded
  <2>2. Cols(func) = Covered
    <3>1. \A i \in Instrs(func) : Cycles(func, i) # 1 => End(func, i) = First(i)
      BY CyclesRange DEF End, First
    <3> QED BY <2>1, <3>1 DEF Cols, Covered
  <2>3. Kept = Len(rows)
    BY DEF Kept
  <2>4. Len(rows) \in Nat /\ Cardinality(Covered) \in Nat
    BY FS_CardinalityType DEF RowsSuffice, IInv, TypeOK
  <2> QED BY <2>2, <2>3, <2>4 DEF RowsSuffice
<1> QED BY <1>1, Invariance, RowsStaySufficient, PTL

-----------------------------------------------------------------------------
(* The order of the instructions that compete for a unit.                   *)

(* The loop of scheduleResourseConstrained has met the instruction. *)
Examined(i) ==
    \/ pc \in {"scheduleResourseConstrained", "mapSchedule", "done"}
    \/ pc = "addResourseConstraint" /\ i < cursor

(* The instructions of q that are n apart are in the order of q. *)
Chained(q, n) ==
    \A k \in 1..(Len(q) - n) : Among(rows, Row(First(q[k + n]), First(q[k]), "GE", 1), Len(rows))

LimitOf(op) == UnitOf(func, FirstOf(op))

(* The opcodes met so far have their rows, which the last solve satisfied.  *)
LimitsApplied ==
    /\ pc # "fatal" => seen = {func.op[i] : i \in {j \in Instrs(func) : Examined(j)}}
    /\ \A op \in seen : IsLimited(LimitOf(op)) =>
          \E q \in SetToSeqs(Constrained(func, op)) : Chained(q, FuLimit(LimitOf(op)))
    /\ pc \in {"mapSchedule", "done"} => Feasible(Cols(func), rows, sol)

(* An opcode that was not met before is met at its first instruction.      *)
LEMMA FirstIsCursor ==
    ASSUME IInv, LimitsApplied, addResourseConstraint, func.op[cursor] \notin seen
    PROVE  FirstOf(func.op[cursor]) = cursor
<1> DEFINE S == {i \in Instrs(func) : func.op[i] = func.op[cursor]}
<1>1. /\ IsFunction(func, Opcodes, Widths) /\ pc = "addResourseConstraint"
      /\ cursor \in Instrs(func)
  BY DEF IInv, TypeOK, CursorOK, OverInstrs, addResourseConstraint
<1>2. Len(func.op) \in Nat /\ Instrs(func) = 1..Len(func.op) /\ IsFiniteSet(Instrs(func))
  BY <1>1, FunctionShape
<1>3. \A i \in Instrs(func) : i < cursor => func.op[i] \in seen
  BY <1>1 DEF LimitsApplied, Examined
<1>4. cursor \in S /\ \A i \in S : cursor <= i
  BY <1>1, <1>2, <1>3
<1>5. IsFiniteSet(S) /\ S \subseteq Int /\ S # {}
  <2>1. S \in SUBSET Instrs(func)
    OBVIOUS
  <2> HIDE DEF S
  <2> QED BY <1>2, <1>4, <2>1, FS_Subset
<1>6. FirstOf(func.op[cursor]) = Min(S)
  BY DEF FirstOf
<1> HIDE DEF S
<1>7. Min(S) \in S /\ \A n \in S : Min(S) <= n
  BY <1>5, MinIsLeast
<1>8. Min(S) <= cursor /\ cursor <= Min(S) /\ Min(S) \in Int /\ cursor \in Int
  BY <1>4, <1>5, <1>7
<1> QED BY <1>6, <1>8

(* Where rows are only appended, what is in order stays in order. *)
LEMMA ChainsStay ==
    ASSUME Len(rows) \in Nat, Len(rows') \in Nat, Len(rows) <= Len(rows'),
           \A k \in 1..Len(rows) : rows'[k] = rows[k],
           NEW q, NEW n, Chained(q, n)
    PROVE  Chained(q, n)'
<1>1. ASSUME NEW r, Among(rows, r, Len(rows)) PROVE Among(rows', r, Len(rows'))
  <2>1. PICK k \in 1..Len(rows) : rows[k] = r
    BY <1>1 DEF Among
  <2>2. k \in 1..Len(rows') /\ rows'[k] = r
    BY <2>1
  <2> QED BY <2>2 DEF Among
<1> QED BY <1>1 DEF Chained

(* addResourseConstraint adds the rows of an opcode it meets first.        *)
LEMMA addResourseConstraintApplies ==
    ASSUME IInv, LimitsApplied, addResourseConstraint
    PROVE  LimitsApplied'
<1>1. /\ pc = "addResourseConstraint" /\ cursor \in Instrs(func)
      /\ IsFunction(func, Opcodes, Widths) /\ rows \in Seq(RowsOver(Cols(func)))
      /\ seen' = seen \cup {func.op[cursor]} /\ func' = func
      /\ IF cursor < Len(func.op)
         THEN cursor' = cursor + 1 /\ pc' = pc
         ELSE cursor' = 1 /\ pc' = "scheduleResourseConstrained"
  BY DEF IInv, TypeOK, CursorOK, OverInstrs, addResourseConstraint, Advance
<1>2. Len(func.op) \in Nat \ {0} /\ Instrs(func) = 1..Len(func.op)
  BY <1>1, FunctionShape
<1>3. seen' = {func.op[i] : i \in {j \in Instrs(func) : Examined(j)'}}
  <2>1. PICK c \in Instrs(func) : c = cursor
    BY <1>1
  <2>2. \A j \in Instrs(func) : Examined(j)' <=> Examined(j) \/ j = c
    BY <1>1, <1>2, <2>1 DEF Examined
  <2>3. seen = {func.op[i] : i \in {j \in Instrs(func) : Examined(j)}}
    BY <1>1 DEF LimitsApplied
  <2> QED BY <1>1, <2>1, <2>2, <2>3
<1>4. PICK e \in Seq(RowsOver(Cols(func))) : rows' = rows \o e
  BY ResourceRowsAppended
<1>5. /\ Len(rows) \in Nat /\ Len(rows') \in Nat /\ Len(rows) <= Len(rows')
      /\ Len(rows') = Len(rows) + Len(e) /\ Len(e) \in Nat
      /\ \A k \in 1..Len(rows) : rows'[k] = rows[k]
      /\ \A k \in 1..Len(e) : rows'[Len(rows) + k] = e[k]
  BY <1>1, <1>4
<1>6. ASSUME NEW op \in seen', IsLimited(LimitOf(op)')
      PROVE  \E q \in SetToSeqs(Constrained(func, op)) : Chained(q, FuLimit(LimitOf(op)))'
  <2>1. LimitOf(op)' = LimitOf(op)
    BY <1>1 DEF LimitOf, FirstOf
  <2>2. CASE op \in seen
    <3>1. PICK q \in SetToSeqs(Constrained(func, op)), n \in {FuLimit(LimitOf(op))} : Chained(q, n)
      BY <1>6, <2>1, <2>2 DEF LimitsApplied
    <3>2. Chained(q, n)'
      BY <1>5, <3>1, ChainsStay
    <3> QED BY <2>1, <3>1, <3>2
  <2>3. CASE op \notin seen
    <3>1. op = func.op[cursor] /\ LimitOf(op) = UnitOf(func, cursor)
      BY <1>1, <2>3, FirstIsCursor DEF LimitOf
    <3>2. PICK q \in SortedByAlap(func, sol, op) :
             rows' = rows \o ResourceRows(q, FuLimit(UnitOf(func, cursor)))
      BY <1>6, <2>1, <2>3, <3>1 DEF addResourseConstraint
    <3>3. PICK n \in 1..2 : n = FuLimit(LimitOf(op))
      BY DEF FuLimit
    <3>4. q \in SetToSeqs(Constrained(func, op)) /\ Len(q) \in Nat
      <4>1. q \in SetToSeqs(Constrained(func, op))
        BY <3>2 DEF SortedByAlap
      <4>2. q \in [1..Cardinality(Constrained(func, op)) -> Constrained(func, op)]
        BY <4>1 DEF SetToSeqs
      <4>3. Cardinality(Constrained(func, op)) \in Nat
        <5>1. Constrained(func, op) \in SUBSET Instrs(func) /\ IsFiniteSet(Instrs(func))
          BY <1>1, FunctionShape DEF Constrained, BlockInstrs
        <5> QED BY <5>1, FS_Subset, FS_CardinalityType
      <4> QED BY <4>1, <4>2, <4>3
    <3>5. PICK r : r = ResourceRows(q, n)
      OBVIOUS
    <3>6. r \in Seq(RowsOver(Cols(func))) /\ rows' = rows \o r
      BY <1>1, <3>1, <3>2, <3>3, <3>5, ResourceRowsType
    <3>7. \A k \in 1..(Len(q) - n) :
             k \in DOMAIN r /\ r[k] = Row(First(q[k + n]), First(q[k]), "GE", 1)
      BY <3>5 DEF ResourceRows
    <3>8. ASSUME NEW k \in DOMAIN r
          PROVE  Len(rows) + k \in 1..Len(rows') /\ rows'[Len(rows) + k] = r[k]
      BY <1>1, <3>6
    <3>9. Chained(q, n)'
      BY <3>7, <3>8 DEF Chained, Among
    <3> QED BY <2>1, <3>3, <3>4, <3>9
  <2> QED BY <2>2, <2>3
<1>7. pc' \notin {"mapSchedule", "done", "fatal"}
  BY <1>1
<1> QED BY <1>1, <1>3, <1>6, <1>7 DEF LimitsApplied

(* Every opcode is met, its rows stay, and the last solve satisfies them.  *)
LEMMA LimitsStayApplied == Spec => []LimitsApplied
<1>1. ASSUME Init PROVE LimitsApplied
  BY <1>1 DEF Init, LimitsApplied, Examined
<1>2. IInv /\ LimitsApplied /\ [Next]_vars => LimitsApplied'
  <2> SUFFICES ASSUME IInv, LimitsApplied, [Next]_vars PROVE LimitsApplied'
    OBVIOUS
  <2>1. ASSUME func' = func, seen' = seen,
               pc' # "fatal" =>
                   pc # "fatal" /\ \A j \in Instrs(func) : Examined(j)' <=> Examined(j),
               rows' = rows \/ seen = {},
               pc' \in {"mapSchedule", "done"} => Feasible(Cols(func), rows', sol')
        PROVE  LimitsApplied'
    <3>1. pc' # "fatal" => seen' = {func.op[i] : i \in {j \in Instrs(func) : Examined(j)'}}
      BY <2>1 DEF LimitsApplied
    <3>2. \A op : LimitOf(op)' = LimitOf(op)
      BY <2>1 DEF LimitOf, FirstOf
    <3>3. \A q, n : rows' = rows /\ Chained(q, n) => Chained(q, n)'
      BY DEF Chained
    <3>4. ASSUME NEW op \in seen', IsLimited(LimitOf(op)')
          PROVE  \E q \in SetToSeqs(Constrained(func, op)) : Chained(q, FuLimit(LimitOf(op)))'
      <4>1. PICK q \in SetToSeqs(Constrained(func, op)), n \in {FuLimit(LimitOf(op))} :
               Chained(q, n)
        BY <2>1, <3>2, <3>4 DEF LimitsApplied
      <4>2. Chained(q, n)'
        BY <2>1, <3>3, <3>4, <4>1
      <4> QED BY <3>2, <4>1, <4>2
    <3> QED BY <2>1, <3>1, <3>4 DEF LimitsApplied
  <2>2. CASE addResourseConstraint
    BY <2>2, addResourseConstraintApplies
  <2>3. pc \notin {"addResourseConstraint", "scheduleResourseConstrained", "mapSchedule",
                   "done", "fatal"} => seen = {}
    BY DEF LimitsApplied, Examined
  <2>4. CASE addMulticycleConstraints \/ addDependencyConstraints
    BY <2>1, <2>3, <2>4
       DEF addMulticycleConstraints, addDependencyConstraints, Advance, Examined
  <2>5. CASE scheduleAsap \/ scheduleAlap \/ addAlapConstraints
    BY <2>1, <2>3, <2>5
       DEF scheduleAsap, scheduleAlap, scheduleAxap, addAlapConstraints, Examined
  <2>6. CASE deleteAlapConstraints
    <3>1. cursor = 1 /\ \A j \in Instrs(func) : ~(j < 1)
      BY <2>6, FunctionShape DEF IInv, CursorOK, TypeOK, OverInstrs, deleteAlapConstraints
    <3> QED BY <2>1, <2>3, <2>6, <3>1 DEF deleteAlapConstraints, Examined
  <2>7. CASE scheduleResourseConstrained
    <3>1. pc' = "mapSchedule" => Feasible(Cols(func), rows, sol')
      BY <2>7, SolveSound DEF scheduleResourseConstrained, scheduleAxap
    <3> QED BY <2>1, <2>7, <3>1 DEF scheduleResourseConstrained, scheduleAxap, Examined
  <2>8. CASE mapSchedule
    BY <2>1, <2>8 DEF mapSchedule, Advance, Examined, LimitsApplied
  <2>9. CASE Returned \/ UNCHANGED vars
    BY <2>1, <2>9 DEF Returned, vars, Examined, LimitsApplied
  <2> QED BY <2>2, <2>4, <2>5, <2>6, <2>7, <2>8, <2>9 DEF Next
<1> QED BY <1>1, <1>2, Invariance, PTL DEF Spec

(* Of numbers that leave the same remainder the greater is at least the    *)
(* divisor away.                                                           *)
LEMMA SameRemainder ==
    ASSUME NEW n \in 1..2, NEW j \in Nat, NEW k \in Nat, j < k, j % n = k % n
    PROVE  j <= k - n
<1>1. CASE n = 1
  BY <1>1
<1>2. CASE n = 2
  <2>1. j % 2 = k % 2
    BY <1>2
  <2>2. k # j + 1
    BY <2>1
  <2> QED BY <1>2, <2>2
<1> QED BY <1>1, <1>2

(* If every value is above the one n places earlier, values that many      *)
(* places apart differ.                                                    *)
Rising(v, m, n) == \A k \in 1..(m - n) : v[k + n] >= v[k] + 1

LEMMA RisingDiffers ==
    ASSUME NEW m \in Nat, NEW n \in 1..2, NEW v \in [1..m -> Nat], Rising(v, m, n),
           NEW a \in 1..m, NEW b \in 1..m, a < b, a % n = b % n
    PROVE  v[a] < v[b]
<1> DEFINE Bad == {k \in 1..m : a < k /\ a % n = k % n /\ ~(v[a] < v[k])}
<1> SUFFICES ASSUME Bad # {} PROVE FALSE
  OBVIOUS
<1>1. PICK k \in Bad : \A j \in Bad : k <= j
  <2>1. Bad \subseteq Nat
    OBVIOUS
  <2> HIDE DEF Bad
  <2> QED BY <2>1, LeastNatural
<1>2. k \in 1..m /\ a < k /\ a % n = k % n /\ ~(v[a] < v[k])
  BY <1>1
<1>3. a <= k - n
  <2>1. a \in Nat /\ k \in Nat /\ a < k /\ a % n = k % n
    BY <1>2
  <2> HIDE DEF Bad
  <2> QED BY <2>1, SameRemainder
<1>4. PICK j \in 1..(m - n) : j = k - n
  BY <1>2, <1>3
<1>5. v[k] >= v[j] + 1 /\ j \in 1..m /\ j < k /\ a <= j
  <2>1. v[j + n] >= v[j] + 1
    BY DEF Rising
  <2> QED BY <1>2, <1>3, <1>4, <2>1
<1>6. a % n = j % n
  <2>1. k = j + n
    BY <1>2, <1>4
  <2>2. CASE n = 1
    BY <2>2
  <2>3. CASE n = 2
    BY <1>2, <2>1, <2>3
  <2> QED BY <2>2, <2>3
<1>7. v[a] \in Nat /\ v[j] \in Nat /\ v[k] \in Nat
  BY <1>2, <1>5
<1>8. j \notin Bad
  <2> HIDE DEF Bad
  <2> QED BY <1>1, <1>2, <1>5
<1>9. a = j
  BY <1>5, <1>6, <1>7, <1>8, <1>2
<1> QED BY <1>2, <1>5, <1>7, <1>9

(* No state holds more of the instructions of q than are between those     *)
(* that follow each other by the rows.                                     *)
LEMMA NoMoreThanLimit ==
    ASSUME NEW x, NEW S, IsFiniteSet(S), NEW q \in SetToSeqs(S), NEW n \in 1..2,
           \A i \in S : x[First(i)] \in Nat,
           \A k \in 1..(Len(q) - n) : x[First(q[k + n])] - x[First(q[k])] >= 1,
           NEW J \in SUBSET S, \A i, j \in J : x[First(i)] = x[First(j)]
    PROVE  Cardinality(J) <= n
<1>1. PICK m \in Nat : m = Cardinality(S)
  BY FS_CardinalityType
<1>2. q \in [1..m -> S] /\ \A i, j \in 1..m : i # j => q[i] # q[j]
  BY <1>1 DEF SetToSeqs
<1>3. Len(q) = m
  BY <1>2
<1>4. \A i \in S : \E k \in 1..m : q[k] = i
  <2>1. q \in Injection(1..m, S)
    BY <1>2 DEF Injection, IsInjective
  <2>2. IsFiniteSet(1..m) /\ Cardinality(1..m) = Cardinality(S)
    BY <1>1, FS_Interval
  <2>3. q \in Surjection(1..m, S)
    BY <2>1, <2>2, FS_Injection
  <2> QED BY <2>3 DEF Surjection
<1> DEFINE v == [k \in 1..m |-> x[First(q[k])]]
           place == [i \in J |-> CHOOSE k \in 1..m : q[k] = i]
           class == [i \in J |-> place[i] % n]
<1>5. \A i \in J : place[i] \in 1..m /\ q[place[i]] = i
  BY <1>4
<1>6. v \in [1..m -> Nat] /\ Rising(v, m, n)
  <2>1. v \in [1..m -> Nat]
    BY <1>2
  <2>2. ASSUME NEW k \in 1..(m - n) PROVE v[k + n] >= v[k] + 1
    <3>1. k \in 1..m /\ k + n \in 1..m
      BY <1>1
    <3>2. x[First(q[k + n])] - x[First(q[k])] >= 1
      BY <1>3
    <3>3. v[k] = x[First(q[k])] /\ v[k + n] = x[First(q[k + n])]
      BY <3>1
    <3>4. v[k] \in Nat /\ v[k + n] \in Nat
      BY <2>1, <3>1
    <3> HIDE DEF v
    <3> QED BY <3>2, <3>3, <3>4
  <2> QED BY <2>1, <2>2 DEF Rising
<1>7. \A i \in J : v[place[i]] = x[First(i)]
  BY <1>5
<1>8. \A i \in J : class[i] = place[i] % n
  OBVIOUS
<1>9. class \in [J -> 0..(n - 1)]
  <2>1. \A i \in J : place[i] % n \in 0..(n - 1)
    BY <1>5
  <2> QED BY <2>1
<1> HIDE DEF v, place, class
<1>10. IsFiniteSet(J) /\ Cardinality(J) \in Nat
  BY FS_Subset, FS_CardinalityType
<1>11. IsFiniteSet(0..(n - 1)) /\ Cardinality(0..(n - 1)) = n
  BY FS_Interval
<1> SUFFICES ASSUME n < Cardinality(J) PROVE FALSE
  BY <1>10
<1>12. PICK i \in J, j \in J : i # j /\ class[i] = class[j]
  BY <1>9, <1>10, <1>11, FS_PigeonHole
<1>13. PICK a \in 1..m, b \in 1..m : a = place[i] /\ b = place[j]
  BY <1>5, <1>12
<1>14. a # b /\ a % n = b % n /\ v[a] = v[b]
  BY <1>5, <1>7, <1>8, <1>12, <1>13
<1>15. a < b \/ b < a
  BY <1>14
<1>16. v[a] < v[b] \/ v[b] < v[a]
  BY <1>6, <1>14, <1>15, RisingDiffers
<1>17. v[a] \in Nat
  BY <1>6
<1> QED BY <1>14, <1>16, <1>17

(* In the last basic block no state starts more instructions of an opcode   *)
(* than the limit the scheduler applied to it: the rows put those a unit    *)
(* count apart, in the order of the sort, into states of their own.         *)
THEOREM LastBlockStaysWithinLimit == Spec => []LastBlockWithinLimit
<1>1. IInv /\ LimitsApplied => LastBlockWithinLimit
  <2> SUFFICES ASSUME IInv, LimitsApplied, pc = "done",
                      NEW i \in BlockInstrs(func, LastBlock(func)),
                      IsLimited(UnitOf(func, FirstOf(func.op[i])))
               PROVE  Cardinality({j \in StartedIn(LastBlock(func), start[i]) :
                                      func.op[j] = func.op[i]})
                        <= FuLimit(UnitOf(func, FirstOf(func.op[i])))
    BY DEF LastBlockWithinLimit
  <2>1. /\ IsFunction(func, Opcodes, Widths) /\ sol \in [Cols(func) -> Nat]
        /\ rows \in Seq(RowsOver(Cols(func)))
        /\ \A j \in Instrs(func) : start[j] = MappedState(func, sol, j)
        /\ Feasible(Cols(func), rows, sol)
        /\ i \in Instrs(func)
    BY DEF IInv, TypeOK, Mapped, Passed, LimitsApplied, BlockInstrs
  <2>2. PICK op : op = func.op[i]
    OBVIOUS
  <2> DEFINE S == Constrained(func, op)
             J == {j \in StartedIn(LastBlock(func), start[i]) : func.op[j] = op}
  <2>3. op \in seen
    BY <2>1, <2>2 DEF LimitsApplied, Examined
  <2>4. PICK q \in SetToSeqs(S), n \in 1..2 :
           Chained(q, n) /\ n = FuLimit(UnitOf(func, FirstOf(op)))
    <3>1. FuLimit(UnitOf(func, FirstOf(op))) \in 1..2
      BY DEF FuLimit
    <3> QED BY <2>2, <2>3, <3>1 DEF LimitsApplied, LimitOf
  <2>5. op # "Ret"
    <3>1. UnitOf(func, FirstOf(op)) \in Units
      BY <2>2 DEF IsLimited, UnitOf, getInstructionFu
    <3>2. func.op[FirstOf(op)] \in FuOps
      BY <3>1, <2>2 DEF UnitOf, getInstructionFu, Units, IsLimited
    <3>3. func.op[FirstOf(op)] = op
      <4> DEFINE T == {j \in Instrs(func) : func.op[j] = op}
      <4>1. T \in SUBSET Instrs(func) /\ i \in T
        BY <2>1, <2>2
      <4>2. IsFiniteSet(T) /\ T \subseteq Int
        <5>1. IsFiniteSet(Instrs(func)) /\ Instrs(func) \subseteq Int
          BY <2>1, FunctionShape
        <5> HIDE DEF T
        <5> QED BY <4>1, <5>1, FS_Subset
      <4>3. FirstOf(op) = Min(T)
        BY DEF FirstOf
      <4>4. Min(T) \in T
        <5> HIDE DEF T
        <5> QED BY <4>1, <4>2, MinIsLeast
      <4> QED BY <4>3, <4>4
    <3> QED BY <3>2, <3>3 DEF FuOps
  <2>6. S \in SUBSET Instrs(func) /\ IsFiniteSet(S) /\ J \in SUBSET S
    <3>1. S \in SUBSET Instrs(func) /\ J \in SUBSET S
      BY DEF Constrained, StartedIn, BlockInstrs
    <3>2. IsFiniteSet(Instrs(func))
      BY <2>1, FunctionShape
    <3> HIDE DEF S, J
    <3> QED BY <3>1, <3>2, FS_Subset
  <2>7. \A j \in S : func.op[j] = op
    BY DEF Constrained
  <2>8. \A j \in J : start[j] = start[i]
    BY DEF StartedIn
  <2>9. \A j \in Instrs(func) : sol[First(j)] \in Nat /\ First(j) # Zero
    <3>1. \A j \in Instrs(func) : sol[First(j)] \in Nat
      BY <2>1, ColumnsOf
    <3>2. \A j \in Instrs(func) : j # 0
      BY <2>1, FunctionShape
    <3> QED BY <3>1, <3>2 DEF First, Zero
  <2> HIDE DEF S, J
  <2>10. \A j \in J : sol[First(j)] = start[i]
    BY <2>1, <2>5, <2>6, <2>7, <2>8 DEF MappedState
  <2>11. ASSUME NEW k \in 1..(Len(q) - n)
         PROVE  sol[First(q[k + n])] - sol[First(q[k])] >= 1
    <3>1. PICK r : r = Row(First(q[k + n]), First(q[k]), "GE", 1) /\ Among(rows, r, Len(rows))
      BY <2>4 DEF Chained
    <3>2. Holds(sol, r)
      <4>1. PICK l \in 1..Len(rows) : rows[l] = r
        BY <3>1 DEF Among
      <4>2. l \in DOMAIN rows
        BY <2>1, <4>1
      <4> QED BY <2>1, <4>1, <4>2 DEF Feasible
    <3>3. Value(sol, First(q[k + n])) - Value(sol, First(q[k])) >= 1
      BY <3>1, <3>2 DEF Holds, Row
    <3>4. q[k] \in S /\ q[k + n] \in S
      <4>1. PICK m \in Nat : m = Cardinality(S)
        BY <2>6, FS_CardinalityType
      <4>2. q \in [1..m -> S]
        BY <2>4, <4>1 DEF SetToSeqs
      <4>3. Len(q) = m /\ k \in 1..m /\ k + n \in 1..m
        BY <4>1, <4>2
      <4> QED BY <4>2, <4>3
    <3>5. Value(sol, First(q[k + n])) = sol[First(q[k + n])]
          /\ Value(sol, First(q[k])) = sol[First(q[k])]
      BY <2>6, <2>9, <3>4 DEF Value
    <3> QED BY <3>3, <3>5
  <2>12. Cardinality(J) <= n
    BY <2>4, <2>6, <2>9, <2>10, <2>11, NoMoreThanLimit
  <2> QED BY <2>2, <2>4, <2>12 DEF J
<1> QED BY <1>1, Invariance, LimitsStayApplied, PTL

-----------------------------------------------------------------------------
(* The solver.  A round of raising that finishes no column finds none that  *)
(* is unfinished: those could all be one lower in the least solution.  So   *)
(* as many rounds as there are columns find the least solution, if there is *)
(* one, and the rounds of lowering find the greatest in the same way.       *)

(* The edges lead from columns to columns, or from or to the constant.     *)
IsGraph(C, E) ==
    /\ IsFiniteSet(C) /\ Zero \notin C
    /\ IsFiniteSet(E) /\ E \subseteq (C \cup {Zero}) \X (C \cup {Zero}) \X Int

(* x satisfies an edge, or all of them with no column below base.          *)
Satisfies(x, e) == Value(x, e[2]) >= Value(x, e[1]) + e[3]

IsSolution(C, E, base, x) ==
    /\ x \in [C -> Int]
    /\ \A c \in C : x[c] >= base
    /\ \A e \in E : Satisfies(x, e)

(* z is y with every column raised to what its incoming edges ask for.     *)
IsRaised(C, E, y, z) ==
    /\ z \in [C -> Int]
    /\ \A c \in C : z[c] >= y[c]
    /\ \A e \in E : e[2] \in C => z[e[2]] >= Value(y, e[1]) + e[3]
    /\ \A c \in C : z[c] = y[c] \/ \E e \in E : e[2] = c /\ z[c] = Value(y, e[1]) + e[3]

(* As many rounds as there are columns, the first from base everywhere. *)
AreRounds(C, E, base, x) ==
    /\ x \in [0..Cardinality(C) -> [C -> Int]]
    /\ x[0] = [c \in C |-> base]
    /\ \A k \in 1..Cardinality(C) : IsRaised(C, E, x[k - 1], x[k])

LEMMA ValueType ==
    ASSUME NEW C, Zero \notin C, NEW x \in [C -> Int]
    PROVE  /\ \A c \in C \cup {Zero} : Value(x, c) \in Int
           /\ \A c \in C : Value(x, c) = x[c]
           /\ Value(x, Zero) = 0
BY DEF Value

(* Of the solutions that a system has there is one that is least. *)
LEMMA LeastSolution ==
    ASSUME NEW C, NEW E, IsGraph(C, E), NEW base \in Int, \E s : IsSolution(C, E, base, s)
    PROVE  \E m : /\ IsSolution(C, E, base, m)
                  /\ \A s : IsSolution(C, E, base, s) => \A c \in C : m[c] <= s[c]
<1> DEFINE Sols == {s \in [C -> Int] : IsSolution(C, E, base, s)}
<1>1. /\ Zero \notin C /\ E \subseteq (C \cup {Zero}) \X (C \cup {Zero}) \X Int
      /\ Sols # {} /\ \A s : s \in Sols <=> IsSolution(C, E, base, s)
  BY DEF IsGraph, IsSolution
<1>2. \A s \in Sols :
         s \in [C -> Int] /\ (\A c \in C : s[c] >= base) /\ \A e \in E : Satisfies(s, e)
  BY DEF IsSolution
<1> HIDE DEF Sols
<1>3. ASSUME NEW c \in C PROVE \E t \in Sols : \A s \in Sols : t[c] <= s[c]
  <2> DEFINE T == {n \in Nat : \E s \in Sols : n = s[c] - base}
  <2>1. \A s \in Sols : s[c] - base \in T
    BY <1>2
  <2>2. PICK n \in T : \A k \in T : n <= k
    <3>1. T \subseteq Nat /\ T # {}
      BY <1>1, <2>1
    <3> HIDE DEF T
    <3> QED BY <3>1, LeastNatural
  <2>3. PICK t \in Sols : n = t[c] - base
    OBVIOUS
  <2>4. ASSUME NEW s \in Sols PROVE t[c] <= s[c]
    <3>1. n <= s[c] - base
      <4> HIDE DEF T
      <4> QED BY <2>1, <2>2
    <3>2. t[c] \in Int /\ s[c] \in Int
      BY <1>2
    <3> QED BY <2>3, <3>1, <3>2
  <2> QED BY <2>4
<1> DEFINE best == [c \in C |-> CHOOSE t \in Sols : \A s \in Sols : t[c] <= s[c]]
           m == [c \in C |-> best[c][c]]
<1>4. \A c \in C : best[c] \in Sols /\ \A s \in Sols : best[c][c] <= s[c]
  BY <1>3
<1> HIDE DEF best
<1>5. m \in [C -> Int] /\ \A c \in C : m[c] = best[c][c]
  BY <1>2, <1>4
<1> HIDE DEF m
<1>6. \A s \in Sols : \A c \in C : m[c] <= s[c]
  BY <1>4, <1>5
<1>7. \A s \in Sols : \A c \in C \cup {Zero} : Value(m, c) <= Value(s, c)
  BY <1>1, <1>2, <1>5, <1>6, ValueType
<1>8. ASSUME NEW e \in E PROVE Satisfies(m, e)
  <2>1. PICK s \in Sols : Value(s, e[2]) = Value(m, e[2])
    <3>1. CASE e[2] \in C
      <4>1. best[e[2]] \in Sols /\ m[e[2]] = best[e[2]][e[2]]
        BY <1>4, <1>5, <3>1
      <4> QED BY <1>1, <1>2, <1>5, <3>1, <4>1, ValueType
    <3>2. CASE e[2] = Zero
      BY <1>1, <1>2, <1>5, <3>2, ValueType
    <3> QED BY <1>1, <3>1, <3>2
  <2>2. Satisfies(s, e)
    BY <1>2
  <2>3. Value(m, e[1]) <= Value(s, e[1])
    BY <1>1, <1>7
  <2>4. Value(m, e[1]) \in Int /\ Value(s, e[1]) \in Int /\ Value(m, e[2]) \in Int /\ e[3] \in Int
    BY <1>1, <1>2, <1>5, ValueType
  <2> QED BY <2>1, <2>2, <2>3, <2>4 DEF Satisfies
<1>9. \A c \in C : m[c] >= base
  BY <1>2, <1>4, <1>5
<1> QED BY <1>1, <1>5, <1>6, <1>8, <1>9 DEF IsSolution

(* Where a round raises no column to its value in the least solution that  *)
(* had not reached it, the columns short of it could all be one lower.     *)
LEMMA RoundFinishesColumn ==
    ASSUME NEW C, NEW E, IsGraph(C, E), NEW base \in Int,
           NEW m, IsSolution(C, E, base, m),
           \A s : IsSolution(C, E, base, s) => \A c \in C : m[c] <= s[c],
           NEW y \in [C -> Int], NEW z \in [C -> Int], IsRaised(C, E, y, z),
           \A c \in C : base <= z[c] /\ z[c] <= m[c],
           \A c \in C : z[c] = m[c] => y[c] = m[c]
    PROVE  z = m
<1> DEFINE F == {c \in C : z[c] = m[c]}
           l == [c \in C |-> IF c \in F THEN m[c] ELSE m[c] - 1]
<1>1. /\ Zero \notin C /\ E \subseteq (C \cup {Zero}) \X (C \cup {Zero}) \X Int
      /\ m \in [C -> Int] /\ \A e \in E : Satisfies(m, e)
  BY DEF IsGraph, IsSolution
<1>2. \A c \in C \ F : z[c] <= m[c] - 1 /\ l[c] = m[c] - 1 /\ m[c] - 1 >= base
  BY <1>1
<1>3. \A c \in F : y[c] = m[c] /\ l[c] = m[c]
  OBVIOUS
<1>4. l \in [C -> Int] /\ (\A c \in C : l[c] >= base) /\ \A c \in C : l[c] <= m[c]
  BY <1>1, <1>2, <1>3
<1> HIDE DEF F, l
<1>5. /\ \A c \in C \cup {Zero} : Value(l, c) <= Value(m, c)
      /\ \A c \in F \cup {Zero} : Value(l, c) = Value(m, c) /\ Value(y, c) = Value(m, c)
      /\ \A c \in C \ F : Value(l, c) = m[c] - 1 /\ Value(m, c) = m[c]
  BY <1>1, <1>2, <1>3, <1>4, ValueType DEF F
<1>6. \A c \in C \cup {Zero} : Value(l, c) \in Int /\ Value(m, c) \in Int /\ Value(y, c) \in Int
  BY <1>1, <1>4, ValueType
<1>7. ASSUME NEW e \in E PROVE Satisfies(l, e)
  <2>1. /\ e[1] \in C \cup {Zero} /\ e[2] \in C \cup {Zero} /\ e[3] \in Int
        /\ Value(m, e[2]) >= Value(m, e[1]) + e[3]
    BY <1>1 DEF Satisfies
  <2>2. CASE e[2] \in F \cup {Zero}
    <3>1. Value(l, e[2]) = Value(m, e[2]) /\ Value(l, e[1]) <= Value(m, e[1])
      BY <1>5, <2>1, <2>2
    <3> QED BY <1>6, <2>1, <3>1 DEF Satisfies
  <2>3. CASE e[2] \in C \ F /\ e[1] \in C \ F
    <3>1. /\ Value(l, e[2]) = Value(m, e[2]) - 1 /\ Value(l, e[1]) = Value(m, e[1]) - 1
      BY <1>5, <2>3
    <3> QED BY <1>6, <2>1, <3>1 DEF Satisfies
  <2>4. CASE e[2] \in C \ F /\ e[1] \in F \cup {Zero}
    <3>1. z[e[2]] >= Value(y, e[1]) + e[3]
      BY <2>4 DEF IsRaised
    <3>2. Value(l, e[1]) = Value(y, e[1]) /\ Value(l, e[2]) >= z[e[2]] /\ z[e[2]] \in Int
      BY <1>1, <1>2, <1>5, <2>4
    <3> QED BY <1>6, <2>1, <3>1, <3>2 DEF Satisfies
  <2> QED BY <2>1, <2>2, <2>3, <2>4
<1>8. IsSolution(C, E, base, l)
  BY <1>4, <1>7 DEF IsSolution
<1>9. \A c \in C : m[c] <= l[c]
  BY <1>8
<1>10. \A c \in C : c \in F
  BY <1>1, <1>2, <1>9
<1> QED BY <1>1, <1>10 DEF F

(* A raised column stays below every solution. *)
LEMMA RaisedStaysBelow ==
    ASSUME NEW C, NEW E, IsGraph(C, E), NEW base \in Int,
           NEW m, IsSolution(C, E, base, m),
           NEW y \in [C -> Int], NEW z, IsRaised(C, E, y, z),
           \A c \in C : base <= y[c] /\ y[c] <= m[c]
    PROVE  z \in [C -> Int] /\ \A c \in C : base <= z[c] /\ z[c] <= m[c] /\ y[c] <= z[c]
<1>1. /\ Zero \notin C /\ E \subseteq (C \cup {Zero}) \X (C \cup {Zero}) \X Int
      /\ m \in [C -> Int] /\ \A e \in E : Satisfies(m, e)
  BY DEF IsGraph, IsSolution
<1>2. z \in [C -> Int]
  BY DEF IsRaised
<1>3. ASSUME NEW c \in C PROVE base <= z[c] /\ z[c] <= m[c] /\ y[c] <= z[c]
  <2>1. z[c] \in Int /\ y[c] \in Int /\ m[c] \in Int
    BY <1>1, <1>2
  <2>2. z[c] >= y[c]
    BY DEF IsRaised
  <2>3. CASE z[c] = y[c]
    BY <2>1, <2>3
  <2>4. ASSUME NEW e \in E, e[2] = c, z[c] = Value(y, e[1]) + e[3] PROVE z[c] <= m[c]
    <3>1. e[1] \in C \cup {Zero} /\ e[3] \in Int
      BY <1>1
    <3>2. /\ Value(y, e[1]) \in Int /\ Value(m, e[1]) \in Int
          /\ Value(y, e[1]) <= Value(m, e[1]) /\ Value(m, e[2]) = m[c]
      BY <1>1, <2>4, <3>1, ValueType
    <3>3. Value(m, e[2]) >= Value(m, e[1]) + e[3]
      BY <1>1 DEF Satisfies
    <3> QED BY <2>1, <2>4, <3>1, <3>2, <3>3
  <2>5. z[c] = y[c] \/ \E e \in E : e[2] = c /\ z[c] = Value(y, e[1]) + e[3]
    BY DEF IsRaised
  <2>6. z[c] <= m[c]
    BY <2>3, <2>4, <2>5
  <2> QED BY <2>1, <2>2, <2>6
<1> QED BY <1>2, <1>3

(* The rounds end at the least solution, if there is any. *)
LEMMA RoundsReachLeast ==
    ASSUME NEW C, NEW E, IsGraph(C, E), NEW base \in Int, NEW x, AreRounds(C, E, base, x),
           \E s : IsSolution(C, E, base, s)
    PROVE  /\ IsSolution(C, E, base, x[Cardinality(C)])
           /\ \A s : IsSolution(C, E, base, s) => \A c \in C : x[Cardinality(C)][c] <= s[c]
<1>1. PICK m : /\ IsSolution(C, E, base, m)
               /\ \A s : IsSolution(C, E, base, s) => \A c \in C : m[c] <= s[c]
  BY LeastSolution
<1>2. PICK n \in Nat : n = Cardinality(C)
  BY FS_CardinalityType DEF IsGraph
<1>3. /\ x \in [0..n -> [C -> Int]] /\ x[0] = [c \in C |-> base]
      /\ \A k \in 1..n : IsRaised(C, E, x[k - 1], x[k])
      /\ m \in [C -> Int] /\ (\A c \in C : base <= m[c]) /\ IsFiniteSet(C)
  BY <1>1, <1>2 DEF AreRounds, IsSolution, IsGraph
<1> DEFINE Final(k) == {c \in C : x[k][c] = m[c]}
           T == {k \in 0..n : /\ \A c \in C : base <= x[k][c] /\ x[k][c] <= m[c]
                              /\ Final(k) = C \/ Cardinality(Final(k)) >= k}
<1>4. 0 \in T
  <2>1. \A c \in C : base <= x[0][c] /\ x[0][c] <= m[c]
    BY <1>3
  <2>2. Cardinality(Final(0)) \in Nat
    <3>1. Final(0) \in SUBSET C
      OBVIOUS
    <3> HIDE DEF Final
    <3> QED BY <1>3, <3>1, FS_Subset, FS_CardinalityType
  <2> HIDE DEF Final
  <2> QED BY <2>1, <2>2
<1>5. ASSUME NEW k \in 0..(n - 1), k \in T PROVE k + 1 \in T
  <2>1. /\ k \in 0..n /\ k + 1 \in 0..n /\ k + 1 \in 1..n /\ (k + 1) - 1 = k
    BY <1>2
  <2>2. PICK y \in [C -> Int], z \in [C -> Int] : y = x[k] /\ z = x[k + 1]
    BY <1>3, <2>1
  <2>3. IsRaised(C, E, y, z)
    BY <1>3, <2>1, <2>2
  <2>4. \A c \in C : base <= y[c] /\ y[c] <= m[c]
    BY <1>5, <2>2
  <2>5. \A c \in C : base <= z[c] /\ z[c] <= m[c] /\ y[c] <= z[c]
    BY <1>1, <2>3, <2>4, RaisedStaysBelow
  <2>6. Final(k) = C \/ Cardinality(Final(k)) >= k
    BY <1>5
  <2>7. Final(k) = {c \in C : y[c] = m[c]} /\ Final(k + 1) = {c \in C : z[c] = m[c]}
    BY <2>2
  <2>8. Final(k) \subseteq Final(k + 1)
    <3>1. ASSUME NEW c \in C, y[c] = m[c] PROVE z[c] = m[c]
      <4>1. z[c] \in Int /\ m[c] \in Int /\ m[c] <= z[c] /\ z[c] <= m[c]
        BY <1>3, <2>5, <3>1
      <4> QED BY <4>1
    <3> QED BY <2>7, <3>1
  <2> HIDE DEF Final
  <2>9. Final(k + 1) = C \/ Cardinality(Final(k + 1)) >= k + 1
    <3>1. CASE Final(k) = Final(k + 1)
      <4>1. \A c \in C : z[c] = m[c] => y[c] = m[c]
        BY <2>7, <3>1
      <4>2. z = m
        BY <1>1, <2>3, <2>5, <4>1, RoundFinishesColumn
      <4> QED BY <2>7, <4>2
    <3>2. CASE Final(k) # Final(k + 1)
      <4>1. Final(k + 1) \in SUBSET C /\ Final(k) # C
        BY <2>7, <2>8, <3>2
      <4>2. IsFiniteSet(Final(k + 1)) /\ IsFiniteSet(Final(k))
        BY <1>3, <2>8, <4>1, FS_Subset
      <4>3. Cardinality(Final(k)) \in Nat /\ Cardinality(Final(k + 1)) \in Nat
        BY <4>2, FS_CardinalityType
      <4>4. Cardinality(Final(k)) < Cardinality(Final(k + 1))
        BY <2>8, <3>2, <4>2, <4>3, FS_Subset
      <4> QED BY <2>1, <2>6, <4>1, <4>3, <4>4
    <3> QED BY <3>1, <3>2
  <2>10. \A c \in C : base <= x[k + 1][c] /\ x[k + 1][c] <= m[c]
    BY <2>2, <2>5
  <2> QED BY <2>1, <2>9, <2>10
<1>6. n \in T
  <2>1. n \in 0..n
    OBVIOUS
  <2> HIDE DEF T
  <2> QED BY <1>2, <1>4, <1>5, <2>1, InductionUpTo
<1>7. Final(n) = C
  <2>1. Final(n) = C \/ Cardinality(Final(n)) >= n
    BY <1>6
  <2>2. Final(n) \in SUBSET C
    OBVIOUS
  <2> HIDE DEF Final
  <2>3. Final(n) # C => Cardinality(Final(n)) < Cardinality(C)
    <3>1. IsFiniteSet(Final(n)) /\ Cardinality(Final(n)) \in Nat
      BY <1>3, <2>2, FS_Subset, FS_CardinalityType
    <3>2. /\ Cardinality(Final(n)) <= Cardinality(C)
          /\ Cardinality(Final(n)) = Cardinality(C) => Final(n) = C
      BY <1>3, <2>2, FS_Subset
    <3> QED BY <1>2, <3>1, <3>2
  <2>4. Cardinality(Final(n)) \in Nat
    BY <1>3, <2>2, FS_Subset, FS_CardinalityType
  <2> QED BY <1>2, <2>1, <2>3, <2>4
<1>8. x[n] = m
  <2>1. x[n] \in [C -> Int]
    BY <1>3
  <2>2. \A c \in C : x[n][c] = m[c]
    BY <1>7
  <2> QED BY <1>3, <2>1, <2>2
<1> QED BY <1>1, <1>2, <1>8

(* A function applied over and over from base is defined by recursion.     *)
IsRepeated(f, n, S, base, r) ==
    /\ f \in [0..n -> S]
    /\ f = [k \in 0..n |-> IF k = 0 THEN base ELSE r[f[k - 1]]]

LEMMA RepeatedFunction ==
    ASSUME NEW n \in Nat, NEW S, NEW base \in S, NEW r \in [S -> S]
    PROVE  \E f : IsRepeated(f, n, S, base, r)
<1> DEFINE step == [k \in 1..n |-> r]
<1>1. AreSteps(step, n, S)
  BY DEF AreSteps
<1>2. \A k \in 1..n : step[k] = r
  OBVIOUS
<1> HIDE DEF step
<1>3. PICK f : IsIterated(f, step, n, S, base)
  BY <1>1, RecursionUpTo
<1>4. ASSUME NEW k \in 0..n PROVE f[k] = IF k = 0 THEN base ELSE r[f[k - 1]]
  <2>1. k # 0 => k \in 1..n
    OBVIOUS
  <2> QED BY <1>2, <1>3, <2>1 DEF IsIterated
<1>5. f \in [0..n -> S]
  BY <1>3 DEF IsIterated
<1>6. f = [k \in 0..n |-> IF k = 0 THEN base ELSE r[f[k - 1]]]
  BY <1>4, <1>5
<1> QED BY <1>5, <1>6 DEF IsRepeated

(* What Raise returns is raised. *)
LEMMA RaiseRaises ==
    ASSUME NEW C, NEW E, IsGraph(C, E), NEW y \in [C -> Int]
    PROVE  IsRaised(C, E, y, RaiseRound(C, E, y)) /\ RaiseRound(C, E, y) \in [C -> Int]
<1> DEFINE In(c) == {f \in E : f[2] = c}
           g == [e \in E |-> Value(y, e[1]) + e[3]]
           S(c) == {y[c]} \cup {g[e] : e \in In(c)}
<1>1. /\ Zero \notin C /\ IsFiniteSet(E) /\ E \subseteq (C \cup {Zero}) \X (C \cup {Zero}) \X Int
  BY DEF IsGraph
<1>2. \A e \in E : g[e] = Value(y, e[1]) + e[3] /\ g[e] \in Int
  <2>1. ASSUME NEW e \in E PROVE Value(y, e[1]) + e[3] \in Int
    <3>1. e[1] \in C \cup {Zero} /\ e[3] \in Int
      BY <1>1
    <3>2. Value(y, e[1]) \in Int
      BY <1>1, <3>1, ValueType
    <3> QED BY <3>1, <3>2
  <2> QED BY <2>1
<1>3. ASSUME NEW c \in C
      PROVE  Max(S(c)) \in S(c) /\ (\A n \in S(c) : Max(S(c)) >= n) /\ S(c) \subseteq Int
  <2>1. S(c) \subseteq Int /\ S(c) # {}
    BY <1>2
  <2>2. IsFiniteSet(S(c))
    <3>1. In(c) \in SUBSET E
      OBVIOUS
    <3>2. IsFiniteSet(In(c))
      <4> HIDE DEF In
      <4> QED BY <1>1, <3>1, FS_Subset
    <3> DEFINE h == [e \in In(c) |-> g[e]]
               V == {h[e] : e \in In(c)}
    <3>3. h = [e \in In(c) |-> h[e]]
      OBVIOUS
    <3>4. S(c) = V \cup {y[c]}
      OBVIOUS
    <3> HIDE DEF In, h
    <3>5. IsFiniteSet(V)
      BY <3>2, <3>3, FiniteRange
    <3> HIDE DEF V, S
    <3> QED BY <3>4, <3>5, FS_AddElement
  <2> HIDE DEF S
  <2> QED BY <2>1, <2>2, MaxIsGreatest
<1> DEFINE z == Raise(C, E, y)
<1>4. z = [c \in C |-> Max(S(c))]
  <2>1. ASSUME NEW c \in C
        PROVE  {y[c]} \cup {Value(y, e[1]) + e[3] : e \in {f \in E : f[2] = c}} = S(c)
    BY <1>2
  <2> HIDE DEF S
  <2> QED BY <2>1 DEF Raise
<1>5. \A c \in C : z[c] \in S(c) /\ \A n \in S(c) : z[c] >= n
  <2> HIDE DEF S, z
  <2> QED BY <1>3, <1>4
<1> HIDE DEF z, g
<1>6. z \in [C -> Int]
  <2>1. \A c \in C : Max(S(c)) \in Int
    <3> HIDE DEF S
    <3> QED BY <1>3
  <2> HIDE DEF S
  <2> QED BY <1>4, <2>1
<1>7. \A c \in C : z[c] >= y[c]
  BY <1>5
<1>8. ASSUME NEW e \in E, e[2] \in C PROVE z[e[2]] >= Value(y, e[1]) + e[3]
  <2>1. g[e] \in S(e[2])
    OBVIOUS
  <2> HIDE DEF S
  <2> QED BY <1>2, <1>5, <1>8, <2>1
<1>9. ASSUME NEW c \in C
      PROVE  z[c] = y[c] \/ \E e \in E : e[2] = c /\ z[c] = Value(y, e[1]) + e[3]
  BY <1>2, <1>5
<1>10. IsRaised(C, E, y, z)
  BY <1>6, <1>7, <1>8, <1>9 DEF IsRaised
<1>11. RaiseRound(C, E, y) = z
  BY DEF RaiseRound, z
<1> QED BY <1>6, <1>10, <1>11

(* The edges of the rows are edges, and stand for them. *)
LEMMA EdgesAreGraph ==
    ASSUME NEW C, IsFiniteSet(C), Zero \notin C, NEW R \in Seq(RowsOver(C))
    PROVE  IsGraph(C, Edges(R))
<1> DEFINE D == DOMAIN R
           P == {j \in D : R[j].op \in {"GE", "EQ"}}
           Q == {j \in D : R[j].op \in {"LE", "EQ"}}
           p == [k \in P |-> <<R[k].sub, R[k].col, R[k].rhs>>]
           q == [k \in Q |-> <<R[k].col, R[k].sub, -R[k].rhs>>]
<1>1. D = 1..Len(R) /\ Len(R) \in Nat /\ \A k \in D : R[k] \in RowsOver(C)
  OBVIOUS
<1>2. IsFiniteSet(D)
  BY <1>1, FS_Interval
<1>3. P \in SUBSET D /\ Q \in SUBSET D
  OBVIOUS
<1>4. p = [k \in P |-> p[k]] /\ q = [k \in Q |-> q[k]]
  OBVIOUS
<1>5. Edges(R) = {p[k] : k \in P} \cup {q[k] : k \in Q}
  BY DEF Edges
<1>6. /\ \A k \in P : p[k] \in (C \cup {Zero}) \X (C \cup {Zero}) \X Int
      /\ \A k \in Q : q[k] \in (C \cup {Zero}) \X (C \cup {Zero}) \X Int
  BY <1>1 DEF RowsOver
<1> HIDE DEF D, P, Q, p, q
<1>7. IsFiniteSet({p[k] : k \in P}) /\ IsFiniteSet({q[k] : k \in Q})
  <2>1. IsFiniteSet(P) /\ IsFiniteSet(Q)
    BY <1>2, <1>3, FS_Subset
  <2>2. IsFiniteSet({p[k] : k \in P})
    BY <1>4, <2>1, FiniteRange
  <2>3. IsFiniteSet({q[k] : k \in Q})
    BY <1>4, <2>1, FiniteRange
  <2> QED BY <2>2, <2>3
<1>8. IsFiniteSet(Edges(R))
  BY <1>5, <1>7, FS_Union
<1>9. Edges(R) \subseteq (C \cup {Zero}) \X (C \cup {Zero}) \X Int
  BY <1>5, <1>6
<1> QED BY <1>8, <1>9 DEF IsGraph

LEMMA FeasibleIsSolution ==
    ASSUME NEW C, Zero \notin C, NEW R \in Seq(RowsOver(C)), NEW x \in [C -> Int]
    PROVE  (\A k \in DOMAIN R : Holds(x, R[k])) <=> \A e \in Edges(R) : Satisfies(x, e)
<1> DEFINE D == DOMAIN R
<1>1. ASSUME NEW k \in D
      PROVE  /\ R[k].op \in {"GE", "LE", "EQ"} /\ R[k].rhs \in Int
             /\ Value(x, R[k].col) \in Int /\ Value(x, R[k].sub) \in Int
  <2>1. R[k] \in RowsOver(C)
    OBVIOUS
  <2>2. R[k].col \in C /\ R[k].sub \in C \cup {Zero}
    BY <2>1 DEF RowsOver
  <2> QED BY <2>1, <2>2, ValueType DEF RowsOver
<1>2. ASSUME \A k \in D : Holds(x, R[k]), NEW e \in Edges(R)
      PROVE  Satisfies(x, e)
  <2>1. CASE \E k \in D : /\ R[k].op \in {"GE", "EQ"}
                          /\ e = <<R[k].sub, R[k].col, R[k].rhs>>
    <3>1. PICK k \in D : /\ R[k].op \in {"GE", "EQ"}
                         /\ e = <<R[k].sub, R[k].col, R[k].rhs>>
      BY <2>1
    <3>2. Value(x, R[k].col) - Value(x, R[k].sub) >= R[k].rhs
      BY <1>1, <1>2, <3>1 DEF Holds
    <3>3. e[1] = R[k].sub /\ e[2] = R[k].col /\ e[3] = R[k].rhs
      BY <3>1
    <3> QED BY <1>1, <3>2, <3>3 DEF Satisfies
  <2>2. CASE \E k \in D : /\ R[k].op \in {"LE", "EQ"}
                          /\ e = <<R[k].col, R[k].sub, -R[k].rhs>>
    <3>1. PICK k \in D : /\ R[k].op \in {"LE", "EQ"}
                         /\ e = <<R[k].col, R[k].sub, -R[k].rhs>>
      BY <2>2
    <3>2. Value(x, R[k].col) - Value(x, R[k].sub) <= R[k].rhs
      BY <1>1, <1>2, <3>1 DEF Holds
    <3>3. e[1] = R[k].col /\ e[2] = R[k].sub /\ e[3] = -R[k].rhs
      BY <3>1
    <3> QED BY <1>1, <3>2, <3>3 DEF Satisfies
  <2> QED BY <2>1, <2>2 DEF Edges
<1>3. ASSUME \A e \in Edges(R) : Satisfies(x, e), NEW k \in D
      PROVE  Holds(x, R[k])
  <2> DEFINE d == Value(x, R[k].col) - Value(x, R[k].sub)
             p == <<R[k].sub, R[k].col, R[k].rhs>>
             q == <<R[k].col, R[k].sub, -R[k].rhs>>
  <2>1. R[k].op \in {"GE", "EQ"} => d >= R[k].rhs
    <3> SUFFICES ASSUME R[k].op \in {"GE", "EQ"} PROVE d >= R[k].rhs
      OBVIOUS
    <3>1. p \in Edges(R)
      BY DEF Edges
    <3>2. Value(x, p[2]) >= Value(x, p[1]) + p[3]
      BY <1>3, <3>1 DEF Satisfies
    <3>3. p[1] = R[k].sub /\ p[2] = R[k].col /\ p[3] = R[k].rhs
      OBVIOUS
    <3> HIDE DEF p
    <3> QED BY <1>1, <3>2, <3>3
  <2>2. R[k].op \in {"LE", "EQ"} => d <= R[k].rhs
    <3> SUFFICES ASSUME R[k].op \in {"LE", "EQ"} PROVE d <= R[k].rhs
      OBVIOUS
    <3>1. q \in Edges(R)
      BY DEF Edges
    <3>2. Value(x, q[2]) >= Value(x, q[1]) + q[3]
      BY <1>3, <3>1 DEF Satisfies
    <3>3. q[1] = R[k].col /\ q[2] = R[k].sub /\ q[3] = -R[k].rhs
      OBVIOUS
    <3> HIDE DEF q
    <3> QED BY <1>1, <3>2, <3>3
  <2> QED BY <1>1, <2>1, <2>2 DEF Holds
<1> QED BY <1>2, <1>3

(* The opposite program: every edge turned, every value negated. *)
Turned(E) == {<<e[2], e[1], e[3]>> : e \in E}

Negated(C, x) == [c \in C |-> -x[c]]

LEMMA TurnedGraph ==
    ASSUME NEW C, NEW E, IsGraph(C, E)
    PROVE  IsGraph(C, Turned(E))
<1> DEFINE f == [e \in E |-> <<e[2], e[1], e[3]>>]
<1>1. f = [e \in E |-> f[e]] /\ Turned(E) = {f[e] : e \in E}
  BY DEF Turned
<1>2. \A e \in E : f[e] \in (C \cup {Zero}) \X (C \cup {Zero}) \X Int
  BY DEF IsGraph
<1> HIDE DEF f
<1>3. IsFiniteSet(Turned(E))
  BY <1>1, FiniteRange DEF IsGraph
<1>4. Turned(E) \subseteq (C \cup {Zero}) \X (C \cup {Zero}) \X Int
  BY <1>1, <1>2
<1> QED BY <1>3, <1>4 DEF IsGraph

LEMMA NegatedValue ==
    ASSUME NEW C, Zero \notin C, NEW x \in [C -> Int]
    PROVE  /\ Negated(C, x) \in [C -> Int]
           /\ \A c \in C : Negated(C, x)[c] = -x[c]
           /\ \A c \in C \cup {Zero} : Value(Negated(C, x), c) = -Value(x, c)
<1>1. Negated(C, x) \in [C -> Int] /\ \A c \in C : Negated(C, x)[c] = -x[c]
  BY DEF Negated
<1>2. \A c \in C : Value(Negated(C, x), c) = -Value(x, c)
  BY <1>1, ValueType
<1>3. Value(Negated(C, x), Zero) = 0 /\ Value(x, Zero) = 0
  BY DEF Value
<1> QED BY <1>1, <1>2, <1>3

LEMMA TurnedSatisfied ==
    ASSUME NEW C, NEW E, IsGraph(C, E), NEW x \in [C -> Int]
    PROVE  (\A e \in Turned(E) : Satisfies(Negated(C, x), e)) <=> \A e \in E : Satisfies(x, e)
<1>1. /\ Zero \notin C /\ E \subseteq (C \cup {Zero}) \X (C \cup {Zero}) \X Int
  BY DEF IsGraph
<1>2. ASSUME NEW e \in E
      PROVE  Satisfies(Negated(C, x), <<e[2], e[1], e[3]>>) <=> Satisfies(x, e)
  <2>1. e[1] \in C \cup {Zero} /\ e[2] \in C \cup {Zero} /\ e[3] \in Int
    BY <1>1
  <2>2. /\ Value(Negated(C, x), e[1]) = -Value(x, e[1]) /\ Value(x, e[1]) \in Int
        /\ Value(Negated(C, x), e[2]) = -Value(x, e[2]) /\ Value(x, e[2]) \in Int
    BY <1>1, <2>1, NegatedValue, ValueType
  <2> QED BY <2>1, <2>2 DEF Satisfies
<1> QED BY <1>2 DEF Turned

(* What Lower returns is raised in the opposite program. *)
LEMMA LowerLowers ==
    ASSUME NEW C, NEW E, IsGraph(C, E), NEW y \in [C -> Int]
    PROVE  /\ IsRaised(C, Turned(E), Negated(C, y), Negated(C, LowerRound(C, E, y)))
           /\ LowerRound(C, E, y) \in [C -> Int]
<1> DEFINE Out(c) == {f \in E : f[1] = c}
           g == [e \in E |-> Value(y, e[2]) - e[3]]
           S(c) == {y[c]} \cup {g[e] : e \in Out(c)}
<1>1. /\ Zero \notin C /\ IsFiniteSet(E) /\ E \subseteq (C \cup {Zero}) \X (C \cup {Zero}) \X Int
  BY DEF IsGraph
<1>2. \A e \in E : g[e] = Value(y, e[2]) - e[3] /\ g[e] \in Int
  <2>1. ASSUME NEW e \in E PROVE Value(y, e[2]) - e[3] \in Int
    <3>1. e[2] \in C \cup {Zero} /\ e[3] \in Int
      BY <1>1
    <3>2. Value(y, e[2]) \in Int
      BY <1>1, <3>1, ValueType
    <3> QED BY <3>1, <3>2
  <2> QED BY <2>1
<1>3. ASSUME NEW c \in C
      PROVE  Min(S(c)) \in S(c) /\ (\A n \in S(c) : Min(S(c)) <= n) /\ S(c) \subseteq Int
  <2>1. S(c) \subseteq Int /\ S(c) # {}
    BY <1>2
  <2>2. IsFiniteSet(S(c))
    <3>1. Out(c) \in SUBSET E
      OBVIOUS
    <3>2. IsFiniteSet(Out(c))
      <4> HIDE DEF Out
      <4> QED BY <1>1, <3>1, FS_Subset
    <3> DEFINE h == [e \in Out(c) |-> g[e]]
               V == {h[e] : e \in Out(c)}
    <3>3. h = [e \in Out(c) |-> h[e]]
      OBVIOUS
    <3>4. S(c) = V \cup {y[c]}
      OBVIOUS
    <3> HIDE DEF Out, h
    <3>5. IsFiniteSet(V)
      BY <3>2, <3>3, FiniteRange
    <3> HIDE DEF V, S
    <3> QED BY <3>4, <3>5, FS_AddElement
  <2> HIDE DEF S
  <2> QED BY <2>1, <2>2, MinIsLeast
<1> DEFINE z == Lower(C, E, y)
<1>4. z = [c \in C |-> Min(S(c))]
  <2>1. ASSUME NEW c \in C
        PROVE  {y[c]} \cup {Value(y, e[2]) - e[3] : e \in {f \in E : f[1] = c}} = S(c)
    BY <1>2
  <2> HIDE DEF S
  <2> QED BY <2>1 DEF Lower
<1>5. \A c \in C : z[c] \in S(c) /\ \A n \in S(c) : z[c] <= n
  <2> HIDE DEF S, z
  <2> QED BY <1>3, <1>4
<1> HIDE DEF z, g
<1>6. z \in [C -> Int]
  <2>1. \A c \in C : Min(S(c)) \in Int
    <3> HIDE DEF S
    <3> QED BY <1>3
  <2> HIDE DEF S
  <2> QED BY <1>4, <2>1
<1>7. \A c \in C : z[c] <= y[c]
  BY <1>5
<1>8. ASSUME NEW e \in E, e[1] \in C PROVE z[e[1]] <= Value(y, e[2]) - e[3]
  <2>1. g[e] \in S(e[1])
    OBVIOUS
  <2> HIDE DEF S
  <2> QED BY <1>2, <1>5, <1>8, <2>1
<1>9. ASSUME NEW c \in C
      PROVE  z[c] = y[c] \/ \E e \in E : e[1] = c /\ z[c] = Value(y, e[2]) - e[3]
  BY <1>2, <1>5
<1> DEFINE a == Negated(C, y)
           b == Negated(C, z)
<1>10. /\ a \in [C -> Int] /\ b \in [C -> Int]
       /\ \A c \in C : a[c] = -y[c] /\ b[c] = -z[c]
       /\ \A c \in C \cup {Zero} : Value(a, c) = -Value(y, c) /\ Value(y, c) \in Int
  BY <1>1, <1>6, NegatedValue, ValueType
<1> HIDE DEF a, b
<1>11. \A c \in C : b[c] >= a[c]
  BY <1>6, <1>7, <1>10
<1>12. ASSUME NEW e \in E
       PROVE  /\ e[1] \in C => b[e[1]] >= Value(a, e[2]) + e[3]
              /\ e[1] \in C /\ z[e[1]] = Value(y, e[2]) - e[3] => b[e[1]] = Value(a, e[2]) + e[3]
  <2>1. e[1] \in C \cup {Zero} /\ e[2] \in C \cup {Zero} /\ e[3] \in Int
    BY <1>1
  <2>2. Value(a, e[2]) = -Value(y, e[2]) /\ Value(y, e[2]) \in Int
    BY <1>10, <2>1
  <2> SUFFICES ASSUME e[1] \in C
               PROVE  /\ b[e[1]] >= Value(a, e[2]) + e[3]
                      /\ z[e[1]] = Value(y, e[2]) - e[3] => b[e[1]] = Value(a, e[2]) + e[3]
    OBVIOUS
  <2>3. b[e[1]] = -z[e[1]] /\ z[e[1]] \in Int /\ z[e[1]] <= Value(y, e[2]) - e[3]
    BY <1>6, <1>8, <1>10
  <2> QED BY <2>1, <2>2, <2>3
<1>13. \A e \in Turned(E) : e[2] \in C => b[e[2]] >= Value(a, e[1]) + e[3]
  BY <1>12 DEF Turned
<1>14. ASSUME NEW c \in C
       PROVE  b[c] = a[c] \/ \E e \in Turned(E) : e[2] = c /\ b[c] = Value(a, e[1]) + e[3]
  <2>1. CASE z[c] = y[c]
    BY <1>10, <2>1
  <2>2. CASE \E e \in E : e[1] = c /\ z[c] = Value(y, e[2]) - e[3]
    <3>1. PICK e \in E : e[1] = c /\ z[c] = Value(y, e[2]) - e[3]
      BY <2>2
    <3>2. b[c] = Value(a, e[2]) + e[3]
      BY <1>12, <3>1
    <3>3. <<e[2], e[1], e[3]>> \in Turned(E)
      BY DEF Turned
    <3> QED BY <3>1, <3>2, <3>3
  <2> QED BY <1>9, <2>1, <2>2
<1>15. IsRaised(C, Turned(E), a, b)
  BY <1>10, <1>11, <1>13, <1>14 DEF IsRaised
<1>16. LowerRound(C, E, y) = z
  BY DEF LowerRound, z
<1> QED BY <1>6, <1>15, <1>16 DEF a, b

(* Least is what the rounds of raising reach, and Greatest what those of   *)
(* the opposite program do.                                                *)
LEMMA LeastRounds ==
    ASSUME NEW C, NEW R, IsGraph(C, Edges(R))
    PROVE  \E x : AreRounds(C, Edges(R), 0, x) /\ Least(C, R) = x[Cardinality(C)]
<1> DEFINE E == Edges(R)
           S == [C -> Int]
           base == [c \in C |-> 0]
           r == [y \in S |-> RaiseRound(C, E, y)]
           x[k \in 0..Cardinality(C)] ==
               IF k = 0 THEN base ELSE RaiseRound(C, E, x[k - 1])
<1>1. PICK n \in Nat : n = Cardinality(C)
  BY FS_CardinalityType DEF IsGraph
<1>2. base \in S /\ r \in [S -> S] /\ \A y \in S : r[y] = RaiseRound(C, E, y)
  <2> HIDE DEF E
  <2> QED BY RaiseRaises DEF E
<1> HIDE DEF r, E, S
<1>3. PICK f : IsRepeated(f, n, S, base, r)
  <2> HIDE DEF base
  <2> QED BY <1>2, RepeatedFunction
<1>4. f = [k \in 0..n |-> IF k = 0 THEN base ELSE RaiseRound(C, E, f[k - 1])]
  <2> HIDE DEF base
  <2>1. ASSUME NEW k \in 0..n, k # 0 PROVE r[f[k - 1]] = RaiseRound(C, E, f[k - 1])
    <3>1. k - 1 \in 0..n
      BY <2>1
    <3>2. f[k - 1] \in S
      BY <1>3, <3>1 DEF IsRepeated
    <3> QED BY <1>2, <3>2
  <2> QED BY <1>3, <2>1 DEF IsRepeated
<1>5. x = [k \in 0..n |-> IF k = 0 THEN base ELSE RaiseRound(C, E, x[k - 1])]
  BY <1>1, <1>4
<1>6. Least(C, R) = x[n]
  BY <1>1 DEF Least, x, E
<1> HIDE DEF x, base
<1> DEFINE T == {k \in 0..n : x[k] \in S}
<1>7. 0 \in 0..n /\ x[0] = base
  BY <1>5
<1>8. ASSUME NEW k \in 0..(n - 1) PROVE k + 1 \in 0..n /\ x[k + 1] = RaiseRound(C, E, x[k])
  <2>1. k + 1 \in 0..n /\ k + 1 # 0 /\ (k + 1) - 1 = k
    OBVIOUS
  <2> QED BY <1>5, <2>1
<1>9. \A y \in S : IsRaised(C, E, y, RaiseRound(C, E, y)) /\ RaiseRound(C, E, y) \in S
  BY RaiseRaises DEF E, S
<1>10. 0..n \subseteq T
  <2>1. 0 \in T
    BY <1>2, <1>7
  <2>2. \A k \in 0..(n - 1) : k \in T => k + 1 \in T
    BY <1>8, <1>9
  <2> HIDE DEF T
  <2> QED BY <2>1, <2>2, InductionUpTo
<1>11. x \in [0..n -> S]
  BY <1>5, <1>10
<1>12. ASSUME NEW k \in 1..n PROVE IsRaised(C, E, x[k - 1], x[k])
  <2>1. k - 1 \in 0..(n - 1) /\ k - 1 \in 0..n /\ (k - 1) + 1 = k
    OBVIOUS
  <2> QED BY <1>8, <1>9, <1>11, <2>1
<1>13. AreRounds(C, E, 0, x)
  BY <1>1, <1>7, <1>11, <1>12 DEF AreRounds, S, base
<1> QED BY <1>1, <1>6, <1>13 DEF E

LEMMA GreatestRounds ==
    ASSUME NEW C, NEW R, IsGraph(C, Edges(R)), Unbounded(R) \in Int
    PROVE  \E x : /\ AreRounds(C, Turned(Edges(R)), -Unbounded(R), x)
                  /\ Greatest(C, R) \in [C -> Int]
                  /\ Negated(C, Greatest(C, R)) = x[Cardinality(C)]
<1> DEFINE E == Edges(R)
           S == [C -> Int]
           base == [c \in C |-> Unbounded(R)]
           r == [y \in S |-> LowerRound(C, E, y)]
           x[k \in 0..Cardinality(C)] ==
               IF k = 0 THEN base ELSE LowerRound(C, E, x[k - 1])
<1>1. PICK n \in Nat : n = Cardinality(C)
  BY FS_CardinalityType DEF IsGraph
<1>2. base \in S /\ r \in [S -> S] /\ \A y \in S : r[y] = LowerRound(C, E, y)
  <2> HIDE DEF E
  <2> QED BY LowerLowers DEF E
<1> HIDE DEF r, E, S
<1>3. PICK f : IsRepeated(f, n, S, base, r)
  <2> HIDE DEF base
  <2> QED BY <1>2, RepeatedFunction
<1>4. f = [k \in 0..n |-> IF k = 0 THEN base ELSE LowerRound(C, E, f[k - 1])]
  <2> HIDE DEF base
  <2>1. ASSUME NEW k \in 0..n, k # 0 PROVE r[f[k - 1]] = LowerRound(C, E, f[k - 1])
    <3>1. k - 1 \in 0..n
      BY <2>1
    <3>2. f[k - 1] \in S
      BY <1>3, <3>1 DEF IsRepeated
    <3> QED BY <1>2, <3>2
  <2> QED BY <1>3, <2>1 DEF IsRepeated
<1>5. x = [k \in 0..n |-> IF k = 0 THEN base ELSE LowerRound(C, E, x[k - 1])]
  BY <1>1, <1>4
<1>6. Greatest(C, R) = x[n]
  BY <1>1 DEF Greatest, x, E
<1> HIDE DEF x, base
<1> DEFINE T == {k \in 0..n : x[k] \in S}
<1>7. 0 \in 0..n /\ x[0] = base
  BY <1>5
<1>8. ASSUME NEW k \in 0..(n - 1) PROVE k + 1 \in 0..n /\ x[k + 1] = LowerRound(C, E, x[k])
  <2>1. k + 1 \in 0..n /\ k + 1 # 0 /\ (k + 1) - 1 = k
    OBVIOUS
  <2> QED BY <1>5, <2>1
<1>9. \A y \in S : /\ IsRaised(C, Turned(E), Negated(C, y), Negated(C, LowerRound(C, E, y)))
                    /\ LowerRound(C, E, y) \in S
  BY LowerLowers DEF E, S
<1>10. 0..n \subseteq T
  <2>1. 0 \in T
    BY <1>2, <1>7
  <2>2. \A k \in 0..(n - 1) : k \in T => k + 1 \in T
    BY <1>8, <1>9
  <2> HIDE DEF T
  <2> QED BY <2>1, <2>2, InductionUpTo
<1>11. x \in [0..n -> S]
  BY <1>5, <1>10
<1> DEFINE w == [k \in 0..n |-> Negated(C, x[k])]
<1>12. /\ w \in [0..n -> S] /\ w[n] = Negated(C, x[n])
       /\ \A k \in 0..n : w[k] = Negated(C, x[k])
  <2>1. \A y \in S : Negated(C, y) \in S
    BY DEF Negated, S
  <2>2. n \in 0..n
    OBVIOUS
  <2> QED BY <1>11, <2>1, <2>2
<1>13. w[0] = [c \in C |-> -Unbounded(R)]
  <2>1. 0 \in 0..n
    OBVIOUS
  <2>2. x[0] = [c \in C |-> Unbounded(R)]
    BY <1>7 DEF base
  <2> HIDE DEF w
  <2> QED BY <1>12, <2>1, <2>2 DEF Negated
<1> HIDE DEF w
<1>14. ASSUME NEW k \in 1..n PROVE IsRaised(C, Turned(E), w[k - 1], w[k])
  <2>1. k - 1 \in 0..(n - 1) /\ k - 1 \in 0..n /\ (k - 1) + 1 = k /\ k \in 0..n
    OBVIOUS
  <2>2. x[k] = LowerRound(C, E, x[k - 1]) /\ x[k - 1] \in S
    BY <1>8, <1>11, <2>1
  <2>3. w[k] = Negated(C, x[k]) /\ w[k - 1] = Negated(C, x[k - 1])
    BY <1>12, <2>1
  <2> QED BY <1>9, <2>2, <2>3
<1>15. AreRounds(C, Turned(E), -Unbounded(R), w)
  BY <1>1, <1>12, <1>13, <1>14 DEF AreRounds, S
<1>16. x[n] \in S
  BY <1>11
<1> QED BY <1>1, <1>6, <1>12, <1>15, <1>16 DEF E, S

(* The bound is above the right side of every row. *)
LEMMA UnboundedIsAbove ==
    ASSUME NEW C, NEW R \in Seq(RowsOver(C))
    PROVE  Unbounded(R) \in Nat /\ \A k \in DOMAIN R : R[k].rhs < Unbounded(R)
<1> DEFINE n == Len(R)
           abs(k) == IF R[k].rhs < 0 THEN -R[k].rhs ELSE R[k].rhs
           step == [k \in 1..n |-> [x \in Nat |-> x + abs(k)]]
           sum[k \in 0..n] == IF k = 0 THEN 1 ELSE sum[k - 1] + abs(k)
<1>1. n \in Nat /\ DOMAIN R = 1..n
  OBVIOUS
<1>2. \A k \in 1..n : abs(k) \in Nat /\ R[k].rhs \in Int /\ R[k].rhs <= abs(k)
  <2>1. \A k \in 1..n : R[k] \in RowsOver(C)
    OBVIOUS
  <2>2. \A k \in 1..n : R[k].rhs \in Int
    BY <2>1 DEF RowsOver
  <2> QED BY <2>2
<1>3. Unbounded(R) = sum[n]
  BY DEF Unbounded, sum, abs
<1> HIDE DEF n, abs
<1>4. AreSteps(step, n, Nat) /\ \A k \in 1..n : \A x \in Nat : step[k][x] = x + abs(k)
  BY <1>2 DEF AreSteps
<1> HIDE DEF step
<1>5. PICK f : IsIterated(f, step, n, Nat, 1)
  <2> HIDE DEF sum
  <2> QED BY <1>1, <1>4, RecursionUpTo
<1>6. f \in [0..n -> Nat] /\ f[0] = 1 /\ \A k \in 1..n : f[k] = f[k - 1] + abs(k)
  <2>1. f \in [0..n -> Nat] /\ f[0] = 1 /\ \A k \in 1..n : f[k] = step[k][f[k - 1]]
    BY <1>5 DEF IsIterated
  <2>2. \A k \in 1..n : k - 1 \in 0..n
    BY <1>1
  <2> QED BY <1>4, <2>1, <2>2
<1>7. f = [k \in 0..n |-> IF k = 0 THEN 1 ELSE f[k - 1] + abs(k)]
  <2>1. \A k \in 0..n : f[k] = IF k = 0 THEN 1 ELSE f[k - 1] + abs(k)
    BY <1>1, <1>6
  <2> QED BY <1>6, <2>1
<1>8. sum = [k \in 0..n |-> IF k = 0 THEN 1 ELSE sum[k - 1] + abs(k)]
  BY <1>7
<1> HIDE DEF sum
<1> DEFINE T == {k \in 0..n : sum[k] \in Nat /\ sum[k] >= 1
                              /\ \A j \in 1..k : R[j].rhs < sum[k]}
<1>9. 0 \in T
  BY <1>1, <1>8
<1>10. ASSUME NEW k \in 0..(n - 1), k \in T PROVE k + 1 \in T
  <2>1. k + 1 \in 0..n /\ k + 1 \in 1..n /\ (k + 1) - 1 = k /\ k + 1 # 0
    BY <1>1
  <2>2. PICK s \in Nat, t \in Nat : s = sum[k] /\ t = abs(k + 1)
    BY <1>2, <1>10, <2>1
  <2>3. sum[k + 1] = s + t
    BY <1>8, <2>1, <2>2
  <2>4. R[k + 1].rhs \in Int /\ R[k + 1].rhs <= t /\ s >= 1
    BY <1>2, <1>10, <2>1, <2>2
  <2>5. ASSUME NEW j \in 1..(k + 1) PROVE R[j].rhs < s + t
    <3>1. CASE j = k + 1
      BY <2>4, <3>1
    <3>2. CASE j # k + 1
      <4>1. j \in 1..k /\ j \in 1..n
        BY <1>1, <3>2
      <4>2. R[j].rhs < s /\ R[j].rhs \in Int
        BY <1>2, <1>10, <2>2, <4>1
      <4> QED BY <4>2
    <3> QED BY <3>1, <3>2
  <2>6. s + t \in Nat /\ s + t >= 1
    BY <2>4
  <2> QED BY <2>1, <2>3, <2>5, <2>6
<1>11. n \in T
  <2>1. n \in 0..n
    BY <1>1
  <2> HIDE DEF T
  <2> QED BY <1>1, <1>9, <1>10, <2>1, InductionUpTo
<1> QED BY <1>1, <1>3, <1>11

(* Minimising finds the solution that is least in every column, if there   *)
(* is a solution.                                                          *)
LEMMA SolveMinimises ==
    ASSUME NEW C, IsFiniteSet(C), Zero \notin C, NEW R \in Seq(RowsOver(C)),
           NEW s, Feasible(C, R, s)
    PROVE  LET result == Solve("minim", C, R)
           IN /\ result.status = OPTIMAL
              /\ \A t : Feasible(C, R, t) => \A c \in C : result.vars[c] <= t[c]
<1> DEFINE E == Edges(R)
           x == Least(C, R)
<1>1. IsGraph(C, E)
  BY EdgesAreGraph
<1>2. ASSUME NEW t PROVE Feasible(C, R, t) <=> IsSolution(C, E, 0, t)
  <2>1. t \in [C -> Nat] <=> t \in [C -> Int] /\ \A c \in C : t[c] >= 0
    <3>1. ASSUME t \in [C -> Int], \A c \in C : t[c] >= 0 PROVE t \in [C -> Nat]
      <4>1. \A c \in C : t[c] \in Nat
        BY <3>1
      <4> QED BY <3>1, <4>1
    <3>2. ASSUME t \in [C -> Nat] PROVE t \in [C -> Int] /\ \A c \in C : t[c] >= 0
      BY <3>2
    <3> QED BY <3>1, <3>2
  <2>2. t \in [C -> Int] =>
          ((\A k \in DOMAIN R : Holds(t, R[k])) <=> \A e \in E : Satisfies(t, e))
    BY FeasibleIsSolution
  <2> HIDE DEF E
  <2> QED BY <2>1, <2>2 DEF Feasible, IsSolution
<1> HIDE DEF E
<1>3. PICK f : AreRounds(C, E, 0, f) /\ x = f[Cardinality(C)]
  BY <1>1, LeastRounds DEF E
<1> HIDE DEF x
<1>4. IsSolution(C, E, 0, x) /\ \A t : IsSolution(C, E, 0, t) => \A c \in C : x[c] <= t[c]
  <2>1. \E t : IsSolution(C, E, 0, t)
    BY <1>2
  <2> QED BY <1>1, <1>3, <2>1, RoundsReachLeast
<1>5. Feasible(C, R, x)
  BY <1>2, <1>4
<1>6. Solve("minim", C, R) = [status |-> OPTIMAL, vars |-> x]
  BY <1>5 DEF Solve, x
<1> QED BY <1>2, <1>4, <1>6

(* Maximising finds the solution that is greatest in every column, if there *)
(* is a solution and the columns are bounded.                               *)
LEMMA SolveMaximises ==
    ASSUME NEW C, IsFiniteSet(C), Zero \notin C, NEW R \in Seq(RowsOver(C)),
           NEW s, Feasible(C, R, s),
           \A t : Feasible(C, R, t) => \A c \in C : t[c] < Unbounded(R)
    PROVE  LET result == Solve("maxim", C, R)
           IN /\ result.status = OPTIMAL
              /\ \A t : Feasible(C, R, t) => \A c \in C : t[c] <= result.vars[c]
<1> DEFINE E == Edges(R)
           x == Greatest(C, R)
           U == Unbounded(R)
<1>1. IsGraph(C, E) /\ U \in Nat
  BY EdgesAreGraph, UnboundedIsAbove
<1>2. ASSUME NEW t \in [C -> Int]
      PROVE  /\ IsSolution(C, Turned(E), -U, Negated(C, t))
                  <=> (\A k \in DOMAIN R : Holds(t, R[k])) /\ \A c \in C : t[c] <= U
             /\ \A c \in C : Negated(C, t)[c] = -t[c]
             /\ Negated(C, t) \in [C -> Int]
  <2>1. Negated(C, t) \in [C -> Int] /\ \A c \in C : Negated(C, t)[c] = -t[c]
    BY NegatedValue
  <2>2. (\A k \in DOMAIN R : Holds(t, R[k])) <=> \A e \in E : Satisfies(t, e)
    BY FeasibleIsSolution
  <2>3. (\A e \in Turned(E) : Satisfies(Negated(C, t), e)) <=> \A e \in E : Satisfies(t, e)
    BY <1>1, TurnedSatisfied
  <2> HIDE DEF E, U
  <2>4. (\A c \in C : Negated(C, t)[c] >= -U) <=> \A c \in C : t[c] <= U
    BY <1>1, <2>1
  <2> QED BY <2>1, <2>2, <2>3, <2>4 DEF IsSolution
<1> HIDE DEF E
<1>3. PICK f : /\ AreRounds(C, Turned(E), -U, f) /\ x \in [C -> Int]
               /\ Negated(C, x) = f[Cardinality(C)]
  BY <1>1, GreatestRounds DEF E
<1> HIDE DEF x, U
<1>4. ASSUME NEW t, Feasible(C, R, t)
      PROVE  /\ t \in [C -> Int] /\ t \in [C -> Nat]
             /\ IsSolution(C, Turned(E), -U, Negated(C, t))
  <2>1. t \in [C -> Nat] /\ t \in [C -> Int] /\ \A k \in DOMAIN R : Holds(t, R[k])
    BY <1>4 DEF Feasible
  <2>2. \A c \in C : t[c] <= U
    BY <1>1, <1>4, <2>1 DEF U
  <2> QED BY <1>2, <2>1, <2>2
<1>5. /\ IsSolution(C, Turned(E), -U, Negated(C, x))
      /\ \A t : IsSolution(C, Turned(E), -U, t) => \A c \in C : Negated(C, x)[c] <= t[c]
  <2>1. \E t : IsSolution(C, Turned(E), -U, t)
    BY <1>4
  <2>2. IsGraph(C, Turned(E)) /\ -U \in Int
    BY <1>1, TurnedGraph
  <2> QED BY <1>3, <2>1, <2>2, RoundsReachLeast
<1>6. ASSUME NEW t, Feasible(C, R, t), NEW c \in C PROVE t[c] <= x[c]
  <2>1. t \in [C -> Int] /\ Negated(C, x)[c] <= Negated(C, t)[c]
    BY <1>4, <1>5, <1>6
  <2>2. Negated(C, x)[c] = -x[c] /\ Negated(C, t)[c] = -t[c] /\ t[c] \in Int /\ x[c] \in Int
    BY <1>2, <1>3, <2>1
  <2> QED BY <2>1, <2>2
<1>7. x \in [C -> Nat]
  <2>1. \A c \in C : s[c] <= x[c] /\ s[c] \in Nat /\ x[c] \in Int
    BY <1>3, <1>4, <1>6
  <2>2. \A c \in C : x[c] \in Nat
    BY <2>1
  <2> QED BY <1>3, <2>2
<1>8. Feasible(C, R, x)
  BY <1>2, <1>3, <1>5, <1>7 DEF Feasible
<1>9. Solve("maxim", C, R) = [status |-> OPTIMAL, vars |-> x]
  BY <1>8 DEF Solve, x
<1> QED BY <1>6, <1>9

-----------------------------------------------------------------------------
(* Solutions.  The rows have one when the instructions can be sorted so     *)
(* that no row goes against the order: the dominator tree sorts them for    *)
(* the rows of the dependencies, and the columns of the second solve, with  *)
(* the places of the instructions in their orders, for all rows.            *)

(* The rows that the dependencies and the cycles ask for. *)
IsBaseRow(r) ==
    \/ \E i \in Instrs(func) : r = StartRow(i)
    \/ \E i \in Instrs(func) : Cycles(func, i) = 1 /\ r = Row(<<i, 1>>, <<i, 0>>, "EQ", 1)
    \/ \E i \in Instrs(func) : \E d \in func.deps[i] : r = DependencyRow(func, i, d)
    \/ \E i \in Instrs(func) : \E d \in func.mem[i] : r = MemoryRow(func, i, d)

(* A row that puts an instruction after one that has a lower key.          *)
IsOrderRow(key, r) ==
    \E i, j \in Instrs(func) : r = Row(First(i), First(j), "GE", 1) /\ key[j] < key[i]

(* Two states for every key, the second for the end of a memory access.    *)
Spread(key) == [c \in Cols(func) |-> 2 * key[c[1]] + c[2]]

(* What an instruction depends on has a lower key. *)
Sorts(key) ==
    /\ key \in [Instrs(func) -> Nat]
    /\ \A i \in Instrs(func) : \A d \in func.deps[i] \cup func.mem[i] : key[d] < key[i]

LEMMA SpreadColumns ==
    ASSUME IsFunction(func, Opcodes, Widths), NEW key \in [Instrs(func) -> Nat]
    PROVE  /\ Spread(key) \in [Cols(func) -> Nat]
           /\ \A i \in Instrs(func) :
                 /\ First(i) # Zero /\ End(func, i) # Zero
                 /\ Spread(key)[First(i)] = 2 * key[i]
                 /\ Spread(key)[End(func, i)] = 2 * key[i] + Cycles(func, i)
<1>1. \A c \in Cols(func) : \E i \in Instrs(func) : c[1] = i /\ c[2] \in {0, 1}
  BY CyclesRange DEF Cols, First, End
<1>2. \A c \in Cols(func) : 2 * key[c[1]] + c[2] \in Nat
  <2> SUFFICES ASSUME NEW c \in Cols(func) PROVE 2 * key[c[1]] + c[2] \in Nat
    OBVIOUS
  <2>1. PICK i \in Instrs(func) : c[1] = i /\ c[2] \in {0, 1}
    BY <1>1
  <2>2. key[i] \in Nat
    OBVIOUS
  <2> QED BY <2>1, <2>2
<1>3. ASSUME NEW i \in Instrs(func)
      PROVE  /\ First(i) # Zero /\ End(func, i) # Zero
             /\ Spread(key)[First(i)] = 2 * key[i]
             /\ Spread(key)[End(func, i)] = 2 * key[i] + Cycles(func, i)
  <2>1. i # 0 /\ key[i] \in Nat
    BY FunctionShape
  <2>2. First(i) \in Cols(func) /\ End(func, i) \in Cols(func)
    BY ColumnsOf
  <2>3. /\ Spread(key)[First(i)] = 2 * key[First(i)[1]] + First(i)[2]
        /\ Spread(key)[End(func, i)] = 2 * key[End(func, i)[1]] + End(func, i)[2]
    BY <2>2 DEF Spread
  <2>4. /\ First(i)[1] = i /\ First(i)[2] = 0
        /\ End(func, i)[1] = i /\ End(func, i)[2] = Cycles(func, i)
    BY DEF First, End
  <2> QED BY <2>1, <2>3, <2>4 DEF First, End, Zero
<1> QED BY <1>2, <1>3 DEF Spread

(* Where no dependency goes against the keys, there is a solution. *)
LEMMA KeysSolve ==
    ASSUME IsFunction(func, Opcodes, Widths), NEW key, Sorts(key),
           NEW rs, \A k \in DOMAIN rs : IsBaseRow(rs[k]) \/ IsOrderRow(key, rs[k])
    PROVE  Feasible(Cols(func), rs, Spread(key))
<1> DEFINE y == Spread(key)
<1>1. key \in [Instrs(func) -> Nat]
  BY DEF Sorts
<1>2. /\ y \in [Cols(func) -> Nat]
      /\ \A i \in Instrs(func) :
            /\ Value(y, First(i)) = 2 * key[i]
            /\ Value(y, End(func, i)) = 2 * key[i] + Cycles(func, i)
            /\ key[i] \in Nat /\ Cycles(func, i) \in {0, 1}
  BY <1>1, SpreadColumns, CyclesRange DEF Value
<1>3. Value(y, Zero) = 0
  BY DEF Value
<1> HIDE DEF y
<1>4. ASSUME NEW i \in Instrs(func), NEW d \in func.deps[i] \cup func.mem[i]
      PROVE  /\ d \in Instrs(func)
             /\ Value(y, First(i)) - Value(y, End(func, d)) >= 1
  <2>1. d \in Instrs(func) /\ key[d] < key[i]
    BY FunctionShape DEF Sorts
  <2> QED BY <1>2, <2>1
<1>5. ASSUME NEW i \in Instrs(func) PROVE Holds(y, StartRow(i))
  BY <1>2, <1>3 DEF Holds, StartRow, Row
<1>6. ASSUME NEW i \in Instrs(func), Cycles(func, i) = 1
      PROVE  Holds(y, Row(<<i, 1>>, <<i, 0>>, "EQ", 1))
  <2>1. End(func, i) = <<i, 1>> /\ First(i) = <<i, 0>>
    BY <1>6 DEF End, First
  <2>2. Value(y, <<i, 1>>) - Value(y, <<i, 0>>) = 1
    BY <1>2, <1>6, <2>1
  <2> QED BY <2>2 DEF Holds, Row
<1>7. ASSUME NEW i \in Instrs(func), NEW d \in func.deps[i]
      PROVE  Holds(y, DependencyRow(func, i, d))
  BY <1>4 DEF Holds, DependencyRow, Row
<1>8. ASSUME NEW i \in Instrs(func), NEW d \in func.mem[i]
      PROVE  Holds(y, MemoryRow(func, i, d))
  <2>1. Value(y, First(i)) - Value(y, End(func, d)) >= 0
    <3>1. d \in Instrs(func) /\ Value(y, First(i)) - Value(y, End(func, d)) >= 1
      BY <1>4
    <3> QED BY <1>2, <3>1
  <2> QED BY <2>1 DEF Holds, MemoryRow, Row
<1>9. ASSUME NEW i \in Instrs(func), NEW j \in Instrs(func), key[j] < key[i]
      PROVE  Holds(y, Row(First(i), First(j), "GE", 1))
  <2>1. Value(y, First(i)) - Value(y, First(j)) >= 1
    BY <1>2, <1>9
  <2> QED BY <2>1 DEF Holds, Row
<1>10. ASSUME NEW k \in DOMAIN rs PROVE Holds(y, rs[k])
  <2>1. CASE IsBaseRow(rs[k])
    BY <1>5, <1>6, <1>7, <1>8, <2>1 DEF IsBaseRow
  <2>2. CASE IsOrderRow(key, rs[k])
    BY <1>9, <2>2 DEF IsOrderRow
  <2> QED BY <2>1, <2>2
<1> QED BY <1>2, <1>10 DEF Feasible, y

(* The dominator tree, and the places in a block, sort the instructions.   *)
LEMMA DominanceSorts ==
    ASSUME IsFunction(func, Opcodes, Widths)
    PROVE  \E key : Sorts(key)
<1> DEFINE n == Len(func.op)
<1>1. n \in Nat /\ Instrs(func) = 1..n /\ \A i \in Instrs(func) : func.bb[i] \in Blocks(func)
  BY FunctionShape
<1>2. Blocks(func) \subseteq Nat
  BY FunctionShape
<1>3. PICK depth \in [Blocks(func) -> Blocks(func)] :
         \A i \in Instrs(func) : \A d \in func.deps[i] \cup func.mem[i] :
            Precedes(func, depth, d, i)
  BY DEF IsFunction, IsDominated
<1> DEFINE key == [i \in Instrs(func) |-> depth[func.bb[i]] * (n + 1) + i]
<1> HIDE DEF n
<1>4. \A i \in Instrs(func) : depth[func.bb[i]] \in Nat /\ i \in 0..n
  BY <1>1, <1>2
<1>5. \A i \in Instrs(func) : key[i] \in Nat
  BY <1>1, <1>4, PairOrder
<1>6. ASSUME NEW i \in Instrs(func), NEW d \in func.deps[i] \cup func.mem[i]
      PROVE  key[d] < key[i]
  <2>1. d \in Instrs(func) /\ Precedes(func, depth, d, i)
    BY <1>3, FunctionShape
  <2>2. PICK a \in Nat, b \in Nat : a = depth[func.bb[d]] /\ b = depth[func.bb[i]]
    BY <1>4, <2>1
  <2>3. a < b \/ (a = b /\ d < i)
    BY <2>1, <2>2 DEF Precedes
  <2>4. key[d] = a * (n + 1) + d /\ key[i] = b * (n + 1) + i
    BY <2>1, <2>2
  <2>5. a < b => key[d] < key[i]
    BY <1>1, <1>4, <2>1, <2>4, PairOrder
  <2>6. a = b /\ d < i => key[d] < key[i]
    <3>1. a * (n + 1) \in Nat /\ d \in Nat /\ i \in Nat
      BY <1>1, <2>1
    <3> QED BY <2>4, <3>1
  <2> QED BY <2>3, <2>5, <2>6
<1>7. key \in [Instrs(func) -> Nat]
  BY <1>5
<1> QED BY <1>6, <1>7 DEF Sorts

(* The columns of a solution, and the places of the instructions in their  *)
(* orders where those are equal, sort the instructions too.                *)
LEMMA SolutionSorts ==
    ASSUME IsFunction(func, Opcodes, Widths), NEW x \in [Cols(func) -> Nat], Respects(x),
           NEW n \in Nat, NEW pos \in [Instrs(func) -> 0..n]
    PROVE  \E key : /\ Sorts(key)
                    /\ \A i, j \in Instrs(func) :
                          x[First(j)] <= x[First(i)] /\ pos[j] < pos[i] => key[j] < key[i]
<1> DEFINE key == [i \in Instrs(func) |-> x[First(i)] * (n + 1) + pos[i]]
<1>1. \A i \in Instrs(func) :
         x[First(i)] \in Nat /\ x[End(func, i)] \in Nat /\ pos[i] \in 0..n /\ pos[i] \in Nat
  BY ColumnsOf
<1>2. \A i \in Instrs(func) : key[i] = x[First(i)] * (n + 1) + pos[i] /\ key[i] \in Nat
  BY <1>1, PairOrder
<1>3. key \in [Instrs(func) -> Nat]
  BY <1>2
<1> HIDE DEF key
<1>4. ASSUME NEW i \in Instrs(func), NEW j \in Instrs(func), x[First(j)] < x[First(i)]
      PROVE  key[j] < key[i]
  BY <1>1, <1>2, <1>4, PairOrder
<1>5. ASSUME NEW i \in Instrs(func), NEW j \in Instrs(func),
             x[First(j)] = x[First(i)], pos[j] < pos[i]
      PROVE  key[j] < key[i]
  <2>1. PICK a \in Nat : a = x[First(j)] * (n + 1)
    BY <1>1
  <2>2. key[j] = a + pos[j] /\ key[i] = a + pos[i]
    BY <1>2, <1>5, <2>1
  <2> QED BY <1>1, <1>5, <2>2
<1>6. \A i, j \in Instrs(func) :
         x[First(j)] <= x[First(i)] /\ pos[j] < pos[i] => key[j] < key[i]
  BY <1>1, <1>4, <1>5
<1>7. ASSUME NEW i \in Instrs(func), NEW d \in func.deps[i] \cup func.mem[i]
      PROVE  key[d] < key[i]
  <2>1. d \in Instrs(func)
    BY FunctionShape
  <2>2. x[End(func, d)] = x[First(d)] + Cycles(func, d) /\ Cycles(func, d) \in {0, 1}
    BY <2>1, CyclesRange DEF Respects
  <2>3. CASE d \in func.deps[i]
    <3>1. x[First(i)] - x[End(func, d)] >= 1
      BY <2>3 DEF Respects
    <3>2. x[First(d)] < x[First(i)]
      BY <1>1, <2>1, <2>2, <3>1
    <3> QED BY <1>4, <2>1, <3>2
  <2>4. CASE d \in func.mem[i]
    <3>1. Cycles(func, d) = 1
      BY <2>4 DEF IsFunction, Cycles
    <3>2. x[First(i)] - x[End(func, d)] >= 0
      BY <2>4 DEF Respects
    <3>3. x[First(d)] < x[First(i)]
      BY <1>1, <2>1, <2>2, <3>1, <3>2
    <3> QED BY <1>4, <2>1, <3>3
  <2> QED BY <2>3, <2>4
<1> QED BY <1>3, <1>6, <1>7 DEF Sorts

BeforeOrder == {"addMulticycleConstraints", "addDependencyConstraints", "scheduleAsap",
                "addAlapConstraints", "scheduleAlap", "deleteAlapConstraints"}

DuringOrder == {"addResourseConstraint", "scheduleResourseConstrained"}

(* pos places the instructions of the opcodes met so far in orders that the *)
(* columns of the second solve are in.                                      *)
IsPlaced(pos, r) ==
    \E i, j \in Instrs(func) :
        /\ r = Row(First(i), First(j), "GE", 1)
        /\ func.op[i] \in seen /\ func.op[j] \in seen
        /\ sol[First(j)] <= sol[First(i)] /\ pos[j] < pos[i]

OnlyBaseRows == \A k \in 1..Kept : IsBaseRow(rows[k])

OnlyPlacedRows ==
    \E pos \in [Instrs(func) -> 0..Len(func.op)] :
        \A k \in 1..Len(rows) : IsBaseRow(rows[k]) \/ IsPlaced(pos, rows[k])

(* The rows addAlapConstraints added bound every instruction.              *)
IsAlapRow(r) == \E i \in Instrs(func) : r = AlapRow(func, sol, i)

OnlyAlapRows ==
    /\ \A k \in (Kept + 1)..Len(rows) : IsAlapRow(rows[k])
    /\ \A i \in Instrs(func) : Among(rows, AlapRow(func, sol, i), Len(rows))

(* No solve fails. *)
Solvable ==
    /\ pc # "fatal"
    /\ pc \in BeforeOrder => OnlyBaseRows
    /\ pc \in {"addAlapConstraints", "scheduleAlap", "deleteAlapConstraints"} \cup DuringOrder
         => Respects(sol)
    /\ pc = "scheduleAlap" => OnlyAlapRows /\ \A k \in 1..Kept : Holds(sol, rows[k])
    /\ pc = "addAlapConstraints" => Feasible(Cols(func), rows, sol)
    /\ pc \in DuringOrder => OnlyPlacedRows

(* The columns are finitely many. *)
LEMMA ColumnsFinite ==
    ASSUME IsFunction(func, Opcodes, Widths)
    PROVE  IsFiniteSet(Cols(func)) /\ Zero \notin Cols(func)
<1> DEFINE f == [i \in Instrs(func) |-> First(i)]
           g == [i \in Instrs(func) |-> End(func, i)]
<1>1. IsFiniteSet(Instrs(func)) /\ \A i \in Instrs(func) : i # 0
  BY FunctionShape
<1>2. Cols(func) = {f[i] : i \in Instrs(func)} \cup {g[i] : i \in Instrs(func)}
  BY DEF Cols
<1>3. f = [i \in Instrs(func) |-> f[i]] /\ g = [i \in Instrs(func) |-> g[i]]
  OBVIOUS
<1> HIDE DEF f, g
<1>4. IsFiniteSet({f[i] : i \in Instrs(func)})
  BY <1>1, <1>3, FiniteRange
<1>5. IsFiniteSet({g[i] : i \in Instrs(func)})
  BY <1>1, <1>3, FiniteRange
<1>6. IsFiniteSet(Cols(func))
  BY <1>2, <1>4, <1>5, FS_Union
<1>7. Zero \notin Cols(func)
  BY <1>1 DEF Cols, First, End, Zero
<1> QED BY <1>6, <1>7

(* The rows of a method are base rows. *)
LEMMA MulticycleRowsAreBase ==
    ASSUME NEW i \in Instrs(func), NEW k \in DOMAIN MulticycleRows(func, i)
    PROVE  IsBaseRow(MulticycleRows(func, i)[k])
<1>1. MulticycleRows(func, i)
        = [j \in 1..Cycles(func, i) |-> Row(<<i, j>>, <<i, j - 1>>, "EQ", 1)]
  BY DEF MulticycleRows
<1>2. Cycles(func, i) = 1 /\ k = 1
  BY <1>1, CyclesRange
<1>3. MulticycleRows(func, i)[k] = Row(<<i, k>>, <<i, k - 1>>, "EQ", 1)
  BY <1>1
<1>4. <<i, k>> = <<i, 1>> /\ <<i, k - 1>> = <<i, 0>>
  BY <1>2
<1> QED BY <1>2, <1>3, <1>4 DEF IsBaseRow

LEMMA DependencyRowsAreBase ==
    ASSUME IsFunction(func, Opcodes, Widths), NEW i \in Instrs(func),
           NEW k \in DOMAIN DependencyRows(func, i)
    PROVE  IsBaseRow(DependencyRows(func, i)[k])
<1> DEFINE p == SetToSeq(func.deps[i])
           q == SetToSeq(func.mem[i])
           A == <<StartRow(i)>>
           P == [j \in DOMAIN p |-> DependencyRow(func, i, p[j])]
           Q == [j \in DOMAIN q |-> MemoryRow(func, i, q[j])]
           B == {StartRow(i)} \cup {DependencyRow(func, i, d) : d \in func.deps[i]}
                    \cup {MemoryRow(func, i, d) : d \in func.mem[i]}
<1>1. /\ p \in Seq(func.deps[i]) /\ q \in Seq(func.mem[i])
  <2>1. func.deps[i] \in SUBSET Instrs(func) /\ func.mem[i] \in SUBSET Instrs(func)
        /\ IsFiniteSet(Instrs(func))
    BY FunctionShape
  <2>2. IsFiniteSet(func.deps[i]) /\ IsFiniteSet(func.mem[i])
    BY <2>1, FS_Subset
  <2> QED BY <2>2, SetToSeqRange
<1> HIDE DEF p, q
<1>2. A \in Seq(B)
  OBVIOUS
<1>3. P \in Seq(B)
  <2>1. DOMAIN p = 1..Len(p) /\ Len(p) \in Nat /\ \A j \in 1..Len(p) : p[j] \in func.deps[i]
    BY <1>1
  <2>2. P \in [1..Len(p) -> B]
    BY <2>1
  <2> QED BY <2>1, <2>2, IntervalSequence
<1>4. Q \in Seq(B)
  <2>1. DOMAIN q = 1..Len(q) /\ Len(q) \in Nat /\ \A j \in 1..Len(q) : q[j] \in func.mem[i]
    BY <1>1
  <2>2. Q \in [1..Len(q) -> B]
    BY <2>1
  <2> QED BY <2>1, <2>2, IntervalSequence
<1>5. DependencyRows(func, i) = A \o P \o Q
  BY DEF DependencyRows, p, q
<1>6. \A r \in B : IsBaseRow(r)
  BY DEF IsBaseRow
<1> HIDE DEF A, P, Q, B
<1>7. DependencyRows(func, i) \in Seq(B)
  BY <1>2, <1>3, <1>4, <1>5
<1>8. DependencyRows(func, i)[k] \in B
  BY <1>7
<1> QED BY <1>6, <1>8

(* The base rows have a solution. *)
LEMMA BaseRowsSolvable ==
    ASSUME IsFunction(func, Opcodes, Widths), \A k \in DOMAIN rows : IsBaseRow(rows[k])
    PROVE  \E x : Feasible(Cols(func), rows, x)
<1>1. PICK key : Sorts(key)
  BY DominanceSorts
<1> QED BY <1>1, KeysSolve

(* The rows of an order that the columns are in do not take it away.       *)
LEMMA PlacedRowsSolvable ==
    ASSUME IsFunction(func, Opcodes, Widths), rows \in Seq(RowsOver(Cols(func))),
           sol \in [Cols(func) -> Nat], Respects(sol), OnlyPlacedRows
    PROVE  \E x : Feasible(Cols(func), rows, x)
<1>1. PICK n \in Nat : n = Len(func.op)
  BY FunctionShape
<1>2. PICK pos \in [Instrs(func) -> 0..n] :
         \A k \in 1..Len(rows) : IsBaseRow(rows[k]) \/ IsPlaced(pos, rows[k])
  BY <1>1 DEF OnlyPlacedRows
<1>3. PICK key : /\ Sorts(key)
                 /\ \A i, j \in Instrs(func) :
                       sol[First(j)] <= sol[First(i)] /\ pos[j] < pos[i] => key[j] < key[i]
  BY <1>1, SolutionSorts
<1>4. \A k \in DOMAIN rows : IsBaseRow(rows[k]) \/ IsOrderRow(key, rows[k])
  BY <1>2, <1>3 DEF IsPlaced, IsOrderRow
<1> QED BY <1>3, <1>4, KeysSolve

(* The first solution satisfies the rows of the second solve, and these    *)
(* bound every column.                                                     *)
LEMMA AlapRowsSolvable ==
    ASSUME IInv, Solvable, pc = "scheduleAlap"
    PROVE  /\ Feasible(Cols(func), rows, sol)
           /\ \A t : Feasible(Cols(func), rows, t) =>
                 \A c \in Cols(func) : t[c] < Unbounded(rows)
<1>1. /\ IsFunction(func, Opcodes, Widths) /\ rows \in Seq(RowsOver(Cols(func)))
      /\ sol \in [Cols(func) -> Nat] /\ Kept \in Nat /\ Kept <= Len(rows) /\ Len(rows) \in Nat
      /\ \A i \in Instrs(func) : MulticyclePresent(i) /\ DependenciesPresent(i)
  BY DEF IInv, TypeOK, RowsPresent, Kept, MulticycleAdded, DependenciesAdded
<1>2. /\ Respects(sol) /\ OnlyAlapRows /\ \A k \in 1..Kept : Holds(sol, rows[k])
  BY DEF Solvable
<1>3. ASSUME NEW i \in Instrs(func)
      PROVE  /\ sol[First(i)] \in Nat /\ sol[End(func, i)] \in Nat
             /\ sol[End(func, i)] = sol[First(i)] + Cycles(func, i)
             /\ LastEnd(func, sol, func.bb[i]) \in Nat
             /\ sol[End(func, i)] <= LastEnd(func, sol, func.bb[i])
             /\ Cycles(func, i) \in {0, 1} /\ End(func, i) # Zero
  <2>1. func.bb[i] \in Blocks(func) /\ i \in BlockInstrs(func, func.bb[i]) /\ i # 0
    BY <1>1, FunctionShape DEF BlockInstrs
  <2>2. PICK b \in Blocks(func) : b = func.bb[i]
    BY <2>1
  <2> DEFINE g == [j \in BlockInstrs(func, b) |-> sol[End(func, j)]]
  <2>3. g \in [BlockInstrs(func, b) -> Nat]
    BY <1>1, ColumnsOf DEF BlockInstrs
  <2>4. {g[j] : j \in BlockInstrs(func, b)} = {sol[End(func, j)] : j \in BlockInstrs(func, b)}
    OBVIOUS
  <2>5. g[i] = sol[End(func, i)]
    BY <2>1, <2>2
  <2> HIDE DEF g
  <2>6. /\ Max({g[j] : j \in BlockInstrs(func, b)}) \in Nat
        /\ g[i] <= Max({g[j] : j \in BlockInstrs(func, b)})
    BY <1>1, <2>1, <2>2, <2>3, BlockMaximum
  <2>7. LastEnd(func, sol, b) \in Nat /\ sol[End(func, i)] <= LastEnd(func, sol, b)
    BY <2>4, <2>5, <2>6 DEF LastEnd
  <2> QED BY <1>1, <1>2, <2>1, <2>2, <2>7, ColumnsOf, CyclesRange DEF Respects, End, Zero
<1>4. ASSUME NEW i \in Instrs(func) PROVE Holds(sol, AlapRow(func, sol, i))
  <2>1. Value(sol, End(func, i)) = sol[End(func, i)] /\ Value(sol, Zero) = 0
    BY <1>3 DEF Value
  <2>2. CASE StaysFirst(func, sol, i)
    <3>1. sol[First(i)] = 0
      BY <2>2 DEF StaysFirst
    <3>2. Value(sol, End(func, i)) - Value(sol, Zero) = Cycles(func, i)
      BY <1>3, <2>1, <3>1
    <3> QED BY <1>3, <2>2, <3>2 DEF AlapRow, Row, Holds
  <2>3. CASE ~StaysFirst(func, sol, i)
    <3>1. Value(sol, End(func, i)) - Value(sol, Zero) <= LastEnd(func, sol, func.bb[i])
      BY <1>3, <2>1
    <3> QED BY <2>3, <3>1 DEF AlapRow, Row, Holds
  <2> QED BY <2>2, <2>3
<1>5. Feasible(Cols(func), rows, sol)
  <2>1. ASSUME NEW k \in DOMAIN rows PROVE Holds(sol, rows[k])
    <3>1. CASE k <= Kept
      BY <1>1, <1>2, <3>1
    <3>2. CASE ~(k <= Kept)
      <4>1. k \in (Kept + 1)..Len(rows)
        BY <1>1, <3>2
      <4> QED BY <1>2, <1>4, <4>1 DEF OnlyAlapRows, IsAlapRow
    <3> QED BY <3>1, <3>2
  <2> QED BY <1>1, <2>1 DEF Feasible
<1>6. ASSUME NEW t, Feasible(Cols(func), rows, t), NEW i \in Instrs(func)
      PROVE  t[End(func, i)] < Unbounded(rows) /\ t[First(i)] < Unbounded(rows)
  <2>1. t \in [Cols(func) -> Nat] /\ Respects(t)
    <3>1. t \in [Cols(func) -> Nat]
      BY <1>6 DEF Feasible
    <3> QED BY <1>1, <1>6, <3>1, FeasibleRespects
  <2>2. PICK k \in 1..Len(rows) : rows[k] = AlapRow(func, sol, i)
    BY <1>2 DEF OnlyAlapRows, Among
  <2>3. k \in DOMAIN rows
    BY <1>1
  <2>4. Holds(t, rows[k])
    BY <1>6, <2>3 DEF Feasible
  <2>5. /\ rows[k].col = End(func, i) /\ rows[k].sub = Zero /\ rows[k].op \in {"EQ", "LE"}
    BY <2>2 DEF AlapRow, Row
  <2>6. Value(t, End(func, i)) - Value(t, Zero) <= rows[k].rhs
    BY <2>4, <2>5 DEF Holds
  <2>7. Value(t, End(func, i)) = t[End(func, i)] /\ Value(t, Zero) = 0
    BY <1>3 DEF Value
  <2>8. rows[k].rhs < Unbounded(rows) /\ Unbounded(rows) \in Nat
    BY <1>1, <2>3, UnboundedIsAbove
  <2>9. rows[k].rhs \in Int
    BY <1>3, <2>2 DEF AlapRow, Row
  <2>10. /\ t[End(func, i)] \in Nat /\ t[First(i)] \in Nat
         /\ t[End(func, i)] = t[First(i)] + Cycles(func, i)
    BY <2>1, ColumnsOf DEF Respects
  <2> QED BY <1>3, <2>6, <2>7, <2>8, <2>9, <2>10
<1>7. ASSUME NEW t, Feasible(Cols(func), rows, t), NEW c \in Cols(func)
      PROVE  t[c] < Unbounded(rows)
  BY <1>6, <1>7 DEF Cols
<1> QED BY <1>5, <1>7

(* A row stays of its kind as long as the function does. *)
LEMMA BaseRowsStay ==
    ASSUME func' = func, NEW r
    PROVE  IsBaseRow(r)' <=> IsBaseRow(r)
BY DEF IsBaseRow

(* Base rows are appended. *)
LEMMA BaseRowsAppended ==
    ASSUME IInv, func' = func, NEW e \in Seq(RowsOver(Cols(func))), rows' = rows \o e,
           \A k \in DOMAIN e : IsBaseRow(e[k]), Kept = Len(rows), OnlyBaseRows
    PROVE  \A k \in 1..Len(rows') : IsBaseRow(rows'[k])
<1>1. rows \in Seq(RowsOver(Cols(func)))
  BY DEF IInv, TypeOK
<1>2. /\ Len(rows) \in Nat /\ Len(e) \in Nat /\ Len(rows') = Len(rows) + Len(e)
      /\ \A k \in 1..Len(rows) : rows'[k] = rows[k]
      /\ \A k \in 1..Len(e) : rows'[Len(rows) + k] = e[k]
      /\ DOMAIN e = 1..Len(e)
  BY <1>1
<1> SUFFICES ASSUME NEW k \in 1..Len(rows') PROVE IsBaseRow(rows'[k])
  OBVIOUS
<1>3. CASE k \in 1..Len(rows)
  BY <1>2, <1>3 DEF OnlyBaseRows
<1>4. CASE k \notin 1..Len(rows)
  <2>1. PICK j \in 1..Len(e) : k = Len(rows) + j
    <3>1. k - Len(rows) \in 1..Len(e) /\ k = Len(rows) + (k - Len(rows))
      BY <1>2, <1>4
    <3> QED BY <3>1
  <2> QED BY <1>2, <2>1
<1> QED BY <1>3, <1>4

LEMMA addConstraintsSolvable ==
    ASSUME IInv, Solvable, addMulticycleConstraints \/ addDependencyConstraints
    PROVE  Solvable'
<1>1. /\ pc \in {"addMulticycleConstraints", "addDependencyConstraints"} /\ func' = func
      /\ cursor \in Instrs(func) /\ IsFunction(func, Opcodes, Widths)
      /\ pc' \in {"addMulticycleConstraints", "addDependencyConstraints", "scheduleAsap"}
  BY DEF IInv, TypeOK, CursorOK, OverInstrs, addMulticycleConstraints,
         addDependencyConstraints, Advance
<1>2. \E e \in Seq(RowsOver(Cols(func))) :
         rows' = rows \o e /\ \A k \in DOMAIN e : IsBaseRow(e[k])
  <2>1. CASE addMulticycleConstraints
    BY <1>1, <2>1, MulticycleRowsType, MulticycleRowsAreBase DEF addMulticycleConstraints
  <2>2. CASE addDependencyConstraints
    BY <1>1, <2>2, DependencyRowsType, DependencyRowsAreBase DEF addDependencyConstraints
  <2> QED BY <2>1, <2>2
<1>3. PICK e \in Seq(RowsOver(Cols(func))) :
         rows' = rows \o e /\ \A k \in DOMAIN e : IsBaseRow(e[k])
  BY <1>2
<1>4. Kept = Len(rows) /\ Kept' = Len(rows') /\ OnlyBaseRows
  BY <1>1 DEF Kept, Solvable, BeforeOrder
<1>5. \A k \in 1..Len(rows') : IsBaseRow(rows'[k])
  BY <1>1, <1>3, <1>4, BaseRowsAppended
<1>6. OnlyBaseRows'
  BY <1>1, <1>4, <1>5, BaseRowsStay DEF OnlyBaseRows
<1> QED BY <1>1, <1>6 DEF Solvable, BeforeOrder, DuringOrder

LEMMA scheduleAsapSolvable ==
    ASSUME IInv, Solvable, scheduleAsap
    PROVE  Solvable'
<1> DEFINE result == Solve("minim", Cols(func), rows)
<1>1. /\ pc = "scheduleAsap" /\ func' = func /\ rows' = rows /\ sol' = result.vars
      /\ pc' = IF result.status = OPTIMAL THEN "addAlapConstraints" ELSE "fatal"
      /\ IsFunction(func, Opcodes, Widths) /\ rows \in Seq(RowsOver(Cols(func)))
  BY DEF IInv, TypeOK, scheduleAsap, scheduleAxap
<1>2. Kept = Len(rows) /\ OnlyBaseRows /\ Len(rows) \in Nat /\ DOMAIN rows = 1..Len(rows)
  BY <1>1 DEF Kept, Solvable, BeforeOrder
<1>3. PICK x : Feasible(Cols(func), rows, x)
  BY <1>1, <1>2, BaseRowsSolvable DEF OnlyBaseRows
<1>4. result.status = OPTIMAL
  BY <1>1, <1>3, ColumnsFinite, SolveMinimises
<1>5. sol' \in [Cols(func) -> Nat] /\ Feasible(Cols(func), rows, sol')
  BY <1>1, <1>4, SolveSound
<1> HIDE DEF result
<1>6. pc' = "addAlapConstraints"
  BY <1>1, <1>4
<1>7. Respects(sol')
  <2>1. \A i \in Instrs(func) : MulticyclePresent(i) /\ DependenciesPresent(i)
    BY <1>1 DEF IInv, RowsPresent, MulticycleAdded, DependenciesAdded
  <2> QED BY <1>1, <1>2, <1>5, <2>1, FeasibleRespects
<1>8. Respects(sol)'
  BY <1>1, <1>7 DEF Respects
<1>9. OnlyBaseRows'
  <2>1. Kept' = Len(rows)
    BY <1>1, <1>6 DEF Kept
  <2> QED BY <1>1, <1>2, <2>1, BaseRowsStay DEF OnlyBaseRows
<1> QED BY <1>1, <1>5, <1>6, <1>8, <1>9 DEF Solvable, BeforeOrder, DuringOrder

LEMMA addAlapConstraintsSolvable ==
    ASSUME IInv, Solvable, addAlapConstraints
    PROVE  Solvable'
<1> DEFINE A == [i \in Instrs(func) |-> AlapRow(func, sol, i)]
           R == RowsOver(Cols(func))
<1>1. /\ pc = "addAlapConstraints" /\ pc' = "scheduleAlap" /\ func' = func /\ sol' = sol
      /\ rows' = rows \o A /\ nAsap' = Len(rows)
      /\ IsFunction(func, Opcodes, Widths) /\ rows \in Seq(R) /\ sol \in [Cols(func) -> Nat]
  BY DEF IInv, TypeOK, addAlapConstraints
<1>2. PICK n \in Nat : n = Len(func.op) /\ Instrs(func) = 1..n
  BY <1>1, FunctionShape
<1>3. A \in Seq(R) /\ Len(A) = n /\ \A k \in 1..n : A[k] = AlapRow(func, sol, k)
  <2>1. A \in Seq(R)
    BY <1>1, AlapRowsType
  <2>2. DOMAIN A = 1..n /\ \A k \in 1..n : A[k] = AlapRow(func, sol, k)
    BY <1>2
  <2> HIDE DEF A, R
  <2>3. Len(A) = n
    BY <2>1, <2>2
  <2> QED BY <2>1, <2>2, <2>3
<1> HIDE DEF A, R
<1>4. /\ Len(rows) \in Nat /\ Len(rows') = Len(rows) + n
      /\ \A k \in 1..Len(rows) : rows'[k] = rows[k]
      /\ \A k \in 1..n : rows'[Len(rows) + k] = AlapRow(func, sol, k)
  <2>1. /\ Len(rows) \in Nat /\ Len(rows') = Len(rows) + Len(A)
        /\ \A k \in 1..Len(rows) : rows'[k] = rows[k]
        /\ \A k \in 1..Len(A) : rows'[Len(rows) + k] = A[k]
    <3>1. rows \in Seq(R) /\ A \in Seq(R) /\ rows' = rows \o A
      BY <1>1, <1>3
    <3> QED BY <3>1
  <2> QED BY <1>3, <2>1
<1>5. /\ Kept = Len(rows) /\ Kept' = Len(rows) /\ OnlyBaseRows /\ Respects(sol)
      /\ Feasible(Cols(func), rows, sol)
  BY <1>1 DEF Kept, Solvable, BeforeOrder
<1>6. OnlyBaseRows'
  BY <1>1, <1>4, <1>5, BaseRowsStay DEF OnlyBaseRows
<1>7. \A i \in Instrs(func) : AlapRow(func, sol, i)' = AlapRow(func, sol, i)
  BY <1>1
<1>8. \A k \in (Len(rows) + 1)..Len(rows') :
         \E i \in Instrs(func) : rows'[k] = AlapRow(func, sol, i)
  <2> SUFFICES ASSUME NEW k \in (Len(rows) + 1)..Len(rows')
               PROVE  \E i \in Instrs(func) : rows'[k] = AlapRow(func, sol, i)
    OBVIOUS
  <2>1. k - Len(rows) \in 1..n /\ k = Len(rows) + (k - Len(rows))
    BY <1>4
  <2> QED BY <1>2, <1>4, <2>1
<1>9. \A i \in Instrs(func) : \E k \in 1..Len(rows') : rows'[k] = AlapRow(func, sol, i)
  <2> SUFFICES ASSUME NEW i \in Instrs(func)
               PROVE  \E k \in 1..Len(rows') : rows'[k] = AlapRow(func, sol, i)
    OBVIOUS
  <2>1. Len(rows) + i \in 1..Len(rows') /\ i \in 1..n
    BY <1>2, <1>4
  <2> QED BY <1>4, <2>1
<1>10. OnlyAlapRows'
  BY <1>1, <1>5, <1>8, <1>9 DEF OnlyAlapRows, IsAlapRow, Among
<1>11. \A k \in 1..Kept' : Holds(sol', rows'[k])
  <2>1. DOMAIN rows = 1..Len(rows)
    BY <1>1
  <2> QED BY <1>1, <1>4, <1>5, <2>1 DEF Feasible
<1>12. Respects(sol)'
  BY <1>1, <1>5 DEF Respects
<1> QED BY <1>1, <1>6, <1>10, <1>11, <1>12 DEF Solvable, BeforeOrder, DuringOrder

LEMMA scheduleAlapSolvable ==
    ASSUME IInv, Solvable, scheduleAlap
    PROVE  Solvable' /\ \A c \in Cols(func) : sol'[c] >= sol[c]
<1> DEFINE result == Solve("maxim", Cols(func), rows)
<1>1. /\ pc = "scheduleAlap" /\ func' = func /\ rows' = rows /\ nAsap' = nAsap
      /\ sol' = result.vars
      /\ pc' = IF result.status = OPTIMAL THEN "deleteAlapConstraints" ELSE "fatal"
      /\ IsFunction(func, Opcodes, Widths) /\ rows \in Seq(RowsOver(Cols(func)))
      /\ sol \in [Cols(func) -> Nat]
  BY DEF IInv, TypeOK, scheduleAlap, scheduleAxap
<1>2. /\ Feasible(Cols(func), rows, sol)
      /\ \A t : Feasible(Cols(func), rows, t) => \A c \in Cols(func) : t[c] < Unbounded(rows)
  BY <1>1, AlapRowsSolvable
<1>3. /\ result.status = OPTIMAL
      /\ \A t : Feasible(Cols(func), rows, t) => \A c \in Cols(func) : t[c] <= result.vars[c]
  BY <1>1, <1>2, ColumnsFinite, SolveMaximises
<1>4. sol' \in [Cols(func) -> Nat] /\ Feasible(Cols(func), rows, sol')
  BY <1>1, <1>3, SolveSound
<1>5. \A c \in Cols(func) : sol[c] <= sol'[c]
  BY <1>1, <1>2, <1>3
<1> HIDE DEF result
<1>6. pc' = "deleteAlapConstraints"
  BY <1>1, <1>3
<1>7. Kept \in Nat /\ Kept <= Len(rows) /\ Kept' = Kept
  BY <1>1, <1>6 DEF IInv, TypeOK, RowsPresent, Kept
<1>8. Respects(sol')
  <2>1. \A i \in Instrs(func) : MulticyclePresent(i) /\ DependenciesPresent(i)
    BY <1>1 DEF IInv, RowsPresent, MulticycleAdded, DependenciesAdded
  <2> QED BY <1>1, <1>4, <1>7, <2>1, FeasibleRespects
<1>9. Respects(sol)'
  BY <1>1, <1>8 DEF Respects
<1>10. OnlyBaseRows'
  BY <1>1, <1>7, BaseRowsStay DEF OnlyBaseRows, Solvable, BeforeOrder
<1>11. \A c \in Cols(func) : sol'[c] >= sol[c]
  BY <1>1, <1>4, <1>5
<1> QED BY <1>1, <1>6, <1>9, <1>10, <1>11 DEF Solvable, BeforeOrder, DuringOrder

LEMMA deleteAlapConstraintsSolvable ==
    ASSUME IInv, Solvable, deleteAlapConstraints
    PROVE  Solvable'
<1>1. /\ pc = "deleteAlapConstraints" /\ pc' = "addResourseConstraint" /\ func' = func
      /\ sol' = sol /\ rows' = SubSeq(rows, 1, nAsap) /\ Kept = nAsap
      /\ nAsap \in Nat /\ nAsap <= Len(rows)
      /\ IsFunction(func, Opcodes, Widths) /\ rows \in Seq(RowsOver(Cols(func)))
  BY DEF IInv, TypeOK, RowsPresent, Kept, deleteAlapConstraints
<1>2. Len(rows') = nAsap /\ \A k \in 1..nAsap : rows'[k] = rows[k]
  BY <1>1
<1>3. \A k \in 1..Len(rows') : IsBaseRow(rows'[k])
  BY <1>1, <1>2 DEF Solvable, BeforeOrder, OnlyBaseRows
<1>4. OnlyPlacedRows'
  <2>1. [i \in Instrs(func) |-> 0] \in [Instrs(func) -> 0..Len(func.op)]
    BY <1>1, FunctionShape
  <2> QED BY <1>1, <1>3, <2>1, BaseRowsStay DEF OnlyPlacedRows
<1>5. Respects(sol)'
  BY <1>1 DEF Solvable, Respects
<1> QED BY <1>1, <1>4, <1>5 DEF Solvable, BeforeOrder, DuringOrder

LEMMA addResourseConstraintSolvable ==
    ASSUME IInv, Solvable, addResourseConstraint
    PROVE  Solvable'
<1>1. /\ pc = "addResourseConstraint" /\ func' = func /\ sol' = sol
      /\ cursor \in Instrs(func) /\ seen' = seen \cup {func.op[cursor]}
      /\ pc' \in DuringOrder
      /\ IsFunction(func, Opcodes, Widths) /\ rows \in Seq(RowsOver(Cols(func)))
      /\ sol \in [Cols(func) -> Nat]
  BY DEF IInv, TypeOK, CursorOK, OverInstrs, addResourseConstraint, Advance, DuringOrder
<1>2. PICK n \in Nat : n = Len(func.op) /\ Instrs(func) = 1..n
  BY <1>1, FunctionShape
<1>3. PICK pos \in [Instrs(func) -> 0..n] :
         \A k \in 1..Len(rows) : IsBaseRow(rows[k]) \/ IsPlaced(pos, rows[k])
  BY <1>1, <1>2 DEF Solvable, DuringOrder, OnlyPlacedRows
<1>4. Respects(sol)'
  BY <1>1 DEF Solvable, Respects, DuringOrder
<1>5. OnlyPlacedRows'
  <2>1. CASE rows' = rows
    <3>1. \A r : IsPlaced(pos, r) => IsPlaced(pos, r)'
      BY <1>1 DEF IsPlaced
    <3> QED BY <1>1, <1>2, <1>3, <2>1, <3>1, BaseRowsStay DEF OnlyPlacedRows
  <2>2. CASE rows' # rows
    <3>1. PICK op : op = func.op[cursor]
      OBVIOUS
    <3>2. op \notin seen /\ \E q \in SortedByAlap(func, sol, op) :
             rows' = rows \o ResourceRows(q, FuLimit(UnitOf(func, cursor)))
      BY <2>2, <3>1 DEF addResourseConstraint
    <3>3. PICK q \in SortedByAlap(func, sol, op), l \in 1..2 :
             rows' = rows \o ResourceRows(q, l) /\ l = FuLimit(UnitOf(func, cursor))
      <4>1. FuLimit(UnitOf(func, cursor)) \in 1..2
        BY DEF FuLimit
      <4> QED BY <3>2, <4>1
    <3> DEFINE S == Constrained(func, op)
    <3>4. /\ S \in SUBSET Instrs(func) /\ IsFiniteSet(S) /\ \A i \in S : func.op[i] = op
      <4>1. S \in SUBSET Instrs(func) /\ \A i \in S : func.op[i] = op
        BY DEF Constrained, BlockInstrs
      <4>2. IsFiniteSet(Instrs(func))
        BY <1>1, FunctionShape
      <4> HIDE DEF S
      <4> QED BY <4>1, <4>2, FS_Subset
    <3>5. PICK m \in Nat : m = Cardinality(S)
      BY <3>4, FS_CardinalityType
    <3>6. m <= n
      <4>1. IsFiniteSet(1..n) /\ Cardinality(1..n) = n
        BY FS_Interval
      <4> HIDE DEF S
      <4> QED BY <1>2, <3>4, <3>5, <4>1, FS_Subset
    <3>7. /\ q \in [1..m -> S] /\ Len(q) = m
          /\ \A j, k \in 1..m : j # k => q[j] # q[k]
          /\ \A j, k \in 1..m : j < k => ~predicateAlap(sol, q[k], q[j])
      <4>1. q \in SetToSeqs(S) /\ \A j, k \in DOMAIN q : j < k => ~predicateAlap(sol, q[k], q[j])
        BY DEF SortedByAlap
      <4>2. q \in [1..m -> S] /\ \A j, k \in 1..m : j # k => q[j] # q[k]
        BY <3>5, <4>1 DEF SetToSeqs
      <4> QED BY <4>1, <4>2
    <3> DEFINE at(i) == CHOOSE k \in 1..m : q[k] = i
               in == {q[k] : k \in 1..m}
               new == [i \in Instrs(func) |-> IF i \in in THEN at(i) ELSE pos[i]]
    <3>8. \A k \in 1..m : at(q[k]) = k
      <4> SUFFICES ASSUME NEW k \in 1..m PROVE at(q[k]) = k
        OBVIOUS
      <4>1. at(q[k]) \in 1..m /\ q[at(q[k])] = q[k]
        OBVIOUS
      <4> HIDE DEF at
      <4> QED BY <3>7, <4>1
    <3>9. \A k \in 1..m : q[k] \in S /\ q[k] \in Instrs(func) /\ func.op[q[k]] = op
      BY <3>4, <3>7
    <3>10. /\ new \in [Instrs(func) -> 0..n]
           /\ \A k \in 1..m : new[q[k]] = k
           /\ \A i \in Instrs(func) : func.op[i] # op => new[i] = pos[i]
      <4>1. \A i \in in : at(i) \in 1..m
        <5> HIDE DEF at
        <5> QED BY <3>8
      <4>2. 1..m \subseteq 0..n
        BY <3>6
      <4> HIDE DEF at
      <4>3. new \in [Instrs(func) -> 0..n]
        BY <4>1, <4>2
      <4>4. \A k \in 1..m : q[k] \in in
        OBVIOUS
      <4>5. \A i \in in : func.op[i] = op
        BY <3>9
      <4> HIDE DEF in
      <4> QED BY <3>8, <3>9, <4>3, <4>4, <4>5
    <3> HIDE DEF new, at, in, S
    <3>17. PICK w \in [Instrs(func) -> 0..n] :
              /\ \A k \in 1..m : w[q[k]] = k
              /\ \A i \in Instrs(func) : func.op[i] # op => w[i] = pos[i]
      BY <3>10
    <3>11. ASSUME NEW r, IsPlaced(pos, r) PROVE IsPlaced(w, r)'
      <4>1. PICK i \in Instrs(func), j \in Instrs(func) :
               /\ r = Row(First(i), First(j), "GE", 1)
               /\ func.op[i] \in seen /\ func.op[j] \in seen
               /\ sol[First(j)] <= sol[First(i)] /\ pos[j] < pos[i]
        BY <3>11 DEF IsPlaced
      <4>2. w[i] = pos[i] /\ w[j] = pos[j]
        BY <3>2, <3>17, <4>1
      <4> QED BY <1>1, <4>1, <4>2 DEF IsPlaced
    <3>12. ASSUME NEW k \in 1..(m - l)
           PROVE  \A r : r = Row(First(q[k + l]), First(q[k]), "GE", 1) => IsPlaced(w, r)'
      <4>1. k \in 1..m /\ k + l \in 1..m /\ k < k + l
        OBVIOUS
      <4>2. PICK i \in Instrs(func), j \in Instrs(func) : i = q[k + l] /\ j = q[k]
        BY <3>9, <4>1
      <4>3. sol[First(j)] <= sol[First(i)]
        <5>1. ~(sol[First(i)] < sol[First(j)])
          BY <3>7, <4>1, <4>2 DEF predicateAlap
        <5>2. sol[First(i)] \in Nat /\ sol[First(j)] \in Nat
          BY <1>1, ColumnsOf
        <5> QED BY <5>1, <5>2
      <4>4. w[i] = k + l /\ w[j] = k
        BY <3>17, <4>1, <4>2
      <4>5. func.op[i] \in seen' /\ func.op[j] \in seen'
        BY <1>1, <3>1, <3>9, <4>1, <4>2
      <4>6. w[j] < w[i]
        BY <4>1, <4>4
      <4> QED BY <1>1, <4>2, <4>3, <4>5, <4>6 DEF IsPlaced
    <3>13. PICK e : e = ResourceRows(q, l)
      OBVIOUS
    <3>14. /\ e \in Seq(RowsOver(Cols(func))) /\ rows' = rows \o e
           /\ \A k \in DOMAIN e :
                 k \in 1..(m - l) /\ e[k] = Row(First(q[k + l]), First(q[k]), "GE", 1)
      <4>1. e \in Seq(RowsOver(Cols(func)))
        BY <1>1, <3>3, <3>13, ResourceRowsType
      <4> QED BY <3>3, <3>7, <3>13, <4>1 DEF ResourceRows
    <3>15. /\ Len(rows) \in Nat /\ Len(e) \in Nat /\ Len(rows') = Len(rows) + Len(e)
           /\ \A k \in 1..Len(rows) : rows'[k] = rows[k]
           /\ \A k \in 1..Len(e) : rows'[Len(rows) + k] = e[k] /\ k \in DOMAIN e
      BY <1>1, <3>14
    <3>16. ASSUME NEW k \in 1..Len(rows'), NEW r, r = rows'[k]
           PROVE  IsBaseRow(r)' \/ IsPlaced(w, r)'
      <4>1. r = rows'[k]
        BY <3>16
      <4>2. CASE k \in 1..Len(rows)
        <5>1. IsBaseRow(r) \/ IsPlaced(pos, r)
          BY <1>3, <3>15, <4>1, <4>2
        <5>2. IsBaseRow(r)' \/ IsPlaced(w, r)'
          BY <1>1, <3>11, <5>1, BaseRowsStay
        <5> QED BY <4>1, <5>2
      <4>3. CASE k \notin 1..Len(rows)
        <5>1. PICK j \in 1..Len(e) : k = Len(rows) + j
          <6>1. k - Len(rows) \in 1..Len(e) /\ k = Len(rows) + (k - Len(rows))
            BY <3>15, <4>3
          <6> QED BY <6>1
        <5>2. r = e[j] /\ j \in DOMAIN e
          BY <3>15, <4>1, <5>1
        <5>3. j \in 1..(m - l) /\ r = Row(First(q[j + l]), First(q[j]), "GE", 1)
          BY <3>14, <5>2
        <5>4. IsPlaced(w, r)'
          BY <3>12, <5>3
        <5> QED BY <4>1, <5>4
      <4> QED BY <4>2, <4>3
    <3>18. \A k \in 1..Len(rows') : IsBaseRow(rows[k])' \/ IsPlaced(w, rows[k])'
      BY <3>16 DEF IsBaseRow, IsPlaced
    <3> QED BY <1>1, <1>2, <3>18 DEF OnlyPlacedRows
  <2> QED BY <2>1, <2>2
<1> QED BY <1>1, <1>4, <1>5 DEF Solvable, BeforeOrder, DuringOrder

LEMMA scheduleResourseConstrainedSolvable ==
    ASSUME IInv, Solvable, scheduleResourseConstrained
    PROVE  Solvable'
<1>1. /\ pc = "scheduleResourseConstrained" /\ func' = func
      /\ IsFunction(func, Opcodes, Widths) /\ rows \in Seq(RowsOver(Cols(func)))
      /\ sol \in [Cols(func) -> Nat] /\ Respects(sol) /\ OnlyPlacedRows
  BY DEF IInv, TypeOK, Solvable, DuringOrder, scheduleResourseConstrained
<1>2. PICK x : Feasible(Cols(func), rows, x)
  BY <1>1, PlacedRowsSolvable
<1>3. Solve("minim", Cols(func), rows).status = OPTIMAL
  BY <1>1, <1>2, ColumnsFinite, SolveMinimises
<1>4. pc' = "mapSchedule"
  BY <1>3 DEF scheduleResourseConstrained, scheduleAxap
<1> QED BY <1>4 DEF Solvable, BeforeOrder, DuringOrder

(* No solve fails, whatever order the sort makes of equal states.          *)
LEMMA StaysSolvable == Spec => []Solvable
<1>1. ASSUME Init PROVE Solvable
  <2>1. pc = "addMulticycleConstraints" /\ Kept = 0
    BY <1>1 DEF Init, Kept
  <2> QED BY <2>1 DEF Solvable, BeforeOrder, DuringOrder, OnlyBaseRows
<1>2. ASSUME IInv, Solvable, [Next]_vars PROVE Solvable'
  <2>1. CASE mapSchedule \/ Returned
    <3>1. pc' \in {"mapSchedule", "done"}
      BY <2>1 DEF mapSchedule, Returned, Advance, vars
    <3> QED BY <3>1 DEF Solvable, BeforeOrder, DuringOrder
  <2>2. CASE UNCHANGED vars
    <3>1. /\ \A r : IsBaseRow(r)' <=> IsBaseRow(r)
          /\ \A r : IsAlapRow(r)' <=> IsAlapRow(r)
          /\ \A pos, r : IsPlaced(pos, r)' <=> IsPlaced(pos, r)
      BY <2>2 DEF vars, IsBaseRow, IsAlapRow, IsPlaced
    <3>2. Kept' = Kept /\ (Respects(sol)' <=> Respects(sol))
      BY <2>2 DEF vars, Kept, Respects
    <3>3. /\ OnlyBaseRows' <=> OnlyBaseRows
          /\ OnlyPlacedRows' <=> OnlyPlacedRows
      BY <2>2, <3>1, <3>2 DEF vars, OnlyBaseRows, OnlyPlacedRows
    <3>4. OnlyAlapRows' <=> OnlyAlapRows
      BY <2>2, <3>1, <3>2 DEF vars, OnlyAlapRows
    <3> QED BY <1>2, <2>2, <3>2, <3>3, <3>4 DEF vars, Solvable
  <2> QED BY <1>2, <2>1, <2>2, addConstraintsSolvable, scheduleAsapSolvable,
             addAlapConstraintsSolvable, scheduleAlapSolvable, deleteAlapConstraintsSolvable,
             addResourseConstraintSolvable, scheduleResourseConstrainedSolvable DEF Next
<1> QED BY <1>1, <1>2, Invariance, PTL DEF Spec

(* The scheduler never gives up: neither the bounds of the second solve nor *)
(* an order of the instructions that compete for a unit contradicts a       *)
(* dependency, for every function whose values dominate their uses.         *)
THEOREM NeverFails == Spec => []AlwaysSolvable
<1>1. Solvable => AlwaysSolvable
  BY DEF Solvable, AlwaysSolvable
<1> QED BY <1>1, StaysSolvable, PTL

(* No instruction is moved to an earlier state by scheduling it as late as  *)
(* possible: the first solution satisfies the rows of the second solve.     *)
THEOREM MobilityStaysNonNegative == Spec => MobilityNonNegative
<1>1. IInv /\ Solvable /\ [Next]_vars
        => [pc = "scheduleAlap" => \A c \in Cols(func) : sol'[c] >= sol[c]]_vars
  <2> SUFFICES ASSUME IInv, Solvable, Next, pc = "scheduleAlap"
               PROVE  \A c \in Cols(func) : sol'[c] >= sol[c]
    OBVIOUS
  <2>1. scheduleAlap
    BY DEF Next, addMulticycleConstraints, addDependencyConstraints, scheduleAsap,
           addAlapConstraints, deleteAlapConstraints, addResourseConstraint,
           scheduleResourseConstrained, mapSchedule, Returned
  <2> QED BY <2>1, scheduleAlapSolvable
<1> QED BY <1>1, Invariance, StaysSolvable, PTL DEF Spec, MobilityNonNegative

=============================================================================
