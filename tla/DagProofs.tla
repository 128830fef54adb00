------------------------------ MODULE DagProofs ------------------------------
(***************************************************************************)
(* Proofs about Dag::create, for every set of functions: the dependencies  *)
(* it leaves cover what the instructions read and order the accesses       *)
(* through one pointer, although the operands they are collected from are  *)
(* rewritten in between.                                                   *)
(*                                                                         *)
(* The inductive invariant says what the loop has made of the instructions *)
(* it has passed, in terms of the function as it was passed, and that the  *)
(* others are as they were.  It is needed because a dependency is taken    *)
(* from the operands of two instructions: extensions keep theirs for ever, *)
(* and an access compares its pointer with those of earlier accesses only, *)
(* whose operands no longer change.                                        *)
(***************************************************************************)
EXTENDS Dag, FiniteSetLemmas

-----------------------------------------------------------------------------
(* The inductive invariant.                                                *)

(* The instructions constructDependencies has collected dependencies of.   *)
Processed(i) ==
    /\ func.op[i] \notin WithoutDependencies
    /\ \/ pc \in {"filterInstructions", "done"}
       \/ pc = "constructDependencies" /\ i < cursor
       \/ pc = "assertion" /\ i <= cursor

(* Uncast, in terms of the function as it was passed. *)
Seen(i, d) == IF IsDependence(i, d) /\ IsCast(d) THEN func.operands[d][1] ELSE d

SeenOperands(i) == [n \in DOMAIN func.operands[i] |-> Seen(i, func.operands[i][n])]

SeenDependencies(i) ==
    {Seen(i, func.operands[i][n]) : n \in {m \in DOMAIN func.operands[i] :
        IsDependence(i, func.operands[i][m])}} \ {Other}

Extensions == {i \in Instrs(func) : IsCast(i)}

(* Where create is. *)
ShapeOK ==
    /\ func \in Functions
    /\ pc \in {"insertInstruction", "constructDependencies", "filterInstructions",
               "done", "assertion"}
    /\ cursor \in Instrs(func)
    /\ erased = IF pc = "done" THEN Extensions ELSE {}
    /\ nodes = IF pc = "insertInstruction" THEN 1..(cursor - 1) ELSE Instrs(func)

(* The operands are those of the function, seen through extensions. *)
Rewritten ==
    /\ operands \in [Instrs(func) -> Seq(Instrs(func) \cup {Other})]
    /\ \A i \in Instrs(func) :
          operands[i] = IF Processed(i) THEN SeenOperands(i) ELSE func.operands[i]

(* The dependencies follow from the function. *)
Collected ==
    /\ deps \in [Instrs(func) -> SUBSET Instrs(func)]
    /\ \A i \in Instrs(func) : deps[i] = IF Processed(i) THEN SeenDependencies(i) ELSE {}

(* The memory dependencies follow from the operands as they are now. *)
Ordered ==
    /\ mem \in [Instrs(func) -> SUBSET Instrs(func)]
    /\ \A i \in Instrs(func) :
          mem[i] = IF Processed(i) THEN MemoryDependencies(operands, i) ELSE {}

(* A list of users is the inverse of the dependencies. *)
Opposite(inverse, D) ==
    /\ inverse \in [Instrs(func) -> SUBSET Instrs(func)]
    /\ \A i \in Instrs(func) : inverse[i] = {j \in Instrs(func) : i \in D[j]}

IInv ==
    /\ ShapeOK /\ Rewritten /\ Collected /\ Ordered
    /\ Opposite(users, deps) /\ Opposite(memUsers, mem)

-----------------------------------------------------------------------------
(* What the definitions of the model return.                               *)

(* The instructions of a function are an interval with operands among them. *)
LEMMA FunctionShape ==
    ASSUME NEW f \in Functions
    PROVE  /\ Len(f.op) \in Nat \ {0} /\ Instrs(f) = 1..Len(f.op) /\ 1 \in Instrs(f)
           /\ Instrs(f) \subseteq Nat /\ Other \notin Instrs(f)
           /\ f.operands \in [Instrs(f) -> Seq(Instrs(f) \cup {Other})]
           /\ \A i \in Instrs(f) : f.op[i] \in Casts =>
                 1 \in DOMAIN f.operands[i] /\ f.operands[i][1] \in Instrs(f) \cup {Other}
<1>1. HasOperands(f)
  BY FunctionsAssumption
<1>2. Len(f.op) \in Nat \ {0} /\ Instrs(f) = 1..Len(f.op)
  <2>1. f.op \in Seq(STRING) /\ f.bb \in [Instrs(f) -> Blocks(f)] /\ Blocks(f) # {}
    BY <1>1 DEF HasOperands, IsControlFlow, Blocks
  <2>2. Instrs(f) # {}
    BY <1>1, <2>1 DEF HasOperands, IsControlFlow, IsLaidOut, BlockInstrs
  <2> QED BY <2>1, <2>2 DEF Instrs
<1>3. 1 \in Instrs(f) /\ Instrs(f) \subseteq Nat /\ Other \notin Instrs(f)
  BY <1>2 DEF Other
<1>4. f.operands \in [Instrs(f) -> Seq(Instrs(f) \cup {Other})]
  BY <1>1 DEF HasOperands
<1>5. \A i \in Instrs(f) : f.op[i] \in Casts =>
         1 \in DOMAIN f.operands[i] /\ f.operands[i][1] \in Instrs(f) \cup {Other}
  <2> SUFFICES ASSUME NEW i \in Instrs(f), f.op[i] \in Casts
               PROVE  1 \in DOMAIN f.operands[i] /\ f.operands[i][1] \in Instrs(f) \cup {Other}
    OBVIOUS
  <2>1. f.operands[i] \in Seq(Instrs(f) \cup {Other}) /\ Len(f.operands[i]) = 1
    BY <1>1, <1>4 DEF HasOperands
  <2>2. ASSUME NEW V, NEW q \in Seq(V), Len(q) = 1
        PROVE  1 \in DOMAIN q /\ q[1] \in V
    BY <2>2
  <2> QED BY <2>1, <2>2
<1> QED BY <1>2, <1>3, <1>4, <1>5

(* An operand is, also seen through an extension, an instruction or none.  *)
LEMMA SeenType ==
    ASSUME func \in Functions, NEW i \in Instrs(func), NEW n \in DOMAIN func.operands[i]
    PROVE  Seen(i, func.operands[i][n]) \in Instrs(func) \cup {Other}
<1> DEFINE d == func.operands[i][n]
<1>1. d \in Instrs(func) \cup {Other}
  <2>1. func.operands[i] \in Seq(Instrs(func) \cup {Other})
    BY FunctionShape
  <2> QED BY <2>1
<1>2. IsCast(d) => func.operands[d][1] \in Instrs(func) \cup {Other}
  BY <1>1, FunctionShape DEF IsCast
<1> QED BY <1>1, <1>2 DEF Seen

(* The dependencies collected are instructions. *)
LEMMA SeenDependenciesType ==
    ASSUME func \in Functions, NEW i \in Instrs(func)
    PROVE  SeenDependencies(i) \subseteq Instrs(func)
BY SeenType DEF SeenDependencies

(* So are the memory dependencies. *)
LEMMA MemoryDependenciesType ==
    ASSUME NEW ops, NEW i
    PROVE  MemoryDependencies(ops, i) \subseteq Instrs(func)
BY DEF MemoryDependencies, BlockInstrs

(* The memory dependencies of an instruction follow from the operands of   *)
(* the instructions up to it.                                              *)
LEMMA MemoryDependenciesLocal ==
    ASSUME NEW ops, NEW others, NEW i \in Instrs(func), Instrs(func) \subseteq Nat,
           \A j \in Instrs(func) : j <= i => ops[j] = others[j]
    PROVE  MemoryDependencies(ops, i) = MemoryDependencies(others, i)
<1>1. \A j \in BlockInstrs(func, func.bb[i]) : j < i =>
         Pointer(ops, j) = Pointer(others, j)
  BY DEF BlockInstrs, Pointer
<1>2. Pointer(ops, i) = Pointer(others, i)
  BY DEF Pointer
<1> QED BY <1>1, <1>2 DEF MemoryDependencies

(* What is recorded with an instruction that had no dependencies keeps the *)
(* lists of users opposite.                                                *)
LEMMA RecordedOpposite ==
    ASSUME NEW inverse, NEW D, NEW i \in Instrs(func), NEW E \in SUBSET Instrs(func),
           D \in [Instrs(func) -> SUBSET Instrs(func)], D[i] = {},
           Opposite(inverse, D)
    PROVE  Opposite(Recorded(inverse, i, E), [D EXCEPT ![i] = E])
<1> DEFINE R == Recorded(inverse, i, E)
           N == [D EXCEPT ![i] = E]
<1>1. inverse \in [Instrs(func) -> SUBSET Instrs(func)]
  BY DEF Opposite
<1>2. R = [j \in Instrs(func) |-> IF j \in E THEN inverse[j] \cup {i} ELSE inverse[j]]
  BY <1>1 DEF Recorded
<1>3. R \in [Instrs(func) -> SUBSET Instrs(func)]
  BY <1>1, <1>2
<1>4. ASSUME NEW k \in Instrs(func)
      PROVE  R[k] = {j \in Instrs(func) : k \in N[j]}
  <2>1. \A j \in Instrs(func) : N[j] = IF j = i THEN E ELSE D[j]
    OBVIOUS
  <2>2. inverse[k] = {j \in Instrs(func) : k \in D[j]}
    BY DEF Opposite
  <2>3. R[k] = IF k \in E THEN inverse[k] \cup {i} ELSE inverse[k]
    BY <1>2
  <2> HIDE DEF R, N
  <2>4. \A j \in Instrs(func) : j \in R[k] <=> k \in N[j]
    BY <2>1, <2>2, <2>3
  <2>5. R[k] \subseteq Instrs(func)
    BY <1>3
  <2> QED BY <2>4, <2>5
<1> HIDE DEF R, N
<1>5. Opposite(R, N)
  BY <1>3, <1>4 DEF Opposite
<1> QED BY <1>5 DEF R, N

-----------------------------------------------------------------------------
(* The inductive step.                                                     *)

(* What is an extension does not change with the operands. *)
LEMMA SameExtensions == func' = func => Extensions' = Extensions
BY DEF Extensions, IsCast

(* Nothing is collected before the first loop. *)
LEMMA InitIInv == Init => IInv
<1> SUFFICES ASSUME Init PROVE IInv
  OBVIOUS
<1>1. func \in Functions /\ pc = "insertInstruction" /\ cursor = 1
  BY DEF Init
<1>2. \A i \in Instrs(func) : ~Processed(i)
  BY <1>1 DEF Processed
<1>3. ShapeOK
  <2>1. nodes = 1..(cursor - 1)
    BY <1>1 DEF Init
  <2> QED BY <2>1, <1>1, FunctionShape DEF Init, ShapeOK
<1>4. Rewritten
  BY <1>1, <1>2, FunctionShape DEF Init, Rewritten
<1>5. Collected /\ Ordered
  BY <1>2 DEF Init, Collected, Ordered
<1>6. Opposite(users, deps) /\ Opposite(memUsers, mem)
  BY DEF Init, Opposite
<1> QED BY <1>3, <1>4, <1>5, <1>6 DEF IInv

(* A step that leaves the operands, the dependencies and the instructions  *)
(* it has passed alone keeps what is said of them.                         *)
LEMMA Preserved ==
    ASSUME IInv, ShapeOK', UNCHANGED <<func, operands, deps, users, mem, memUsers>>,
           \A i \in Instrs(func) : Processed(i)' <=> Processed(i)
    PROVE  IInv'
<1>1. \A i \in Instrs(func) :
         /\ SeenOperands(i)' = SeenOperands(i)
         /\ SeenDependencies(i)' = SeenDependencies(i)
         /\ MemoryDependencies(operands, i)' = MemoryDependencies(operands, i)
  BY DEF SeenOperands, SeenDependencies, Seen, MemoryDependencies, Pointer, IsDependence, IsCast
<1>2. Rewritten'
  BY <1>1 DEF IInv, Rewritten
<1>3. Collected'
  BY <1>1 DEF IInv, Collected
<1>4. Ordered'
  BY <1>1 DEF IInv, Ordered
<1>5. Opposite(users, deps)' /\ Opposite(memUsers, mem)'
  BY DEF IInv, Opposite
<1> QED BY <1>2, <1>3, <1>4, <1>5 DEF IInv

(* Making the nodes collects nothing. *)
LEMMA insertInstructionStep == IInv /\ insertInstruction => IInv'
<1> SUFFICES ASSUME IInv, insertInstruction PROVE IInv'
  OBVIOUS
<1>1. /\ func \in Functions /\ cursor \in Instrs(func) /\ erased = {}
      /\ pc = "insertInstruction" /\ nodes = 1..(cursor - 1) /\ nodes' = nodes \cup {cursor}
  BY DEF IInv, ShapeOK, insertInstruction
<1>2. UNCHANGED <<func, operands, erased, deps, users, mem, memUsers>>
  BY DEF insertInstruction
<1>3. Len(func.op) \in Nat /\ Instrs(func) = 1..Len(func.op) /\ 1 \in Instrs(func)
  BY <1>1, FunctionShape
<1>4. CASE cursor < Len(func.op)
  <2>1. cursor' = cursor + 1 /\ pc' = "insertInstruction"
    BY <1>1, <1>4 DEF insertInstruction, Advance
  <2>2. ShapeOK'
    BY <2>1, <1>1, <1>2, <1>3, <1>4 DEF ShapeOK
  <2>3. \A i \in Instrs(func) : Processed(i)' <=> Processed(i)
    BY <2>1, <1>1, <1>2 DEF Processed
  <2> QED BY <2>2, <2>3, <1>2, Preserved
<1>5. CASE ~(cursor < Len(func.op))
  <2>1. cursor' = 1 /\ pc' = "constructDependencies"
    BY <1>5 DEF insertInstruction, Advance
  <2>2. nodes' = Instrs(func)
    BY <1>1, <1>3, <1>5
  <2>3. ShapeOK'
    BY <2>1, <2>2, <1>1, <1>2, <1>3 DEF ShapeOK
  <2>4. \A i \in Instrs(func) : Processed(i)' <=> Processed(i)
    BY <2>1, <1>1, <1>2, <1>3 DEF Processed
  <2> QED BY <2>3, <2>4, <1>2, Preserved
<1> QED BY <1>4, <1>5

(* Erasing the extensions leaves the lists alone. *)
LEMMA filterInstructionsStep == IInv /\ filterInstructions => IInv'
<1> SUFFICES ASSUME IInv, filterInstructions PROVE IInv'
  OBVIOUS
<1>1. UNCHANGED <<func, operands, deps, users, mem, memUsers>>
  BY DEF filterInstructions
<1>2. ShapeOK'
  BY SameExtensions DEF IInv, ShapeOK, filterInstructions, Extensions
<1>3. \A i \in Instrs(func) : Processed(i)' <=> Processed(i)
  BY DEF Processed, filterInstructions
<1> QED BY <1>1, <1>2, <1>3, Preserved

(* constructDependencies passes the instruction at the cursor.             *)
LEMMA Passes ==
    ASSUME ShapeOK, constructDependencies
    PROVE  /\ ShapeOK'
           /\ \A i \in Instrs(func) : Processed(i)' <=>
                 Processed(i) \/ (i = cursor /\ func.op[i] \notin WithoutDependencies)
<1>1. /\ func \in Functions /\ cursor \in Instrs(func)
      /\ pc = "constructDependencies" /\ func' = func
      /\ UNCHANGED <<nodes, erased>>
      /\ erased = {}
  BY DEF ShapeOK, constructDependencies
<1>2. Len(func.op) \in Nat /\ Instrs(func) = 1..Len(func.op) /\ 1 \in Instrs(func)
  BY <1>1, FunctionShape
<1>3. CASE IsDummyCall(cursor)
  <2>1. pc' = "assertion" /\ cursor' = cursor
    BY <1>3 DEF constructDependencies
  <2> QED BY <2>1, <1>1, <1>2 DEF ShapeOK, Processed
<1>4. CASE ~IsDummyCall(cursor) /\ cursor < Len(func.op)
  <2>1. pc' = "constructDependencies" /\ cursor' = cursor + 1
    BY <1>1, <1>4 DEF constructDependencies, Advance
  <2> QED BY <2>1, <1>1, <1>2, <1>4 DEF ShapeOK, Processed
<1>5. CASE ~IsDummyCall(cursor) /\ ~(cursor < Len(func.op))
  <2>1. pc' = "filterInstructions" /\ cursor' = 1
    BY <1>1, <1>5 DEF constructDependencies, Advance
  <2>2. \A i \in Instrs(func) : i < cursor \/ i = cursor
    BY <1>1, <1>2, <1>5
  <2> QED BY <2>1, <2>2, <1>1, <1>2 DEF ShapeOK, Processed
<1> QED BY <1>3, <1>4, <1>5

(* An instruction it passes without dependencies is left as it is. *)
LEMMA Skipped ==
    ASSUME IInv, constructDependencies, func.op[cursor] \in WithoutDependencies
    PROVE  IInv'
<1>1. UNCHANGED <<func, operands, deps, users, mem, memUsers>>
  BY DEF constructDependencies
<1>2. /\ ShapeOK'
      /\ \A i \in Instrs(func) : Processed(i)' <=>
            Processed(i) \/ (i = cursor /\ func.op[i] \notin WithoutDependencies)
  BY Passes DEF IInv
<1> QED BY <1>1, <1>2, Preserved

(* What is collected of the instruction at the cursor is what the function *)
(* as it was passed says.                                                  *)
LEMMA CollectedAtCursor ==
    ASSUME IInv, pc = "constructDependencies"
    PROVE  /\ [n \in DOMAIN operands[cursor] |-> Uncast(cursor, operands[cursor][n])]
                  = SeenOperands(cursor)
           /\ RegisterDependencies(cursor) = SeenDependencies(cursor)
<1>1. func \in Functions /\ cursor \in Instrs(func) /\ Rewritten
  BY DEF IInv, ShapeOK
<1>2. Instrs(func) \subseteq Nat /\ Other \notin Instrs(func)
  BY <1>1, FunctionShape
<1>3. ~Processed(cursor)
  BY <1>1, <1>2 DEF Processed
<1>4. operands[cursor] = func.operands[cursor]
  BY <1>1, <1>3 DEF Rewritten
<1>5. \A d \in Instrs(func) : IsCast(d) => operands[d] = func.operands[d]
  BY <1>1 DEF Rewritten, IsCast, Processed, WithoutDependencies
<1>6. \A n \in DOMAIN func.operands[cursor] :
         func.operands[cursor][n] \in Instrs(func) \cup {Other}
  <2>1. func.operands[cursor] \in Seq(Instrs(func) \cup {Other})
    BY <1>1, FunctionShape
  <2> QED BY <2>1
<1>7. \A n \in DOMAIN func.operands[cursor] :
         Uncast(cursor, operands[cursor][n]) = Seen(cursor, func.operands[cursor][n])
  BY <1>4, <1>5, <1>6 DEF Uncast, Seen, IsCast
<1> QED BY <1>4, <1>7 DEF SeenOperands, RegisterDependencies, SeenDependencies

(* The dependencies of any other are those of the function as it was       *)
(* passed, and what was collected before stays true of the new operands.   *)
LEMMA Gathered ==
    ASSUME IInv, constructDependencies, func.op[cursor] \notin WithoutDependencies
    PROVE  IInv'
<1> DEFINE c == cursor
           ops == [operands EXCEPT ![c] = SeenOperands(c)]
           D == SeenDependencies(c)
           M == MemoryDependencies(ops, c)
<1>1. /\ func \in Functions /\ c \in Instrs(func) /\ pc = "constructDependencies"
      /\ Rewritten /\ Collected /\ Ordered
  BY DEF IInv, ShapeOK, constructDependencies
<1>2. /\ ShapeOK'
      /\ \A i \in Instrs(func) : Processed(i)' <=> Processed(i) \/ i = c
  BY Passes DEF IInv
<1>3. func' = func
  BY DEF constructDependencies
<1>4. Instrs(func) \subseteq Nat
  BY <1>1, FunctionShape
<1>5. /\ operands' = ops
      /\ deps' = [deps EXCEPT ![c] = D] /\ users' = Recorded(users, c, D)
      /\ mem' = [mem EXCEPT ![c] = M] /\ memUsers' = Recorded(memUsers, c, M)
  <2>1. /\ [operands EXCEPT ![c] = [n \in DOMAIN @ |-> Uncast(c, operands[c][n])]] = ops
        /\ RegisterDependencies(c) = D
    BY <1>1, CollectedAtCursor
  <2> QED BY <2>1 DEF constructDependencies
<1>6. D \in SUBSET Instrs(func) /\ M \in SUBSET Instrs(func)
  BY <1>1, SeenDependenciesType, MemoryDependenciesType
<1>7. ~Processed(c) /\ deps[c] = {} /\ mem[c] = {}
  <2>1. ~Processed(c)
    BY <1>1, <1>4 DEF Processed
  <2> QED BY <2>1, <1>1 DEF Collected, Ordered
<1>8. \A i \in Instrs(func) :
         SeenOperands(i)' = SeenOperands(i) /\ SeenDependencies(i)' = SeenDependencies(i)
  BY <1>3 DEF SeenOperands, SeenDependencies, Seen, IsDependence, IsCast
<1>9. SeenOperands(c) \in Seq(Instrs(func) \cup {Other})
  <2>1. func.operands[c] \in Seq(Instrs(func) \cup {Other})
    BY <1>1, FunctionShape
  <2>2. \A n \in DOMAIN func.operands[c] :
           Seen(c, func.operands[c][n]) \in Instrs(func) \cup {Other}
    BY <1>1, SeenType
  <2> QED BY <2>1, <2>2 DEF SeenOperands
<1>10. Rewritten'
  <2>1. operands' \in [Instrs(func) -> Seq(Instrs(func) \cup {Other})]
    BY <1>1, <1>5, <1>9 DEF Rewritten
  <2>2. ASSUME NEW i \in Instrs(func)
        PROVE  operands'[i] = IF Processed(i)' THEN SeenOperands(i) ELSE func.operands[i]
    BY <1>1, <1>2, <1>5 DEF Rewritten
  <2> QED BY <2>1, <2>2, <1>3, <1>8 DEF Rewritten
<1>11. Collected'
  <2>1. deps' \in [Instrs(func) -> SUBSET Instrs(func)]
    BY <1>1, <1>5, <1>6 DEF Collected
  <2>2. ASSUME NEW i \in Instrs(func)
        PROVE  deps'[i] = IF Processed(i)' THEN SeenDependencies(i) ELSE {}
    BY <1>1, <1>2, <1>5 DEF Collected
  <2> QED BY <2>1, <2>2, <1>3, <1>8 DEF Collected
<1>12. Ordered'
  <2>1. mem' \in [Instrs(func) -> SUBSET Instrs(func)]
    BY <1>1, <1>5, <1>6 DEF Ordered
  <2>2. \A i \in Instrs(func) : Processed(i) =>
           MemoryDependencies(operands, i) = MemoryDependencies(ops, i)
    <3> SUFFICES ASSUME NEW i \in Instrs(func), Processed(i)
                 PROVE  MemoryDependencies(operands, i) = MemoryDependencies(ops, i)
      OBVIOUS
    <3>1. i < c
      BY <1>1 DEF Processed
    <3>2. \A j \in Instrs(func) : j <= i => operands[j] = ops[j]
      BY <3>1, <1>1, <1>4 DEF Rewritten
    <3> HIDE DEF ops
    <3> QED BY <3>2, <1>4, MemoryDependenciesLocal
  <2>3. \A i \in Instrs(func) :
           MemoryDependencies(operands, i)' = MemoryDependencies(ops, i)
    BY <1>3, <1>5 DEF MemoryDependencies, Pointer
  <2>4. ASSUME NEW i \in Instrs(func)
        PROVE  mem'[i] = IF Processed(i)' THEN MemoryDependencies(ops, i) ELSE {}
    <3> HIDE DEF ops
    <3>1. CASE i = c
      BY <3>1, <1>1, <1>2, <1>5 DEF Ordered
    <3>2. CASE i # c
      BY <3>2, <1>1, <1>2, <1>5, <2>2 DEF Ordered
    <3> QED BY <3>1, <3>2
  <2> HIDE DEF ops
  <2> QED BY <2>1, <2>3, <2>4, <1>3 DEF Ordered
<1>13. Opposite(users, deps)'
  <2>1. Opposite(users, deps)
    BY DEF IInv
  <2> HIDE DEF D
  <2>2. Opposite(Recorded(users, c, D), [deps EXCEPT ![c] = D])
    BY <2>1, <1>1, <1>6, <1>7, RecordedOpposite DEF Collected
  <2> QED BY <2>2, <1>3, <1>5 DEF Opposite
<1>14. Opposite(memUsers, mem)'
  <2>1. Opposite(memUsers, mem)
    BY DEF IInv
  <2> HIDE DEF M
  <2>2. Opposite(Recorded(memUsers, c, M), [mem EXCEPT ![c] = M])
    BY <2>1, <1>1, <1>6, <1>7, RecordedOpposite DEF Ordered
  <2> QED BY <2>2, <1>3, <1>5 DEF Opposite
<1> QED BY <1>2, <1>10, <1>11, <1>12, <1>13, <1>14 DEF IInv

(* The invariant holds in every state. *)
THEOREM Invariance == Spec => []IInv
<1>1. IInv /\ [Next]_vars => IInv'
  <2> SUFFICES ASSUME IInv, [Next]_vars PROVE IInv'
    OBVIOUS
  <2>1. CASE insertInstruction
    BY <2>1, insertInstructionStep
  <2>2. CASE constructDependencies
    BY <2>2, Skipped, Gathered
  <2>3. CASE filterInstructions
    BY <2>3, filterInstructionsStep
  <2>4. CASE UNCHANGED vars
    <3>1. UNCHANGED <<func, operands, deps, users, mem, memUsers>>
      BY <2>4 DEF vars
    <3>2. ShapeOK'
      BY <2>4, SameExtensions DEF vars, IInv, ShapeOK
    <3>3. \A i \in Instrs(func) : Processed(i)' <=> Processed(i)
      BY <2>4 DEF vars, Processed
    <3> QED BY <3>1, <3>2, <3>3, Preserved
  <2>5. CASE Ended
    <3>1. UNCHANGED <<func, operands, deps, users, mem, memUsers>>
      BY <2>5 DEF Ended, vars
    <3>2. ShapeOK'
      BY <2>5, SameExtensions DEF Ended, vars, IInv, ShapeOK
    <3>3. \A i \in Instrs(func) : Processed(i)' <=> Processed(i)
      BY <2>5 DEF Ended, vars, Processed
    <3> QED BY <3>1, <3>2, <3>3, Preserved
  <2> QED BY <2>1, <2>2, <2>3, <2>4, <2>5 DEF Next
<1> QED BY <1>1, InitIInv, PTL DEF Spec

-----------------------------------------------------------------------------
(* What follows from the invariant.                                        *)

(* The data of create stay well typed, and a use is recorded with every    *)
(* dependency.                                                             *)
THEOREM TypeCorrect == Spec => []TypeOK
<1>1. IInv => TypeOK
  <2> SUFFICES ASSUME IInv PROVE TypeOK
    OBVIOUS
  <2>1. /\ ShapeOK /\ Rewritten /\ Collected /\ Ordered
        /\ Opposite(users, deps) /\ Opposite(memUsers, mem)
    BY DEF IInv
  <2>2. func \in Functions /\ cursor \in Instrs(func) /\ erased \subseteq Instrs(func)
    BY <2>1 DEF ShapeOK, Extensions
  <2>3. nodes \subseteq Instrs(func)
    <3>1. Len(func.op) \in Nat /\ Instrs(func) = 1..Len(func.op)
      BY <2>2, FunctionShape
    <3> QED BY <2>1, <3>1 DEF ShapeOK
  <2>4. \A i \in Instrs(func) : deps[i] \subseteq nodes /\ mem[i] \subseteq nodes
    <3>1. CASE pc = "insertInstruction"
      <4>1. \A i \in Instrs(func) : ~Processed(i)
        BY <3>1 DEF Processed
      <4> QED BY <4>1, <2>1 DEF Collected, Ordered
    <3>2. CASE pc # "insertInstruction"
      BY <3>2, <2>1 DEF ShapeOK, Collected, Ordered
    <3> QED BY <3>1, <3>2
  <2> QED BY <2>1, <2>2, <2>3, <2>4 DEF TypeOK, Rewritten, Opposite
<1> QED BY <1>1, Invariance, PTL

(* To precede is transitive. *)
LEMMA PrecedesTransitive ==
    ASSUME NEW f, NEW depth \in [Blocks(f) -> Blocks(f)], f.succ \in Seq(Seq(Blocks(f))),
           f.bb \in [Instrs(f) -> Blocks(f)], Instrs(f) \subseteq Nat,
           NEW h \in Instrs(f), NEW i \in Instrs(f), NEW j \in Instrs(f),
           Precedes(f, depth, h, i), Precedes(f, depth, i, j)
    PROVE  Precedes(f, depth, h, j)
<1>1. \A b \in Blocks(f) : depth[b] \in Int
  BY DEF Blocks
<1>2. /\ depth[f.bb[h]] \in Int /\ depth[f.bb[i]] \in Int /\ depth[f.bb[j]] \in Int
      /\ h \in Int /\ i \in Int /\ j \in Int
  BY <1>1
<1> QED BY <1>2 DEF Precedes

(* What instructions other than PHI nodes read dominates them, also seen    *)
(* through an extension, and is no terminator.                              *)
LEMMA SeenDominates ==
    ASSUME func \in Functions
    PROVE  \E depth \in [Blocks(func) -> Blocks(func)] :
              \A i \in Instrs(func) : \A n \in DOMAIN func.operands[i] :
                 LET d == func.operands[i][n]
                 IN  func.op[i] # "PHI" =>
                     /\ d # Other => Precedes(func, depth, d, i) /\ ~IsTerminator(func, d)
                     /\ Source(d) # Other =>
                           Precedes(func, depth, Source(d), i) /\ ~IsTerminator(func, Source(d))
<1>1. /\ HasOperands(func) /\ IsControlFlow(func) /\ Instrs(func) \subseteq Nat
      /\ func.operands \in [Instrs(func) -> Seq(Instrs(func) \cup {Other})]
  BY FunctionsAssumption, FunctionShape DEF HasOperands
<1>2. /\ \A i \in Instrs(func) : \A d \in Dominating(func, i) : ~IsTerminator(func, d)
      /\ \E depth \in [Blocks(func) -> Blocks(func)] :
            \A i \in Instrs(func) : \A d \in Dominating(func, i) : Precedes(func, depth, d, i)
  BY <1>1 DEF HasOperands, IsDominated
<1>3. PICK depth \in [Blocks(func) -> Blocks(func)] :
         \A i \in Instrs(func) : \A d \in Dominating(func, i) : Precedes(func, depth, d, i)
  BY <1>2
<1>4. ASSUME NEW i \in Instrs(func), NEW n \in DOMAIN func.operands[i],
             func.op[i] # "PHI", func.operands[i][n] # Other
      PROVE  /\ func.operands[i][n] \in Instrs(func)
             /\ Precedes(func, depth, func.operands[i][n], i)
             /\ ~IsTerminator(func, func.operands[i][n])
  <2>1. func.operands[i] \in Seq(Instrs(func) \cup {Other})
    BY <1>1
  <2>2. func.operands[i][n] \in Instrs(func) \cup {Other}
    BY <2>1
  <2>3. func.operands[i][n] \in Dominating(func, i)
    BY <1>4 DEF Dominating
  <2> QED BY <2>2, <2>3, <1>2, <1>3, <1>4
<1>5. ASSUME NEW i \in Instrs(func), NEW n \in DOMAIN func.operands[i],
             func.op[i] # "PHI", Source(func.operands[i][n]) # Other
      PROVE  /\ Precedes(func, depth, Source(func.operands[i][n]), i)
             /\ ~IsTerminator(func, Source(func.operands[i][n]))
  <2>1. PICK d : d = func.operands[i][n]
    OBVIOUS
  <2>2. CASE IsCast(d)
    <3>1. d # Other /\ func.op[d] \in Casts
      BY <2>2 DEF IsCast
    <3>2. d \in Instrs(func) /\ Precedes(func, depth, d, i)
      BY <2>1, <3>1, <1>4, <1>5
    <3>3. 1 \in DOMAIN func.operands[d] /\ Source(d) = func.operands[d][1]
      BY <2>2, <3>1, <3>2, FunctionShape DEF Source
    <3>4. func.op[d] # "PHI" /\ Source(d) # Other
      BY <2>1, <3>1, <1>5 DEF Casts
    <3>5. Source(d) \in Instrs(func) /\ Precedes(func, depth, Source(d), d)
          /\ ~IsTerminator(func, Source(d))
      BY <3>2, <3>3, <3>4, <1>4
    <3>6. Precedes(func, depth, Source(d), i)
      BY <3>2, <3>5, <1>1, PrecedesTransitive DEF IsControlFlow
    <3> QED BY <3>5, <3>6, <2>1
  <2>3. CASE ~IsCast(d)
    BY <2>1, <2>3, <1>4, <1>5 DEF Source
  <2> QED BY <2>2, <2>3
<1> QED BY <1>3, <1>4, <1>5

(* A value of the block that is read through an extension has not left the  *)
(* block on the way.                                                        *)
LEMMA CastInBlock ==
    ASSUME func \in Functions, NEW i \in Instrs(func), NEW n \in DOMAIN func.operands[i],
           func.op[i] # "PHI", IsCast(func.operands[i][n]),
           Source(func.operands[i][n]) # Other,
           func.bb[Source(func.operands[i][n])] = func.bb[i]
    PROVE  func.bb[func.operands[i][n]] = func.bb[i]
<1>1. PICK d : d = func.operands[i][n]
  OBVIOUS
<1> SUFFICES ASSUME func.bb[d] # func.bb[i] PROVE FALSE
  BY <1>1
<1>2. HasOperands(func) /\ IsControlFlow(func)
  BY FunctionsAssumption DEF HasOperands
<1>3. /\ func.operands[i] \in Seq(Instrs(func) \cup {Other})
      /\ d # Other /\ func.op[d] \in Casts
  BY <1>1, FunctionShape DEF IsCast
<1>4. d \in Instrs(func) /\ d \in Dominating(func, i)
  <2>1. d \in Instrs(func) \cup {Other}
    BY <1>1, <1>3
  <2> QED BY <2>1, <1>1, <1>3 DEF Dominating
<1>5. /\ 1 \in DOMAIN func.operands[d] /\ Source(d) = func.operands[d][1]
      /\ func.operands[d][1] \in Instrs(func) \cup {Other}
  BY <1>1, <1>3, <1>4, FunctionShape DEF Source
<1>6. Source(d) \in Dominating(func, d) /\ Source(d) \in Instrs(func)
  BY <1>1, <1>3, <1>5 DEF Dominating, Casts
<1>7. PICK depth \in [Blocks(func) -> Blocks(func)] :
         \A k \in Instrs(func) : \A e \in Dominating(func, k) : Precedes(func, depth, e, k)
  BY <1>2 DEF HasOperands, IsDominated
<1>8. PICK v \in Instrs(func) : v = Source(d)
  BY <1>6
<1>9. depth[func.bb[d]] < depth[func.bb[i]] /\ depth[func.bb[v]] < depth[func.bb[d]]
  BY <1>1, <1>4, <1>6, <1>7, <1>8 DEF Precedes
<1>10. depth[func.bb[d]] \in Int /\ depth[func.bb[i]] \in Int
  BY <1>2, <1>4, <1>7 DEF IsControlFlow, Blocks
<1> QED BY <1>1, <1>8, <1>9, <1>10

(* Every instruction waits for what it is computed from within its block,  *)
(* also through an extension: a value of the block that it reads through    *)
(* an extension has not left the block on the way.                          *)
THEOREM ReadsAreCovered == Spec => []ReadsCovered
<1>1. IInv => ReadsCovered
  <2> SUFFICES ASSUME IInv, pc = "done",
                      NEW i \in Remaining, NEW n \in DOMAIN func.operands[i],
                      func.op[i] \notin WithoutDependencies,
                      Source(func.operands[i][n]) # Other,
                      func.op[Source(func.operands[i][n])] # "Alloca",
                      func.bb[Source(func.operands[i][n])] = func.bb[i]
               PROVE  Source(func.operands[i][n]) \in deps[i]
    BY DEF ReadsCovered
  <2> DEFINE d == func.operands[i][n]
  <2>1. i \in Instrs(func) /\ func \in Functions /\ Collected
    BY DEF IInv, ShapeOK, Remaining
  <2>2. deps[i] = SeenDependencies(i)
    BY <2>1 DEF Collected, Processed
  <2>3. IsDependence(i, d) /\ Seen(i, d) = Source(d)
    <3>1. CASE IsCast(d)
      <4>1. func.bb[d] = func.bb[i]
        BY <3>1, <2>1, CastInBlock DEF WithoutDependencies
      <4> QED BY <3>1, <4>1 DEF IsDependence, IsCast, Casts, Seen, Source
    <3>2. CASE ~IsCast(d)
      BY <3>2 DEF IsDependence, Seen, Source
    <3> QED BY <3>1, <3>2
  <2> QED BY <2>2, <2>3 DEF SeenDependencies
<1> QED BY <1>1, Invariance, PTL

(* Two accesses of a block through one pointer are ordered one way, the    *)
(* way they come in the block.                                             *)
THEOREM AccessesAreOrdered == Spec => []AccessesOrdered
<1>1. IInv => AccessesOrdered
  <2> SUFFICES ASSUME IInv, pc = "done", NEW i \in Remaining, NEW j \in Remaining,
                      func.bb[i] = func.bb[j], i # j,
                      func.op[i] \in MemoryOps, func.op[j] \in MemoryOps,
                      Pointer(operands, i) = Pointer(operands, j)
               PROVE  (i \in mem[j]) # (j \in mem[i]) /\ (i \in mem[j] <=> i < j)
    BY DEF AccessesOrdered
  <2>1. i \in Instrs(func) /\ j \in Instrs(func) /\ func \in Functions /\ Ordered
    BY DEF IInv, ShapeOK, Remaining
  <2>2. i \in Nat /\ j \in Nat
    BY <2>1, FunctionShape
  <2>3. Processed(i) /\ Processed(j)
    BY DEF Processed, MemoryOps, WithoutDependencies, Casts
  <2>4. mem[i] = MemoryDependencies(operands, i) /\ mem[j] = MemoryDependencies(operands, j)
    BY <2>1, <2>3 DEF Ordered
  <2>5. (i \in mem[j] <=> i < j) /\ (j \in mem[i] <=> j < i)
    BY <2>1, <2>4 DEF MemoryDependencies, BlockInstrs
  <2> QED BY <2>2, <2>5
<1> QED BY <1>1, Invariance, PTL

(* When no extension extends another, no instruction that is left depends  *)
(* on an erased one.                                                       *)
LEMMA NoneErased ==
    ASSUME IInv, pc = "done", \A i \in Instrs(func) : ~Chained(i)
    PROVE  DependenciesRemain
<1> SUFFICES ASSUME NEW i \in Remaining
             PROVE  deps[i] \subseteq Remaining /\ mem[i] \subseteq Remaining
  BY DEF DependenciesRemain
<1>1. /\ i \in Instrs(func) /\ func \in Functions /\ Collected /\ Ordered
      /\ erased = {k \in Instrs(func) : IsCast(k)}
  BY DEF IInv, ShapeOK, Remaining, Extensions
<1>2. deps[i] \subseteq Instrs(func) /\ mem[i] \subseteq Instrs(func)
  BY <1>1 DEF Collected, Ordered
<1>3. deps[i] \subseteq SeenDependencies(i) /\ mem[i] \subseteq MemoryDependencies(operands, i)
  BY <1>1 DEF Collected, Ordered
<1>4. \A k \in SeenDependencies(i) : ~IsCast(k)
  <2> SUFFICES ASSUME NEW n \in DOMAIN func.operands[i],
                      IsDependence(i, func.operands[i][n])
               PROVE  ~IsCast(Seen(i, func.operands[i][n]))
    BY DEF SeenDependencies
  <2> DEFINE d == func.operands[i][n]
  <2>1. d \in Instrs(func)
    <3>1. func.operands[i] \in Seq(Instrs(func) \cup {Other})
      BY <1>1, FunctionShape
    <3>2. d \in Instrs(func) \cup {Other}
      BY <3>1
    <3> QED BY <3>2 DEF IsDependence
  <2>2. ~Chained(d)
    BY <2>1
  <2> QED BY <2>2 DEF Seen, Chained
<1>5. \A k \in MemoryDependencies(operands, i) : ~IsCast(k)
  BY DEF MemoryDependencies, MemoryOps, IsCast, Casts
<1> QED BY <1>1, <1>2, <1>3, <1>4, <1>5 DEF Remaining

(* When no extension extends another, no instruction that is left depends  *)
(* on an erased one: the scheduler follows no pointer to an instruction    *)
(* that is gone.                                                           *)
THEOREM NoneDependsOnErased ==
    Spec => [](pc = "done" /\ (\A i \in Instrs(func) : ~Chained(i)) => DependenciesRemain)
BY NoneErased, Invariance, PTL

(* What an instruction waits for dominates it and is no terminator, and     *)
(* accesses wait for accesses of their block.                               *)
LEMMA WaitsForDominators ==
    ASSUME IInv
    PROVE  /\ \E depth \in [Blocks(func) -> Blocks(func)] :
                 \A i \in Instrs(func) : \A d \in deps[i] \cup mem[i] :
                    Precedes(func, depth, d, i) /\ ~IsTerminator(func, d)
           /\ \A i \in Instrs(func) : \A d \in mem[i] :
                 /\ d < i /\ func.bb[d] = func.bb[i]
                 /\ func.op[i] \in MemoryOps /\ func.op[d] \in MemoryOps
<1>1. func \in Functions /\ Collected /\ Ordered
  BY DEF IInv, ShapeOK
<1>2. PICK depth \in [Blocks(func) -> Blocks(func)] :
         \A i \in Instrs(func) : \A n \in DOMAIN func.operands[i] :
            LET d == func.operands[i][n]
            IN  func.op[i] # "PHI" =>
                /\ d # Other => Precedes(func, depth, d, i) /\ ~IsTerminator(func, d)
                /\ Source(d) # Other =>
                      Precedes(func, depth, Source(d), i) /\ ~IsTerminator(func, Source(d))
  BY <1>1, SeenDominates
<1>3. ASSUME NEW i \in Instrs(func), NEW d \in deps[i]
      PROVE  Precedes(func, depth, d, i) /\ ~IsTerminator(func, d)
  <2>1. d \in SeenDependencies(i) /\ func.op[i] # "PHI"
    BY <1>1, <1>3 DEF Collected, Processed, WithoutDependencies
  <2>2. PICK n \in DOMAIN func.operands[i] : d = Seen(i, func.operands[i][n]) /\ d # Other
    BY <2>1 DEF SeenDependencies
  <2>3. PICK e : e = func.operands[i][n]
    OBVIOUS
  <2>4. (d = e /\ e # Other) \/ (d = Source(e) /\ Source(e) # Other)
    BY <2>2, <2>3 DEF Seen, Source
  <2> QED BY <1>2, <2>1, <2>3, <2>4
<1>4. ASSUME NEW i \in Instrs(func), NEW d \in mem[i]
      PROVE  /\ d < i /\ func.bb[d] = func.bb[i]
             /\ func.op[i] \in MemoryOps /\ func.op[d] \in MemoryOps
  <2>1. d \in MemoryDependencies(operands, i)
    BY <1>1, <1>4 DEF Ordered
  <2>2. /\ d < i /\ func.bb[d] = func.bb[i] /\ func.op[i] \in MemoryOps
        /\ func.op[d] \in MemoryOps \cup {"Call"}
        /\ Pointer(operands, d) = Pointer(operands, i)
    BY <2>1 DEF MemoryDependencies, BlockInstrs
  <2>3. \E x : Pointer(operands, i) = <<x>>
    BY <2>2 DEF Pointer, MemoryOps
  <2>4. func.op[d] = "Call" => Pointer(operands, d) = << >>
    BY DEF Pointer
  <2>5. \A x : << >> # <<x>>
    OBVIOUS
  <2> QED BY <2>2, <2>3, <2>4, <2>5
<1>5. ASSUME NEW i \in Instrs(func), NEW d \in mem[i]
      PROVE  Precedes(func, depth, d, i) /\ ~IsTerminator(func, d)
  BY <1>4 DEF Precedes, IsTerminator, Terminators, MemoryOps
<1> QED BY <1>3, <1>4, <1>5

(* In every state of create, what an instruction has been made to wait for  *)
(* dominates it, through an extension of another block as well, and an      *)
(* access waits for earlier accesses of its block: the dependencies have no *)
(* cycle.                                                                   *)
THEOREM WaitsNeverForItself == Spec => []DependenciesDominate
<1>1. ASSUME IInv PROVE DependenciesDominate
  <2> DEFINE D == [i \in Instrs(func) |-> deps[i] \cup mem[i]]
  <2>1. \A i \in Instrs(func) : D[i] = deps[i] \cup mem[i]
    OBVIOUS
  <2>2. PICK depth \in [Blocks(func) -> Blocks(func)] :
           \A i \in Instrs(func) : \A d \in deps[i] \cup mem[i] :
              Precedes(func, depth, d, i) /\ ~IsTerminator(func, d)
    BY <1>1, WaitsForDominators
  <2> HIDE DEF D
  <2>3. IsDominated(func, D)
    BY <2>1, <2>2 DEF IsDominated
  <2>4. \A i \in Instrs(func) : \A d \in mem[i] : func.bb[d] = func.bb[i] /\ d < i
    BY <1>1, WaitsForDominators
  <2> QED BY <2>3, <2>4 DEF D, DependenciesDominate
<1> QED BY <1>1, Invariance, PTL

(* Together: reads come after what is read, the accesses through one pointer *)
(* are in order, and the order in which instructions wait for one another    *)
(* has no cycle.                                                             *)
THEOREM DependenciesAreOrdered == Spec => []DependenciesOrdered
<1>1. ReadsCovered /\ AccessesOrdered /\ DependenciesDominate => DependenciesOrdered
  BY DEF DependenciesOrdered
<1> QED BY <1>1, ReadsAreCovered, AccessesAreOrdered, WaitsNeverForItself, PTL

(* The terminator of a block is the only one it has. *)
LEMMA TerminatorOf ==
    ASSUME NEW f, IsLaidOut(f), NEW b \in Blocks(f), NEW t \in BlockInstrs(f, b),
           IsTerminator(f, t)
    PROVE  Terminator(f, b) = t
BY DEF IsLaidOut, Terminator

(* g is the function that is left: its instruction r is place[r] of the     *)
(* function that was passed, and the order of the instructions is kept.     *)
Renumbered(g, n, place, rank) ==
    /\ place \in [1..n -> Remaining] /\ rank \in [Remaining -> 1..n]
    /\ \A r \in 1..n : rank[place[r]] = r
    /\ \A i \in Remaining : place[rank[i]] = i
    /\ \A i, j \in Remaining : i < j <=> rank[i] < rank[j]
    /\ Instrs(g) = 1..n /\ Blocks(g) = Blocks(func)
    /\ g.bb = [r \in 1..n |-> func.bb[place[r]]]
    /\ g.op = [r \in 1..n |-> func.op[place[r]]]
    /\ g.width = [r \in 1..n |-> 32]
    /\ g.succ = func.succ
    /\ DependenciesRemain =>
          /\ g.deps = [r \in 1..n |-> {rank[d] : d \in deps[place[r]]}]
          /\ g.mem = [r \in 1..n |-> {rank[d] : d \in mem[place[r]]}]

LEMMA DeliveredShape ==
    ASSUME IInv
    PROVE  \E n \in Nat : \E place, rank : Renumbered(Delivered, n, place, rank)
<1> DEFINE n == Cardinality(Remaining)
           place == LayoutOrder(Remaining)
           rank == [i \in Remaining |-> CountUpTo(Remaining, i)]
<1>1. Remaining \subseteq Int /\ IsFiniteSet(Remaining)
  <2>1. Len(func.op) \in Nat /\ Instrs(func) = 1..Len(func.op)
    BY FunctionShape DEF IInv, ShapeOK
  <2>2. IsFiniteSet(1..Len(func.op))
    BY <2>1, FS_Interval
  <2>3. Remaining \subseteq 1..Len(func.op)
    BY <2>1 DEF Remaining
  <2>4. IsFiniteSet(Remaining)
    BY <2>2, <2>3, FS_Subset
  <2>5. 1..Len(func.op) \subseteq Int
    OBVIOUS
  <2> QED BY <2>3, <2>4, <2>5
<1>2. place = InOrder(Remaining)
  BY DEF LayoutOrder, InOrder, CountUpTo
<1>3. /\ n \in Nat /\ place \in [1..n -> Remaining]
      /\ \A k \in 1..n : CountUpTo(Remaining, place[k]) = k
      /\ \A x \in Remaining :
            CountUpTo(Remaining, x) \in 1..n /\ place[CountUpTo(Remaining, x)] = x
      /\ \A x, y \in Remaining : x < y => CountUpTo(Remaining, x) < CountUpTo(Remaining, y)
  <2> HIDE DEF place
  <2> QED BY <1>1, <1>2, InOrderLists
<1>4. /\ rank \in [Remaining -> 1..n]
      /\ \A r \in 1..n : rank[place[r]] = r
      /\ \A i \in Remaining : place[rank[i]] = i
      /\ \A i, j \in Remaining : i < j => rank[i] < rank[j]
  <2> HIDE DEF n, place
  <2> QED BY <1>3
<1>5. \A i, j \in Remaining : i < j <=> rank[i] < rank[j]
  <2> SUFFICES ASSUME NEW i \in Remaining, NEW j \in Remaining PROVE i < j <=> rank[i] < rank[j]
    OBVIOUS
  <2>1. (i < j => rank[i] < rank[j]) /\ (j < i => rank[j] < rank[i])
    BY <1>4
  <2>2. i \in Int /\ j \in Int
    BY <1>1
  <2>3. rank[i] \in Int /\ rank[j] \in Int
    <3> HIDE DEF rank
    <3>1. rank[i] \in 1..n /\ rank[j] \in 1..n
      BY <1>4
    <3> QED BY <3>1, <1>3
  <2> HIDE DEF rank
  <2> QED BY <2>1, <2>2, <2>3
<1>6. DOMAIN place = 1..n
  BY <1>3
<1>7. /\ Delivered.bb = [r \in 1..n |-> func.bb[place[r]]]
      /\ Delivered.op = [r \in 1..n |-> func.op[place[r]]]
      /\ Delivered.width = [r \in 1..n |-> 32]
      /\ Delivered.succ = func.succ
      /\ Delivered.deps = [r \in 1..n |-> {CountUpTo(Remaining, d) : d \in deps[place[r]]}]
      /\ Delivered.mem = [r \in 1..n |-> {CountUpTo(Remaining, d) : d \in mem[place[r]]}]
  <2> HIDE DEF n, place
  <2> QED BY <1>6 DEF Delivered, CountUpTo, place
<1>8. Instrs(Delivered) = 1..n /\ Blocks(Delivered) = Blocks(func)
  BY <1>7 DEF Instrs, Blocks
<1>9. ASSUME DependenciesRemain
      PROVE  /\ Delivered.deps = [r \in 1..n |-> {rank[d] : d \in deps[place[r]]}]
             /\ Delivered.mem = [r \in 1..n |-> {rank[d] : d \in mem[place[r]]}]
  <2>1. \A r \in 1..n : deps[place[r]] \subseteq Remaining /\ mem[place[r]] \subseteq Remaining
    <3> HIDE DEF place, n
    <3> QED BY <1>3, <1>9 DEF DependenciesRemain
  <2>2. \A d \in Remaining : rank[d] = CountUpTo(Remaining, d)
    OBVIOUS
  <2> HIDE DEF place, n, rank
  <2>3. ASSUME NEW r \in 1..n
        PROVE  /\ {CountUpTo(Remaining, d) : d \in deps[place[r]]} = {rank[d] : d \in deps[place[r]]}
               /\ {CountUpTo(Remaining, d) : d \in mem[place[r]]} = {rank[d] : d \in mem[place[r]]}
    BY <2>1, <2>2
  <2> QED BY <1>7, <2>3
<1> HIDE DEF n, place, rank
<1>10. Renumbered(Delivered, n, place, rank)
  BY <1>3, <1>4, <1>5, <1>7, <1>8, <1>9 DEF Renumbered
<1> QED BY <1>3, <1>10

(* Which of two instructions of a block comes first, and which terminates   *)
(* it, is not changed by leaving others out: the blocks stay blocks.        *)
LEMMA DeliversControlFlow ==
    ASSUME IInv, pc = "done"
    PROVE  IsControlFlow(Delivered)
<1>1. PICK n \in Nat : \E place, rank : Renumbered(Delivered, n, place, rank)
  BY DeliveredShape
<1>2. PICK place, rank : Renumbered(Delivered, n, place, rank)
  BY <1>1
<1>3. PICK g : g = Delivered
  OBVIOUS
<1>4. /\ place \in [1..n -> Remaining] /\ rank \in [Remaining -> 1..n]
      /\ \A r \in 1..n : rank[place[r]] = r
      /\ \A i \in Remaining : place[rank[i]] = i
      /\ \A i, j \in Remaining : i < j <=> rank[i] < rank[j]
      /\ Instrs(g) = 1..n /\ Blocks(g) = Blocks(func)
      /\ g.bb = [r \in 1..n |-> func.bb[place[r]]]
      /\ g.op = [r \in 1..n |-> func.op[place[r]]]
      /\ g.succ = func.succ
  BY <1>2, <1>3 DEF Renumbered
<1>5. IsControlFlow(func) /\ Instrs(func) \subseteq Nat /\ Remaining \subseteq Instrs(func)
  BY FunctionsAssumption, FunctionShape DEF IInv, ShapeOK, HasOperands, Remaining
<1>6. func.op \in Seq(STRING) /\ func.bb \in [Instrs(func) -> Blocks(func)]
  BY <1>5 DEF IsControlFlow
<1>7. \A r \in 1..n : place[r] \in Instrs(func) /\ place[r] \in Remaining
  BY <1>4, <1>5
<1>8. g.op \in Seq(STRING) /\ g.bb \in [Instrs(g) -> Blocks(g)]
  <2>1. \A i \in Instrs(func) : func.op[i] \in STRING
    BY <1>6 DEF Instrs
  <2> QED BY <1>4, <1>6, <1>7, <2>1
<1>9. \A i \in Instrs(func) : IsTerminator(func, i) => i \in Remaining
  <2>1. erased = {i \in Instrs(func) : IsCast(i)}
    BY DEF IInv, ShapeOK, Extensions
  <2> QED BY <2>1 DEF Remaining, IsTerminator, Terminators, IsCast, Casts
<1>10. \A r \in 1..n : g.bb[r] = func.bb[place[r]] /\ (IsTerminator(g, r) <=> IsTerminator(func, place[r]))
  BY <1>4 DEF IsTerminator
<1>11. \A k, l \in 1..n : k <= l => place[k] <= place[l]
  <2> SUFFICES ASSUME NEW k \in 1..n, NEW l \in 1..n, k <= l PROVE place[k] <= place[l]
    OBVIOUS
  <2>1. PICK i \in Remaining, j \in Remaining : i = place[k] /\ j = place[l]
    BY <1>7
  <2>2. rank[i] = k /\ rank[j] = l /\ (j < i <=> rank[j] < rank[i])
    BY <1>4, <2>1
  <2>3. i \in Nat /\ j \in Nat
    BY <1>5
  <2> QED BY <2>1, <2>2, <2>3
<1>12. ASSUME NEW b \in Blocks(func), NEW t \in BlockInstrs(func, b), IsTerminator(func, t),
              \A j \in BlockInstrs(func, b) : j <= t /\ (IsTerminator(func, j) => j = t)
       PROVE  /\ t \in Remaining /\ rank[t] \in BlockInstrs(g, b) /\ IsTerminator(g, rank[t])
              /\ g.op[rank[t]] = func.op[t]
              /\ \A j \in BlockInstrs(g, b) : j <= rank[t] /\ (IsTerminator(g, j) => j = rank[t])
  <2>1. t \in Remaining /\ func.bb[t] = b
    BY <1>9, <1>12 DEF BlockInstrs
  <2>2. PICK k \in 1..n : k = rank[t] /\ place[k] = t
    BY <2>1, <1>4
  <2>3. k \in BlockInstrs(g, b) /\ IsTerminator(g, k) /\ g.op[k] = func.op[t]
    BY <2>1, <2>2, <1>4, <1>10, <1>12 DEF BlockInstrs
  <2>4. ASSUME NEW j \in BlockInstrs(g, b)
        PROVE  j <= k /\ (IsTerminator(g, j) => j = k)
    <3>1. j \in 1..n /\ g.bb[j] = b
      BY <1>4 DEF BlockInstrs
    <3>2. PICK i \in Remaining : i = place[j] /\ rank[i] = j
      BY <3>1, <1>4
    <3>3. i \in BlockInstrs(func, b)
      BY <3>1, <3>2, <1>5, <1>10 DEF BlockInstrs
    <3>4. i <= t /\ (IsTerminator(func, i) => i = t)
      BY <3>3, <1>12
    <3>5. t < i <=> k < j
      BY <2>1, <2>2, <3>2, <1>4
    <3>6. i \in Nat /\ t \in Nat /\ j \in Nat /\ k \in Nat
      BY <3>1, <2>1, <1>5
    <3>7. IsTerminator(g, j) => j = k
      BY <3>1, <3>2, <3>4, <2>2, <1>10
    <3> QED BY <3>4, <3>5, <3>6, <3>7
  <2> QED BY <2>1, <2>2, <2>3, <2>4
<1>13. IsLaidOut(func)
  BY <1>5 DEF IsControlFlow
<1>14. IsLaidOut(g)
  <2>1. \A i, j \in Instrs(g) : i <= j => g.bb[i] <= g.bb[j]
    BY <1>4, <1>7, <1>10, <1>11, <1>13 DEF IsLaidOut
  <2>2. ASSUME NEW b \in Blocks(g)
        PROVE  \E i \in BlockInstrs(g, b) : IsTerminator(g, i)
                  /\ \A j \in BlockInstrs(g, b) : j <= i /\ (IsTerminator(g, j) => j = i)
    <3>1. PICK t \in BlockInstrs(func, b) : IsTerminator(func, t)
             /\ \A j \in BlockInstrs(func, b) : j <= t /\ (IsTerminator(func, j) => j = t)
      BY <1>4, <1>13 DEF IsLaidOut
    <3> QED BY <3>1, <1>4, <1>12
  <2> QED BY <2>1, <2>2 DEF IsLaidOut
<1>15. \A b \in Blocks(g) : g.op[Terminator(g, b)] = func.op[Terminator(func, b)]
  <2> SUFFICES ASSUME NEW b \in Blocks(g)
               PROVE  g.op[Terminator(g, b)] = func.op[Terminator(func, b)]
    OBVIOUS
  <2>1. PICK t \in BlockInstrs(func, b) : IsTerminator(func, t)
           /\ \A j \in BlockInstrs(func, b) : j <= t /\ (IsTerminator(func, j) => j = t)
    BY <1>4, <1>13 DEF IsLaidOut
  <2>2. rank[t] \in BlockInstrs(g, b) /\ IsTerminator(g, rank[t]) /\ g.op[rank[t]] = func.op[t]
    BY <2>1, <1>4, <1>12
  <2>3. Terminator(g, b) = rank[t] /\ Terminator(func, b) = t
    BY <2>1, <2>2, <1>4, <1>13, <1>14, TerminatorOf
  <2> QED BY <2>2, <2>3
<1>16. HasSuccessors(g)
  BY <1>4, <1>5, <1>15 DEF HasSuccessors, IsControlFlow
<1>17. /\ g.succ # << >> /\ g.succ \in Seq(Seq(Blocks(g)))
       /\ \A b \in Blocks(g) : \A k \in DOMAIN g.succ[b] : g.succ[b][k] # 1
  BY <1>4, <1>5 DEF IsControlFlow
<1> QED BY <1>3, <1>8, <1>14, <1>16, <1>17 DEF IsControlFlow

(* What Dag leaves is what the scheduler assumes of a function, as long as  *)
(* no extension extends another: the instructions that are left still are   *)
(* blocks with a terminator each, and what they wait for is left as well,   *)
(* dominates them and is no terminator.                                     *)
THEOREM FunctionDelivered == Spec => []DeliversFunction
<1>1. ASSUME IInv, pc = "done", \A i \in Instrs(func) : ~Chained(i)
      PROVE  /\ DependenciesRemain
             /\ IsFunction(Delivered, {func.op[i] : i \in Remaining}, {32})
  <2>1. DependenciesRemain
    BY <1>1, NoneErased
  <2>2. PICK n \in Nat : \E place, rank : Renumbered(Delivered, n, place, rank)
    BY <1>1, DeliveredShape
  <2>3. PICK place, rank : Renumbered(Delivered, n, place, rank)
    BY <2>2
  <2>4. PICK g : g = Delivered
    OBVIOUS
  <2>5. /\ place \in [1..n -> Remaining] /\ rank \in [Remaining -> 1..n]
        /\ \A r \in 1..n : rank[place[r]] = r
        /\ \A i \in Remaining : place[rank[i]] = i
        /\ \A i, j \in Remaining : i < j <=> rank[i] < rank[j]
        /\ Instrs(g) = 1..n /\ DOMAIN g.op = 1..n /\ Blocks(g) = Blocks(func)
        /\ g.bb = [r \in 1..n |-> func.bb[place[r]]]
        /\ g.op = [r \in 1..n |-> func.op[place[r]]]
        /\ g.width = [r \in 1..n |-> 32]
        /\ g.deps = [r \in 1..n |-> {rank[d] : d \in deps[place[r]]}]
        /\ g.mem = [r \in 1..n |-> {rank[d] : d \in mem[place[r]]}]
    BY <2>1, <2>3, <2>4 DEF Renumbered, Instrs
  <2>6. \A r \in 1..n : place[r] \in Remaining /\ place[r] \in Instrs(func)
    BY <2>5 DEF Remaining
  <2>7. \A i \in Remaining : deps[i] \subseteq Remaining /\ mem[i] \subseteq Remaining
    BY <2>1 DEF DependenciesRemain
  <2>8. WellTyped(g, {func.op[i] : i \in Remaining}, {32})
    <3>1. g.op \in Seq({func.op[i] : i \in Remaining})
      BY <2>5, <2>6
    <3>2. g.width \in [1..n -> {32}]
      BY <2>5
    <3>3. g.deps \in [1..n -> SUBSET (1..n)] /\ g.mem \in [1..n -> SUBSET (1..n)]
      BY <2>5, <2>6, <2>7
    <3> QED BY <3>1, <3>2, <3>3, <2>5 DEF WellTyped
  <2>9. PICK depth \in [Blocks(func) -> Blocks(func)] :
           \A i \in Instrs(func) : \A d \in deps[i] \cup mem[i] :
              Precedes(func, depth, d, i) /\ ~IsTerminator(func, d)
    BY <1>1, WaitsForDominators
  <2>10. ASSUME NEW r \in 1..n, NEW e \in g.deps[r] \cup g.mem[r]
         PROVE  \E d \in deps[place[r]] \cup mem[place[r]] : d \in Remaining /\ e = rank[d]
    BY <2>5, <2>6, <2>7
  <2>11. ASSUME NEW r \in 1..n, NEW e \in g.deps[r] \cup g.mem[r]
         PROVE  Precedes(g, depth, e, r) /\ ~IsTerminator(g, e)
    <3>1. PICK i \in Remaining : i = place[r] /\ rank[i] = r
      BY <2>5
    <3>2. PICK d \in deps[i] \cup mem[i] : d \in Remaining /\ e = rank[d]
      BY <3>1, <2>10
    <3>3. Precedes(func, depth, d, i) /\ ~IsTerminator(func, d)
      BY <3>1, <2>6, <2>9
    <3>4. e \in 1..n /\ place[e] = d /\ (d < i <=> e < r)
      BY <3>1, <3>2, <2>5
    <3>5. g.bb[e] = func.bb[d] /\ g.bb[r] = func.bb[i] /\ g.op[e] = func.op[d]
      BY <3>1, <3>4, <2>5
    <3> QED BY <3>3, <3>4, <3>5 DEF Precedes, IsTerminator
  <2>12. IsDominated(g, [r \in Instrs(g) |-> g.deps[r] \cup g.mem[r]])
    <3>1. \A r \in Instrs(g) : [k \in Instrs(g) |-> g.deps[k] \cup g.mem[k]][r] = g.deps[r] \cup g.mem[r]
      OBVIOUS
    <3> QED BY <3>1, <2>5, <2>11 DEF IsDominated
  <2>13. ASSUME NEW r \in Instrs(g), NEW e \in g.mem[r]
         PROVE  g.bb[e] = g.bb[r] /\ g.op[r] \in MemoryOps /\ g.op[e] \in MemoryOps
    <3>1. PICK i \in Remaining : i = place[r] /\ i \in Instrs(func) /\ r \in 1..n
      BY <2>5, <2>6
    <3>2. PICK d \in mem[i] : d \in Remaining /\ e = rank[d]
      BY <3>1, <2>5, <2>7
    <3>3. func.bb[d] = func.bb[i] /\ func.op[i] \in MemoryOps /\ func.op[d] \in MemoryOps
      BY <1>1, <3>1, WaitsForDominators
    <3>4. e \in 1..n /\ place[e] = d
      BY <3>2, <2>5
    <3> QED BY <3>1, <3>3, <3>4, <2>5
  <2>14. IsControlFlow(g)
    BY <1>1, <2>4, DeliversControlFlow
  <2> QED BY <2>1, <2>4, <2>8, <2>12, <2>13, <2>14 DEF IsFunction
<1>2. IInv => DeliversFunction
  BY <1>1 DEF DeliversFunction
<1> QED BY <1>2, Invariance, PTL

=============================================================================
