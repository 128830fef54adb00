--------------------------------- MODULE Dag ---------------------------------
(***************************************************************************)
(* Dag::create (scheduling/Dag.cpp with InstructionNode.cpp): it makes a   *)
(* node of every instruction, records which instructions it has to follow, *)
(* and removes the integer extensions from the function: their readers in  *)
(* the same block are made to read the value before the extension, then    *)
(* all extensions are erased.                                              *)
(*                                                                         *)
(* A function is a record as in Ir whose field operands holds the operands *)
(* of every instruction: the number of an instruction, or Other for an     *)
(* argument, a constant or a block.                                        *)
(***************************************************************************)
EXTENDS Ir, SequencesExt

CONSTANTS
    Functions   \* functions [bb, op, operands, succ]

VARIABLES
    func,       \* the function as it was passed
    pc,         \* the part of create being executed
    cursor,     \* the instruction its loop is at
    nodes,      \* instr_node_lookup
    operands,   \* the operands of the instructions, as they are now
    erased,     \* the instructions that have been erased
    deps, users,    \* the register dependencies of the nodes, and their inverse
    mem, memUsers   \* the memory dependencies

vars == <<func, pc, cursor, nodes, operands, erased, deps, users, mem, memUsers>>

-----------------------------------------------------------------------------
Other == 0

Casts == {"ZExt", "SExt"}

(* The instructions among the operands of i, which dominate it unless it is *)
(* a PHI node.                                                              *)
Dominating(f, i) ==
    IF f.op[i] = "PHI" THEN {}
    ELSE {f.operands[i][n] : n \in DOMAIN f.operands[i]} \ {Other}

(* What LLVM guarantees of operands; an extension has one. *)
HasOperands(f) ==
    /\ IsControlFlow(f)
    /\ f.operands \in [Instrs(f) -> Seq(Instrs(f) \cup {Other})]
    /\ \A i \in Instrs(f) : f.op[i] \in Casts => Len(f.operands[i]) = 1
    /\ IsDominated(f, [i \in Instrs(f) |-> Dominating(f, i)])

ASSUME FunctionsAssumption == \A f \in Functions : HasOperands(f)

IsCast(i) == i # Other /\ func.op[i] \in Casts

(* Instructions constructDependencies returns from without a dependency. *)
WithoutDependencies == Casts \cup {"Alloca", "PHI"}

(* Whether operand d of instruction i makes i wait. *)
IsDependence(i, d) ==
    d # Other /\ func.op[d] # "Alloca" /\ func.bb[d] = func.bb[i]

(* Mutant of Uncast: the reader keeps the extension as its operand. *)
UncastNever(i, d) == d

(* What operand d of instruction i is replaced by: the value before an      *)
(* extension of the block, one level of it.                                 *)
Uncast(i, d) == IF IsDependence(i, d) /\ IsCast(d) THEN operands[d][1] ELSE d

(* Mutant of RegisterDependencies: a dependency through an extension is     *)
(* not recorded.                                                            *)
RegisterDependenciesDirect(i) ==
    {operands[i][n] : n \in {m \in DOMAIN operands[i] :
        IsDependence(i, operands[i][m]) /\ ~IsCast(operands[i][m])}}

(* The nodes an instruction is made dependent on, through an extension also *)
(* one of another block.                                                    *)
RegisterDependencies(i) ==
    {Uncast(i, operands[i][n]) : n \in {m \in DOMAIN operands[i] :
        IsDependence(i, operands[i][m])}} \ {Other}

(* utility::getPointerOperand; a call has none. *)
Pointer(ops, i) ==
    CASE func.op[i] = "Load" -> <<ops[i][1]>>
      [] func.op[i] = "Store" -> <<ops[i][2]>>
      [] OTHER -> << >>

(* Mutant of MemoryDependencies: the loop does not stop at the instruction. *)
MemoryDependenciesOfAll(ops, i) ==
    IF func.op[i] \notin MemoryOps THEN {}
    ELSE {j \in BlockInstrs(func, func.bb[i]) \ {i} :
            func.op[j] \in MemoryOps \cup {"Call"} /\ Pointer(ops, j) = Pointer(ops, i)}

(* The earlier accesses of the block through the same pointer.              *)
MemoryDependencies(ops, i) ==
    IF func.op[i] \notin MemoryOps THEN {}
    ELSE {j \in BlockInstrs(func, func.bb[i]) :
            /\ j < i
            /\ func.op[j] \in MemoryOps \cup {"Call"}
            /\ Pointer(ops, j) = Pointer(ops, i)}

(* Mutant of Recorded: a node keeps its first user. *)
RecordedFirst(inverse, i, D) ==
    [j \in DOMAIN inverse |-> IF j \in D /\ inverse[j] = {} THEN {i} ELSE inverse[j]]

(* addDependence and addUse for every node of D. *)
Recorded(inverse, i, D) ==
    [j \in DOMAIN inverse |-> IF j \in D THEN inverse[j] \cup {i} ELSE inverse[j]]

-----------------------------------------------------------------------------
Init ==
    /\ func \in Functions
    /\ pc = "insertInstruction"
    /\ cursor = 1
    /\ nodes = {}
    /\ operands = func.operands
    /\ erased = {}
    /\ deps = [i \in Instrs(func) |-> {}] /\ users = deps
    /\ mem = deps /\ memUsers = deps

Advance(following) ==
    IF cursor < Len(func.op)
    THEN cursor' = cursor + 1 /\ pc' = pc
    ELSE cursor' = 1 /\ pc' = following

insertInstruction ==
    /\ pc = "insertInstruction"
    /\ nodes' = nodes \cup {cursor}
    /\ Advance("constructDependencies")
    /\ UNCHANGED <<func, operands, erased, deps, users, mem, memUsers>>

(* A call of exit or of an intrinsic without effect: utility::isDummyCall. *)
IsDummyCall(i) == func.op[i] = "DummyCall"

constructDependencies ==
    /\ pc = "constructDependencies"
    /\ IF func.op[cursor] \in WithoutDependencies
       THEN UNCHANGED <<operands, deps, users, mem, memUsers>>
       ELSE LET i   == cursor
                ops == [operands EXCEPT ![i] =
                          [n \in DOMAIN @ |-> Uncast(i, operands[i][n])]]
                D   == RegisterDependencies(i)
                M   == MemoryDependencies(ops, i)
            IN /\ operands' = ops
               /\ deps' = [deps EXCEPT ![i] = D] /\ users' = Recorded(users, i, D)
               /\ mem' = [mem EXCEPT ![i] = M] /\ memUsers' = Recorded(memUsers, i, M)
    /\ IF IsDummyCall(cursor)
       THEN pc' = "assertion" /\ UNCHANGED cursor
       ELSE Advance("filterInstructions")
    /\ UNCHANGED <<func, nodes, erased>>

filterInstructions ==
    /\ pc = "filterInstructions"
    /\ erased' = {i \in Instrs(func) : IsCast(i)}
    /\ pc' = "done"
    /\ UNCHANGED <<func, cursor, nodes, operands, deps, users, mem, memUsers>>

(* create has returned, or an assertion has ended the program. *)
Ended == pc \in {"done", "assertion"} /\ UNCHANGED vars

Next == insertInstruction \/ constructDependencies \/ filterInstructions \/ Ended

Spec == Init /\ [][Next]_vars

-----------------------------------------------------------------------------
Remaining == Instrs(func) \ erased

(* An operand that is an extension of an extension: FIXME in the source. *)
Chained(d) == IsCast(d) /\ IsCast(func.operands[d][1])

(* What an operand that is no chained extension is computed from. *)
Source(d) == IF IsCast(d) THEN func.operands[d][1] ELSE d

(* The types of the lookups and lists; a use is recorded with every         *)
(* dependency.                                                              *)
TypeOK ==
    /\ func \in Functions
    /\ cursor \in Instrs(func)
    /\ nodes \subseteq Instrs(func) /\ erased \subseteq Instrs(func)
    /\ \A i \in Instrs(func) :
         /\ operands[i] \in Seq(Instrs(func) \cup {Other})
         /\ deps[i] \subseteq nodes /\ mem[i] \subseteq nodes
         /\ users[i] = {j \in Instrs(func) : i \in deps[j]}
         /\ memUsers[i] = {j \in Instrs(func) : i \in mem[j]}

(* Whatever an instruction waits for dominates it, in its own block or, for *)
(* the value before an extension, in another, and is no terminator; an      *)
(* access waits for earlier accesses of its block only.  So nothing waits   *)
(* for itself, however long the way, while operands are being rewritten.    *)
DependenciesDominate ==
    /\ IsDominated(func, [i \in Instrs(func) |-> deps[i] \cup mem[i]])
    /\ \A i \in Instrs(func) : \A d \in mem[i] : func.bb[d] = func.bb[i] /\ d < i

(* Whatever an instruction is computed from within its block, directly or   *)
(* through an extension, and that comes from a register, it waits for; PHI  *)
(* nodes, which read at the end of other blocks, wait for nothing.          *)
ReadsCovered ==
    pc = "done" =>
        \A i \in Remaining : \A n \in DOMAIN func.operands[i] :
            LET d == func.operands[i][n]
                v == Source(d)
            IN  /\ func.op[i] \notin WithoutDependencies
                /\ ~Chained(d)
                /\ v # Other /\ func.op[v] # "Alloca" /\ func.bb[v] = func.bb[i]
                => v \in deps[i]

(* Two accesses of a block through one pointer are ordered, the later after *)
(* the earlier.                                                             *)
AccessesOrdered ==
    pc = "done" =>
        \A i, j \in Remaining :
            /\ func.bb[i] = func.bb[j] /\ func.op[i] \in MemoryOps /\ func.op[j] \in MemoryOps
            /\ Pointer(operands, i) = Pointer(operands, j) /\ i # j
            => (i \in mem[j]) # (j \in mem[i]) /\ (i \in mem[j] <=> i < j)

(* The order in which instructions wait for one another takes every read    *)
(* within a block after what is read, and every two accesses through one    *)
(* pointer in the order of the code; and it has no cycle.                   *)
DependenciesOrdered == ReadsCovered /\ AccessesOrdered /\ DependenciesDominate

(* The function the scheduler reads: without the erased instructions.       *)
Delivered ==
    LET left    == LayoutOrder(Remaining)
        rank(i) == Cardinality({j \in Remaining : j <= i})
    IN [bb    |-> [r \in DOMAIN left |-> func.bb[left[r]]],
        op    |-> [r \in DOMAIN left |-> func.op[left[r]]],
        width |-> [r \in DOMAIN left |-> 32],
        deps  |-> [r \in DOMAIN left |-> {rank(d) : d \in deps[left[r]]}],
        mem   |-> [r \in DOMAIN left |-> {rank(d) : d \in mem[left[r]]}],
        succ  |-> func.succ]

(* No instruction depends on an erased one. *)
DependenciesRemain == \A i \in Remaining : deps[i] \cup mem[i] \subseteq Remaining

(* What Dag leaves is what the scheduler assumes of a function, as long as  *)
(* no extension extends another: no instruction depends on an erased one,   *)
(* on a later one or on a terminator, and memory dependencies stay within   *)
(* a block and among accesses.                                              *)
DeliversFunction ==
    pc = "done" /\ (\A i \in Instrs(func) : ~Chained(i)) =>
        /\ DependenciesRemain
        /\ IsFunction(Delivered, {func.op[i] : i \in Remaining}, {32})

(* "Remove bit extension instructions": when none extends another, none of  *)
(* those erased is still an operand.                                        *)
NoErasedOperand ==
    (\A i \in Instrs(func) : ~Chained(i)) =>
    \A i \in Remaining : \A n \in DOMAIN operands[i] : operands[i][n] \notin erased

=============================================================================
