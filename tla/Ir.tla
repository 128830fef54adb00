--------------------------------- MODULE Ir ---------------------------------
(***************************************************************************)
(* The LLVM functions the back end reads, reduced to what scheduling       *)
(* and the state machine depend on.                                        *)
(*                                                                         *)
(* The instructions of a function are numbered 1..n in layout order, its   *)
(* basic blocks 1..m in layout order, the entry block first.  A function   *)
(* is a record:                                                            *)
(*                                                                         *)
(*   bb    the block of every instruction, nondecreasing;                  *)
(*   op    the opcode of every instruction;                                *)
(*   width the operand widths of every instruction, 0 if they differ;      *)
(*   deps  InstructionNode::dependencies, the register dependencies;       *)
(*   mem   InstructionNode::memory_dependencies;                           *)
(*   succ  the successor blocks of every block, in the order of            *)
(*         Instruction::getSuccessor (the default of a switch comes first).*)
(*                                                                         *)
(* The last instruction of a block is its terminator, and no other is.     *)
(***************************************************************************)
EXTENDS Integers, Sequences, FiniteSets

Terminators == {"Ret", "Br", "Switch", "Unreachable"}

MemoryOps == {"Load", "Store"}

Instrs(f) == DOMAIN f.op

Blocks(f) == DOMAIN f.succ

BlockInstrs(f, b) == {i \in Instrs(f) : f.bb[i] = b}

IsTerminator(f, i) == f.op[i] \in Terminators

Terminator(f, b) == CHOOSE i \in BlockInstrs(f, b) : IsTerminator(f, i)

(* The instructions of S in layout order.  It is not SetToSortSeq, which    *)
(* a proof cannot expand.                                                  *)
LayoutOrder(S) ==
    [k \in 1..Cardinality(S) |-> CHOOSE i \in S : Cardinality({j \in S : j <= i}) = k]

(* Scheduler::getInstructionCycles: a memory access takes one extra state. *)
Cycles(f, i) == IF f.op[i] \in MemoryOps THEN 1 ELSE 0

-----------------------------------------------------------------------------
(* What LLVM guarantees of a function, and Dag of its dependencies.        *)

WellTyped(f, Opcodes, Widths) ==
    /\ f.op \in Seq(Opcodes)
    /\ f.width \in [DOMAIN f.op -> Widths]
    /\ f.deps \in [DOMAIN f.op -> SUBSET (DOMAIN f.op)]
    /\ f.mem \in [DOMAIN f.op -> SUBSET (DOMAIN f.op)]

IsLaidOut(f) ==
    /\ \A i, j \in Instrs(f) : i <= j => f.bb[i] <= f.bb[j]
    /\ \A b \in Blocks(f) : \E i \in BlockInstrs(f, b) :
          /\ IsTerminator(f, i)
          /\ \A j \in BlockInstrs(f, b) : j <= i /\ (IsTerminator(f, j) => j = i)

(* Number of successors each terminator has. *)
HasSuccessors(f) ==
    \A b \in Blocks(f) :
        LET n == Len(f.succ[b])
        IN CASE f.op[Terminator(f, b)] \in {"Ret", "Unreachable"} -> n = 0
             [] f.op[Terminator(f, b)] = "Br" -> n \in 1..2
             [] OTHER -> n >= 1

(* The blocks and where they lead, which is not to the entry block.        *)
IsControlFlow(f) ==
    /\ f.op \in Seq(STRING)
    /\ f.bb \in [Instrs(f) -> Blocks(f)]
    /\ f.succ # << >> /\ f.succ \in Seq(Seq(Blocks(f)))
    /\ IsLaidOut(f)
    /\ HasSuccessors(f)
    /\ \A b \in Blocks(f) : \A k \in DOMAIN f.succ[b] : f.succ[b][k] # 1

(* A value dominates its readers: it is from earlier in the block, or from  *)
(* a block above in the dominator tree, where depth places the blocks.      *)
Precedes(f, depth, d, i) ==
    IF f.bb[d] = f.bb[i] THEN d < i ELSE depth[f.bb[d]] < depth[f.bb[i]]

(* What an instruction reads, D[i], dominates it and is no terminator. *)
IsDominated(f, D) ==
    /\ \E depth \in [Blocks(f) -> Blocks(f)] :
          \A i \in Instrs(f) : \A d \in D[i] : Precedes(f, depth, d, i)
    /\ \A i \in Instrs(f) : \A d \in D[i] : ~IsTerminator(f, d)

IsFunction(f, Opcodes, Widths) ==
    /\ WellTyped(f, Opcodes, Widths)
    /\ IsControlFlow(f)
    /\ IsDominated(f, [i \in Instrs(f) |-> f.deps[i] \cup f.mem[i]])
    /\ \A i \in Instrs(f) : \A d \in f.mem[i] :
          f.bb[d] = f.bb[i] /\ f.op[i] \in MemoryOps /\ f.op[d] \in MemoryOps

-----------------------------------------------------------------------------
(* What a schedule of a function must satisfy: s gives the state in which  *)
(* an instruction starts, n the number of the last state of a block.       *)

(* A register written in one state is read in a later one. *)
RegistersReady(f, s) ==
    \A i \in Instrs(f) : \A d \in f.deps[i] : s[d] + Cycles(f, d) < s[i]

(* An access starts when the accesses it must follow have ended. *)
MemoryOrdered(f, s) ==
    \A i \in Instrs(f) : \A d \in f.mem[i] : s[d] + Cycles(f, d) <= s[i]

(* Every instruction ends within its block, and a return is in the last    *)
(* state of its block.                                                     *)
WithinBlock(f, s, n) ==
    \A i \in Instrs(f) :
        /\ s[i] + Cycles(f, i) <= n[f.bb[i]]
        /\ f.op[i] = "Ret" => s[i] = n[f.bb[i]]

IsSchedule(f, s, n) ==
    /\ s \in [Instrs(f) -> Nat]
    /\ n \in [Blocks(f) -> Nat]
    /\ RegistersReady(f, s)
    /\ MemoryOrdered(f, s)
    /\ WithinBlock(f, s, n)

=============================================================================
