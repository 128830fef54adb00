---------------------------- MODULE MCFunctions ----------------------------
(***************************************************************************)
(* Enumerates small functions for TLC: all those of a given layout whose   *)
(* instructions, operands and addresses LLVM would accept.                 *)
(***************************************************************************)
EXTENDS Ir, SequencesExt

MCOpcodes == {"Add", "Mul", "ICmp"} \cup MemoryOps \cup Terminators \cup {"GetElementPtr"}

MCWidths == {8, 16, 32, 64}

(* What an instruction may be. *)
Add32 == <<"Add", 32>>
Add16 == <<"Add", 16>>
Mul32 == <<"Mul", 32>>
ICmp32 == <<"ICmp", 32>>
Gep == <<"GetElementPtr", 64>>
Load == <<"Load", 64>>
Store == <<"Store", 64>>
Ret == {<<"Ret", 32>>}
Br == {<<"Br", 32>>}

(* Whether the value of an instruction of kind a may be an operand of one   *)
(* of kind b.  Dag reads through integer extensions, so a narrower value    *)
(* may.                                                                     *)
Feeds(a, b) ==
    /\ a[1] \notin Terminators \cup {"Store"}
    /\ CASE b[1] = "Br" -> a[1] = "ICmp"
         [] b[1] = "Load" -> a[1] = "GetElementPtr"
         [] b[1] \in {"Ret", "Store"} -> TRUE
         [] b[1] = "GetElementPtr" -> a[1] \in {"Add", "Mul", "Load"}
         [] OTHER -> a[1] = "Load" \/ (a[1] \in {"Add", "Mul"} /\ a[2] <= b[2])

Arity(b, succs) ==
    CASE b[1] = "Br" -> Len(succs) - 1
      [] b[1] \in {"Ret", "Load", "GetElementPtr"} -> 1
      [] OTHER -> 2

(* The operands of instruction i that are instructions of its block, or,    *)
(* through an extension, of an earlier block.                               *)
DepChoices(bb, succ, kind, i) ==
    { D \in SUBSET {j \in 1..(i - 1) :
                      /\ Feeds(kind[j], kind[i])
                      /\ bb[j] = bb[i] \/ kind[i][1] \notin Terminators} :
        Cardinality(D) <= Arity(kind[i], succ[bb[i]]) }

(* An access follows the earlier accesses of its block to its address. *)
MemOf(bb, op, addr) ==
    [i \in DOMAIN op |->
        {j \in 1..(i - 1) : /\ op[i] \in MemoryOps /\ op[j] \in MemoryOps
                            /\ bb[i] = bb[j] /\ addr[i] = addr[j]}]

AddrChoices(op) ==
    LET M == {i \in DOMAIN op : op[i] \in MemoryOps}
    IN {[i \in DOMAIN op |-> IF i \in A THEN 1 ELSE 2] : A \in SUBSET M}

(* The sequences whose i-th element is taken from choices[i]. *)
Tuples(choices) ==
    FoldLeft(LAMBDA done, C : {Append(q, c) : q \in done, c \in C}, {<< >>}, choices)

(* The functions of one layout: kinds[i] is the set of what instruction i   *)
(* may be, an opcode and a width.                                           *)
FunctionsOf(bb, succ, kinds) ==
    UNION { LET op == [i \in DOMAIN bb |-> kind[i][1]]
            IN { [bb |-> bb, op |-> op, width |-> [i \in DOMAIN bb |-> kind[i][2]],
                  deps |-> deps, mem |-> MemOf(bb, op, addr), succ |-> succ] :
                 deps \in Tuples([i \in DOMAIN bb |-> DepChoices(bb, succ, kind, i)]),
                 addr \in AddrChoices(op) } :
            kind \in Tuples(kinds) }

=============================================================================
