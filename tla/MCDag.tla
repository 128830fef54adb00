-------------------------------- MODULE MCDag --------------------------------
(***************************************************************************)
(* All well-typed functions of a few layouts: what an instruction may be   *)
(* is given as <<opcode, type of its result, types of its operands>>.      *)
(***************************************************************************)
EXTENDS Dag

(* The sequences whose i-th element is taken from choices[i]. *)
Tuples(choices) ==
    FoldLeft(LAMBDA done, C : {Append(q, c) : q \in done, c \in C}, {<< >>}, choices)

(* Types are widths; no integer has the widths of these two. *)
Ptr == 1
Void == 0

Add16 == <<"Add", 16, <<16, 16>>>>
Add32 == <<"Add", 32, <<32, 32>>>>
ZExt32 == <<"ZExt", 32, <<16>>>>
SExt64 == <<"SExt", 64, <<32>>>>
Alloca == <<"Alloca", Ptr, <<>>>>
Load16 == <<"Load", 16, <<Ptr>>>>
Load32 == <<"Load", 32, <<Ptr>>>>
Store32 == <<"Store", Void, <<32, Ptr>>>>
Gep == <<"GetElementPtr", Ptr, <<Ptr, 64>>>>
Phi32 == <<"PHI", 32, <<32, 32>>>>
Call == <<"Call", Void, <<32>>>>
Exit == <<"DummyCall", Void, <<32>>>>
Goto == <<"Br", Void, <<>>>>
Ret == <<"Ret", Void, <<32>>>>

(* An operand: an argument or a constant, or an instruction that precedes   *)
(* it; the second of a PHI node may also be a later one, from the end of    *)
(* the loop.                                                                *)
OperandChoices(kind, i, n) ==
    {Other} \cup
    {j \in {m \in DOMAIN kind : kind[m][2] = kind[i][3][n]} :
        j < i \/ (kind[i][1] = "PHI" /\ n = 2 /\ j > i)}

OperandsOf(kind, i) ==
    Tuples([n \in DOMAIN kind[i][3] |-> OperandChoices(kind, i, n)])

FunctionsOf(bb, succ, kinds) ==
    UNION {{ [bb |-> bb, succ |-> succ, op |-> [i \in DOMAIN bb |-> kind[i][1]], operands |-> ops] :
               ops \in Tuples([i \in DOMAIN bb |-> OperandsOf(kind, i)]) } :
           kind \in Tuples(kinds) }

-----------------------------------------------------------------------------
(* Arithmetic through extensions in one block. *)
Arithmetic ==
    FunctionsOf(<<1, 1, 1, 1>>, <<<<>>>>,
                <<{Add16, Load16, Alloca}, {ZExt32, Add16, Load32}, {Add32, Store32, Call}, {Ret}>>)

(* Memory accesses. *)
Memory ==
    FunctionsOf(<<1, 1, 1, 1, 1>>, <<<<>>>>,
                <<{Alloca, ZExt32}, {Load32, Store32, Call}, {SExt64, Store32, Load32},
                  {Gep, Load32, Store32, Exit}, {Ret}>>)

(* A loop whose PHI node may read an extension of either block. *)
Loop ==
    FunctionsOf(<<1, 1, 1, 2, 2, 2, 3>>, <<<<2>>, <<2, 3>>, <<>>>>,
                <<{Add16}, {ZExt32}, {Goto}, {Phi32}, {Add32}, {Goto}, {Ret}>>)

MCAll == Arithmetic \cup Memory \cup Loop

MCDagFunctions == MCAll
=============================================================================
