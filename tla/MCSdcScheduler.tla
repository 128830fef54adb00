--------------------------- MODULE MCSdcScheduler ---------------------------
(***************************************************************************)
(* Instances of SdcScheduler for TLC: all functions of a few shapes.       *)
(***************************************************************************)
EXTENDS SdcScheduler, MCFunctions, LinearProgramReference

(* One block: arithmetic of two limits, memory accesses, and a return. *)
OneBlock ==
    LET some == {Add32, Add16, Gep, Load, Store}
    IN FunctionsOf(<<1, 1, 1, 1>>, << << >> >>, <<some, some, some, Ret>>)

(* Four additions of one width compete for two units or for one. *)
Competing ==
    UNION { FunctionsOf(<<1, 1, 1, 1, 1>>, << << >> >>, <<{k}, {k}, {k}, {k}, Ret>>) :
            k \in {Add16, Add32} }

(* Two blocks whose instructions compete, with the dependencies across      *)
(* blocks that Dag adds when it looks through an integer extension.         *)
TwoBlocks ==
    LET some == {Add32, Mul32, Load}
    IN FunctionsOf(<<1, 1, 1, 2, 2, 2>>, << <<2>>, << >> >>,
                   <<{Add32}, some, Br, {Add32}, some, Ret>>)

(* A conditional branch over a comparison of the same block. *)
Branching ==
    FunctionsOf(<<1, 1, 1, 2, 2, 3, 3>>, << <<2, 3>>, <<3>>, << >> >>,
                <<{Load, Mul32}, {ICmp32}, Br, {Mul32}, Br, {ICmp32, Mul32}, Ret>>)

AllFunctions == OneBlock \cup Competing \cup TwoBlocks \cup Branching

MCAllFunctions == AllFunctions

(* An earlier block with two independent additions for one unit. *)
EarlierBlock ==
    FunctionsOf(<<1, 1, 1, 2, 2>>, << <<2>>, << >> >>,
                <<{Add32}, {Add32}, Br, {Add32}, Ret>>)

MCEarlierBlock == EarlierBlock

=============================================================================
