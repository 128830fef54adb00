------------------------ MODULE HardwareConstraints ------------------------
(***************************************************************************)
(* The functional units of the target and how many of each there are       *)
(* (hardware/HardwareConstraints.cpp).  A unit is named by its operation   *)
(* and the common width of its two operands; an instruction of any other   *)
(* shape has no unit.                                                      *)
(***************************************************************************)
EXTENDS Integers

FuOps == {"Add", "Mul", "And", "Or", "ICmp"}

FuWidths == {8, 16, 32}

Units == FuOps \X FuWidths

(* What getInstructionFu returns when its tables have no entry. *)
NoUnit == <<"none", 0>>

getInstructionFu(op, width) ==
    IF <<op, width>> \in Units THEN <<op, width>> ELSE NoUnit

(* fu_num_constraints; the null unit has no limit. *)
IsLimited(unit) == unit # NoUnit

FuLimit(unit) == IF unit \in {<<"Add", 16>>, <<"Add", 8>>} THEN 2 ELSE 1

=============================================================================
