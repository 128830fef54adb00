------------------------ MODULE MCBitpackRegBinding ------------------------
(***************************************************************************)
(* Instances of BitpackRegBinding for TLC: all programs of two arguments   *)
(* and three instructions, for a few choices of widths, and one            *)
(* program that shows how a register comes to be shared.                  *)
(***************************************************************************)
EXTENDS BitpackRegBinding

Args == 1..2

Computed == 3..5

MaxState == 3

(* What an instruction reads: one or two earlier variables. *)
Reads(v) == {S \in SUBSET (1..(v - 1)) : Cardinality(S) \in 1..2}

Operands ==
    { ops \in {<<{}, {}, a, b, c>> : a \in Reads(3), b \in Reads(4), c \in Reads(5)} :
        \A v \in 3..4 : \E u \in Computed : v \in ops[u] }

States(ops) ==
    { s \in {<<0, 0, a, b, c>> : a, b, c \in 1..MaxState} :
        \A v \in Computed : \A d \in ops[v] : s[d] < s[v] }

(* Two, three and one pool; variables of equal and of unequal widths. *)
WidthChoices == { <<8, 8, 8, 16, 16>>, <<8, 8, 16, 16, 16>>, <<16, 8, 8, 24, 8>> }

Program(w, ops, s) ==
    [width |-> w, ops |-> ops, state |-> s,
     ret |-> {Len(w)}, last |-> Max(Range(s)) + 1]

SmallPrograms ==
    UNION { {Program(w, ops, s) : w \in WidthChoices, s \in States(ops)} : ops \in Operands }

MCSmallPrograms == SmallPrograms

(* The second sub-register of the first argument is free in stage 2; the   *)
(* fourth variable, defined there, takes it for both of its pools.         *)
GapProgram ==
    Program(<<16, 8, 8, 16, 8>>, <<{}, {}, {1}, {2}, {3, 4}>>, <<0, 0, 1, 2, 3>>)

MCGapProgram == {GapProgram}

=============================================================================
