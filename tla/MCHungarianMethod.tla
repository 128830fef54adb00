-------------------------- MODULE MCHungarianMethod --------------------------
(***************************************************************************)
(* Small assignment problems: all square ones of three rows with costs in  *)
(* Costs, rectangular ones in both modes, with a negative cost, and those  *)
(* of four rows that are made of Rows, where paths of three columns occur. *)
(***************************************************************************)
EXTENDS HungarianMethod

CONSTANTS Costs

ProblemsOf(r, c, C, modes) ==
    [rows : {r}, cols : {c}, mode : modes,
     cost : [0..(r - 1) -> [0..(c - 1) -> C]]]

Few == {-1, 0, 2}

Row(a, b, c, d) == [j \in 0..3 |-> <<a, b, c, d>>[j + 1]]

Rows == {Row(0, 1, 2, 3), Row(1, 2, 3, 5), Row(0, 2, 4, 6), Row(3, 1, 3, 2), Row(0, 1, 1, 4)}

MCAll ==
    ProblemsOf(3, 3, Costs, {MINIMIZE_COST})
    \cup ProblemsOf(2, 3, Few, {MINIMIZE_COST, MAXIMIZE_UTIL})
    \cup ProblemsOf(3, 2, Few, {MINIMIZE_COST, MAXIMIZE_UTIL})
    \cup [rows : {4}, cols : {4}, mode : {MINIMIZE_COST}, cost : [0..3 -> Rows]]

MCProblems == MCAll
=============================================================================
