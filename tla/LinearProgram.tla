--------------------------- MODULE LinearProgram ---------------------------
(***************************************************************************)
(* The part of the lp_solve library that SdcScheduler uses.  lp_solve is   *)
(* not part of the repository: it is modelled from the calls in            *)
(* SdcScheduler.cpp (make_lp, add_constraintex, set_obj_fnex, solve).      *)
(*                                                                         *)
(* Every row SdcScheduler adds compares one column, or the difference of   *)
(* two columns, with an integer:                                           *)
(*                                                                         *)
(*     col - sub  (GE | LE | EQ)  rhs                                      *)
(*                                                                         *)
(* with sub = Zero in the rows of a single column.  Such a program is a    *)
(* system of difference constraints.  If it has a solution it has a least  *)
(* one, which every minimisation with positive coefficients returns, and,  *)
(* when every column is bounded from above, a greatest one, which every    *)
(* such maximisation returns.  Columns are nonnegative, the default bound  *)
(* of lp_solve.                                                            *)
(***************************************************************************)
EXTENDS Integers, Sequences, FiniteSets, FiniteSetsExt, SequencesExt

(* The pseudo column of constant value 0. *)
Zero == <<0, 0>>

Value(x, c) == IF c = Zero THEN 0 ELSE x[c]

Row(col, sub, op, rhs) == [col |-> col, sub |-> sub, op |-> op, rhs |-> rhs]

RowsOver(Cols) ==
    [col: Cols, sub: Cols \cup {Zero}, op: {"GE", "LE", "EQ"}, rhs: Int]

Holds(x, r) ==
    LET d == Value(x, r.col) - Value(x, r.sub)
    IN /\ r.op \in {"GE", "EQ"} => d >= r.rhs
       /\ r.op \in {"LE", "EQ"} => d <= r.rhs

Feasible(Cols, rows, x) ==
    /\ x \in [Cols -> Nat]
    /\ \A k \in DOMAIN rows : Holds(x, rows[k])

-----------------------------------------------------------------------------
(* An edge <<a, b, w>> says that x[b] is at least x[a] + w. *)
Edges(rows) ==
    { <<rows[k].sub, rows[k].col, rows[k].rhs>> :
          k \in {j \in DOMAIN rows : rows[j].op \in {"GE", "EQ"}} }
    \cup
    { <<rows[k].col, rows[k].sub, -rows[k].rhs>> :
          k \in {j \in DOMAIN rows : rows[j].op \in {"LE", "EQ"}} }

(* Raise every column to what its incoming edges ask for. *)
Raise(Cols, E, x) ==
    [c \in Cols |->
        Max({x[c]} \cup {Value(x, e[1]) + e[3] : e \in {f \in E : f[2] = c}})]

(* Lower every column to what its outgoing edges allow. *)
Lower(Cols, E, x) ==
    [c \in Cols |->
        Min({x[c]} \cup {Value(x, e[2]) - e[3] : e \in {f \in E : f[1] = c}})]

(* No finite value of a column in a bounded program exceeds this one. *)
Unbounded(rows) ==
    LET sum[k \in 0..Len(rows)] ==
            IF k = 0 THEN 1
            ELSE sum[k - 1] + (IF rows[k].rhs < 0 THEN -rows[k].rhs ELSE rows[k].rhs)
    IN sum[Len(rows)]

(* A round that changes nothing leaves the columns as they are. *)
RaiseRound(Cols, E, x) ==
    LET y == Raise(Cols, E, x) IN IF y = x THEN x ELSE y

LowerRound(Cols, E, x) ==
    LET y == Lower(Cols, E, x) IN IF y = x THEN x ELSE y

(* Every round gives one more column its value, if there is a solution.    *)
Least(Cols, rows) ==
    LET E == Edges(rows)
        x[k \in 0..Cardinality(Cols)] ==
            IF k = 0 THEN [c \in Cols |-> 0] ELSE RaiseRound(Cols, E, x[k - 1])
    IN x[Cardinality(Cols)]

Greatest(Cols, rows) ==
    LET E == Edges(rows)
        x[k \in 0..Cardinality(Cols)] ==
            IF k = 0 THEN [c \in Cols |-> Unbounded(rows)] ELSE LowerRound(Cols, E, x[k - 1])
    IN x[Cardinality(Cols)]

-----------------------------------------------------------------------------
(* The outcome of solve: status 0 and the values of the columns, or another *)
(* status when the program is infeasible or unbounded.                      *)
OPTIMAL == 0
NO_OPTIMUM == 2

Solve(goal, Cols, rows) ==
    LET x == IF goal = "minim" THEN Least(Cols, rows) ELSE Greatest(Cols, rows)
    IN IF /\ Feasible(Cols, rows, x)
          /\ goal = "maxim" => \A c \in Cols : x[c] < Unbounded(rows)
       THEN [status |-> OPTIMAL, vars |-> x]
       ELSE [status |-> NO_OPTIMUM, vars |-> [c \in Cols |-> 0]]

=============================================================================
