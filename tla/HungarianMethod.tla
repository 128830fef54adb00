--------------------------- MODULE HungarianMethod ---------------------------
(***************************************************************************)
(* libhungarian (math/HungarianMethod.cpp): hungarian_init makes a square  *)
(* cost matrix, hungarian_solve finds a cheapest assignment of its rows to *)
(* its columns.  The solver keeps dual values row_dec and col_inc, matches *)
(* rows along entries whose reduced cost                                   *)
(*        cost[k][l] - row_dec[k] + col_inc[l]                             *)
(* is zero, and grows a forest of alternating paths from the unmatched     *)
(* rows until a path reaches an unmatched column (a breakthrough).         *)
(***************************************************************************)
EXTENDS Integers, Sequences, FiniteSets, FiniteSetsExt, SequencesExt

CONSTANTS
    Problems    \* records [rows, cols, cost, mode], the arguments of hungarian_init

MINIMIZE_COST == 0
MAXIMIZE_UTIL == 1

(* No cost is so great that a sum of the solver's leaves the range of an   *)
(* int, or reaches INF.                                                    *)
CostLimit == 268435456

ASSUME ProblemsAssumption ==
    \A p \in Problems :
        /\ p.rows \in Nat \ {0} /\ p.cols \in Nat \ {0}
        /\ p.cost \in [0..(p.rows - 1) -> [0..(p.cols - 1) -> (-CostLimit)..CostLimit]]
        /\ p.mode \in {MINIMIZE_COST, MAXIMIZE_UTIL}

VARIABLES
    problem,        \* the element of Problems being solved
    section,        \* the section of hungarian_solve being executed
    cost,           \* hungarian_problem_t::cost
    row_dec, col_inc,
    col_mate, row_mate, \* the matching: column of a row, row of a column, or None
    parent_row,     \* the row of the forest through which a column was reached
    slack, slack_row,   \* least reduced cost of a column, and the row it is in
    unchosen_row,   \* the rows of the forest, in the order they joined it
    q,              \* how many of them are explored
    unmatched,      \* how many rows have no column
    k, l            \* the row and the column the section works on

hungarianVars == <<problem, section, cost, row_dec, col_inc, col_mate, row_mate, parent_row,
          slack, slack_row, unchosen_row, q, unmatched, k, l>>

-----------------------------------------------------------------------------
None == -1

INF == 2147483647

Size(p) == Max({p.rows, p.cols})

(* Rows and columns: the matrix is made square. *)
Index == 0..(Size(problem) - 1)

Padded(p) ==
    [i \in 0..(Size(p) - 1) |-> [j \in 0..(Size(p) - 1) |->
        IF i < p.rows /\ j < p.cols THEN p.cost[i][j] ELSE 0]]

MaxCost(p) ==
    Max({0} \cup {p.cost[i][j] : i \in 0..(p.rows - 1), j \in 0..(p.cols - 1)})

(* Mutant of SquareCost: the mode is not looked at. *)
SquareCostOfAnyMode(p) == Padded(p)

(* hungarian_init: utilities become costs. *)
SquareCost(p) ==
    IF p.mode = MINIMIZE_COST THEN Padded(p)
    ELSE [i \in 0..(Size(p) - 1) |-> [j \in 0..(Size(p) - 1) |->
             MaxCost(p) - Padded(p)[i][j]]]

Reduced(i, j) == cost[i][j] - row_dec[i] + col_inc[j]

(* Mutant of Free: a column without a row is not told from one with a row. *)
FreeNever(S) == {}

(* The columns of S that have no row: each of them is a breakthrough. *)
Free(S) == {j \in S : row_mate[j] < 0}

(* The elements of S up to and including the first of Stop. *)
Until(S, Stop) == IF Stop = {} THEN S ELSE {j \in S : j <= Min(Stop)}

(* The elements of S in ascending order. *)
Ascending(S) ==
    CHOOSE s \in [1..Cardinality(S) -> S] : \A x, y \in DOMAIN s : x < y => s[x] < s[y]

HungarianInit ==
    /\ problem \in Problems
    /\ section = "columns"
    /\ cost = SquareCost(problem)
    /\ row_dec = [i \in Index |-> 0]
    /\ col_inc = [j \in Index |-> 0]
    /\ col_mate = [i \in Index |-> 0]
    /\ row_mate = [j \in Index |-> 0]
    /\ parent_row = [j \in Index |-> 0]
    /\ slack = [j \in Index |-> 0]
    /\ slack_row = [i \in Index |-> 0]
    /\ unchosen_row = << >>
    /\ q = 0 /\ unmatched = 0 /\ k = 0 /\ l = 0

(* Every column's least cost is subtracted from the column. *)
subtractColumnMinima ==
    /\ section = "columns"
    /\ cost' = [i \in Index |-> [j \in Index |->
                  cost[i][j] - Min({cost[m][j] : m \in Index})]]
    /\ row_mate' = [j \in Index |-> None]
    /\ parent_row' = [j \in Index |-> None]
    /\ slack' = [j \in Index |-> INF]
    /\ section' = "rows" /\ k' = 0
    /\ UNCHANGED <<problem, row_dec, col_inc, col_mate, slack_row, unchosen_row,
                   q, unmatched, l>>

(* A row takes the first free column that has the row's least cost; a row  *)
(* without one is a root of the forest.                                    *)
matchRow ==
    /\ section = "rows"
    /\ LET s     == Min({cost[k][j] : j \in Index})
           zeros == {j \in Index : cost[k][j] = s /\ row_mate[j] < 0}
           roots == IF zeros = {} THEN Append(unchosen_row, k) ELSE unchosen_row
           last  == k = Size(problem) - 1
       IN /\ row_dec' = [row_dec EXCEPT ![k] = s]
          /\ IF zeros = {}
             THEN col_mate' = [col_mate EXCEPT ![k] = None] /\ UNCHANGED row_mate
             ELSE /\ col_mate' = [col_mate EXCEPT ![k] = Min(zeros)]
                  /\ row_mate' = [row_mate EXCEPT ![Min(zeros)] = k]
          /\ unchosen_row' = roots
          /\ unmatched' = IF last THEN Len(roots) ELSE unmatched
          /\ k' = IF last THEN k ELSE k + 1
          /\ section' = IF ~last THEN section ELSE IF roots = << >> THEN "check" ELSE "explore"
    /\ UNCHANGED <<problem, cost, col_inc, parent_row, slack, slack_row, q, l>>

(* Mutant of Nearer: a column that was reached before is reached again. *)
NearerAgain(r) == {j \in Index : Reduced(r, j) <= slack[j]}

(* The columns that row r of the forest brings nearer than they were. *)
Nearer(r) == {j \in Index : slack[j] # 0 /\ Reduced(r, j) < slack[j]}

(* One row of the forest is explored: its columns get their slack, a column *)
(* of reduced cost zero brings its row into the forest, and the first such  *)
(* column that is free is a breakthrough.                                   *)
exploreNode ==
    /\ section = "explore" /\ q < Len(unchosen_row)
    /\ LET r      == unchosen_row[q + 1]
           tight  == {j \in Nearer(r) : Reduced(r, j) = 0}
           free   == Free(tight)
           seen   == Until(Nearer(r), free) \ free
       IN /\ slack' = [j \in Index |-> IF j \in seen THEN Reduced(r, j) ELSE slack[j]]
          /\ slack_row' = [j \in Index |-> IF j \in seen \ tight THEN r ELSE slack_row[j]]
          /\ parent_row' = [j \in Index |-> IF j \in seen \cap tight THEN r ELSE parent_row[j]]
          /\ LET joining == Ascending(seen \cap tight)
             IN unchosen_row' = unchosen_row \o [i \in DOMAIN joining |-> row_mate[joining[i]]]
          /\ k' = r
          /\ IF free = {}
             THEN q' = q + 1 /\ UNCHANGED <<section, l>>
             ELSE section' = "augment" /\ l' = Min(free) /\ UNCHANGED q
    /\ UNCHANGED <<problem, cost, row_dec, col_inc, col_mate, row_mate, unmatched>>

(* Mutant of LeastSlack: the columns reached are not excluded. *)
LeastSlackOfAll == Min({INF} \cup {slack[j] : j \in Index})

(* The least positive slack, by which the dual values change. *)
LeastSlack == Min({INF} \cup {slack[j] : j \in {i \in Index : slack[i] # 0}})

(* Mutant of Raised: the columns behind the breakthrough are forgotten. *)
RaisedBefore(free) == {j \in Index : slack[j] = 0 /\ (free = {} \/ j < Min(free))}

(* The columns whose dual value rises, in the loop over the columns or,     *)
(* behind a breakthrough, in the one that brings the rest up to date.       *)
Raised(free) == {j \in Index : slack[j] = 0}

(* With every row of the forest explored, the dual values change by the     *)
(* least slack, and columns that get slack zero are treated as above; the   *)
(* loop is left at the first free one.                                      *)
introduceZero ==
    /\ section = "explore" /\ q = Len(unchosen_row)
    /\ LET s     == LeastSlack
           open  == {j \in Index : slack[j] # 0}
           zeros == {j \in open : slack[j] = s}
           free  == Free(zeros)
           seen  == Until(open, free)
           times(i) == Cardinality({x \in DOMAIN unchosen_row : unchosen_row[x] = i})
       IN /\ row_dec' = [i \in Index |-> row_dec[i] + s * times(i)]
          /\ slack' = [j \in Index |-> IF j \in seen THEN slack[j] - s ELSE slack[j]]
          /\ col_inc' = [j \in Index |-> IF j \in Raised(free) THEN col_inc[j] + s ELSE col_inc[j]]
          /\ parent_row' = [j \in Index |->
                IF j \in (seen \cap zeros) \ free THEN slack_row[j] ELSE parent_row[j]]
          /\ LET joining == Ascending((seen \cap zeros) \ free)
             IN unchosen_row' = unchosen_row \o [i \in DOMAIN joining |-> row_mate[joining[i]]]
          /\ IF free = {}
             THEN UNCHANGED <<section, k, l>>
             ELSE section' = "augment" /\ l' = Min(free) /\ k' = slack_row[Min(free)]
    /\ UNCHANGED <<problem, cost, col_mate, row_mate, slack_row, q, unmatched>>

(* Mutant of ParentOf: the way back takes the nearest row, not the parent. *)
ParentOfNearest(j) == slack_row[j]

(* The row through which column j joined the forest. *)
ParentOf(j) == parent_row[j]

(* One step back along the path to a root; the root's step ends the stage,  *)
(* and the next one starts with the forest of the rows still unmatched.     *)
updateMatching ==
    /\ section = "augment"
    /\ LET j == col_mate[k]
       IN /\ col_mate' = [col_mate EXCEPT ![k] = l]
          /\ row_mate' = [row_mate EXCEPT ![l] = k]
          /\ IF j >= 0
             THEN /\ k' = ParentOf(j) /\ l' = j
                  /\ UNCHANGED <<section, unmatched, parent_row, slack, unchosen_row, q>>
             ELSE /\ unmatched' = unmatched - 1
                  /\ UNCHANGED <<k, l>>
                  /\ IF unmatched = 1
                     THEN section' = "check" /\ UNCHANGED <<parent_row, slack, unchosen_row, q>>
                     ELSE /\ section' = "explore" /\ q' = 0
                          /\ parent_row' = [i \in Index |-> None]
                          /\ slack' = [i \in Index |-> INF]
                          /\ unchosen_row' = Ascending({i \in Index : col_mate'[i] < 0})
    /\ UNCHANGED <<problem, cost, row_dec, col_inc, slack_row>>

(* "Begin doublecheck the solution": when the check fails the process ends. *)
doubleCheck ==
    /\ section = "check"
    /\ section' = IF \/ \E i, j \in Index : cost[i][j] < row_dec[i] - col_inc[j]
                \/ \E i \in Index :
                     \/ col_mate[i] < 0
                     \/ cost[i][col_mate[i]] # row_dec[i] - col_inc[col_mate[i]]
                \/ Cardinality({j \in Index : col_inc[j] # 0}) > Size(problem)
             THEN "exit" ELSE "done"
    /\ UNCHANGED <<problem, cost, row_dec, col_inc, col_mate, row_mate, parent_row,
                   slack, slack_row, unchosen_row, q, unmatched, k, l>>

Ended == section \in {"done", "exit"} /\ UNCHANGED hungarianVars

HungarianNext ==
    \/ subtractColumnMinima \/ matchRow \/ exploreNode \/ introduceZero
    \/ updateMatching \/ doubleCheck \/ Ended

HungarianSpec == HungarianInit /\ [][HungarianNext]_hungarianVars

(* hungarian_solve is a sequential function: it goes on as long as it can. *)
FairHungarianSpec == HungarianSpec /\ WF_hungarianVars(HungarianNext)

-----------------------------------------------------------------------------
(* The types of the solver's arrays. *)
HungarianTypeOK ==
    /\ problem \in Problems
    /\ section \in {"columns", "rows", "explore", "augment", "check", "done", "exit"}
    /\ cost \in [Index -> [Index -> Int]]
    /\ row_dec \in [Index -> Int] /\ col_inc \in [Index -> Int]
    /\ col_mate \in [Index -> Index \cup {None}]
    /\ row_mate \in [Index -> Index \cup {None}]
    /\ parent_row \in [Index -> Index \cup {None}]
    /\ slack \in [Index -> Int] /\ slack_row \in [Index -> Index]
    /\ unchosen_row \in Seq(Index)
    /\ q \in 0..Len(unchosen_row) /\ unmatched \in 0..Size(problem)
    /\ k \in Index /\ l \in Index

(* The double check at the end, which would end the compiler with the       *)
(* status of success and no output, never fails.                            *)
NeverExits == section # "exit"

(* The forest: no row joins it twice, its rows are the unmatched ones and   *)
(* the mates of the columns reached, and the parent of a reached column     *)
(* joined before the column's mate, so that the way back ends at a root;    *)
(* and as long as all rows are explored and none led to a free column,      *)
(* some column has a finite slack to lower.                                 *)
ForestLeadsBack ==
    section = "explore" =>
        /\ IsInjective(unchosen_row)
        /\ ToSet(unchosen_row) =
             {i \in Index : col_mate[i] < 0} \cup {row_mate[j] : j \in {m \in Index : slack[m] = 0}}
        /\ \A j \in Index : slack[j] = 0 =>
             \E x, y \in DOMAIN unchosen_row :
                x < y /\ unchosen_row[x] = parent_row[j] /\ unchosen_row[y] = row_mate[j]
        /\ q = Len(unchosen_row) => LeastSlack < INF

(* Between the stages the two arrays describe one matching, along entries   *)
(* of reduced cost zero, with as many rows left as are counted; on the way  *)
(* back every row is rematched along such an entry, although the path was   *)
(* found with other dual values than the present ones.                      *)
MatchingTight ==
    /\ section \in {"explore", "check", "done"} =>
         /\ \A i, j \in Index : col_mate[i] = j <=> row_mate[j] = i
         /\ \A i \in Index : col_mate[i] >= 0 => Reduced(i, col_mate[i]) = 0
         /\ unmatched = Cardinality({i \in Index : col_mate[i] < 0})
    /\ section = "augment" => Reduced(k, l) = 0

(* The sum of the first n values of g. *)
SumOf(n, g) ==
    LET upTo[i \in 0..n] == IF i = 0 THEN 0 ELSE upTo[i - 1] + g[i - 1]
    IN upTo[n]

Total(matrix, f) == SumOf(Size(problem), [i \in Index |-> matrix[i][f[i]]])

Assignments == {f \in [Index -> Index] : IsInjective(f)}

(* "This method computes the optimal assignment": every row has a column of *)
(* its own, and no other such assignment costs less, or has a greater       *)
(* utility, over the rows and columns of the argument.                      *)
Optimal ==
    section = "done" =>
        /\ col_mate \in Assignments
        /\ \A f \in Assignments :
             IF problem.mode = MINIMIZE_COST
             THEN Total(Padded(problem), col_mate) <= Total(Padded(problem), f)
             ELSE Total(Padded(problem), col_mate) >= Total(Padded(problem), f)

(* The sections call for one another until every row has a column. *)
Terminates == <>(section \in {"done", "exit"})

=============================================================================
