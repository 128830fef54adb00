----------------------- MODULE LinearProgramReference -----------------------
(***************************************************************************)
(* Solve of LinearProgram against the definition of an optimum, for every  *)
(* program of at most three rows of the kinds SdcScheduler adds over three *)
(* columns: an assumption that TLC evaluates.                              *)
(***************************************************************************)
LOCAL INSTANCE LinearProgram

LOCAL INSTANCE Integers
LOCAL INSTANCE SequencesExt

(* Up to where values are enumerated. *)
LargestValue == 4

Columns == {<<1, 0>>, <<2, 0>>, <<3, 0>>}

Candidates ==
    {Row(c, Zero, k[1], k[2]) :
        c \in Columns, k \in {<<"GE", 0>>, <<"EQ", 1>>, <<"LE", 1>>, <<"LE", 2>>}}
    \cup
    {Row(p[1], p[2], k[1], k[2]) :
        p \in {q \in Columns \X Columns : q[1] # q[2]},
        k \in {<<"GE", 0>>, <<"GE", 1>>, <<"EQ", 1>>}}

Programs == {{}} \cup {{a, b, c} : a, b, c \in Candidates}

Points == [Columns -> 0..LargestValue]

Solutions(program) == {x \in Points : \A r \in program : Holds(x, r)}

Total(x) == x[<<1, 0>>] + x[<<2, 0>>] + x[<<3, 0>>]

(* The minimisation scheduleAsap asks for: solve succeeds exactly when the  *)
(* rows have a solution, and what it returns is the one of least total.     *)
MinimumIsOptimal(result, solutions) ==
    IF result.status = OPTIMAL
    THEN \A x \in solutions : Total(result.vars) < Total(x) \/ x = result.vars
    ELSE solutions = {}

(* The maximisation scheduleAlap asks for: solve succeeds exactly when the  *)
(* rows have a solution and bound every column, and what it returns is the  *)
(* one of greatest total.  A column without a bound can reach LargestValue. *)
MaximumIsOptimal(result, solutions) ==
    IF result.status = OPTIMAL
    THEN \A x \in solutions : Total(x) < Total(result.vars) \/ x = result.vars
    ELSE solutions = {} \/ \E x \in solutions : \E c \in Columns : x[c] = LargestValue

ASSUME OptimumAssumption ==
    \A program \in Programs :
        LET solutions == Solutions(program)
            rows      == SetToSeq(program)
        IN /\ MinimumIsOptimal(Solve("minim", Columns, rows), solutions)
           /\ MaximumIsOptimal(Solve("maxim", Columns, rows), solutions)

=============================================================================
