------------------------------ MODULE MCBinding ------------------------------
(***************************************************************************)
(* Small scheduled functions for the binder: what an instruction may be is *)
(* given as <<opcode, width, instructions it may have as operands>>.       *)
(***************************************************************************)
EXTENDS Binding

CONSTANTS Horizon, FarHorizon    \* the last state of a block at most, of one block alone

(* The sequences whose i-th element is taken from choices[i]. *)
Tuples(choices) ==
    FoldLeft(LAMBDA done, C : {Append(q, c) : q \in done, c \in C}, {<< >>}, choices)

FunctionOf(bb, succ, op, width, operands, incoming) ==
    [bb |-> bb, succ |-> succ, op |-> op, width |-> width,
     operands |-> operands, incoming |-> incoming,
     deps |-> [i \in DOMAIN bb |->
                 IF op[i] = "PHI" THEN {} ELSE {d \in ToSet(operands[i]) : d > 0 /\ bb[d] = bb[i]}],
     mem |-> [i \in DOMAIN bb |-> {}]]

(* The functions of a layout: operands[i] is the set of the sequences of    *)
(* operands instruction i may have.                                         *)
FunctionsOf(bb, succ, op, width, operands, incoming) ==
    {FunctionOf(bb, succ, op, width, ops, incoming) : ops \in Tuples(operands)}

EndsWith(f, s) == [b \in Blocks(f) |-> Max({s[i] : i \in BlockInstrs(f, b)})]

FitsUnits(f, s) ==
    \A u \in Units : \A i \in Instrs(f) :
        Cardinality({j \in Instrs(f) : /\ f.bb[j] = f.bb[i] /\ s[j] = s[i]
                                       /\ getInstructionFu(f.op[j], f.width[j]) = u}) <= FuLimit(u)

(* A PHI node in a state that branches makes visitTransitionStates read     *)
(* past the end of the transitions, which has no defined outcome.           *)
NoPhiBranches(f, s, n) ==
    \A i \in Instrs(f) : f.op[i] = "PHI" => s[i] = 0 /\ n[f.bb[i]] > 0

SchedulesOf(f, h) ==
    {r \in {[func |-> f, start |-> s, statesNum |-> EndsWith(f, s)] :
              s \in Tuples([i \in Instrs(f) |-> 0..h])} :
        /\ IsSchedule(f, r.start, r.statesNum)
        /\ FitsUnits(f, r.start)
        /\ NoPhiBranches(f, r.start, r.statesNum)}

No(n) == [i \in 1..n |-> << >>]

-----------------------------------------------------------------------------
(* Three additions on one unit, whose lives overlap in any way. *)
Straight ==
    FunctionsOf(<<1, 1, 1, 1>>, << << >> >>, <<"Add", "Add", "Add", "Ret">>, <<32, 32, 32, 32>>,
                <<{<<-1, 0>>}, {<<0, 0>>, <<1, 0>>}, {<<1, 1>>, <<1, 2>>, <<0, 2>>}, {<<2>>, <<3>>}>>, No(4))

(* Three of a kind that has two units. *)
Narrow ==
    FunctionsOf(<<1, 1, 1, 1>>, << << >> >>, <<"Add", "Add", "Add", "Ret">>, <<16, 16, 16, 32>>,
                <<{<<-1, 0>>}, {<<0, 0>>}, {<<1, 1>>, <<1, 2>>}, {<<3>>}>>, No(4))

(* A branch around a block, with a value that lives across it or not. *)
Conditional ==
    FunctionsOf(<<1, 1, 2, 2, 3, 3>>, << <<2, 3>>, <<3>>, << >> >>,
                <<"Add", "Br", "Add", "Br", "Add", "Ret">>, <<32, 0, 32, 0, 32, 32>>,
                <<{<<-1, 0>>}, {<<0>>}, {<<1, 0>>, <<0, 0>>}, {<<0>>}, {<<1, 0>>, <<-1, 0>>}, {<<5>>, <<1>>}>>,
                No(6))

(* Two arms of which a PHI node takes one, and a value around them. *)
Merge ==
    FunctionsOf(<<1, 2, 2, 3, 3, 4, 4>>, << <<2, 3>>, <<4>>, <<4>>, << >> >>,
                <<"Br", "Add", "Br", "Add", "Br", "PHI", "Ret">>, <<0, 32, 0, 32, 0, 32, 32>>,
                <<{<<0>>}, {<<-1, 0>>}, {<<>>}, {<<-1, 0>>}, {<<>>}, {<<2, 4>>, <<0, 4>>}, {<<6>>}>>,
                <<<<>>, <<>>, <<>>, <<>>, <<>>, <<2, 3>>, <<>>>>)

(* A loop whose PHI node and whose bodies additions feed each other. *)
Loop ==
    FunctionsOf(<<1, 1, 2, 2, 2, 3, 3>>, << <<2>>, <<2, 3>>, << >> >>,
                <<"Add", "Br", "PHI", "Add", "Br", "Add", "Ret">>, <<32, 0, 32, 32, 0, 32, 32>>,
                <<{<<-1, 0>>}, {<<>>}, {<<0, 4>>, <<1, 4>>}, {<<3, 0>>, <<3, 1>>}, {<<0>>},
                  {<<1, 0>>, <<4, 0>>}, {<<6>>}>>,
                <<<<>>, <<>>, <<1, 2>>, <<>>, <<>>, <<>>, <<>>>>)

MCAll ==
    UNION {SchedulesOf(f, FarHorizon) : f \in Straight \cup Narrow}
    \cup UNION {SchedulesOf(f, Horizon) : f \in Conditional \cup Merge \cup Loop}

MCBindingSchedules == MCAll
=============================================================================
