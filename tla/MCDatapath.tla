----------------------------- MODULE MCDatapath -----------------------------
(***************************************************************************)
(* Small scheduled functions whose generated modules are run: every        *)
(* result is used, and the widths, the operands and the schedules vary.    *)
(***************************************************************************)
EXTENDS Datapath

CONSTANTS Horizon, FarHorizon    \* the last state of a block at most, of one block alone

(* The sequences whose i-th element is taken from choices[i]. *)
Tuples(choices) ==
    FoldLeft(LAMBDA done, C : {Append(q, c) : q \in done, c \in C}, {<< >>}, choices)

(* The functions of a layout: kind[i] is an opcode, the width of the        *)
(* operands and that of the result, operands[i] a set of sequences.         *)
FunctionsOf(bb, succ, args, kind, operands, incoming) ==
    { [bb |-> bb, succ |-> succ, args |-> args,
       op |-> [i \in DOMAIN bb |-> kind[i][1]],
       width |-> [i \in DOMAIN bb |-> kind[i][2]],
       type |-> [i \in DOMAIN bb |-> kind[i][3]],
       reads |-> [i \in DOMAIN bb |-> IF kind[i][1] \in BinaryOps THEN kind[i][3] ELSE kind[i][2]],
       result |-> Max({0} \cup {kind[i][2] : i \in {r \in DOMAIN bb : kind[r][1] = "Ret"}}),
       operands |-> ops, incoming |-> incoming,
       deps |-> [i \in DOMAIN bb |->
                   IF kind[i][1] = "PHI" THEN {}
                   ELSE {d \in ToSet(ops[i]) : d > 0 /\ bb[d] = bb[i]}],
       mem |-> [i \in DOMAIN bb |-> {}]] :
      ops \in Tuples(operands) }

EndsWith(f, s) ==
    [b \in Blocks(f) |-> Max({s[i] + Cycles(f, i) : i \in BlockInstrs(f, b)})]

FitsUnits(f, s) ==
    \A u \in Units : \A i \in Instrs(f) :
        Cardinality({j \in Instrs(f) : /\ f.bb[j] = f.bb[i] /\ s[j] = s[i]
                                       /\ getInstructionFu(f.op[j], f.width[j]) = u}) <= FuLimit(u)

(* See MCBinding. *)
NoPhiBranches(f, s, n) ==
    \A i \in Instrs(f) : f.op[i] = "PHI" => s[i] = 0 /\ n[f.bb[i]] > 0

SchedulesOf(f, h) ==
    {r \in {[func |-> f, start |-> s, statesNum |-> EndsWith(f, s)] :
              s \in Tuples([i \in Instrs(f) |-> 0..h])} :
        /\ IsSchedule(f, r.start, r.statesNum)
        /\ \A b \in Blocks(f) : r.statesNum[b] <= h
        /\ FitsUnits(f, r.start)
        /\ NoPhiBranches(f, r.start, r.statesNum)}

No(n) == [i \in 1..n |-> << >>]

Add(width) == <<"Add", width, width>>
Mul8(width) == <<"Mul", 8, width>>
ICmp(width) == <<"ICmp", width, 1>>
Br == <<"Br", 0, 0>>
Ret(width) == <<"Ret", width, 0>>

-----------------------------------------------------------------------------
(* Three additions on one unit, or on two. *)
Straight(w, operands) ==
    FunctionsOf(<<1, 1, 1, 1>>, << << >> >>, <<w, w>>, <<Add(w), Add(w), Add(w), Ret(w)>>,
                <<{<<-1, 0>>}, operands, {<<2, 1>>}, {<<3>>}>>, No(4))

(* Products of 8 bits, whose results have 8 bits or 16. *)
Products ==
    FunctionsOf(<<1, 1, 1, 1>>, << << >> >>, <<8, 16>>,
                <<Mul8(8), Mul8(16), <<"Xor", 16, 16>>, Ret(16)>>,
                <<{<<-1, -1>>}, {<<1, -1>>, <<1, 1>>}, {<<2, 2>>, <<2, -2>>}, {<<3>>}>>, No(4))

(* One of two results, by a comparison that has no unit. *)
Conditional ==
    FunctionsOf(<<1, 1, 1, 2, 2, 3, 3>>, << <<2, 3>>, << >>, << >> >>, <<64, 32>>,
                <<ICmp(64), Add(32), Br, Add(32), Ret(32), Add(32), Ret(32)>>,
                <<{<<-1, 0>>}, {<<-2, 0>>}, {<<1>>}, {<<2, -2>>}, {<<4>>}, {<<2, 2>>}, {<<6>>}>>,
                No(7))

(* A block that is repeated while a comparison holds. *)
Loop ==
    FunctionsOf(<<1, 1, 2, 2, 2, 3, 3>>, << <<2>>, <<2, 3>>, << >> >>, <<64, 32>>,
                <<Add(32), Br, Add(32), ICmp(64), Br, <<"Sub", 32, 32>>, Ret(32)>>,
                <<{<<-2, 0>>}, {<< >>}, {<<1, -2>>}, {<<-1, 0>>}, {<<4>>}, {<<1, 3>>}, {<<6>>}>>,
                No(7))

(* A load and a PHI node, which are given no driver, beside what is. *)
Undriving ==
    FunctionsOf(<<1, 1, 1, 2, 2, 2>>, << <<2>>, << >> >>, <<32, 32>>,
                <<<<"Load", 64, 32>>, Add(32), Br, <<"PHI", 32, 32>>, Add(32), Ret(32)>>,
                <<{<<0>>}, {<<1, 0>>}, {<< >>}, {<<2>>}, {<<4, 0>>}, {<<5>>}>>,
                <<<< >>, << >>, << >>, <<1>>, << >>, << >>>>)

(* A comparison of a width that has a unit: the writer aborts. *)
Compared ==
    FunctionsOf(<<1, 1, 2, 3>>, << <<2, 3>>, << >>, << >> >>, <<32>>,
                <<ICmp(32), Br, Ret(32), Ret(32)>>,
                <<{<<-1, 0>>}, {<<1>>}, {<<-1>>}, {<<0>>}>>, No(4))

(* A result that nobody reads, of a unit that others use: it has no         *)
(* register, and the program ends when it is to share one.                  *)
Unread ==
    FunctionsOf(<<1, 1, 1, 1>>, << << >> >>, <<32>>, <<Add(32), Add(32), Add(32), Ret(32)>>,
                <<{<<-1, 0>>}, {<<1, 0>>}, {<<-1, 0>>}, {<<2>>}>>, No(4))

(* A result that was extended for the return, and with an addition. *)
Extended ==
    FunctionsOf(<<1, 1, 1, 1>>, << << >> >>, <<8, 16>>,
                <<Add(8), Add(16), <<"Add", 0, 16>>, Ret(32)>>,
                <<{<<-1, 0>>}, {<<-2, 0>>}, {<<1, 2>>, <<2, 1>>}, {<<1>>, <<3>>}>>, No(4))

(* A function without a result. *)
Nothing == FunctionsOf(<<1>>, << << >> >>, << >>, <<Ret(0)>>, <<{<< >>}>>, No(1))

MCAll ==
    UNION {SchedulesOf(f, FarHorizon) : f \in Straight(32, {<<1, -2>>, <<0, -2>>}) \cup Products}
    \cup UNION {SchedulesOf(f, FarHorizon - 1) : f \in Straight(16, {<<0, -2>>}) \cup Undriving \cup Unread \cup Extended}
    \cup UNION {SchedulesOf(f, Horizon) : f \in Conditional \cup Loop \cup Compared \cup Nothing}

MCDatapathSchedules == MCAll

-----------------------------------------------------------------------------
MCComparisonAll == UNION {SchedulesOf(f, Horizon) : f \in Compared \cup Conditional}

MCComparison == MCComparisonAll
=============================================================================
