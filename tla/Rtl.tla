-------------------------------- MODULE Rtl --------------------------------
(***************************************************************************)
(* The signals of a generated module (rtl/RtlSignal, rtl/RtlModule,        *)
(* rtl/RtlOperation) and what the text printed for one of them means       *)
(* (verilog/VerilogWriter): which driver a signal takes in a state, and    *)
(* what an assignment leaves of a value.                                   *)
(*                                                                         *)
(* A module is a function from names to signals.  A signal has a type, a   *)
(* width, and two sequences, its conditions and its drivers, which grow    *)
(* together unless the signal is driven exclusively.                       *)
(***************************************************************************)
EXTENDS Integers, Sequences, FiniteSetsExt

(* What may drive a signal.  NoSignal is the null pointer.                  *)
NoSignal == <<"null">>
Named(name) == <<"signal", name>>
Constant(c, width) == <<"constant", c, width>>
Operation(op, a, b) == <<"operation", op, a, b>>
StateParam(s) == <<"parameter", s>>

ZERO == Constant(<<"bit", 0>>, 1)

ONE == Constant(<<"bit", 1>>, 1)

(* A condition: cur_state is the state, and the operands of the clauses     *)
(* have the given values.                                                   *)
InState(s) == [state |-> s, clauses |-> << >>]
InStateWhen(s, operand, value) == [state |-> s, clauses |-> <<<<operand, value>>>>]

-----------------------------------------------------------------------------
(* RtlModule and RtlSignal: every method as a function of the module.      *)

exists(module, name) == name \in DOMAIN module

NewSignal(type, width) ==
    [type |-> type, width |-> width, conditions |-> << >>, drivers |-> << >>]

(* addInputWire, addOutputReg and addParam do not look for the name. *)
AddPort(module, name, type, width) ==
    [x \in {name} \cup DOMAIN module |-> IF x = name THEN NewSignal(type, width) ELSE module[x]]

(* addWire and addReg: a signal that exists only takes the width.           *)
AddSignal(module, name, type, width) ==
    IF exists(module, name)
    THEN [module EXCEPT ![name].width = width]
    ELSE AddPort(module, name, type, width)

addWire(module, name, width) == AddSignal(module, name, "wire", width)

addReg(module, name, width) == AddSignal(module, name, "reg", width)

addCondition(module, name, condition, driver) ==
    [module EXCEPT ![name].conditions = Append(@, condition),
                   ![name].drivers = Append(@, driver)]

(* Mutant of setExclDriver: the conditions of the drivers that are gone are *)
(* kept.                                                                    *)
setExclDriverOnly(module, name, driver) == [module EXCEPT ![name].drivers = <<driver>> \o @]

setExclDriver(module, name, driver) ==
    [module EXCEPT ![name].conditions = << >>, ![name].drivers = <<driver>>]

isRegister(signal) == signal.type \in {"reg", "output reg"}

-----------------------------------------------------------------------------
(* VerilogWriter.                                                           *)

Matching(signal, s) == {k \in DOMAIN signal.conditions : signal.conditions[k].state = s}

(* printCondition for a register: an "if" of its own for every condition,  *)
(* so that the last one that holds assigns; a register none of whose       *)
(* conditions holds keeps its value, for which NoSignal stands.            *)
RegisterDriver(signal, s) ==
    CASE signal.drivers = << >> -> NoSignal
      [] signal.drivers # << >> /\ signal.conditions = << >> -> signal.drivers[1]
      [] OTHER -> IF Matching(signal, s) = {} THEN NoSignal
                  ELSE signal.drivers[Max(Matching(signal, s))]

(* printCondition for a wire: a chain of "else if" whose last condition is  *)
(* a comment, so that the first driver whose condition holds is taken, and  *)
(* otherwise the last; a single condition is not printed.                   *)
WireDriver(signal, s) ==
    LET n == Len(signal.conditions)
        tested == Matching(signal, s) \cap 1..(n - 1)
    IN CASE signal.drivers = << >> -> NoSignal
         [] signal.drivers # << >> /\ n = 0 -> signal.drivers[1]
         [] OTHER -> signal.drivers[IF tested = {} THEN n ELSE Min(tested)]

(* printOperator: an operation of two operands is printed, and printValue   *)
(* asserts that there is a signal to print.                                 *)
Printable(driver) ==
    driver[1] = "operation" => driver[3] # NoSignal /\ driver[4] # NoSignal

-----------------------------------------------------------------------------
(* Values.  A value is a term and the number of its low bits that are kept: *)
(* arithmetic is unsigned, and an assignment cuts what does not fit.        *)

Comparisons == {"ICmp"}

Undriven == [term |-> <<"x">>, bits |-> 0]

Value(term, bits) == [term |-> term, bits |-> bits]

Cut(value, width) == Value(value.term, Min({value.bits, width}))

(* More than the width of any signal, which is a byte: an operation is as   *)
(* wide as what it is assigned to.                                          *)
Unlimited == 256

Computed(op, a, b) ==
    Value(<<op, a, b>>, IF op \in Comparisons THEN 1 ELSE Unlimited)

=============================================================================
