---------------------------- MODULE RtlGenerator ----------------------------
(***************************************************************************)
(* RtlGenerator::generate (rtl/RtlGenerator.cpp): the signals of the       *)
(* generated module, from the state machine, the units and the shared      *)
(* registers of Binding.  The build option REG_OPT decides whether         *)
(* registers are shared.                                                   *)
(*                                                                         *)
(* A function has, beside the fields of Ir and Binding,                    *)
(*   type   the width of every instruction's result, 0 if it has none;     *)
(*   reads  the width of what every instruction reads, as LLVM has it: Dag *)
(*          may have put something narrower in its place;                  *)
(*   args   the widths of the arguments;                                   *)
(*   result the width of what the function returns, 0 if that is nothing;  *)
(* an operand is an instruction, the negative of an argument's number, or  *)
(* 0, a constant.                                                          *)
(***************************************************************************)
EXTENDS Binding, Rtl

VARIABLES
    reg_opt,    \* the build option REG_OPT
    part,       \* the part of generate() being executed
    visited,    \* how many states of the list generateDatapath has visited
    rest,       \* the instructions the loop of this part has still to take
    module      \* the signals

genVars == <<reg_opt, part, visited, rest, module>>

BinaryOps == {"Add", "Sub", "Mul", "And", "Or", "Xor"}

(* Instructions the visitor has a method for that does not stop, and whose  *)
(* results are integers.  visitLoadInst, visitPHINode and the branches are  *)
(* empty.                                                                   *)
ASSUME SupportedAssumption ==
    \A s \in Schedules : \A i \in Instrs(s.func) :
        s.func.op[i] \in BinaryOps \cup Comparisons \cup {"Load", "PHI", "Br", "Ret"}

(* The width of the n-th operand; a constant was not narrowed. *)
WidthOf(f, i, n) ==
    LET x == f.operands[i][n]
    IN CASE x > 0 -> f.type[x]
         [] x < 0 -> f.args[-x]
         [] OTHER -> f.reads[i]

(* What LLVM guarantees of types: what is read has one, an argument that is *)
(* read is one of the function's, an operation has two operands, a          *)
(* conditional branch one, and a return one if the function returns a       *)
(* value.  A unit is chosen by the width that its two operands have, and    *)
(* the width of a register is a byte (RtlWidth).                            *)
ASSUME TypesAssumption ==
    \A s \in Schedules :
        LET f == s.func
        IN /\ f.type \in [Instrs(f) -> 0..(Unlimited - 1)] /\ f.reads \in [Instrs(f) -> Nat]
           /\ f.args \in Seq(Nat) /\ f.result \in Nat
           /\ \A i \in Instrs(f) :
                /\ f.op[i] \in BinaryOps \cup Comparisons =>
                     f.type[i] > 0 /\ Len(f.operands[i]) = 2
                /\ f.op[i] \in Comparisons => f.type[i] = 1
                /\ getInstructionFu(f.op[i], f.width[i]) # NoUnit =>
                     \A n \in DOMAIN f.operands[i] : WidthOf(f, i, n) = f.width[i]
                /\ f.op[i] = "Br" /\ Len(f.succ[f.bb[i]]) = 2 => Len(f.operands[i]) = 1
                /\ f.op[i] = "Ret" =>
                     IF f.result = 0 THEN f.operands[i] = << >>
                     ELSE Len(f.operands[i]) = 1 /\ WidthOf(f, i, 1) <= f.result
                /\ \A n \in DOMAIN f.operands[i] :
                     LET x == f.operands[i][n]
                     IN (x > 0 => f.type[x] > 0) /\ (x < 0 => -x \in DOMAIN f.args)

-----------------------------------------------------------------------------
(* verilog_utility: the names.  A unit is named by the block, the opcode    *)
(* and the widths of the operands of an instruction and the number of the   *)
(* instance.                                                                *)
CurState == <<"cur_state">>
Finish == <<"finish">>
ReturnVal == <<"return_val">>
Start == <<"start">>
Reset == <<"reset">>

Arg(n) == <<"arg", n>>

Wire(i) == <<"wire", i>>

Reg(i) == <<"reg", i>>

(* Mutant of FuInstName: the number of the instance is forgotten.           *)
FuInstNameOfUnit(i) == <<F.bb[i], FuOf(i), 0>>

FuInstName(i) == <<F.bb[i], FuOf(i), unitOf[i]>>

Fu(i) == <<"fu", FuInstName(i)>>

Op0(i) == <<"op0", FuInstName(i)>>

Op1(i) == <<"op1", FuInstName(i)>>

-----------------------------------------------------------------------------
(* shouldIgnoreInstruction: no result, or nobody reads it. *)
shouldIgnoreInstruction(i) == F.type[i] = 0 \/ Users(i) = {}

Kept == {i \in Instrs(F) : ~shouldIgnoreInstruction(i)}

OperandWidth(i, n) == WidthOf(F, i, n)

(* getOperandSignal: of an instruction always the register. *)
getOperandSignal(i, n) ==
    LET x == F.operands[i][n]
    IN CASE x > 0 -> Named(Reg(x))
         [] x < 0 -> Named(Arg(-x))
         [] OTHER -> Constant(<<"operand", i>>, OperandWidth(i, n))

(* The loop over instructions takes the next one. *)
GoesOn == rest # << >> /\ rest' = Tail(rest)

(* The loop ends, and the next one is over seq. *)
Ends(following, seq) ==
    rest = << >> /\ rest' = seq /\ part' = following /\ UNCHANGED <<module, visited>>

-----------------------------------------------------------------------------
GenInit ==
    /\ Init
    /\ reg_opt \in BOOLEAN
    /\ part = "createFsm"
    /\ visited = 0
    /\ rest = << >>
    /\ module = << >>

(* What BitpackHls::run calls before the generator. *)
Before ==
    /\ part = "createFsm"
    /\ createFsm \/ analize
    /\ part' = IF phase' \in {"createFsm", "analize"} THEN part ELSE "generateDeclaration"
    /\ UNCHANGED <<reg_opt, visited, rest, module>>

(* generateDeclaration, with addDefaultPorts and setUpFsmControllerStates.  *)
PortNames ==
    {Start, Reset, Finish, CurState} \cup {Arg(n) : n \in DOMAIN F.args}
    \cup (IF F.result = 0 THEN {} ELSE {ReturnVal})

Port(name) ==
    CASE name \in {Start, Reset} -> NewSignal("input wire", 1)
      [] name = Finish -> NewSignal("output reg", 1)
      [] name = CurState -> NewSignal("reg", 0)
      [] name = ReturnVal -> NewSignal("output reg", F.result)
      [] OTHER -> NewSignal("input wire", F.args[name[2]])

generateDeclaration ==
    LET ports   == [name \in PortNames |-> Port(name)]
        cleared == IF F.result = 0 THEN ports
                   ELSE addCondition(ports, ReturnVal, InState(list[1]),
                                     Constant(<<"bit", 0>>, ports[ReturnVal].width))
    IN /\ part = "generateDeclaration"
       /\ module' = addCondition(cleared, Finish, InState(list[1]), ZERO)
       /\ part' = "addInstructionsSignals" /\ rest' = LayoutOrder(Kept)
       /\ UNCHANGED <<vars, reg_opt, visited>>

(* One iteration of the loop for the instruction that is next.              *)
InstructionSignals(m, i) == addReg(addWire(m, Wire(i), F.type[i]), Reg(i), F.type[i])

addInstructionsSignals ==
    /\ part = "addInstructionsSignals"
    /\ \/ Ends("connectRegistersToWires", LayoutOrder({i \in Kept : F.op[i] # "PHI"}))
       \/ GoesOn /\ module' = InstructionSignals(module, Head(rest)) /\ UNCHANGED <<part, visited>>
    /\ UNCHANGED <<vars, reg_opt>>

(* Mutant of WrittenIn: a register is written in the state in which its     *)
(* instruction starts, and read again before.                               *)
WrittenInFirst(i) == firstState[F.bb[i]]

(* The state in which the register of an instruction takes its value. *)
WrittenIn(i) == endState[i]

(* The register of a PHI node is never connected. *)
connectRegistersToWires ==
    /\ part = "connectRegistersToWires"
    /\ \/ Ends("performBinding", << >>)
       \/ LET i == Head(rest)
          IN /\ GoesOn
             /\ module' = addCondition(module, Reg(i), InState(WrittenIn(i)), Named(Wire(i)))
             /\ UNCHANGED <<part, visited>>
    /\ UNCHANGED <<vars, reg_opt>>

performBinding ==
    /\ part = "performBinding"
    /\ IF phase = "bindFuInState"
       THEN /\ \E unit \in Units : bindFuInState(unit)
            /\ part' = IF phase' = "assertion" THEN "assertion" ELSE part
            /\ rest' = rest
       ELSE UNCHANGED vars /\ part' = "createBindingSignals" /\ rest' = address
    /\ UNCHANGED <<reg_opt, visited, module>>

(* createFu.  Only instructions with one operand or two take cycles of      *)
(* their own, and none of them has a unit.                                  *)
createFu(i, a, b) == Operation(F.op[i], a, b)

(* An operation is created for the unit of the first of the instructions of *)
(* a block that are bound to it; a comparison is not a binary operation and *)
(* gets no second operand.                                                  *)
BindingSignals(m, i) ==
    IF unitOf[i] = Unbound \/ exists(m, Fu(i)) THEN m
    ELSE LET op0    == addWire(m, Op0(i), OperandWidth(i, 1))
             binary == F.op[i] \in BinaryOps
             op1    == IF binary THEN addWire(op0, Op1(i), OperandWidth(i, 2)) ELSE op0
         IN setExclDriver(addWire(op1, Fu(i), F.type[i]), Fu(i),
                createFu(i, Named(Op0(i)), IF binary THEN Named(Op1(i)) ELSE NoSignal))

createBindingSignals ==
    /\ part = "createBindingSignals"
    /\ \/ Ends("generateDatapath", state[list[1]].instrs)
       \/ GoesOn /\ module' = BindingSignals(module, Head(rest)) /\ UNCHANGED <<part, visited>>
    /\ UNCHANGED <<vars, reg_opt>>

-----------------------------------------------------------------------------
(* createBindedFuUse: the operands are led to the unit in this state. *)
BoundUse(m, i, s) ==
    LET op0 == addCondition(m, Op0(i), InState(s), getOperandSignal(i, 1))
    IN IF F.op[i] \in BinaryOps
       THEN addCondition(op0, Op1(i), InState(s), getOperandSignal(i, 2))
       ELSE op0

(* Mutant of visitBinaryOperator: a comparison gets no second operand here  *)
(* either.                                                                  *)
visitBinaryOperatorUnary(m, i, s) ==
    LET lhs == addWire(m, Wire(i), F.type[i])
    IN IF unitOf[i] # Unbound
       THEN addCondition(BoundUse(lhs, i, s), Wire(i), InState(s), Named(Fu(i)))
       ELSE addCondition(lhs, Wire(i), InState(s),
                         createFu(i, getOperandSignal(i, 1),
                                  IF F.op[i] \in BinaryOps THEN getOperandSignal(i, 2) ELSE NoSignal))

(* visitBinaryOperator and visitICmpInst. *)
visitBinaryOperator(m, i, s) ==
    LET lhs == addWire(m, Wire(i), F.type[i])
    IN IF unitOf[i] # Unbound
       THEN addCondition(BoundUse(lhs, i, s), Wire(i), InState(s), Named(Fu(i)))
       ELSE addCondition(lhs, Wire(i), InState(s),
                         createFu(i, getOperandSignal(i, 1), getOperandSignal(i, 2)))

visitReturnInst(m, i, s) ==
    LET value == IF F.operands[i] = << >> THEN m
                 ELSE addCondition(m, ReturnVal, InState(s), getOperandSignal(i, 1))
    IN addCondition(value, Finish, InState(s), ONE)

Visit(m, i, s) ==
    CASE F.op[i] \in BinaryOps \cup Comparisons -> visitBinaryOperator(m, i, s)
      [] F.op[i] = "Ret" -> visitReturnInst(m, i, s)
      [] OTHER -> m

(* getTransitionOperand *)
getTransitionOperand(s) ==
    IF s = list[1] THEN Named(Start) ELSE getOperandSignal(state[s].variable, 1)

(* Mutant of generateStateTransition: the branches are exchanged.           *)
generateStateTransitionSwapped(m, s) ==
    IF state[s].transitions = << >>
    THEN addCondition(m, CurState, InState(s), StateParam(state[s].default))
    ELSE addCondition(
           addCondition(m, CurState, InStateWhen(s, getTransitionOperand(s), 0),
                        StateParam(state[s].transitions[1][1])),
           CurState, InStateWhen(s, getTransitionOperand(s), 1), StateParam(state[s].default))

generateStateTransition(m, s) ==
    IF state[s].transitions = << >>
    THEN addCondition(m, CurState, InState(s), StateParam(state[s].default))
    ELSE addCondition(
           addCondition(m, CurState, InStateWhen(s, getTransitionOperand(s), 1),
                        StateParam(state[s].transitions[1][1])),
           CurState, InStateWhen(s, getTransitionOperand(s), 0), StateParam(state[s].default))

(* The state the loop over the states is at: its instructions are visited,  *)
(* then its transition is generated; after the last state the reset is      *)
(* added.                                                                   *)
visit ==
    /\ part = "generateDatapath"
    /\ GoesOn
    /\ module' = Visit(module, Head(rest), list[visited + 1])
    /\ UNCHANGED <<vars, reg_opt, part, visited>>

generateDatapath ==
    LET next == generateStateTransition(module, list[visited + 1])
    IN /\ part = "generateDatapath" /\ rest = << >>
       /\ visited' = visited + 1
       /\ IF visited' = Len(list)
          THEN /\ module' = addCondition(next, CurState, InStateWhen(Null, Named(Reset), 1), ZERO)
               /\ part' = (IF reg_opt THEN "shareOperationRegisters" ELSE "print")
               /\ rest' = rest
          ELSE /\ module' = next /\ part' = part
               /\ rest' = state[list[visited' + 1]].instrs
       /\ UNCHANGED <<vars, reg_opt>>

-----------------------------------------------------------------------------
(* shareRegistersForFu for an instruction that joins a group: the register  *)
(* of the group's first one also takes its value, its own one becomes a     *)
(* wire.  The width is the greater one, but not more than that of the first.*)
Share(m, first, i) ==
    LET width == Min({Max({m[Reg(first)].width, m[Reg(i)].width}), F.type[first]})
        taken == addCondition([m EXCEPT ![Reg(first)].width = width],
                              Reg(first), InState(WrittenIn(i)), Named(Wire(i)))
    IN setExclDriver([taken EXCEPT ![Reg(i)].type = "wire"], Reg(i), Named(Reg(first)))

(* The first instruction of the group that i has joined. *)
Leader(i) ==
    LET own == groups[<<FuOf(i), unitOf[i]>>]
    IN own[CHOOSE n \in DOMAIN own : i \in ToSet(own[n])][1]

(* Its register is to be that of another one. *)
Joins(i) == unitOf[i] # Unbound /\ Leader(i) # i

shareOperationRegisters ==
    /\ part = "shareOperationRegisters"
    /\ shareRegisters
    /\ part' = "shareRegistersForFu" /\ rest' = address
    /\ UNCHANGED <<reg_opt, visited, module>>

(* The loop over the instructions of the units.  An instruction that nobody *)
(* reads has no register: the program ends when it is to share one.         *)
shareRegistersForFu ==
    /\ part = "shareRegistersForFu"
    /\ \/ Ends("print", << >>)
       \/ LET i == Head(rest)
          IN /\ GoesOn
             /\ module' = IF Joins(i) /\ {i, Leader(i)} \subseteq Kept
                          THEN Share(module, Leader(i), i) ELSE module
             /\ part' = IF Joins(i) /\ ~({i, Leader(i)} \subseteq Kept) THEN "assertion" ELSE part
             /\ UNCHANGED visited
    /\ UNCHANGED <<vars, reg_opt>>

(* VerilogWriter::print: everything it prints a value for exists. *)
AllPrintable ==
    \A name \in DOMAIN module : \A k \in DOMAIN module[name].drivers :
        Printable(module[name].drivers[k])

print ==
    /\ part = "print"
    /\ part' = IF AllPrintable THEN "printed" ELSE "assertion"
    /\ UNCHANGED <<vars, reg_opt, visited, rest, module>>

GenNext ==
    \/ Before \/ generateDeclaration \/ addInstructionsSignals \/ connectRegistersToWires
    \/ performBinding \/ createBindingSignals \/ visit \/ generateDatapath
    \/ shareOperationRegisters \/ shareRegistersForFu \/ print

=============================================================================
