------------------------------ MODULE Datapath ------------------------------
(***************************************************************************)
(* The generated module at work: the signals RtlGenerator created, printed *)
(* by VerilogWriter, driven by a clock.  The registers take what their     *)
(* drivers lead to at the positive edge, the wires follow their drivers,   *)
(* cur_state follows the printed case statement.                           *)
(*                                                                         *)
(* The environment chooses start, reset and, because values are terms, the *)
(* outcome of every condition; it leaves the arguments alone while the     *)
(* module is not waiting.                                                  *)
(***************************************************************************)
EXTENDS RtlGenerator

VARIABLES
    cur_state,  \* the FsmState whose encoding the register holds
    content,    \* the values of the other registers
    start, reset,   \* the inputs sampled by the next clock edge
    cond,       \* the bit that the condition of a branch is at the next clock edge
    given       \* which arguments are applied: those of one call or of another

hwVars == <<cur_state, content, start, reset, cond, given>>

allVars == <<vars, genVars, hwVars>>

Registers == {name \in DOMAIN module \ {CurState} : isRegister(module[name])}

-----------------------------------------------------------------------------
(* The value of a driver, when the signals have the values of valueOf.      *)
DriverValue(driver, valueOf) ==
    LET operand(x) == CASE x[1] = "signal" -> valueOf[x[2]]
                        [] x[1] = "constant" -> Value(x[2], x[3])
                        [] OTHER -> Undriven
    IN IF driver[1] = "operation"
       THEN Computed(driver[2], operand(driver[3]), operand(driver[4]))
       ELSE operand(driver)

(* printSignalDefinition: what the signals other than cur_state hold. *)
Signal ==
    LET value[name \in DOMAIN module] ==
            LET signal == module[name]
            IN CASE name \in Registers -> content[name]
                 [] signal.type = "input wire" ->
                      Value(<<name, given>>, signal.width)
                 [] OTHER -> Cut(DriverValue(WireDriver(signal, cur_state), value), signal.width)
    IN value

(* What a register holds after the edge. *)
Latched(name) ==
    LET driver == RegisterDriver(module[name], cur_state)
    IN IF driver = NoSignal THEN content[name]
       ELSE Cut(DriverValue(driver, Signal), module[name].width)

(* The bit that a clause of a transition tests. *)
Bit(operand) ==
    CASE operand = Named(Start) -> start
      [] operand = Named(Reset) -> reset
      [] OTHER -> cond

Holds(condition) ==
    \A n \in DOMAIN condition.clauses :
        Bit(condition.clauses[n][1]) = (condition.clauses[n][2] = 1)

(* printFsmController: the conditions of a state in their order, those that *)
(* lead to the state itself left out; next_state is cur_state otherwise.    *)
NextCurState ==
    LET signal == module[CurState]
        taken  == {k \in Matching(signal, cur_state) :
                     signal.drivers[k] # StateParam(cur_state) /\ Holds(signal.conditions[k])}
    IN CASE reset -> list[1]
         [] ~reset /\ taken = {} -> cur_state
         [] OTHER -> signal.drivers[Min(taken)][2]

-----------------------------------------------------------------------------
DatapathInit ==
    /\ GenInit
    /\ cur_state = Wait
    /\ content = << >>
    /\ start = FALSE /\ reset = TRUE /\ cond = FALSE
    /\ given = 1

Generate == part \notin {"printed", "run"} /\ GenNext /\ UNCHANGED hwVars

(* The state after an edge with reset: nothing but cur_state is reset. *)
PowerUp ==
    /\ part = "printed"
    /\ part' = "run"
    /\ content' = [name \in Registers |-> Undriven]
    /\ UNCHANGED <<vars, reg_opt, visited, rest, module, cur_state, start, reset, cond, given>>

(* A positive edge of clk. *)
Clock ==
    /\ part = "run"
    /\ cur_state' = NextCurState
    /\ content' = [name \in Registers |-> Latched(name)]
    /\ start' \in BOOLEAN /\ reset' \in BOOLEAN /\ cond' \in BOOLEAN
    /\ given' \in IF cur_state' = Wait THEN 1..2 ELSE {given}
    /\ UNCHANGED <<vars, genVars>>

(* An assertion of the binder or of the writer has ended the program. *)
Aborted == part = "assertion" /\ UNCHANGED allVars

DatapathNext == Generate \/ PowerUp \/ Clock \/ Aborted

DatapathSpec == DatapathInit /\ [][DatapathNext]_allVars

-----------------------------------------------------------------------------
(* Every condition has a driver, and every signal a driver names is in the  *)
(* module: RtlModule::find has found what it was asked for.                 *)
DatapathTypeOK ==
    /\ part \in {"createFsm", "generateDeclaration", "addInstructionsSignals",
                 "connectRegistersToWires", "performBinding", "createBindingSignals",
                 "generateDatapath", "shareOperationRegisters", "shareRegistersForFu", "print", "printed", "run",
                 "assertion"}
    /\ \A name \in DOMAIN module :
         LET signal == module[name]
             named(x) == x[1] = "signal" => x[2] \in DOMAIN module
         IN /\ signal.conditions # << >> => Len(signal.drivers) = Len(signal.conditions)
            /\ \A k \in DOMAIN signal.drivers :
                 LET driver == signal.drivers[k]
                 IN IF driver[1] = "operation" THEN named(driver[3]) /\ named(driver[4])
                    ELSE named(driver)

(* What ends the program: more instructions of a unit in a state than there *)
(* are units, a comparison that is bound to a unit, or a result of a unit   *)
(* that nobody reads.  Whatever else the generator looks up it finds, and   *)
(* every other operation has the operands the writer prints.                *)
AbortsAreKnown ==
    part = "assertion" =>
        \/ phase = "assertion"
        \/ \E i \in Instrs(F) : FuOf(i) # NoUnit /\ (Users(i) = {} \/ F.op[i] \notin BinaryOps)

(* assert(signal != nullptr) in printValue: when the writer is called, no   *)
(* operation lacks an operand.                                              *)
WriterHasOperands == part = "print" => AllPrintable

-----------------------------------------------------------------------------
(* The function, evaluated in the order of its instructions.                *)

(* No load and no PHI node is among what the value is computed from: the    *)
(* visitor drives nothing for them.                                         *)
Supported ==
    LET supported[i \in Instrs(F)] ==
            /\ F.op[i] \notin {"Load", "PHI"}
            /\ \A n \in Operands(i) : supported[F.operands[i][n]]
    IN supported

SupportedOperand(i, n) == F.operands[i][n] > 0 => Supported[F.operands[i][n]]

(* The value of an operand, for the arguments that are given; extensions    *)
(* are erased, and what is narrower is extended by zeros.                   *)
OperandMeaning(i, n, meaning) ==
    LET x == F.operands[i][n]
    IN CASE x > 0 -> meaning[x]
         [] x < 0 -> Value(<<Arg(-x), given>>, F.args[-x])
         [] OTHER -> Value(<<"operand", i>>, OperandWidth(i, n))

Meaning ==
    LET meaning[i \in Instrs(F)] ==
            IF F.op[i] \in BinaryOps \cup Comparisons
            THEN Value(<<F.op[i], OperandMeaning(i, 1, meaning), OperandMeaning(i, 2, meaning)>>,
                       F.type[i])
            ELSE Undriven
    IN meaning

MeaningOf(i, n) == OperandMeaning(i, n, Meaning)

(* Instructions of one block bound to one instance, or that share a         *)
(* register, have results of one width: otherwise the first of them limits  *)
(* the others.                                                              *)
WidthsAgree ==
    \A i, j \in ToSet(address) :
        /\ unitOf[i] # Unbound /\ unitOf[j] # Unbound
        /\ FuOf(i) = FuOf(j) /\ unitOf[i] = unitOf[j]
        => F.type[i] = F.type[j]

(* What the other properties find wrong is not the case. *)
Undisturbed == WidthsAgree /\ SharedNeverClash

(* In every state, the operands of its instructions, and the condition it   *)
(* branches on, are the values the function has computed from the arguments *)
(* of this call, whatever earlier calls or resets left in the registers.    *)
OperandsArrive ==
    part = "run" =>
        \A i \in ToSet(state[cur_state].instrs) \cup
                 (IF cur_state # Wait /\ state[cur_state].transitions # << >>
                  THEN {state[cur_state].variable} ELSE {}) :
            F.op[i] # "PHI" =>
                \A n \in DOMAIN F.operands[i] :
                    \/ DriverValue(getOperandSignal(i, n), Signal) = MeaningOf(i, n)
                    \/ ~SupportedOperand(i, n)
                    \/ ~Undisturbed

(* When finish rises, return_val is the value that the function returns for *)
(* the arguments of this call.                                              *)
ResultCorrect ==
    [][part = "run" /\ content'[Finish] = Value(ONE[2], 1) =>
         \A i \in {r \in ToSet(state[cur_state].instrs) : F.op[r] = "Ret"} :
            F.operands[i] # << >> =>
                \/ content'[ReturnVal] = MeaningOf(i, 1)
                \/ ~SupportedOperand(i, 1)
                \/ ~Undisturbed]_allVars

-----------------------------------------------------------------------------
(* The output finish, as the controller has it. *)
Finished == Finish \in DOMAIN content /\ content[Finish] = Value(ONE[2], 1)

Ctl == INSTANCE Controller WITH finish <- Finished

(* The printed case statement and the printed registers are the controller  *)
(* that the state machine describes: cur_state follows its transitions, a   *)
(* reset leads to the wait state, and finish rises after a return.          *)
ImplementsController == Ctl!Spec

=============================================================================
