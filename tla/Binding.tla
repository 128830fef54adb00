------------------------------- MODULE Binding -------------------------------
(***************************************************************************)
(* Binding::assignInstructions and findIndependantInstructions             *)
(* (binding/Binding.cpp), and what RtlGenerator::shareOperationRegisters   *)
(* makes of them: the instructions of every state are assigned to units by *)
(* a cheapest assignment, and instructions of one unit that are found      *)
(* independent of one another get one register.                            *)
(*                                                                         *)
(* The machine is the one SchedulerMapping builds, the masks are those of  *)
(* LifetimeAnalysis, the solver is the one HungarianMethod models.         *)
(***************************************************************************)
EXTENDS SchedulerMapping, HardwareConstraints, FiniteSetsExt

VARIABLES
    lvaPc, lvaCursor, def, use, in, out, is_changed,  \* LifetimeAnalysis
    address,        \* the instructions that have a unit, in the order of their addresses
    todo,           \* the states and units bindFuInState is still to be called for
    unitOf,         \* instr_fu_map: the number of the unit of an instruction, or Unbound
    mux_inputs, existing_operands, existing_instructions,   \* AssignInfo
    groups,         \* the instructions that share a register, per unit
    phase           \* the part of the binding being executed

lvaVars == <<lvaPc, lvaCursor, def, use, in, out, is_changed>>

bindVars == <<address, todo, unitOf, mux_inputs, existing_operands,
              existing_instructions, groups, phase>>

vars == <<mapVars, lvaVars, bindVars>>

(* What LLVM guarantees of operands. *)
ASSUME OperandsAssumption ==
    \A s \in Schedules : \A i \in Instrs(s.func) :
        /\ s.func.operands[i] \in Seq(Int)
        /\ \A n \in DOMAIN s.func.operands[i] :
             s.func.operands[i][n] > 0 => s.func.operands[i][n] \in Instrs(s.func)

(* Every path from the entry block to block b comes through block a: there   *)
(* is a set of blocks that holds the entry and not b, and that only a leads  *)
(* out of.                                                                   *)
StrictlyDominates(f, a, b) ==
    \E S \in SUBSET Blocks(f) :
        /\ 1 \in S /\ b \notin S
        /\ \A c \in S \ {a} : ToSet(f.succ[c]) \subseteq S

(* The instructions an instruction reads; of what a PHI node does nothing is *)
(* needed.                                                                   *)
Dominating(f, i) == {x \in Instrs(f) : x \in ToSet(f.operands[i]) /\ f.op[i] # "PHI"}

(* What LLVM guarantees of the instructions that an instruction reads, and   *)
(* Dag of those of its block, once the extensions are erased.                *)
ASSUME ReadersAssumption ==
    \A s \in Schedules :
        /\ IsDominated(s.func, [i \in Instrs(s.func) |-> Dominating(s.func, i)])
        /\ \A i \in Instrs(s.func) : \A x \in Dominating(s.func, i) :
             IF s.func.bb[x] = s.func.bb[i]
             THEN x \in s.func.deps[i] \/ s.func.op[x] = "Alloca"
             ELSE StrictlyDominates(s.func, s.func.bb[x], s.func.bb[i])

Lva == INSTANCE LifetimeAnalysis
         WITH Functions <- {s.func : s \in Schedules}, func <- input.func,
              pc <- lvaPc, cursor <- lvaCursor

-----------------------------------------------------------------------------
Unbound == -1

(* Where x is in a sequence that has it once. *)
Position(seq, x) == CHOOSE n \in DOMAIN seq : seq[n] = x

Users(i) == Lva!Users(F, i)

(* Mutant of Operands: arguments and constants are taken for instructions. *)
OperandsOfAnyKind(i) == DOMAIN F.operands[i]

(* The places of the operands that are instructions. *)
Operands(i) == {n \in DOMAIN F.operands[i] : F.operands[i][n] > 0}

(* The instructions that the instructions of S have as operands. *)
ReadBy(S) == UNION {{F.operands[i][n] : n \in Operands(i)} : i \in S}

FuOf(i) == getInstructionFu(F.op[i], F.width[i])

(* The instances of the limited units. *)
UnitInstances == UNION {{<<u, n>> : n \in 0..(FuLimit(u) - 1)} : u \in Units}

(* assignInstructions: no return is shared. *)
Shareable == {i \in UNION {ToSet(state[s].instrs) : s \in DOMAIN state} : F.op[i] # "Ret"}

(* The instructions of a state that are for one unit, in their order there. *)
InstrsOf(s, unit) == LayoutOrder({i \in ToSet(state[s].instrs) : FuOf(i) = unit})

(* createWeights: new inputs of the multiplexer, a register that may be     *)
(* shared, because instructions are bound to the instance and all of them   *)
(* are keys of the map of independent ones, and the inputs there are.       *)
Weight(i, inst) ==
    10 * Cardinality({n \in Operands(i) : F.operands[i][n] \notin existing_operands[inst]})
    + (IF existing_instructions[inst] \cap Shareable # {} THEN -5 ELSE 0)
    + mux_inputs[inst]

(* The rows of the matrix are the instances, its columns the instructions   *)
(* of the state, then columns of zeros.                                     *)
Cost(seq, unit, f) ==
    MapThenSumSet(LAMBDA n : Weight(seq[n], <<unit, f[n]>>), DOMAIN seq)

(* Mutant of Assignments: an instance may be given several instructions. *)
AssignmentsAlone(seq, unit) ==
    LET all == [DOMAIN seq -> 0..(FuLimit(unit) - 1)]
    IN {f \in all : \A g \in all : Cost(seq, unit, f) <= Cost(seq, unit, g)}

(* solveBwm: any cheapest assignment. *)
Assignments(seq, unit) ==
    LET all == {f \in [DOMAIN seq -> 0..(FuLimit(unit) - 1)] : IsInjective(f)}
    IN {f \in all : \A g \in all : Cost(seq, unit, f) <= Cost(seq, unit, g)}

-----------------------------------------------------------------------------
(* Independence.                                                            *)

(* Mutant of LiveBlocks: the blocks a value crosses are left out. *)
LiveBlocksWhereNamed(i) == {b \in Blocks(F) : i \in use[b] \cup def[b]}

(* findInstructionsLiveBlocks *)
LiveBlocks(i) == {b \in Blocks(F) : i \in use[b] \cup def[b] \cup in[b] \cup out[b]}

(* createStateEncoding: the chain of a block starts at the first state of   *)
(* the list that is the block's, and ends at a terminating one.             *)
ChainStart(b) ==
    list[SelectInSeq(list, LAMBDA s :
            \/ state[s].block = b
            \/ \E i \in ToSet(state[s].instrs) : F.bb[i] = b)]

LastOrder(b) ==
    CHOOSE n \in 0..Len(list) :
        /\ state[Follow(ChainStart(b), n)].terminating
        /\ \A m \in 0..(n - 1) : ~state[Follow(ChainStart(b), m)].terminating

(* The order of a state in the chain of its block, if it has a block. *)
Encoded(s) == s # Null /\ state[s].block # Null

Order(s) ==
    CHOOSE n \in 0..LastOrder(state[s].block) : Follow(ChainStart(state[s].block), n) = s

(* addInstructionDefState and addInstructionUseState; a use in any block    *)
(* counts, by its order in the chain of that block.                         *)
DefStates(i, b) == IF F.bb[i] = b THEN {Order(endState[i])} ELSE {}

UseStates(i, b) ==
    (IF Terminator(F, b) \in Users(i) THEN {LastOrder(b)} ELSE {})
    \cup {Order(endState[j]) : j \in {u \in Users(i) \ {Terminator(F, b)} : Encoded(endState[u])}}

(* addInstructionLiveInOut *)
LiveInOut(i, b) ==
    (IF i \in out[b] THEN {LastOrder(b)} ELSE {}) \cup (IF i \in in[b] THEN {0} ELSE {})

(* areIndependantInStates: what is known of the second instruction's life   *)
(* at the ends of the block is added to the first one's, and the second     *)
(* one's least state is taken to be its greatest.                           *)
IndependentIn(x, y, b) ==
    LET xs == DefStates(x, b) \cup UseStates(x, b) \cup LiveInOut(x, b) \cup LiveInOut(y, b)
        ys == DefStates(y, b) \cup UseStates(y, b)
    IN Min(xs) > Max(ys) \/ Max(xs) < Max(ys)

(* findIndependantInstructionsInLiveBlocks, for x before y in the order of  *)
(* addresses; isRegOptimized is true of everything that has a unit, because *)
(* checkPhiSuccessors looks at the instruction instead of at its users.     *)
Independent(x, y) ==
    \A b \in LiveBlocks(x) \cap LiveBlocks(y) : IndependentIn(x, y, b)

AreIndependent(x, y) ==
    IF Position(address, x) < Position(address, y) THEN Independent(x, y) ELSE Independent(y, x)

(* Mutant of Joined: the first instruction of a group speaks for all.       *)
JoinedWithFirst(seq, i) ==
    LET fits == {n \in DOMAIN seq : AreIndependent(seq[n][1], i)}
    IN IF fits = {} THEN Append(seq, <<i>>) ELSE [seq EXCEPT ![Min(fits)] = Append(@, i)]

(* shareRegistersForFu: an instruction joins the first group all of whose   *)
(* members it is independent of.                                            *)
Joined(seq, i) ==
    LET fits == {n \in DOMAIN seq : \A m \in DOMAIN seq[n] : AreIndependent(seq[n][m], i)}
    IN IF fits = {} THEN Append(seq, <<i>>) ELSE [seq EXCEPT ![Min(fits)] = Append(@, i)]

(* The groups of the instructions of seq, taken in that order. *)
GroupsOf(seq) ==
    LET grouped[n \in 0..Len(seq)] ==
            IF n = 0 THEN << >> ELSE LET before == grouped[n - 1] IN Joined(before, seq[n])
    IN grouped[Len(seq)]

IsBoundTo(i, inst) == unitOf[i] # Unbound /\ <<FuOf(i), unitOf[i]>> = inst

(* The instructions of an instance, in the order of their addresses. *)
BoundTo(inst) ==
    LET places == LayoutOrder({k \in DOMAIN address : IsBoundTo(address[k], inst)})
    IN [n \in DOMAIN places |-> address[places[n]]]

-----------------------------------------------------------------------------
Init ==
    /\ MapInit
    /\ Lva!LifetimeInit
    /\ address \in SetToSeqs({i \in Instrs(F) : FuOf(i) # NoUnit})
    /\ todo = {}
    /\ unitOf = [i \in Instrs(F) |-> Unbound]
    /\ mux_inputs = [u \in UnitInstances |-> 0]
    /\ existing_operands = [u \in UnitInstances |-> {}]
    /\ existing_instructions = [u \in UnitInstances |-> {}]
    /\ groups = [u \in UnitInstances |-> << >>]
    /\ phase = "createFsm"

createFsm ==
    /\ phase = "createFsm" /\ MapNext
    /\ phase' = IF pc' = "done" THEN "analize" ELSE phase
    /\ UNCHANGED <<lvaVars, address, todo, unitOf, mux_inputs, existing_operands,
                   existing_instructions, groups>>

analize ==
    /\ phase = "analize"
    /\ UNCHANGED mapVars
    /\ Lva!LifetimeNext
    /\ IF lvaPc' = "done"
       THEN /\ todo' = {su \in (DOMAIN state) \X Units : InstrsOf(su[1], su[2]) # << >>}
            /\ phase' = IF todo' = {} THEN "shareRegisters" ELSE "bindFuInState"
       ELSE UNCHANGED <<phase, todo>>
    /\ UNCHANGED <<address, unitOf, mux_inputs, existing_operands,
                   existing_instructions, groups>>

(* The states are visited in the order of the list, the units of a state in *)
(* the order of their addresses.                                            *)
NextState == CHOOSE s \in {su[1] : su \in todo} :
    \A t \in {su[1] : su \in todo} : Position(list, s) <= Position(list, t)

(* Mutant of NewInputs: an input the instance has is counted again. *)
NewInputsOfAll(read, inst) == Cardinality(read)

(* An operand that is new to the instance adds an input to it. *)
NewInputs(read, inst) == Cardinality(read \ existing_operands[inst])

(* The n-th instruction is assigned to instance f[n] of the unit. *)
Given(seq, unit, f, inst) == {seq[n] : n \in {m \in DOMAIN seq : <<unit, f[m]>> = inst}}

updateAssignment(seq, unit, f) ==
    /\ unitOf' = [i \in Instrs(F) |->
                    IF i \in ToSet(seq) THEN f[Position(seq, i)] ELSE unitOf[i]]
    /\ mux_inputs' = [u \in UnitInstances |->
                        mux_inputs[u] + NewInputs(ReadBy(Given(seq, unit, f, u)), u)]
    /\ existing_operands' = [u \in UnitInstances |->
                        existing_operands[u] \cup ReadBy(Given(seq, unit, f, u))]
    /\ existing_instructions' = [u \in UnitInstances |->
                        existing_instructions[u] \cup Given(seq, unit, f, u)]

(* bindFuInState for the next state and one of its units. *)
bindFuInState(unit) ==
    LET seq == InstrsOf(NextState, unit)
    IN /\ phase = "bindFuInState"
       /\ <<NextState, unit>> \in todo
       /\ IF Len(seq) > FuLimit(unit)
          THEN /\ phase' = "assertion"
               /\ UNCHANGED <<todo, unitOf, mux_inputs, existing_operands, existing_instructions>>
          ELSE /\ \E f \in Assignments(seq, unit) : updateAssignment(seq, unit, f)
               /\ todo' = todo \ {<<NextState, unit>>}
               /\ phase' = IF todo' = {} THEN "shareRegisters" ELSE phase
       /\ UNCHANGED <<mapVars, lvaVars, address, groups>>

shareRegisters ==
    /\ phase = "shareRegisters"
    /\ groups' = [u \in UnitInstances |-> GroupsOf(BoundTo(u))]
    /\ phase' = "done"
    /\ UNCHANGED <<mapVars, lvaVars, address, todo, unitOf, mux_inputs, existing_operands,
                   existing_instructions>>

Ended == phase \in {"done", "assertion"} /\ UNCHANGED vars

Next ==
    \/ createFsm \/ analize \/ (\E unit \in Units : bindFuInState(unit))
    \/ shareRegisters \/ Ended

Spec == Init /\ [][Next]_vars

(* The parts are sequential methods; the ones whose loops are bounded by    *)
(* nothing but what they compute are assumed to go on.                      *)
FairSpec == Spec /\ WF_vars(createFsm \/ analize)

-----------------------------------------------------------------------------
(* The types of the maps. *)
TypeOK ==
    /\ unitOf \in [Instrs(F) -> {Unbound} \cup Nat]
    /\ \A i \in Instrs(F) : unitOf[i] # Unbound => <<FuOf(i), unitOf[i]>> \in UnitInstances
    /\ mux_inputs \in [UnitInstances -> Nat]
    /\ existing_operands \in [UnitInstances -> SUBSET Instrs(F)]
    /\ existing_instructions \in [UnitInstances -> SUBSET Instrs(F)]
    /\ groups \in [UnitInstances -> Seq(Seq(Instrs(F)))]

Bound == phase \in {"shareRegisters", "done"}

(* No more instructions of one kind start in a state than there are units. *)
Fits == \A s \in DOMAIN state : \A u \in Units : Len(InstrsOf(s, u)) <= FuLimit(u)

(* With a schedule that fits, every instruction that has a unit is bound,   *)
(* the assertions hold, and no two that start in one state get one instance.*)
UnitsExclusive ==
    /\ phase = "assertion" => ~Fits
    /\ Bound => \A i \in ToSet(address) :
         /\ startState[i] # Null => unitOf[i] # Unbound
         /\ \A j \in ToSet(address) \ {i} :
              startState[i] = startState[j] /\ FuOf(i) = FuOf(j) => unitOf[i] # unitOf[j]

(* The weights are computed from what is bound: an instance has as many     *)
(* inputs as its instructions have distinct instructions as operands.       *)
InputsCounted ==
    \A u \in UnitInstances :
        LET bound == ToSet(BoundTo(u))
        IN /\ existing_instructions[u] = bound
           /\ mux_inputs[u] = Cardinality(ReadBy(bound))

(* The places in the groups of an instance, and what is there. *)
Places(u) == UNION {{<<n, k>> : k \in DOMAIN groups[u][n]} : n \in DOMAIN groups[u]}

At(u, p) == groups[u][p[1]][p[2]]

(* The instructions that share a register were found independent of one     *)
(* another, every pair of them, and every bound instruction has a register, *)
(* and only one.                                                            *)
GroupsIndependent ==
    phase = "done" =>
        \A u \in UnitInstances :
            /\ {At(u, p) : p \in Places(u)} = existing_instructions[u]
            /\ \A p, q \in Places(u) : p # q =>
                  /\ At(u, p) # At(u, q)
                  /\ p[1] = q[1] => AreIndependent(At(u, p), At(u, q))

-----------------------------------------------------------------------------
(* When a register holds a value that is still needed.                      *)

Successors(s) == {state[s].default} \cup {state[s].transitions[n][1] : n \in DOMAIN state[s].transitions}

(* The states in which the value of i is read; a branch reads its condition *)
(* in the last state of its block, a PHI node its operand in the last state *)
(* of the block the value comes from.                                       *)
LastStateOf(b) == list[Max({q \in DOMAIN list : state[list[q]].block = b})]

ReadIn(i) ==
    {startState[j] : j \in {u \in Users(i) : F.op[u] \notin {"PHI", "Br"}}}
    \cup {LastStateOf(F.bb[j]) : j \in {u \in Users(i) : F.op[u] = "Br"}}
    \cup UNION {{LastStateOf(F.incoming[j][n]) : n \in {m \in DOMAIN F.operands[j] : F.operands[j][m] = i}} :
                j \in {u \in Users(i) : F.op[u] = "PHI"}}

(* The sets of states that hold every state from which the value of i is    *)
(* read next, or after a state of the set in which it is not written anew.  *)
Needing(i, S) ==
    \A s \in DOMAIN state :
        (\E t \in Successors(s) : t \in ReadIn(i) \/ (t # endState[i] /\ t \in S)) => s \in S

(* The states after which it is still to be read before it is written anew. *)
NeededAfter(i) ==
    {s \in DOMAIN state : \A S \in SUBSET DOMAIN state : Needing(i, S) => s \in S}

(* One of them is written when the other is still needed. *)
Clash(x, y) == endState[y] \in NeededAfter(x) \/ endState[x] \in NeededAfter(y)

(* Two instructions that are alive in no common block, and that no PHI node *)
(* reads, may share a register in every execution of the machine: blocks    *)
(* stand for their states.                                                  *)
DisjointBlocksNeverClash ==
    phase = "done" =>
        \A x, y \in ToSet(address) :
            /\ x # y /\ LiveBlocks(x) \cap LiveBlocks(y) = {}
            /\ \A i \in Users(x) \cup Users(y) : F.op[i] # "PHI"
            => ~Clash(x, y)

(* "now make sure the shared register is active at the correct times": what *)
(* shares a register is not overwritten while it is needed.                 *)
SharedNeverClash ==
    phase = "done" =>
        \A u \in UnitInstances : \A n \in DOMAIN groups[u] : \A k, m \in DOMAIN groups[u][n] :
            k # m => ~Clash(groups[u][n][k], groups[u][n][m])

(* The masks the binder reads are the least solution of the equations of    *)
(* LifetimeAnalysis::analize, whatever the order of the blocks.             *)
LeastFixpoint == Lva!LeastFixpoint

(* No value that is still to be read is reported dead at the end of a block *)
(* on the way to the reader, PHI nodes apart.                               *)
LiveWhereRead == Lva!LiveWhereRead

(* The loop of LifetimeAnalysis::analize that goes on while a mask changes  *)
(* ends: the binding gets to the instructions.                              *)
AnalysisEnds == <>(phase \notin {"createFsm", "analize"})

=============================================================================
