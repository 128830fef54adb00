-------------------------- MODULE BitpackRegBinding --------------------------
(***************************************************************************)
(* The packing of variables into registers (binding/BitpackRegBinding.cpp),*)
(* the alternative of one register per variable that a build with BITPACK  *)
(* selects.  Every variable gets a lifetime in stages; it is cut into      *)
(* pools of the smallest width; the left-edge algorithm puts the pools     *)
(* into sub-registers; the sub-registers that share a variable are merged  *)
(* into registers; a variable is mapped to the bits of one register that   *)
(* span its sub-registers.                                                 *)
(*                                                                         *)
(* The method serves functions of a single block.  Such a function is a    *)
(* record whose variables are numbered in layout order, arguments first:   *)
(*                                                                         *)
(*   width  the width of every variable in bits;                           *)
(*   ops    the variables each instruction reads, {} for an argument;      *)
(*   state  the state of every instruction, counted from 1, 0 for an       *)
(*          argument;                                                      *)
(*   ret    the variables the terminator reads, one or none;               *)
(*   last   the state of the terminator, the last of the block.            *)
(*                                                                         *)
(* No variable has width 0 (a pointer or void): analyzeLifetime gives such *)
(* a variable weight 0 and splitTableIntoEqWidthPools divides by it.       *)
(***************************************************************************)
EXTENDS Integers, Sequences, FiniteSets, FiniteSetsExt, SequencesExt

CONSTANTS
    Programs    \* the scheduled functions to bind

Variables(p) == DOMAIN p.width

IsInstr(p, v) == p.state[v] > 0

(* splitTableIntoEqWidthPools *)
MinWidth(p) == Min(Range(p.width))

(* What a schedule of a function guarantees: see RegistersReady in Ir.     *)
IsProgram(p) ==
    /\ p.width \in Seq(Nat \ {0}) /\ p.width # << >>
    (* "For now only multiple of min width": an assertion ends the others. *)
    /\ \A v \in Variables(p) : p.width[v] % MinWidth(p) = 0
    /\ p.ops \in [Variables(p) -> SUBSET Variables(p)]
    /\ p.state \in [Variables(p) -> Nat]
    /\ p.ret \subseteq Variables(p)
    /\ p.last \in Nat \ {0}
    /\ \A v \in Variables(p) :
          /\ p.state[v] < p.last
          /\ \A d \in p.ops[v] : d < v /\ p.state[d] < p.state[v]
    (* An optimised function has no variable without a user. *)
    /\ \A v \in Variables(p) : IsInstr(p, v) =>
          v \in p.ret \/ \E u \in Variables(p) : v \in p.ops[u]

ASSUME ProgramsAssumption == \A p \in Programs : IsProgram(p)

VARIABLES
    prog,           \* function and fsm
    addr,           \* the variables in the order of their addresses
    pc,             \* the method being executed
    cursor,         \* the element its loop is at
    lt,             \* lt_table
    stages,         \* n_stages
    table,          \* lt_pool_table
    poolWidth,      \* pool_width
    sub,            \* sub_binding_map: the sub-register of every pool
    nSubRegs,       \* n_sub_regs
    varSubRegs,     \* var_sub_regs
    lookup,         \* bitfield_reg_lookup: the register of a sub-register
    regFields,      \* reg_bitfields: the sub-registers of a register
    registers,      \* the width of every register
    bitfields,      \* the field of every sub-register
    binding         \* binding_map: the field of every variable

passed == <<prog, addr>>
lifetime == <<lt, stages>>
pools == <<table, poolWidth>>
edge == <<sub, nSubRegs>>
merged == <<varSubRegs, lookup, regFields>>
fields == <<registers, bitfields, binding>>

vars == <<passed, pc, cursor, lifetime, pools, edge, merged, fields>>

(* A map has no entry. *)
Unbound == -1

(* The registers are numbered from 0 in the order they are created. *)
nRegs == Len(regFields)

-----------------------------------------------------------------------------
(* analyzeLifetime walks the states and numbers those that have            *)
(* instructions; terminators have no lifetime and read nothing.            *)
Stage(p, s) ==
    IF s = 0 THEN 0
    ELSE 1 + Cardinality({t \in Range(p.state) \cup {p.last} : 0 < t /\ t < s})

LastRead(p, v) ==
    Max({0} \cup {Stage(p, p.state[u]) : u \in {w \in Variables(p) : v \in p.ops[w]}})

(* Mutant of Lifetime: stages are counted from the one before. *)
LifetimeFromBefore(p, v) ==
    [def |-> Stage(p, p.state[v]) - 1,
     use |-> IF LastRead(p, v) = 0 THEN Stage(p, p.last) ELSE LastRead(p, v)]

(* Mutant of Lifetime: what nothing reads dies before the last stage. *)
LifetimeButLast(p, v) ==
    [def |-> Stage(p, p.state[v]),
     use |-> IF LastRead(p, v) = 0 THEN Stage(p, p.last) - 1 ELSE LastRead(p, v)]

Lifetime(p, v) ==
    [def |-> Stage(p, p.state[v]),
     use |-> IF LastRead(p, v) = 0 THEN Stage(p, p.last) ELSE LastRead(p, v)]

(* The elements of the set DOMAIN upTo in the order in which upTo[x] are x  *)
(* and those before it.                                                     *)
Listed(upTo) ==
    [k \in 1..Cardinality(DOMAIN upTo) |->
        CHOOSE x \in DOMAIN upTo : Cardinality(upTo[x]) = k]

(* The containers are ordered by the addresses of the variables. *)
Address(v) == CHOOSE k \in DOMAIN addr : addr[k] = v

(* The pools a variable is cut into. *)
PoolsOf(p, v) == {[var |-> v, id |-> k] : k \in 0..((p.width[v] \div MinWidth(p)) - 1)}

Pools == UNION {PoolsOf(prog, v) : v \in Variables(prog)}

(* defBefore; std::sort keeps the order of equal elements in a table of up  *)
(* to 16 (insertion sort).                                                  *)
DefinedUpTo(q) ==
    {r \in Pools :
        \/ lt[r.var].def < lt[q.var].def
        \/ /\ lt[r.var].def = lt[q.var].def
           /\ Address(r.var) < Address(q.var) \/ (r.var = q.var /\ r.id <= q.id)}

(* performLeftEdge, one pass of the inner loop: pool j follows the pools    *)
(* that are taken if it has no sub-register and is written after the last   *)
(* use of them, as the code reckons it.                                     *)
Taken(t, bound, life, j, acc) ==
    LET other == life[t[j].var]
    IN  IF j \notin bound \cup acc.taken /\ other.def >= acc.lastUse
        THEN [taken   |-> acc.taken \cup {j},
              lastUse |-> acc.lastUse + (other.use - other.def)]
        ELSE acc

(* Mutant of Chain: the edge starts where the first pool is written. *)
ChainFromDefinition(t, bound, life, i) ==
    LET acc[j \in 0..Len(t)] ==
            IF j = 0 THEN [taken |-> {i}, lastUse |-> life[t[i].var].def]
            ELSE Taken(t, bound, life, j, acc[j - 1])
    IN acc[Len(t)].taken

(* The pools that share the sub-register that pool i opens. *)
Chain(t, bound, life, i) ==
    LET acc[j \in 0..Len(t)] ==
            IF j = 0 THEN [taken |-> {i}, lastUse |-> life[t[i].var].use]
            ELSE Taken(t, bound, life, j, acc[j - 1])
    IN acc[Len(t)].taken

Bound == {j \in DOMAIN table : sub[j] # Unbound}

(* mergeSubRegisters *)
SubRegsOf(t, s, v) == {s[k] : k \in {j \in DOMAIN t : t[j].var = v}}

(* Mutant of Rank: the first field does not start at bit 0. *)
RankFromOne(S, s) == Cardinality({r \in S : r <= s})

(* The fields of a register lie in the order of their numbers. *)
Rank(S, s) == Cardinality({r \in S : r < s})

(* The type of a field's bounds. *)
UChar(n) == n % 256

(* Registers are laid out in the order of their numbers: a sub-register    *)
(* that several hold keeps the field of the last.                          *)
FieldOf(held, w, s) ==
    LET reg == Max({r \in DOMAIN held : s \in held[r]})
        lsb == Rank(held[reg], s) * w
    IN [reg |-> reg - 1, msb |-> UChar(lsb + w - 1), lsb |-> UChar(lsb)]

(* RegBitfield::operator +, over all sub-registers of a variable. *)
Span(fs, S) ==
    [reg |-> fs[Min(S) + 1].reg,
     msb |-> Max({fs[s + 1].msb : s \in S}),
     lsb |-> Min({fs[s + 1].lsb : s \in S})]

-----------------------------------------------------------------------------
Init ==
    /\ prog \in Programs
    /\ addr \in SetToSeqs(Variables(prog))
    /\ pc = "analyzeLifetime"
    /\ cursor = 1
    /\ lt = << >>
    /\ stages = 0
    /\ table = << >>
    /\ poolWidth = 0
    /\ sub = << >>
    /\ nSubRegs = 0
    /\ varSubRegs = << >>
    /\ lookup = << >>
    /\ regFields = << >>
    /\ registers = << >>
    /\ bitfields = << >>
    /\ binding = << >>

Advance(n, following) ==
    IF cursor < n
    THEN cursor' = cursor + 1 /\ pc' = pc
    ELSE cursor' = 1 /\ pc' = following

analyzeLifetime ==
    /\ pc = "analyzeLifetime"
    /\ lt' = [v \in Variables(prog) |-> Lifetime(prog, v)]
    /\ stages' = Stage(prog, prog.last)
    /\ pc' = "splitTable"
    /\ UNCHANGED <<passed, cursor, pools, edge, merged, fields>>

(* splitTableIntoEqWidthPools, and the sort that opens performLeftEdge. *)
splitTable ==
    /\ pc = "splitTable"
    /\ poolWidth' = MinWidth(prog)
    /\ table' = Listed([q \in Pools |-> DefinedUpTo(q)])
    /\ sub' = [j \in DOMAIN table' |-> Unbound]
    /\ pc' = "performLeftEdge"
    /\ UNCHANGED <<passed, cursor, lifetime, nSubRegs, merged, fields>>

(* One pool of the outer loop: it opens a sub-register unless it has one. *)
performLeftEdge ==
    /\ pc = "performLeftEdge"
    /\ IF sub[cursor] = Unbound
       THEN LET chain == Chain(table, Bound, lt, cursor)
            IN /\ sub' = [j \in DOMAIN table |-> IF j \in chain THEN nSubRegs ELSE sub[j]]
               /\ nSubRegs' = nSubRegs + 1
       ELSE UNCHANGED edge
    /\ Advance(Len(table), "sortVariables")
    /\ UNCHANGED <<passed, lifetime, pools, merged, fields>>

(* What lt_pool_map and sub_binding_map say of every variable. *)
Held == {[var |-> v, subs |-> SubRegsOf(table, sub, v)] : v \in Variables(prog)}

(* subBindingPredicate *)
LargestUpTo(x) ==
    {y \in Held :
        \/ Cardinality(y.subs) > Cardinality(x.subs)
        \/ Cardinality(y.subs) = Cardinality(x.subs) /\ Address(y.var) <= Address(x.var)}

(* mergeSubRegisters until its sort: the largest variables come first. *)
sortVariables ==
    /\ pc = "sortVariables"
    /\ varSubRegs' = Listed([x \in Held |-> LargestUpTo(x)])
    /\ lookup' = [s \in 1..nSubRegs |-> Unbound]
    /\ pc' = "mergeSubRegisters"
    /\ UNCHANGED <<passed, cursor, lifetime, pools, edge, regFields, fields>>

(* One variable of the merging loop: all its sub-registers go to the       *)
(* register of the first of them that has one, or else to a new register.  *)
Binded(subs) == {s \in subs : lookup[s + 1] # Unbound}

(* Mutant of Target: the register of the first sub-register, if it has one. *)
TargetOfFirst(subs) ==
    IF Binded(subs) = {} THEN nRegs ELSE lookup[Min(subs) + 1]

Target(subs) ==
    IF Binded(subs) = {} THEN nRegs ELSE lookup[Min(Binded(subs)) + 1]

mergeSubRegisters ==
    /\ pc = "mergeSubRegisters"
    /\ LET subs == varSubRegs[cursor].subs
           reg  == Target(subs)
       IN /\ lookup' = [s \in DOMAIN lookup |-> IF s - 1 \in subs THEN reg ELSE lookup[s]]
          /\ regFields' = IF reg = nRegs
                          THEN Append(regFields, subs)
                          ELSE [regFields EXCEPT ![reg + 1] = @ \cup subs]
    /\ Advance(Len(varSubRegs), "createRegisters")
    /\ UNCHANGED <<passed, lifetime, pools, edge, varSubRegs, fields>>

(* mergeSubRegisters from the creation of the registers on. *)
createRegisters ==
    /\ pc = "createRegisters"
    /\ registers' = [r \in DOMAIN regFields |-> Cardinality(regFields[r]) * poolWidth]
    /\ bitfields' = [s \in 1..nSubRegs |-> FieldOf(regFields, poolWidth, s - 1)]
    /\ pc' = "mapVariablesToBitfields"
    /\ UNCHANGED <<passed, cursor, lifetime, pools, edge, merged, binding>>

mapVariablesToBitfields ==
    /\ pc = "mapVariablesToBitfields"
    /\ binding' = [v \in Variables(prog) |-> Span(bitfields, SubRegsOf(table, sub, v))]
    /\ pc' = "done"
    /\ UNCHANGED <<passed, cursor, lifetime, pools, edge, merged, registers, bitfields>>

(* bindRegisters() has returned. *)
Returned == pc = "done" /\ UNCHANGED vars

Next ==
    \/ analyzeLifetime
    \/ splitTable
    \/ performLeftEdge
    \/ sortVariables
    \/ mergeSubRegisters
    \/ createRegisters
    \/ mapVariablesToBitfields
    \/ Returned

Spec == Init /\ [][Next]_vars

-----------------------------------------------------------------------------
Steps == {"analyzeLifetime", "splitTable", "performLeftEdge", "sortVariables",
          "mergeSubRegisters", "createRegisters", "mapVariablesToBitfields", "done"}

(* The types of the binder's tables, empty until they are built. *)
TypeOK ==
    /\ IsProgram(prog)
    /\ Range(addr) = Variables(prog) /\ Len(addr) = Len(prog.width)
    /\ pc \in Steps
    /\ cursor \in Nat \ {0}
    /\ lt \in Seq([def: Nat, use: Nat])
    /\ stages \in Nat /\ poolWidth \in Nat /\ nSubRegs \in Nat
    /\ table \in Seq([var: Variables(prog), id: Nat])
    /\ sub \in Seq(Nat \cup {Unbound})
    /\ varSubRegs \in Seq([var: Variables(prog), subs: SUBSET Nat])
    /\ lookup \in Seq(Nat \cup {Unbound})
    /\ regFields \in Seq(SUBSET Nat)
    /\ registers \in Seq(Nat)
    /\ bitfields \in Seq([reg: Nat, msb: 0..255, lsb: 0..255])
    /\ binding \in Seq([reg: Nat, msb: 0..255, lsb: 0..255])

(* Every lifetime ends after it starts: performLeftEdge asserts it of every *)
(* pool, and the lengths of the strings it prints depend on it.            *)
LifetimesPositive == \A v \in DOMAIN lt : lt[v].def < lt[v].use

(* LifetimeInterval::overlap.  A variable is written at the end of stage   *)
(* def and read in the stages up to use.                                   *)
Together(u, v) == ~(lt[u].def >= lt[v].use \/ lt[v].def >= lt[u].use)

Share(j, k) == j # k /\ sub[j] # Unbound /\ sub[j] = sub[k]

(* The pool that opens a sub-register is dead before any other pool of the *)
(* sub-register is written: the first pass of the edge is right.           *)
OpenerExclusive ==
    \A j, k \in DOMAIN sub :
        Share(j, k) /\ (\A i \in 1..(j - 1) : sub[i] # sub[j])
            => ~Together(table[j].var, table[k].var)

(* The assertion of mergeSubRegisters: when the registers are created,     *)
(* every sub-register has been given to one, and the one it was given to   *)
(* holds it.                                                               *)
EverySubRegisterMerged ==
    pc = "createRegisters" =>
        \A s \in DOMAIN lookup : lookup[s] # Unbound /\ s - 1 \in regFields[lookup[s] + 1]

Overlap(f, g) == f.reg = g.reg /\ f.lsb <= g.msb /\ g.lsb <= f.msb

(* Different sub-registers are different bits: also those that were moved  *)
(* to another register and are still among the fields of the old one keep  *)
(* a field of their own, inside its register.                              *)
SubRegistersDisjoint ==
    /\ \A s, t \in DOMAIN bitfields : s # t => ~Overlap(bitfields[s], bitfields[t])
    /\ \A s \in DOMAIN bitfields : bitfields[s].msb < registers[bitfields[s].reg + 1]

(* Variables that are alive together never share a sub-register.           *)
SubRegistersExclusive ==
    \A j, k \in DOMAIN sub : Share(j, k) => ~Together(table[j].var, table[k].var)

=============================================================================
