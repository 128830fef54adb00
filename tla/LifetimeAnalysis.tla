-------------------------- MODULE LifetimeAnalysis --------------------------
(***************************************************************************)
(* LifetimeAnalysis::analize (binding/LifetimeAnalysis.cpp): which values  *)
(* are live at the beginning and at the end of every block.  A mask is the *)
(* set of the values whose bits are set.                                   *)
(*                                                                         *)
(* A function is a record as in Ir with two more fields: operands, where   *)
(* the number of an instruction stands for it, a negative number for an    *)
(* argument, and Other for anything else; and incoming, for a PHI node the *)
(* blocks its operands come from.                                          *)
(***************************************************************************)
EXTENDS Ir, SequencesExt, FiniteSetsExt

CONSTANTS
    Functions

VARIABLES
    func,       \* the function being analysed
    pc,         \* the part of analize being executed
    cursor,     \* the block its loop is at
    def, use,   \* BasicBlockLifetimeInfo of every block
    in, out,
    is_changed

lvaVars == <<func, pc, cursor, def, use, in, out, is_changed>>

-----------------------------------------------------------------------------
Other == 0

IsPhi(f, i) == f.op[i] = "PHI"

IsInstr(v) == v > 0

Users(f, v) == {i \in Instrs(f) : v \in ToSet(f.operands[i])}

Arguments(f) == {v \in UNION {ToSet(f.operands[i]) : i \in Instrs(f)} : v < 0}

Values(f) == Arguments(f) \cup Instrs(f)

Phis(f, b) == {i \in BlockInstrs(f, b) : IsPhi(f, i)}

(* The arguments are defined in the entry block. *)
Defined(f, b) == BlockInstrs(f, b) \cup IF b = 1 THEN Arguments(f) ELSE {}

(* markUses: a read in the block that defines the value counts only for a   *)
(* PHI node; arguments count everywhere.                                    *)
Used(f, b) ==
    {v \in Values(f) : \E i \in Users(f, v) :
        f.bb[i] = b /\ (IsInstr(v) => f.bb[v] # b \/ IsPhi(f, i))}

(* initPhiFlowMask: the instructions a PHI node of the block reads and that *)
(* no other instruction of the block does, unless it defines them.          *)
ReadByPhisOnly(f, b) ==
    {v \in Instrs(f) :
        /\ \E i \in Phis(f, b) : v \in ToSet(f.operands[i])
        /\ ~\E i \in Users(f, v) : f.bb[i] # f.bb[v] /\ f.bb[i] = b /\ ~IsPhi(f, i)}

(* The instructions the PHI nodes of block b read on the edge from block p, *)
(* in the order in which initFlowMask meets them.                           *)
Incoming(f, p, b) ==
    FoldLeft(LAMBDA seq, i :
                 seq \o SelectSeq([n \in DOMAIN f.operands[i] |->
                                      IF f.incoming[i][n] = p THEN f.operands[i][n] ELSE Other],
                                  IsInstr),
             << >>, SetToSortSeq(Phis(f, b), <))

(* The mask of an edge: created for the first such instruction, without     *)
(* setting its bit; the bits of the others are set.  An edge without one    *)
(* has no mask.                                                             *)
FlowMask(f, p, b) ==
    LET reads == Incoming(f, p, b)
    IN IF reads = << >> THEN Values(f)
       ELSE (Values(f) \ ReadByPhisOnly(f, b)) \cup {reads[n] : n \in 2..Len(reads)}

-----------------------------------------------------------------------------
NoMask == [b \in Blocks(func) |-> {}]

LifetimeInit ==
    /\ func \in Functions
    /\ pc = "initMasks"
    /\ cursor = 1
    /\ def = NoMask /\ use = NoMask /\ in = NoMask /\ out = NoMask
    /\ is_changed = TRUE

initMasks ==
    /\ pc = "initMasks"
    /\ def' = [b \in Blocks(func) |-> Defined(func, b)]
    /\ use' = [b \in Blocks(func) |-> Used(func, b)]
    /\ is_changed' = FALSE
    /\ pc' = "collect"
    /\ UNCHANGED <<func, cursor, in, out>>

LiveOut(b) == UNION {in[func.succ[b][n]] \cap FlowMask(func, b, func.succ[b][n]) : n \in DOMAIN func.succ[b]}

(* Mutant of LiveIn: what a block defines is not removed. *)
LiveInWithDefinitions(b) == LiveOut(b) \cup use[b]

LiveIn(b) == (LiveOut(b) \ def[b]) \cup use[b]

(* Mutant of Again: the loop is left after the second round. *)
AgainOnce(changed) == changed /\ in = NoMask

(* Whether another round is needed, when a round has ended. *)
Again(changed) == changed

(* Mutant of Changed: the wrong mask is compared. *)
ChangedFromOut(b) == LiveIn(b) # out[b]

(* Whether the iteration for a block changes what is live into it. *)
Changed(b) == LiveIn(b) # in[b]

(* One iteration of the loop over the blocks, and after the last one of the *)
(* loop that goes on while something changes.                               *)
visitBlock ==
    /\ pc = "collect"
    /\ out' = [out EXCEPT ![cursor] = LiveOut(cursor)]
    /\ in' = [in EXCEPT ![cursor] = LiveIn(cursor)]
    /\ LET changed == is_changed \/ Changed(cursor)
       IN IF cursor < Len(func.succ)
          THEN cursor' = cursor + 1 /\ is_changed' = changed /\ UNCHANGED pc
          ELSE /\ cursor' = 1 /\ is_changed' = FALSE
               /\ pc' = IF Again(changed) THEN pc ELSE "done"
    /\ UNCHANGED <<func, def, use>>

LifetimeNext == initMasks \/ visitBlock

LifetimeSpec == LifetimeInit /\ [][LifetimeNext]_lvaVars

-----------------------------------------------------------------------------
(* The sets of blocks that hold, for a value, wherever it is used, and      *)
(* wherever it may flow on to a successor that holds it.                    *)
Closed(v, S) ==
    \A b \in Blocks(func) :
        \/ v \in use[b]
        \/ v \notin def[b] /\ \E n \in DOMAIN func.succ[b] :
              func.succ[b][n] \in S /\ v \in FlowMask(func, b, func.succ[b][n])
        => b \in S

(* What analize leaves is the least solution of its equations: a value is   *)
(* live into exactly the blocks that are in every closed set, and out of    *)
(* those that pass it to such a block, however the blocks are ordered.      *)
LeastFixpoint ==
    pc = "done" =>
        \A v \in Values(func) :
            LET least == {b \in Blocks(func) : \A S \in SUBSET Blocks(func) : Closed(v, S) => b \in S}
            IN \A b \in Blocks(func) :
                 /\ v \in in[b] <=> b \in least
                 /\ v \in out[b] <=> \E n \in DOMAIN func.succ[b] :
                       func.succ[b][n] \in least /\ v \in FlowMask(func, b, func.succ[b][n])

(* The blocks on a path from b, b excluded, on which v is not defined again *)
(* before the block: the least set of the successors.                       *)
ReachedFrom(v, b) ==
    LET reached[n \in 0..Len(func.succ)] ==
            IF n = 0 THEN ToSet(func.succ[b])
            ELSE LET S == reached[n - 1]
                 IN S \cup UNION {ToSet(func.succ[c]) : c \in {d \in S : v \notin Defined(func, d)}}
    IN reached[Len(func.succ)]

(* A value read by an instruction that can be reached, before it is defined *)
(* anew, is reported live out of a block that has or passes it, when no PHI *)
(* node reads it.                                                           *)
LiveWhereRead ==
    pc = "done" =>
        \A v \in Values(func) : (\A i \in Users(func, v) : ~IsPhi(func, i)) =>
            \A b \in Blocks(func) :
                (\E i \in Users(func, v) : func.bb[i] \in ReachedFrom(v, b)
                                     /\ func.bb[i] \notin {c \in Blocks(func) : v \in Defined(func, c)})
                => v \in out[b]

=============================================================================
