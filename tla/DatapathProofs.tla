---------------------------- MODULE DatapathProofs ---------------------------
(***************************************************************************)
(* Proofs about the binder, the generator and the generated module, for    *)
(* every set of schedules.                                                 *)
(*                                                                         *)
(* The invariant of the binder, BInv, has beside that of createFsm three   *)
(* parts.                                                                  *)
(*                                                                         *)
(* LvaInv is about LifetimeAnalysis::analize.  The masks it leaves are the *)
(* least solution of its equations: the loop stops only after a round that *)
(* changed nothing, and no round adds a value to a block that a solution   *)
(* can be without.  A round that has changed nothing so far leaves the     *)
(* blocks it has passed solved, because what they were computed from is    *)
(* what it was; and whatever is live into a block is so in every solution. *)
(*                                                                         *)
(* BindInv is about Binding: where the addresses come from (Addressed),    *)
(* what each phase leaves to the next (Phases), that the instructions of a *)
(* state and a unit have instances exactly when the pair has been assigned *)
(* and that no two of them share one (Assigned), and that what is recorded *)
(* of a unit is what its instructions brought to it (Known).  Shared is    *)
(* about the groups: what is in one of them, and in whose masks.           *)
(*                                                                         *)
(* Of the assignment by costs the proofs use only that it gives no unit    *)
(* twice; the order of the addresses and of the pairs is any order.        *)
(*                                                                         *)
(* The invariant of the generator, GenInv, adds where generate() is        *)
(* (PartOf), what its loops still have to take (Remaining) and what there  *)
(* is in the module (Contents).  CtlInv adds what drives the registers of  *)
(* the controller, finish and cur_state, in every state (ControlOK), and   *)
(* where the hardware is (HardwareOK); from it follows that the module     *)
(* implements Controller.                                                  *)
(***************************************************************************)
EXTENDS Datapath, SchedulerMappingProofs

-----------------------------------------------------------------------------
(* Where analize is. *)
LvaShape ==
    /\ input \in Schedules
    /\ lvaPc \in {"initMasks", "collect", "done"}
    /\ lvaCursor \in Blocks(F)
    /\ in = [b \in Blocks(F) |-> in[b]] /\ out = [b \in Blocks(F) |-> out[b]]
    /\ lvaPc = "initMasks" => lvaCursor = 1 /\ in = Lva!NoMask

(* The masks of the blocks are known before the rounds begin. *)
MasksKnown ==
    lvaPc # "initMasks" =>
        /\ def = [b \in Blocks(F) |-> Lva!Defined(F, b)]
        /\ use = [b \in Blocks(F) |-> Lva!Used(F, b)]

(* Block b satisfies the equations. *)
Solved(b) == in[b] = Lva!LiveIn(b) /\ out[b] = Lva!LiveOut(b)

(* The blocks the round has passed are solved as long as nothing changes.  *)
Settled ==
    \A b \in Blocks(F) :
        \/ lvaPc = "done"
        \/ lvaPc = "collect" /\ ~is_changed /\ b < lvaCursor
        => Solved(b)

(* No solution is without what is live. *)
Below ==
    \A v \in Lva!Values(F) : \A S \in SUBSET Blocks(F) :
        Lva!Closed(v, S) => \A b \in Blocks(F) : v \in in[b] => b \in S

LvaInv == LvaShape /\ MasksKnown /\ Settled /\ Below

(* The blocks of a function are an interval, and so are the successors.    *)
LEMMA BlocksShape ==
    ASSUME input \in Schedules
    PROVE  /\ Len(F.succ) \in Nat \ {0} /\ Blocks(F) = 1..Len(F.succ) /\ 1 \in Blocks(F)
           /\ \A b \in Blocks(F) : \A n \in DOMAIN F.succ[b] : F.succ[b][n] \in Blocks(F)
<1>1. IsControlFlow(F)
  BY SchedulesAssumption DEF F
<1> QED BY <1>1, ControlFlowShape

(* A value is live out of a block that passes it to a successor.           *)
LEMMA LiveOutMember ==
    ASSUME NEW v, NEW b
    PROVE  v \in Lva!LiveOut(b) <=> \E n \in DOMAIN F.succ[b] :
              v \in in[F.succ[b][n]] /\ v \in Lva!FlowMask(F, b, F.succ[b][n])
BY DEF Lva!LiveOut, F

(* Nothing is live before the first round. *)
LEMMA LvaInit ==
    ASSUME input \in Schedules, Lva!LifetimeInit
    PROVE  LvaInv
<1>1. /\ lvaPc = "initMasks" /\ lvaCursor = 1 /\ in = Lva!NoMask /\ out = Lva!NoMask
  BY DEF Lva!LifetimeInit
<1>2. Lva!NoMask = [b \in Blocks(F) |-> {}]
  BY DEF Lva!NoMask, Lva!Blocks, Blocks, F
<1>3. LvaShape
  BY <1>1, <1>2, BlocksShape DEF LvaShape
<1>4. Settled /\ MasksKnown
  BY <1>1 DEF Settled, MasksKnown
<1>5. Below
  BY <1>1, <1>2 DEF Below
<1> QED BY <1>3, <1>4, <1>5 DEF LvaInv

(* Nor is anything when the masks of the blocks are known. *)
LEMMA initMasksStep ==
    ASSUME LvaInv, UNCHANGED input, Lva!initMasks
    PROVE  LvaInv'
<1>1. /\ input \in Schedules /\ lvaCursor = 1 /\ in = Lva!NoMask
      /\ UNCHANGED <<input, F, lvaCursor, in, out>> /\ lvaPc' = "collect"
  BY DEF LvaInv, LvaShape, Lva!initMasks, F
<1>2. LvaShape'
  BY <1>1 DEF LvaInv, LvaShape
<1>3. Settled'
  <2>1. Blocks(F) = 1..Len(F.succ)
    BY <1>1, BlocksShape
  <2> QED BY <2>1, <1>1 DEF Settled
<1>4. Below'
  <2>1. \A b \in Blocks(F) : in'[b] = {}
    BY <1>1 DEF Lva!NoMask, Lva!Blocks, Blocks, F
  <2> QED BY <2>1, <1>1 DEF Below
<1>5. MasksKnown'
  <2>1. /\ def' = [b \in Blocks(F) |-> Lva!Defined(F, b)]
        /\ use' = [b \in Blocks(F) |-> Lva!Used(F, b)]
    BY DEF Lva!initMasks, Lva!Blocks, Blocks, F
  <2> QED BY <2>1, <1>1 DEF MasksKnown
<1> QED BY <1>2, <1>3, <1>4, <1>5 DEF LvaInv

(* What a block gets has to be live into it in every solution.             *)
LEMMA VisitedBelow ==
    ASSUME LvaShape, Below, NEW c \in Blocks(F),
           NEW v \in Lva!Values(F), NEW S \in SUBSET Blocks(F), Lva!Closed(v, S),
           v \in Lva!LiveIn(c)
    PROVE  c \in S
<1>1. CASE v \in use[c]
  BY <1>1 DEF Lva!Closed, Lva!Blocks, Blocks, F
<1>2. CASE v \in Lva!LiveOut(c) /\ v \notin def[c]
  <2>1. PICK n \in DOMAIN F.succ[c] :
           v \in in[F.succ[c][n]] /\ v \in Lva!FlowMask(F, c, F.succ[c][n])
    BY <1>2, LiveOutMember
  <2>2. F.succ[c][n] \in Blocks(F)
    BY BlocksShape DEF LvaShape
  <2>3. F.succ[c][n] \in S
    BY <2>1, <2>2 DEF Below
  <2> QED BY <1>2, <2>1, <2>3 DEF Lva!Closed, Lva!Blocks, Blocks, F
<1> QED BY <1>1, <1>2 DEF Lva!LiveIn

(* One iteration of the loop over the blocks. *)
LEMMA visitBlockStep ==
    ASSUME LvaInv, UNCHANGED input, Lva!visitBlock
    PROVE  LvaInv'
<1> DEFINE c == lvaCursor
           changed == is_changed \/ Lva!Changed(c)
<1>1. /\ LvaShape /\ MasksKnown /\ Settled /\ Below
      /\ input \in Schedules /\ c \in Blocks(F) /\ lvaPc = "collect"
      /\ UNCHANGED <<input, F, def, use>>
  BY DEF LvaInv, LvaShape, Lva!visitBlock, F
<1>2. /\ Len(F.succ) \in Nat /\ Blocks(F) = 1..Len(F.succ) /\ 1 \in Blocks(F)
  BY <1>1, BlocksShape
<1>3. /\ in' = [in EXCEPT ![c] = Lva!LiveIn(c)]
      /\ out' = [out EXCEPT ![c] = Lva!LiveOut(c)]
  BY DEF Lva!visitBlock
<1>4. \/ /\ c < Len(F.succ) /\ lvaCursor' = c + 1
         /\ lvaPc' = "collect" /\ is_changed' = changed
      \/ /\ ~(c < Len(F.succ)) /\ lvaCursor' = 1 /\ is_changed' = FALSE
         /\ lvaPc' = IF changed THEN "collect" ELSE "done"
  BY <1>1 DEF Lva!visitBlock, Lva!Again, F
<1>5. LvaShape'
  <2>1. /\ in' = [b \in Blocks(F) |-> in'[b]]
        /\ out' = [b \in Blocks(F) |-> out'[b]]
    BY <1>1, <1>3 DEF LvaShape
  <2>2. lvaCursor' \in Blocks(F) /\ lvaPc' \in {"collect", "done"}
    <3> HIDE DEF changed
    <3> QED BY <1>1, <1>2, <1>4
  <2> QED BY <1>1, <2>1, <2>2 DEF LvaShape
<1>6. MasksKnown'
  BY <1>1 DEF MasksKnown
<1>7. Below'
  <2> SUFFICES ASSUME NEW v \in Lva!Values(F), NEW S \in SUBSET Blocks(F), Lva!Closed(v, S),
                      NEW b \in Blocks(F), v \in in'[b]
               PROVE  b \in S
    <3>1. \A v, S : Lva!Closed(v, S)' <=> Lva!Closed(v, S)
      BY <1>1 DEF Lva!Closed, Lva!Blocks, Blocks, F
    <3> QED BY <3>1, <1>1 DEF Below
  <2>1. CASE b = c
    <3>1. v \in Lva!LiveIn(c)
      BY <2>1, <1>1, <1>3 DEF LvaShape
    <3> QED BY <3>1, <2>1, <1>1, VisitedBelow
  <2>2. CASE b # c
    <3>1. v \in in[b]
      BY <2>2, <1>1, <1>3 DEF LvaShape
    <3> QED BY <3>1, <1>1 DEF Below
  <2> QED BY <2>1, <2>2
<1>8. Settled'
  <2>1. CASE changed
    <3>1. ~(lvaPc' = "done") /\ (is_changed' \/ lvaCursor' = 1)
      BY <2>1, <1>4
    <3> QED BY <3>1, <1>1, <1>2 DEF Settled
  <2>2. CASE ~changed
    <3>1. ~is_changed /\ Lva!LiveIn(c) = in[c]
      BY <2>2 DEF Lva!Changed
    <3>2. in' = in
      BY <3>1, <1>1, <1>3 DEF LvaShape
    <3>3. \A b : Lva!LiveOut(b)' = Lva!LiveOut(b) /\ Lva!LiveIn(b)' = Lva!LiveIn(b)
      BY <3>2, <1>1 DEF Lva!LiveOut, Lva!LiveIn, F
    <3>4. ASSUME NEW b \in Blocks(F), b < c \/ b = c
          PROVE  Solved(b)'
      <4>1. in'[b] = Lva!LiveIn(b)
        BY <3>1, <3>2, <3>4, <1>1 DEF Settled, Solved
      <4>2. out'[b] = Lva!LiveOut(b)
        <5>1. CASE b = c
          BY <5>1, <1>1, <1>3 DEF LvaShape
        <5>2. CASE b # c
          <6>1. out'[b] = out[b]
            BY <5>2, <1>1, <1>3 DEF LvaShape
          <6>2. Solved(b)
            BY <5>2, <3>1, <3>4, <1>1 DEF Settled
          <6> QED BY <6>1, <6>2 DEF Solved
        <5> QED BY <5>1, <5>2
      <4> QED BY <4>1, <4>2, <3>3 DEF Solved
    <3>5. \A b \in Blocks(F) : lvaPc' = "done" \/ b < lvaCursor' => b < c \/ b = c
      BY <1>1, <1>2, <1>4
    <3> QED BY <3>4, <3>5, <1>1 DEF Settled
  <2> QED BY <2>1, <2>2
<1> QED BY <1>5, <1>6, <1>7, <1>8 DEF LvaInv

(* The masks of a solved function are the least ones.                      *)
LEMMA SolvedIsLeast ==
    ASSUME LvaInv
    PROVE  LeastFixpoint
<1> SUFFICES ASSUME lvaPc = "done", NEW v \in Lva!Values(F), NEW b \in Blocks(F)
             PROVE  LET least == {a \in Blocks(F) :
                                     \A S \in SUBSET Blocks(F) : Lva!Closed(v, S) => a \in S}
                    IN /\ v \in in[b] <=> b \in least
                       /\ v \in out[b] <=> \E n \in DOMAIN F.succ[b] :
                             F.succ[b][n] \in least /\ v \in Lva!FlowMask(F, b, F.succ[b][n])
  BY DEF LeastFixpoint, Lva!LeastFixpoint, Lva!Blocks, Blocks, F
<1> DEFINE least == {a \in Blocks(F) :
                        \A S \in SUBSET Blocks(F) : Lva!Closed(v, S) => a \in S}
           H == {a \in Blocks(F) : v \in in[a]}
<1>1. /\ input \in Schedules /\ Below
      /\ \A a \in Blocks(F) : in[a] = Lva!LiveIn(a) /\ out[a] = Lva!LiveOut(a)
  BY DEF LvaInv, LvaShape, Settled, Solved
<1>2. \A a \in Blocks(F) : \A n \in DOMAIN F.succ[a] : F.succ[a][n] \in Blocks(F)
  BY <1>1, BlocksShape
<1>3. Lva!Closed(v, H)
  <2> SUFFICES ASSUME NEW a \in Blocks(F),
                      \/ v \in use[a]
                      \/ v \notin def[a] /\ \E n \in DOMAIN F.succ[a] :
                            F.succ[a][n] \in H /\ v \in Lva!FlowMask(F, a, F.succ[a][n])
               PROVE  v \in in[a]
    BY DEF Lva!Closed, Lva!Blocks, Blocks, F
  <2>1. v \in Lva!LiveIn(a)
    <3>1. CASE v \in use[a]
      BY <3>1 DEF Lva!LiveIn
    <3>2. CASE v \notin use[a]
      <4>1. v \notin def[a] /\ v \in Lva!LiveOut(a)
        BY <3>2, LiveOutMember
      <4> QED BY <4>1 DEF Lva!LiveIn
    <3> QED BY <3>1, <3>2
  <2> QED BY <2>1, <1>1
<1>4. \A a \in Blocks(F) : v \in in[a] <=> a \in least
  <2>1. \A a \in least : a \in H
    BY <1>3
  <2>2. \A a \in H : a \in least
    BY <1>1 DEF Below
  <2> QED BY <2>1, <2>2
<1> HIDE DEF least, H
<1>5. v \in out[b] <=> \E n \in DOMAIN F.succ[b] :
         F.succ[b][n] \in least /\ v \in Lva!FlowMask(F, b, F.succ[b][n])
  BY <1>1, <1>2, <1>4, LiveOutMember
<1> QED BY <1>4, <1>5 DEF least

(* An edge passes every value that no PHI node reads. *)
LEMMA PassedOn ==
    ASSUME NEW v \in Lva!Values(F), \A i \in Lva!Users(F, v) : ~Lva!IsPhi(F, i), NEW b, NEW c
    PROVE  v \in Lva!FlowMask(F, b, c)
<1>1. v \notin Lva!ReadByPhisOnly(F, c)
  BY DEF Lva!ReadByPhisOnly, Lva!Phis, Lva!BlockInstrs, Lva!Users
<1> QED BY <1>1 DEF Lva!FlowMask

(* A value that an instruction of another block reads is used there.       *)
LEMMA UsedWhereRead ==
    ASSUME input \in Schedules, NEW v \in Lva!Values(F), NEW i \in Lva!Users(F, v),
           v \notin Lva!Defined(F, F.bb[i])
    PROVE  v \in Lva!Used(F, F.bb[i])
<1>1. CASE v \in Instrs(F)
  <2>1. F.bb[v] # F.bb[i]
    BY <1>1 DEF Lva!Defined, Lva!BlockInstrs, Lva!Instrs, Instrs
  <2> QED BY <2>1 DEF Lva!Used
<1>2. CASE v \notin Instrs(F)
  <2>1. v \in Lva!Arguments(F)
    BY <1>2 DEF Lva!Values, Lva!Instrs, Instrs
  <2>2. PICK j \in Instrs(F) : v \in ToSet(F.operands[j]) /\ v < 0
    BY <2>1 DEF Lva!Arguments, Lva!Instrs, Instrs, ToSet, Lva!ToSet
  <2>3. v \in Int
    <3>1. F.operands[j] \in Seq(Int)
      BY OperandsAssumption DEF F
    <3> QED BY <2>2, <3>1 DEF ToSet
  <2>4. ~Lva!IsInstr(v)
    BY <2>2, <2>3 DEF Lva!IsInstr
  <2> QED BY <2>4 DEF Lva!Used
<1> QED BY <1>1, <1>2

(* A value live into a block that is reached without defining it anew is   *)
(* live out of where it is reached from.                                   *)
LEMMA LiveBeforeReached ==
    ASSUME LvaInv, lvaPc = "done", NEW v \in Lva!Values(F), NEW b \in Blocks(F),
           \A i \in Lva!Users(F, v) : ~Lva!IsPhi(F, i),
           NEW c \in Lva!ReachedFrom(v, b), v \in in[c]
    PROVE  v \in out[b]
<1> DEFINE S == SUBSET Blocks(F)
           n == Len(F.succ)
           base == Lva!ToSet(F.succ[b])
           grown(B) == B \cup UNION {Lva!ToSet(F.succ[d]) : d \in {e \in B : v \notin Lva!Defined(F, e)}}
           step == [k \in 1..n |-> [B \in S |-> grown(B)]]
           reached[k \in 0..n] == IF k = 0 THEN base ELSE grown(reached[k - 1])
<1>1. /\ input \in Schedules /\ n \in Nat /\ Blocks(F) = 1..n
      /\ \A d \in Blocks(F) : \A k \in DOMAIN F.succ[d] : F.succ[d][k] \in Blocks(F)
      /\ def = [d \in Blocks(F) |-> Lva!Defined(F, d)]
      /\ \A d \in Blocks(F) : in[d] = Lva!LiveIn(d) /\ out[d] = Lva!LiveOut(d)
  <2>1. LvaShape /\ MasksKnown /\ Settled
    BY DEF LvaInv
  <2> QED BY <2>1, BlocksShape DEF LvaShape, MasksKnown, Settled, Solved
<1>2. \A d \in Blocks(F) : Lva!ToSet(F.succ[d]) \in S
  BY <1>1 DEF Lva!ToSet
<1>3. base \in S /\ \A B \in S : grown(B) \in S
  <2>1. ASSUME NEW B \in S PROVE grown(B) \in S
    BY <1>2
  <2> QED BY <1>2, <2>1
<1>4. Lva!ReachedFrom(v, b) = reached[n]
  BY DEF Lva!ReachedFrom, reached, F
<1>5. AreSteps(step, n, S) /\ \A k \in 1..n : \A B \in S : step[k][B] = grown(B)
  <2> HIDE DEF S, grown, n
  <2> QED BY <1>3 DEF AreSteps
<1> HIDE DEF n, S, step, base, grown
<1>6. PICK f : IsIterated(f, step, n, S, base)
  <2> HIDE DEF reached
  <2> QED BY <1>1, <1>3, <1>5, RecursionUpTo
<1>7. f \in [0..n -> S] /\ f[0] = base /\ \A k \in 1..n : f[k] = grown(f[k - 1])
  <2>1. f \in [0..n -> S] /\ f[0] = base /\ \A k \in 1..n : f[k] = step[k][f[k - 1]]
    BY <1>6 DEF IsIterated
  <2>2. \A k \in 1..n : k - 1 \in 0..n
    BY <1>1
  <2> QED BY <1>5, <2>1, <2>2
<1>8. f = [k \in 0..n |-> IF k = 0 THEN base ELSE grown(f[k - 1])]
  <2>1. \A k \in 0..n : f[k] = IF k = 0 THEN base ELSE grown(f[k - 1])
    BY <1>1, <1>7
  <2> QED BY <1>7, <2>1
<1>9. reached = [k \in 0..n |-> IF k = 0 THEN base ELSE grown(reached[k - 1])]
  BY <1>8
<1> HIDE DEF reached
<1>10. ASSUME NEW d \in Blocks(F), NEW e \in Lva!ToSet(F.succ[d]), v \in in[e]
       PROVE  v \in out[d]
  <2>1. PICK k \in DOMAIN F.succ[d] : F.succ[d][k] = e
    BY DEF Lva!ToSet
  <2>2. v \in Lva!FlowMask(F, d, e)
    BY PassedOn
  <2> QED BY <2>1, <2>2, <1>1, <1>10, LiveOutMember
<1>11. ASSUME NEW d \in Blocks(F), v \in out[d], v \notin Lva!Defined(F, d)
       PROVE  v \in in[d]
  BY <1>1, <1>11 DEF Lva!LiveIn
<1> DEFINE T == {k \in 0..n : reached[k] \in S /\ \A e \in reached[k] : v \in in[e] => v \in out[b]}
<1>12. 0 \in T
  <2>1. 0 \in 0..n /\ reached[0] = base
    BY <1>1, <1>9
  <2> QED BY <2>1, <1>3, <1>10 DEF base
<1>13. ASSUME NEW k \in 0..(n - 1), k \in T PROVE k + 1 \in T
  <2>1. k + 1 \in 0..n /\ (k + 1) - 1 = k /\ k + 1 # 0 /\ k \in 0..n
    BY <1>1
  <2>2. reached[k + 1] = grown(reached[k]) /\ reached[k + 1] \in S
        /\ reached[k] \in SUBSET Blocks(F)
    BY <2>1, <1>3, <1>9, <1>13 DEF S
  <2>3. ASSUME NEW e \in reached[k + 1], v \in in[e] PROVE v \in out[b]
    <3>1. CASE e \in reached[k]
      BY <3>1, <2>3, <1>13
    <3>2. CASE e \notin reached[k]
      <4>1. PICK d \in reached[k] : v \notin Lva!Defined(F, d) /\ e \in Lva!ToSet(F.succ[d])
        BY <3>2, <2>2 DEF grown
      <4>2. d \in Blocks(F)
        BY <2>2
      <4>3. v \in in[d]
        BY <4>1, <4>2, <2>3, <1>10, <1>11
      <4> QED BY <4>3, <1>13
    <3> QED BY <3>1, <3>2
  <2> QED BY <2>1, <2>2, <2>3
<1>14. n \in T
  <2>1. n \in 0..n
    BY <1>1
  <2> HIDE DEF T
  <2> QED BY <1>1, <1>12, <1>13, <2>1, InductionUpTo
<1> QED BY <1>4, <1>14

(* No value that is still to be read is reported dead.                     *)
LEMMA ReadIsLive == LvaInv => LiveWhereRead
<1> SUFFICES ASSUME LvaInv, lvaPc = "done", NEW v \in Lva!Values(F), NEW b \in Blocks(F),
                    \A i \in Lva!Users(F, v) : ~Lva!IsPhi(F, i),
                    NEW i \in Lva!Users(F, v), F.bb[i] \in Lva!ReachedFrom(v, b),
                    F.bb[i] \notin {c \in Blocks(F) : v \in Lva!Defined(F, c)}
             PROVE  v \in out[b]
  BY DEF LiveWhereRead, Lva!LiveWhereRead, Lva!Blocks, Blocks, F
<1>1. /\ input \in Schedules
      /\ use = [d \in Blocks(F) |-> Lva!Used(F, d)]
      /\ \A d \in Blocks(F) : in[d] = Lva!LiveIn(d)
  BY DEF LvaInv, LvaShape, MasksKnown, Settled, Solved
<1>2. F.bb[i] \in Blocks(F)
  <2>1. IsControlFlow(F)
    BY <1>1, SchedulesAssumption DEF F
  <2>2. i \in Instrs(F)
    BY DEF Lva!Users, Lva!Instrs, Instrs
  <2> QED BY <2>1, <2>2, ControlFlowShape
<1>3. v \in use[F.bb[i]]
  BY <1>1, <1>2, UsedWhereRead
<1>4. v \in in[F.bb[i]]
  BY <1>1, <1>2, <1>3 DEF Lva!LiveIn
<1> QED BY <1>4, LiveBeforeReached

-----------------------------------------------------------------------------
(* The instructions and the units.                                         *)

(* The instructions that have a unit. *)
Bindable == {i \in Instrs(F) : FuOf(i) # NoUnit}

Addressed ==
    /\ address \in Seq(Bindable) /\ ToSet(address) = Bindable
    /\ \A k, m \in DOMAIN address : address[k] = address[m] => k = m

(* Where the binding is; the machine is finished when it leaves createFsm. *)
Phases ==
    /\ phase \in {"createFsm", "analize", "bindFuInState", "assertion", "shareRegisters", "done"}
    /\ pc = "done" <=> phase # "createFsm"
    /\ todo \subseteq (DOMAIN state) \X Units
    /\ phase \in {"createFsm", "analize", "shareRegisters", "done"} => todo = {}
    /\ phase = "assertion" => ~Fits
    /\ phase \notin {"createFsm", "analize"} => lvaPc = "done"

(* An instruction gets an instance of its unit when the binder visits the  *)
(* state it starts in, and no two of a state get the same.                 *)
Assigned ==
    /\ unitOf \in [Instrs(F) -> {Unbound} \cup Nat]
    /\ \A i \in Instrs(F) : unitOf[i] # Unbound =>
          i \in Bindable /\ <<FuOf(i), unitOf[i]>> \in UnitInstances
    /\ phase \in {"createFsm", "analize"} => \A i \in Instrs(F) : unitOf[i] = Unbound
    /\ phase \notin {"createFsm", "analize"} =>
          \A i \in Bindable : unitOf[i] # Unbound <=> <<startState[i], FuOf(i)>> \notin todo
    /\ \A i, j \in Bindable :
          /\ i # j /\ startState[i] = startState[j] /\ FuOf(i) = FuOf(j)
          /\ unitOf[i] # Unbound
          => unitOf[i] # unitOf[j]

(* What the binder knows of an instance is what is bound to it. *)
Known ==
    /\ mux_inputs \in [UnitInstances -> Nat]
    /\ existing_operands \in [UnitInstances -> SUBSET Instrs(F)]
    /\ existing_instructions \in [UnitInstances -> SUBSET Instrs(F)]
    /\ \A u \in UnitInstances :
          /\ existing_instructions[u] = {i \in Bindable : IsBoundTo(i, u)}
          /\ existing_operands[u] = ReadBy(existing_instructions[u])
          /\ mux_inputs[u] = Cardinality(existing_operands[u])

(* Where the groups come from. *)
Shared ==
    /\ groups \in [UnitInstances -> Seq(Seq(Instrs(F)))]
    /\ GroupsIndependent

BindInv == Addressed /\ Phases /\ Assigned /\ Known

BInv == IInv /\ LvaInv /\ BindInv /\ Shared

(* A sequence that has every element of a finite set, and is no longer than *)
(* needed, has none of them twice.                                          *)
LEMMA EnumerationIsInjective ==
    ASSUME NEW S, IsFiniteSet(S), NEW o \in Seq(S), ToSet(o) = S,
           DOMAIN o = 1..Cardinality(S)
    PROVE  \A k, m \in DOMAIN o : o[k] = o[m] => k = m
<1> DEFINE D == 1..Cardinality(S)
<1>1. Cardinality(S) \in Nat
  BY FS_CardinalityType
<1>2. IsFiniteSet(D) /\ Cardinality(D) = Cardinality(S)
  BY <1>1, FS_Interval
<1>3. o \in Surjection(D, S)
  <2>1. o \in [D -> S]
    <3>1. o \in [1..Len(o) -> S] /\ DOMAIN o = 1..Len(o)
      OBVIOUS
    <3>2. D = DOMAIN o
      OBVIOUS
    <3> HIDE DEF D
    <3> QED BY <3>1, <3>2
  <2>2. \A x \in S : \E k \in D : o[k] = x
    BY DEF ToSet
  <2> QED BY <2>1, <2>2 DEF Surjection
<1> HIDE DEF D
<1>4. o \in Injection(D, S)
  BY <1>2, <1>3, FS_SurjSameCardinalityImpliesInj
<1> QED BY <1>4 DEF Injection, IsInjective, D

(* A block that has an instruction with a unit is not empty.               *)
LEMMA BindableHasStates ==
    ASSUME input \in Schedules, NEW i \in Bindable
    PROVE  ~isBasicBlockEmpty(F, F.bb[i])
<1>1. IsControlFlow(F)
  BY SchedulesAssumption DEF F
<1>2. i \in Instrs(F) /\ F.bb[i] \in Blocks(F) /\ i \in BlockInstrs(F, F.bb[i])
  BY <1>1, ControlFlowShape DEF Bindable, BlockInstrs
<1> SUFFICES ASSUME isBasicBlockEmpty(F, F.bb[i]) PROVE FALSE
  OBVIOUS
<1>3. Cardinality(BlockInstrs(F, F.bb[i])) = 1
  BY DEF isBasicBlockEmpty
<1>4. PICK j \in BlockInstrs(F, F.bb[i]) : IsTerminator(F, j)
  BY <1>1, <1>2 DEF IsControlFlow, IsLaidOut
<1>5. i = j
  <2>1. BlockInstrs(F, F.bb[i]) \subseteq Instrs(F)
    BY DEF BlockInstrs
  <2>2. IsFiniteSet(BlockInstrs(F, F.bb[i]))
    BY <2>1, <1>1, ControlFlowShape, FS_Subset
  <2> QED BY <1>2, <1>3, <1>4, <2>2, FS_Singleton
<1>6. F.op[i] \in Terminators
  BY <1>4, <1>5 DEF IsTerminator
<1>7. FuOf(i) = NoUnit
  BY <1>6 DEF FuOf, getInstructionFu, Units, FuOps, Terminators
<1> QED BY <1>7 DEF Bindable

(* A finished machine has every instruction that has a unit in the list of *)
(* the state it starts in, and in no other.                                *)
LEMMA BindablePlaced ==
    ASSUME IInv, pc = "done", NEW i \in Bindable
    PROVE  /\ startState[i] \in DOMAIN state /\ startState[i] # Null
           /\ \A s \in DOMAIN state : i \in ToSet(state[s].instrs) <=> s = startState[i]
<1>1. input \in Schedules /\ IsControlFlow(F) /\ state \in Seq(StateRecords)
  BY SchedulesAssumption DEF IInv, ShapeOK, F
<1>2. i \in Instrs(F) /\ F.bb[i] \in Blocks(F) /\ i \in BlockInstrs(F, F.bb[i])
  BY <1>1, ControlFlowShape DEF Bindable, BlockInstrs
<1>3. ~isBasicBlockEmpty(F, F.bb[i])
  BY <1>1, BindableHasStates
<1>4. {s \in DOMAIN state : i \in ToSet(state[s].instrs)} = {startState[i]}
  BY <1>2, <1>3, InstructionsOfRuns DEF InstructionsPlaced
<1>5. startState[i] \in DOMAIN state
  BY <1>4
<1>6. startState[i] # Null
  BY <1>1, <1>5 DEF Null
<1> QED BY <1>4, <1>5, <1>6

(* The instructions of a unit that start in a state, in layout order. *)
LEMMA InstrsOfState ==
    ASSUME IInv, pc = "done", NEW s \in DOMAIN state, NEW unit \in Units
    PROVE  LET G == {i \in Bindable : startState[i] = s /\ FuOf(i) = unit}
           IN /\ InstrsOf(s, unit) \in Seq(G) /\ ToSet(InstrsOf(s, unit)) = G
              /\ \A k, m \in DOMAIN InstrsOf(s, unit) :
                    InstrsOf(s, unit)[k] = InstrsOf(s, unit)[m] => k = m
<1> DEFINE G == {i \in Bindable : startState[i] = s /\ FuOf(i) = unit}
           H == {i \in ToSet(state[s].instrs) : FuOf(i) = unit}
           o == LayoutOrder(G)
<1>1. input \in Schedules /\ IsControlFlow(F) /\ MapTypeOK
  BY SchedulesAssumption DEF IInv, ShapeOK, F
<1>2. Instrs(F) \subseteq Nat /\ IsFiniteSet(Instrs(F))
  BY <1>1, ControlFlowShape
<1>3. H = G
  <2>1. \A i \in ToSet(state[s].instrs) : i \in Instrs(F)
    <3>1. state[s].instrs \in Seq(Instrs(F))
      BY <1>1 DEF MapTypeOK
    <3> QED BY <3>1 DEF ToSet
  <2>2. unit # NoUnit
    BY DEF Units, FuOps, NoUnit
  <2>3. \A i \in H : i \in Bindable
    BY <2>1, <2>2 DEF Bindable
  <2> QED BY <2>3, BindablePlaced
<1>4. InstrsOf(s, unit) = o
  BY <1>3 DEF InstrsOf
<1>5. G \subseteq Nat /\ IsFiniteSet(G)
  <2>1. G \subseteq Instrs(F)
    BY DEF Bindable
  <2> QED BY <2>1, <1>2, FS_Subset
<1> HIDE DEF G
<1>6. o \in Seq(G) /\ ToSet(o) = G
  BY <1>5, LayoutOrderRange
<1>7. DOMAIN o = 1..Cardinality(G) /\ Cardinality(G) \in Nat
  BY <1>5, FS_CardinalityType DEF LayoutOrder
<1> HIDE DEF o
<1>8. \A k, m \in DOMAIN o : o[k] = o[m] => k = m
  BY <1>5, <1>6, <1>7, EnumerationIsInjective
<1> QED BY <1>4, <1>6, <1>8 DEF G

(* What a step that leaves the function alone cannot change.               *)
LEMMA SameFunction ==
    ASSUME UNCHANGED input
    PROVE  /\ F' = F /\ Bindable' = Bindable
           /\ \A i : FuOf(i)' = FuOf(i)
           /\ \A S : ReadBy(S)' = ReadBy(S)
<1>1. F' = F
  BY DEF F
<1>2. \A i : FuOf(i)' = FuOf(i) /\ Operands(i)' = Operands(i)
  BY <1>1 DEF FuOf, Operands
<1> QED BY <1>1, <1>2 DEF Bindable, ReadBy

(* The units of the instructions, and the instances there are.             *)
LEMMA UnitsOfInstructions ==
    /\ \A i \in Bindable : FuOf(i) \in Units
    /\ \A unit \in Units : unit # NoUnit /\ FuLimit(unit) \in 1..2
    /\ \A unit, n : <<unit, n>> \in UnitInstances <=> unit \in Units /\ n \in 0..(FuLimit(unit) - 1)
<1>1. \A i \in Bindable : FuOf(i) \in Units
  BY DEF Bindable, FuOf, getInstructionFu
<1>2. \A unit \in Units : unit # NoUnit /\ FuLimit(unit) \in 1..2
  BY DEF Units, FuOps, NoUnit, FuLimit
<1>3. \A unit, n : <<unit, n>> \in UnitInstances <=> unit \in Units /\ n \in 0..(FuLimit(unit) - 1)
  BY DEF UnitInstances
<1> QED BY <1>1, <1>2, <1>3

(* The instructions of a set read instructions, finitely many.             *)
LEMMA ReadByFinite ==
    ASSUME input \in Schedules, NEW S \in SUBSET Instrs(F)
    PROVE  ReadBy(S) \in SUBSET Instrs(F) /\ IsFiniteSet(ReadBy(S))
<1>1. IsControlFlow(F) /\ IsFiniteSet(Instrs(F))
  <2>1. IsControlFlow(F)
    BY SchedulesAssumption DEF F
  <2> QED BY <2>1, ControlFlowShape
<1>2. \A i \in Instrs(F) : \A n \in DOMAIN F.operands[i] :
         F.operands[i][n] > 0 => F.operands[i][n] \in Instrs(F)
  BY OperandsAssumption DEF F
<1>3. ReadBy(S) \in SUBSET Instrs(F)
  BY <1>2 DEF ReadBy, Operands
<1> QED BY <1>1, <1>3, FS_Subset

(* The masks stay what they are while LifetimeAnalysis does nothing.       *)
LEMMA LvaKept ==
    ASSUME LvaInv, UNCHANGED <<input, lvaVars>>
    PROVE  LvaInv'
<1>1. UNCHANGED <<lvaPc, lvaCursor, def, use, in, out, is_changed>> /\ F' = F /\ input' = input
  BY DEF lvaVars, F
<1>2. LvaShape'
  BY <1>1 DEF LvaInv, LvaShape, Lva!NoMask, Lva!Blocks
<1>3. MasksKnown'
  BY <1>1 DEF LvaInv, MasksKnown
<1>4. Settled'
  <2>1. \A b : Lva!LiveOut(b)' = Lva!LiveOut(b) /\ Lva!LiveIn(b)' = Lva!LiveIn(b)
    BY <1>1 DEF Lva!LiveOut, Lva!LiveIn, F
  <2> QED BY <2>1, <1>1 DEF LvaInv, Settled, Solved
<1>5. Below'
  <2>1. \A v, S : Lva!Closed(v, S)' <=> Lva!Closed(v, S)
    BY <1>1 DEF Lva!Closed, F
  <2> QED BY <2>1, <1>1 DEF LvaInv, Below
<1> QED BY <1>2, <1>3, <1>4, <1>5 DEF LvaInv

(* Nothing is bound in the beginning. *)
LEMMA InitBInv == Init => BInv
<1> SUFFICES ASSUME Init PROVE BInv
  OBVIOUS
<1>1. IInv /\ input \in Schedules
  BY InitIInv DEF Init, MapInit
<1>2. LvaInv
  BY <1>1, LvaInit DEF Init
<1>3. Addressed
  <2>1. IsFiniteSet(Bindable)
    <3>1. IsControlFlow(F)
      BY <1>1, SchedulesAssumption DEF F
    <3>2. IsFiniteSet(Instrs(F)) /\ Bindable \subseteq Instrs(F)
      BY <3>1, ControlFlowShape DEF Bindable
    <3> QED BY <3>2, FS_Subset
  <2> DEFINE n == Cardinality(Bindable)
  <2>2. address \in [1..n -> Bindable] /\ \A k, m \in 1..n : k # m => address[k] # address[m]
    BY DEF Init, SetToSeqs, Bindable
  <2>3. n \in Nat /\ IsFiniteSet(1..n) /\ Cardinality(1..n) = n
    BY <2>1, FS_CardinalityType, FS_Interval
  <2>4. address \in Injection(1..n, Bindable)
    <3> HIDE DEF n
    <3> QED BY <2>2 DEF Injection, IsInjective
  <2>5. address \in Surjection(1..n, Bindable)
    BY <2>1, <2>3, <2>4, FS_Injection
  <2>6. address \in Seq(Bindable) /\ DOMAIN address = 1..n
    <3> HIDE DEF n
    <3> QED BY <2>2, <2>3
  <2>7. ToSet(address) = Bindable
    <3> HIDE DEF n
    <3> QED BY <2>2, <2>5, <2>6 DEF ToSet, Surjection
  <2> HIDE DEF n
  <2> QED BY <2>2, <2>6, <2>7 DEF Addressed
<1>4. Phases
  BY DEF Init, MapInit, Phases
<1>5. Assigned
  <2>1. phase = "createFsm" /\ unitOf = [i \in Instrs(F) |-> Unbound]
    BY DEF Init
  <2>2. Bindable \subseteq Instrs(F)
    BY DEF Bindable
  <2> QED BY <2>1, <2>2 DEF Assigned
<1>6. Known
  <2>1. \A u \in UnitInstances : {i \in Bindable : IsBoundTo(i, u)} = {}
    BY DEF Init, IsBoundTo, Bindable
  <2>2. ReadBy({}) = {} /\ Cardinality({}) = 0
    BY FS_EmptySet DEF ReadBy
  <2> QED BY <2>1, <2>2 DEF Init, Known
<1>7. Shared
  <2>1. phase # "done" /\ groups = [u \in UnitInstances |-> << >>]
    BY DEF Init
  <2>2. << >> \in Seq(Seq(Instrs(F)))
    OBVIOUS
  <2> QED BY <2>1, <2>2 DEF Shared, GroupsIndependent
<1> QED BY <1>1, <1>2, <1>3, <1>4, <1>5, <1>6, <1>7 DEF BInv, BindInv

(* Building the machine leaves the binding alone. *)
LEMMA createFsmStep == BInv /\ createFsm => BInv'
<1> SUFFICES ASSUME BInv, createFsm PROVE BInv'
  OBVIOUS
<1>1. /\ MapNext /\ IInv /\ LvaInv /\ BindInv /\ Shared /\ phase = "createFsm"
      /\ phase' = IF pc' = "done" THEN "analize" ELSE phase
      /\ UNCHANGED <<lvaVars, address, todo, unitOf, mux_inputs, existing_operands,
                     existing_instructions, groups>>
  BY DEF BInv, createFsm
<1>2. input' = input
  BY <1>1 DEF MapNext, createFirstStates, linkWaitState, createChains, nameStates, Returned, mapVars
<1>3. /\ F' = F /\ Bindable' = Bindable /\ \A i : FuOf(i)' = FuOf(i)
      /\ \A S : ReadBy(S)' = ReadBy(S)
  BY <1>2, SameFunction
<1>4. IInv' /\ LvaInv'
  BY <1>1, <1>2, IInvKept, LvaKept
<1>5. Addressed'
  BY <1>1, <1>3 DEF BindInv, Addressed
<1>6. Phases'
  BY <1>1 DEF BindInv, Phases
<1>7. Assigned'
  <2>1. Assigned /\ phase' \in {"createFsm", "analize"}
    BY <1>1 DEF BindInv
  <2>2. \A i \in Instrs(F) : unitOf[i] = Unbound
    BY <1>1, <2>1 DEF Assigned
  <2>3. Bindable \subseteq Instrs(F)
    BY DEF Bindable
  <2> QED BY <2>1, <2>2, <2>3, <1>1, <1>3 DEF Assigned
<1>8. Known'
  BY <1>1, <1>3 DEF BindInv, Known, IsBoundTo
<1>9. Shared'
  BY <1>1, <1>3 DEF Shared, GroupsIndependent
<1> QED BY <1>4, <1>5, <1>6, <1>7, <1>8, <1>9 DEF BInv, BindInv

(* When the analysis is done, all instructions that have a unit are to be  *)
(* bound.                                                                  *)
LEMMA analizeStep == BInv /\ analize => BInv'
<1> SUFFICES ASSUME BInv, analize PROVE BInv'
  OBVIOUS
<1>1. /\ IInv /\ LvaInv /\ BindInv /\ Shared /\ phase = "analize" /\ pc = "done"
      /\ UNCHANGED <<mapVars, address, unitOf, mux_inputs, existing_operands,
                     existing_instructions, groups>>
      /\ UNCHANGED <<input, pc, state, startState>>
  BY DEF BInv, BindInv, Phases, analize, mapVars
<1>2. \/ /\ lvaPc' = "done"
         /\ todo' = {su \in (DOMAIN state) \X Units : InstrsOf(su[1], su[2]) # << >>}
         /\ phase' = IF todo' = {} THEN "shareRegisters" ELSE "bindFuInState"
      \/ UNCHANGED <<phase, todo>>
  BY DEF analize
<1>3. /\ F' = F /\ Bindable' = Bindable /\ \A i : FuOf(i)' = FuOf(i)
      /\ \A S : ReadBy(S)' = ReadBy(S)
  BY <1>1, SameFunction
<1>4. IInv'
  BY <1>1, IInvKept
<1>5. LvaInv'
  BY <1>1, initMasksStep, visitBlockStep DEF analize, Lva!LifetimeNext
<1>6. Addressed'
  BY <1>1, <1>3 DEF BindInv, Addressed
<1>7. Phases'
  <2>1. phase' \in {"analize", "bindFuInState", "shareRegisters"}
    BY <1>1, <1>2
  <2>2. phase' \in {"analize", "shareRegisters"} => todo' = {}
    BY <1>1, <1>2 DEF BindInv, Phases
  <2>3. todo' \subseteq (DOMAIN state') \X Units
    BY <1>1, <1>2 DEF BindInv, Phases
  <2>4. phase' # "analize" => lvaPc' = "done"
    BY <1>1, <1>2
  <2> QED BY <2>1, <2>2, <2>3, <2>4, <1>1 DEF Phases
<1>8. Assigned'
  <2>1. \A i \in Instrs(F) : unitOf[i] = Unbound
    BY <1>1 DEF BindInv, Assigned
  <2>2. CASE phase' = "analize"
    BY <2>1, <2>2, <1>1, <1>3 DEF BindInv, Assigned
  <2>3. CASE phase' # "analize"
    <3>1. todo' = {su \in (DOMAIN state) \X Units : InstrsOf(su[1], su[2]) # << >>}
      BY <2>3, <1>1, <1>2
    <3>2. ASSUME NEW i \in Bindable PROVE <<startState[i], FuOf(i)>> \in todo'
      <4>1. startState[i] \in DOMAIN state /\ FuOf(i) \in Units
        BY <1>1, BindablePlaced, UnitsOfInstructions
      <4>2. i \in ToSet(InstrsOf(startState[i], FuOf(i)))
        BY <4>1, <1>1, InstrsOfState
      <4>3. InstrsOf(startState[i], FuOf(i)) # << >>
        BY <4>2 DEF ToSet
      <4> QED BY <3>1, <4>1, <4>3
    <3>3. Bindable \subseteq Instrs(F)
      BY DEF Bindable
    <3> QED BY <2>1, <3>2, <3>3, <1>1, <1>3 DEF BindInv, Assigned
  <2> QED BY <2>2, <2>3
<1>9. Known'
  BY <1>1, <1>3 DEF BindInv, Known, IsBoundTo
<1>10. Shared'
  <2>1. phase' # "done"
    BY <1>1, <1>2
  <2> QED BY <2>1, <1>1, <1>3 DEF Shared, GroupsIndependent
<1> QED BY <1>4, <1>5, <1>6, <1>7, <1>8, <1>9, <1>10 DEF BInv, BindInv

(* A set grows by what is new in what is added. *)
LEMMA AddedToSet ==
    ASSUME NEW S, IsFiniteSet(S), NEW T, IsFiniteSet(T)
    PROVE  Cardinality(S \cup T) = Cardinality(S) + Cardinality(T \ S)
<1>1. PICK N : N = T \ S
  OBVIOUS
<1>2. IsFiniteSet(N)
  BY <1>1, FS_Difference
<1>3. S \cup N = S \cup T /\ S \cap N = {}
  BY <1>1
<1>4. Cardinality(S \cup N) = Cardinality(S) + Cardinality(N) - Cardinality({})
  <2>1. Cardinality(S \cup N) = Cardinality(S) + Cardinality(N) - Cardinality(S \cap N)
    BY <1>2, FS_Union
  <2> QED BY <2>1, <1>3
<1>5. Cardinality(S) \in Nat /\ Cardinality(N) \in Nat /\ Cardinality({}) = 0
  BY <1>2, FS_CardinalityType, FS_EmptySet
<1>6. Cardinality(S \cup N) = Cardinality(S) + Cardinality(N)
  BY <1>4, <1>5
<1> QED BY <1>1, <1>3, <1>6

(* The instances an assignment gives to the instructions of a state.       *)
LEMMA AssignmentGives ==
    ASSUME NEW G \in SUBSET Instrs(F), NEW seq \in Seq(G), ToSet(seq) = G,
           NEW unit, NEW f \in Assignments(seq, unit), updateAssignment(seq, unit, f),
           NEW n \in Nat, n = FuLimit(unit), UNCHANGED input,
           \A i \in G : FuOf(i) = unit,
           \A k, m \in DOMAIN seq : seq[k] = seq[m] => k = m
    PROVE  /\ unitOf' = [i \in Instrs(F) |-> IF i \in G THEN unitOf'[i] ELSE unitOf[i]]
           /\ \A i \in G : unitOf'[i] \in 0..(n - 1)
           /\ \A i, j \in G : i # j => unitOf'[i] # unitOf'[j]
           /\ \A u : Given(seq, unit, f, u) = {i \in G : IsBoundTo(i, u)'}
<1>1. f \in [DOMAIN seq -> 0..(n - 1)] /\ \A k, m \in DOMAIN seq : f[k] = f[m] => k = m
  BY DEF Assignments, IsInjective
<1>2. \A i \in G : Position(seq, i) \in DOMAIN seq /\ seq[Position(seq, i)] = i
  BY DEF Position, ToSet
<1>3. unitOf' = [i \in Instrs(F) |-> IF i \in G THEN f[Position(seq, i)] ELSE unitOf[i]]
  BY DEF updateAssignment
<1>4. \A i \in G : unitOf'[i] = f[Position(seq, i)] /\ unitOf'[i] \in 0..(n - 1)
  BY <1>1, <1>2, <1>3
<1>5. \A i, j \in G : i # j => unitOf'[i] # unitOf'[j]
  <2> SUFFICES ASSUME NEW i \in G, NEW j \in G, unitOf'[i] = unitOf'[j] PROVE i = j
    OBVIOUS
  <2>1. Position(seq, i) = Position(seq, j)
    BY <1>1, <1>2, <1>4
  <2> QED BY <2>1, <1>2
<1>6. ASSUME NEW u PROVE Given(seq, unit, f, u) = {i \in G : IsBoundTo(i, u)'}
  <2>1. \A i \in G : IsBoundTo(i, u)' <=> <<unit, unitOf'[i]>> = u
    <3>1. \A i \in G : FuOf(i)' = unit
      BY SameFunction
    <3>2. \A i \in G : unitOf'[i] # Unbound
      BY <1>4 DEF Unbound
    <3> QED BY <3>1, <3>2 DEF IsBoundTo
  <2>2. ASSUME NEW k \in DOMAIN seq PROVE seq[k] \in G /\ unitOf'[seq[k]] = f[k]
    <3>1. seq[k] \in G
      OBVIOUS
    <3>2. Position(seq, seq[k]) = k
      BY <3>1, <1>2
    <3> QED BY <3>1, <3>2, <1>4
  <2> QED BY <2>1, <2>2, <1>2, <1>4 DEF Given
<1> QED BY <1>3, <1>4, <1>5, <1>6

(* The binder knows as much of an instance when instructions are bound.    *)
LEMMA KnownKept ==
    ASSUME input \in Schedules, UNCHANGED input, Known,
           NEW G \in SUBSET Bindable, NEW seq, NEW unit, NEW f, updateAssignment(seq, unit, f),
           \A i \in Bindable : i \notin G => unitOf'[i] = unitOf[i],
           \A i \in G : unitOf[i] = Unbound,
           \A u : Given(seq, unit, f, u) = {i \in G : IsBoundTo(i, u)'}
    PROVE  Known'
<1>1. /\ F' = F /\ Bindable' = Bindable /\ UnitInstances' = UnitInstances
      /\ \A i : FuOf(i)' = FuOf(i) /\ \A S : ReadBy(S)' = ReadBy(S)
      /\ Bindable \subseteq Instrs(F)
  BY SameFunction DEF UnitInstances, Bindable
<1>2. ASSUME NEW u \in UnitInstances
      PROVE  LET E == {i \in Bindable : IsBoundTo(i, u)'}
                 R == ReadBy(E)
             IN /\ existing_instructions'[u] = E
                /\ existing_operands'[u] = R
                /\ mux_inputs'[u] = Cardinality(R)
                /\ mux_inputs'[u] \in Nat /\ E \in SUBSET Instrs(F) /\ R \in SUBSET Instrs(F)
  <2> DEFINE E == {i \in Bindable : IsBoundTo(i, u)'}
             g == Given(seq, unit, f, u)
             before == existing_instructions[u]
  <2>1. /\ existing_instructions'[u] = before \cup g
        /\ existing_operands'[u] = existing_operands[u] \cup ReadBy(g)
        /\ mux_inputs'[u] = mux_inputs[u] + Cardinality(ReadBy(g) \ existing_operands[u])
    BY DEF updateAssignment, NewInputs
  <2>2. /\ before = {i \in Bindable : IsBoundTo(i, u)} /\ before \in SUBSET Instrs(F)
        /\ existing_operands[u] = ReadBy(before)
        /\ mux_inputs[u] = Cardinality(existing_operands[u])
    BY DEF Known
  <2>3. E = before \cup g
    <3>1. g = {i \in G : IsBoundTo(i, u)'}
      OBVIOUS
    <3>2. \A i \in Bindable \ G : IsBoundTo(i, u)' <=> IsBoundTo(i, u)
      BY <1>1 DEF IsBoundTo
    <3>3. \A i \in G : ~IsBoundTo(i, u)
      BY DEF IsBoundTo
    <3> HIDE DEF g, before
    <3> QED BY <3>1, <3>2, <3>3, <2>2
  <2>4. g \in SUBSET Instrs(F) /\ E \in SUBSET Instrs(F)
    BY <1>1, <2>3
  <2> HIDE DEF E, g, before
  <2>5. /\ ReadBy(before) \in SUBSET Instrs(F) /\ IsFiniteSet(ReadBy(before))
        /\ ReadBy(g) \in SUBSET Instrs(F) /\ IsFiniteSet(ReadBy(g))
    BY <2>2, <2>4, ReadByFinite
  <2>6. ReadBy(E) = ReadBy(before) \cup ReadBy(g)
    BY <2>3 DEF ReadBy
  <2>7. mux_inputs'[u] = Cardinality(ReadBy(E))
    BY <2>1, <2>2, <2>5, <2>6, AddedToSet
  <2>8. Cardinality(ReadBy(E)) \in Nat /\ ReadBy(E) \in SUBSET Instrs(F)
    BY <2>4, ReadByFinite, FS_CardinalityType
  <2> QED BY <2>1, <2>2, <2>3, <2>4, <2>6, <2>7, <2>8 DEF E
<1>3. /\ mux_inputs' = [u \in UnitInstances |-> mux_inputs'[u]]
      /\ existing_operands' = [u \in UnitInstances |-> existing_operands'[u]]
      /\ existing_instructions' = [u \in UnitInstances |-> existing_instructions'[u]]
  BY DEF updateAssignment
<1>4. /\ mux_inputs' \in [UnitInstances -> Nat]
      /\ existing_operands' \in [UnitInstances -> SUBSET Instrs(F)]
      /\ existing_instructions' \in [UnitInstances -> SUBSET Instrs(F)]
  BY <1>2, <1>3
<1> QED BY <1>1, <1>2, <1>4 DEF Known

(* The states and their instructions are what they were.                   *)
LEMMA FitsKept ==
    ASSUME UNCHANGED mapVars, ~Fits
    PROVE  ~Fits'
<1>1. UNCHANGED <<input, state>> /\ \A i : FuOf(i)' = FuOf(i)
  BY SameFunction DEF mapVars
<1>2. \A s, u : InstrsOf(s, u)' = InstrsOf(s, u)
  BY <1>1 DEF InstrsOf
<1> QED BY <1>1, <1>2 DEF Fits

(* An instance for each of the instructions of a unit that start in a      *)
(* state, or the assertion if there are too many.                          *)
LEMMA bindFuInStateStep == \A unit \in Units : BInv /\ bindFuInState(unit) => BInv'
<1> SUFFICES ASSUME NEW unit \in Units, BInv, bindFuInState(unit) PROVE BInv'
  OBVIOUS
<1>1. PICK s : s = NextState
  OBVIOUS
<1>2. PICK seq : seq = InstrsOf(s, unit)
  OBVIOUS
<1> DEFINE G == {i \in Bindable : startState[i] = s /\ FuOf(i) = unit}
<1>3. /\ IInv /\ LvaInv /\ Addressed /\ Phases /\ Assigned /\ Known /\ Shared
      /\ phase = "bindFuInState" /\ pc = "done" /\ input \in Schedules
      /\ <<s, unit>> \in todo /\ s \in DOMAIN state
      /\ UNCHANGED <<mapVars, lvaVars, address, groups>>
      /\ UNCHANGED <<input, pc, state, startState>>
  BY <1>1 DEF BInv, BindInv, IInv, ShapeOK, Phases, bindFuInState, mapVars
<1>4. /\ F' = F /\ Bindable' = Bindable /\ \A i : FuOf(i)' = FuOf(i)
      /\ \A S : ReadBy(S)' = ReadBy(S) /\ Bindable \subseteq Instrs(F)
  BY <1>3, SameFunction DEF Bindable
<1>5. IInv' /\ LvaInv'
  BY <1>3, IInvKept, LvaKept
<1>6. Addressed'
  BY <1>3, <1>4 DEF Addressed
<1>7. seq \in Seq(G) /\ ToSet(seq) = G /\ \A k, m \in DOMAIN seq : seq[k] = seq[m] => k = m
  BY <1>2, <1>3, InstrsOfState
<1>8. phase' # "done" => Shared'
  BY <1>3, <1>4 DEF Shared, GroupsIndependent
<1>9. CASE Len(seq) > FuLimit(unit)
  <2>1. phase' = "assertion" /\ UNCHANGED <<todo, unitOf, mux_inputs, existing_operands, existing_instructions>>
    BY <1>1, <1>2, <1>9 DEF bindFuInState
  <2>2. ~Fits'
    <3>1. ~Fits
      <4>1. Len(seq) \in Nat /\ FuLimit(unit) \in Nat
        BY <1>7, UnitsOfInstructions
      <4>2. ~(Len(seq) <= FuLimit(unit))
        BY <4>1, <1>9
      <4> QED BY <4>2, <1>2, <1>3 DEF Fits
    <3> QED BY <3>1, <1>3, FitsKept
  <2>3. Phases'
    BY <2>1, <2>2, <1>3 DEF Phases, lvaVars
  <2>4. Assigned'
    BY <2>1, <1>3, <1>4 DEF Assigned
  <2>5. Known'
    BY <2>1, <1>3, <1>4 DEF Known, IsBoundTo
  <2> QED BY <2>1, <2>3, <2>4, <2>5, <1>5, <1>6, <1>8 DEF BInv, BindInv
<1>10. CASE ~(Len(seq) > FuLimit(unit))
  <2>1. /\ todo' = todo \ {<<s, unit>>}
        /\ phase' = IF todo' = {} THEN "shareRegisters" ELSE phase
    BY <1>1, <1>2, <1>10 DEF bindFuInState
  <2>2. PICK f \in Assignments(seq, unit) : updateAssignment(seq, unit, f)
    BY <1>1, <1>2, <1>10 DEF bindFuInState
  <2>3. PICK n \in Nat : n = FuLimit(unit)
    BY UnitsOfInstructions
  <2>4. G \in SUBSET Bindable /\ G \in SUBSET Instrs(F) /\ \A i \in G : FuOf(i) = unit
    BY <1>4
  <2>5. \A i \in Bindable : <<startState[i], FuOf(i)>> = <<s, unit>> <=> i \in G
    OBVIOUS
  <2>6. \A i, j \in Bindable :
           startState[i] = startState[j] /\ FuOf(i) = FuOf(j) => (i \in G <=> j \in G)
    OBVIOUS
  <2> HIDE DEF G
  <2>7. /\ unitOf' = [i \in Instrs(F) |-> IF i \in G THEN unitOf'[i] ELSE unitOf[i]]
        /\ \A i \in G : unitOf'[i] \in 0..(n - 1)
        /\ \A i, j \in G : i # j => unitOf'[i] # unitOf'[j]
        /\ \A u : Given(seq, unit, f, u) = {i \in G : IsBoundTo(i, u)'}
    BY <2>2, <2>3, <2>4, <1>3, <1>7, AssignmentGives
  <2>8. \A i \in Instrs(F) : i \notin G => unitOf'[i] = unitOf[i]
    BY <2>7
  <2>9. \A i \in G : unitOf[i] = Unbound
    BY <2>4, <2>5, <1>3 DEF Assigned
  <2>10. \A i \in G : unitOf'[i] \in Nat /\ unitOf'[i] # Unbound
    BY <2>3, <2>7 DEF Unbound
  <2>11. Phases'
    <3>1. todo' \subseteq todo /\ phase' \in {"bindFuInState", "shareRegisters"}
      BY <2>1, <1>3
    <3>2. phase' = "shareRegisters" => todo' = {}
      BY <2>1, <1>3
    <3> QED BY <3>1, <3>2, <1>3 DEF Phases, lvaVars
  <2>12. Assigned'
    <3>1. unitOf' \in [Instrs(F) -> {Unbound} \cup Nat]
      <4>1. \A i \in Instrs(F) : unitOf'[i] \in {Unbound} \cup Nat
        BY <2>8, <2>10, <1>3 DEF Assigned
      <4> QED BY <4>1, <2>7
    <3>2. ASSUME NEW i \in Instrs(F), unitOf'[i] # Unbound
          PROVE  i \in Bindable /\ <<FuOf(i), unitOf'[i]>> \in UnitInstances
      <4>1. CASE i \in G
        BY <4>1, <2>3, <2>4, <2>7, UnitsOfInstructions
      <4>2. CASE i \notin G
        BY <4>2, <3>2, <2>8, <1>3 DEF Assigned
      <4> QED BY <4>1, <4>2
    <3>3. ASSUME NEW i \in Bindable
          PROVE  unitOf'[i] # Unbound <=> <<startState[i], FuOf(i)>> \notin todo'
      <4>1. CASE i \in G
        BY <4>1, <2>1, <2>5, <2>10
      <4>2. CASE i \notin G
        <5>1. unitOf[i] # Unbound <=> <<startState[i], FuOf(i)>> \notin todo
          BY <1>3 DEF Assigned
        <5> QED BY <5>1, <4>2, <2>1, <2>5, <2>8, <1>4
      <4> QED BY <4>1, <4>2
    <3>4. ASSUME NEW i \in Bindable, NEW j \in Bindable, i # j,
                 startState[i] = startState[j], FuOf(i) = FuOf(j), unitOf'[i] # Unbound
          PROVE  unitOf'[i] # unitOf'[j]
      <4>1. CASE i \in G
        BY <4>1, <3>4, <2>6, <2>7
      <4>2. CASE i \notin G
        <5>1. j \notin G /\ unitOf'[i] = unitOf[i] /\ unitOf'[j] = unitOf[j]
          BY <4>2, <3>4, <2>6, <2>8, <1>4
        <5> QED BY <5>1, <3>4, <1>3 DEF Assigned
      <4> QED BY <4>1, <4>2
    <3>5. phase' \in {"bindFuInState", "shareRegisters"} /\ UnitInstances' = UnitInstances
      BY <2>1, <1>3 DEF UnitInstances
    <3> QED BY <3>1, <3>2, <3>3, <3>4, <3>5, <1>3, <1>4 DEF Assigned
  <2>13. Known'
    BY <2>2, <2>4, <2>7, <2>8, <2>9, <1>3, <1>4, KnownKept
  <2>14. phase' # "done"
    BY <2>1, <1>3
  <2> QED BY <2>11, <2>12, <2>13, <2>14, <1>5, <1>6, <1>8 DEF BInv, BindInv
<1> QED BY <1>9, <1>10


-----------------------------------------------------------------------------
(* The groups.                                                             *)

(* What is found independent depends on nothing that sharing changes.      *)
LEMMA IndependentKept ==
    ASSUME UNCHANGED <<mapVars, lvaVars, address>>
    PROVE  \A x, y : AreIndependent(x, y)' <=> AreIndependent(x, y)
<1>1. /\ UNCHANGED <<input, list, state, endState, def, use, in, out, address>> /\ F' = F
  BY DEF mapVars, lvaVars, F
<1>2. \A s, n : Follow(s, n)' = Follow(s, n)
  BY <1>1 DEF Follow
<1>3. \A b : ChainStart(b)' = ChainStart(b)
  BY <1>1 DEF ChainStart, SelectInSeq
<1>4. \A b, n : Follow(ChainStart(b), n)' = Follow(ChainStart(b), n)
  BY <1>1, <1>3 DEF Follow
<1>5. \A b : LastOrder(b)' = LastOrder(b)
  BY <1>1, <1>4 DEF LastOrder
<1>6. \A s : Order(s)' = Order(s) /\ (Encoded(s)' <=> Encoded(s))
  BY <1>1, <1>4, <1>5 DEF Order, Encoded
<1>7. \A i : Users(i)' = Users(i)
  BY <1>1 DEF Users
<1>8. \A i, b : /\ DefStates(i, b)' = DefStates(i, b)
                /\ UseStates(i, b)' = UseStates(i, b)
                /\ LiveInOut(i, b)' = LiveInOut(i, b)
  BY <1>1, <1>5, <1>6, <1>7 DEF DefStates, UseStates, LiveInOut
<1>9. \A x, y, b : IndependentIn(x, y, b)' <=> IndependentIn(x, y, b)
  BY <1>8 DEF IndependentIn
<1>10. \A i : LiveBlocks(i)' = LiveBlocks(i)
  BY <1>1 DEF LiveBlocks
<1>11. \A x, y : Independent(x, y)' <=> Independent(x, y)
  BY <1>9, <1>10 DEF Independent
<1> QED BY <1>1, <1>11 DEF AreIndependent


(* The groups g have the instructions of S, each of them once, and any two *)
(* of a group were found independent.                                      *)
Grouped(g, S) ==
    /\ g \in Seq(Seq(Instrs(F)))
    /\ \A n \in DOMAIN g : \A k \in DOMAIN g[n] : g[n][k] \in S
    /\ \A x \in S : \E n \in DOMAIN g : \E k \in DOMAIN g[n] : g[n][k] = x
    /\ \A n, m \in DOMAIN g : \A k \in DOMAIN g[n] : \A l \in DOMAIN g[m] :
          g[n][k] = g[m][l] => n = m /\ k = l
    /\ \A n \in DOMAIN g : \A k, l \in DOMAIN g[n] : k # l => AreIndependent(g[n][k], g[n][l])

(* The order in which two instructions are compared does not matter.       *)
LEMMA IndependenceIsMutual ==
    ASSUME Addressed, NEW x \in Bindable, NEW y \in Bindable, x # y
    PROVE  AreIndependent(x, y) <=> AreIndependent(y, x)
<1>1. PICK p, q : p = Position(address, x) /\ q = Position(address, y)
  OBVIOUS
<1>2. p \in DOMAIN address /\ address[p] = x /\ q \in DOMAIN address /\ address[q] = y
  BY <1>1 DEF Addressed, ToSet, Position
<1>3. p \in Nat /\ q \in Nat /\ p # q
  BY <1>2 DEF Addressed
<1> QED BY <1>1, <1>3 DEF AreIndependent

(* A group that an instruction fits in takes it, or it gets one alone.     *)
LEMMA JoinedCases ==
    ASSUME NEW g \in Seq(Seq(Instrs(F))), NEW i
    PROVE  \/ Joined(g, i) = Append(g, <<i>>)
           \/ \E n \in DOMAIN g :
                 /\ Joined(g, i) = [g EXCEPT ![n] = Append(g[n], i)]
                 /\ \A m \in DOMAIN g[n] : AreIndependent(g[n][m], i)
<1> DEFINE fits == {n \in DOMAIN g : \A m \in DOMAIN g[n] : AreIndependent(g[n][m], i)}
<1>1. CASE fits = {}
  BY <1>1 DEF Joined
<1>2. CASE fits # {}
  <2>1. fits \subseteq Int /\ IsFiniteSet(fits)
    <3>1. IsFiniteSet(1..Len(g)) /\ DOMAIN g = 1..Len(g) /\ Len(g) \in Nat
      <4>1. Len(g) \in Nat /\ DOMAIN g = 1..Len(g) /\ 1 \in Int /\ Len(g) \in Int
        OBVIOUS
      <4> QED BY <4>1, FS_Interval
    <3>2. fits \subseteq 1..Len(g)
      BY <3>1
    <3> QED BY <3>1, <3>2, FS_Subset
  <2>2. Joined(g, i) = [g EXCEPT ![Min(fits)] = Append(g[Min(fits)], i)]
    BY <1>2 DEF Joined
  <2>3. PICK n : n = Min(fits)
    OBVIOUS
  <2>4. n \in fits
    <3> HIDE DEF fits
    <3> QED BY <1>2, <2>1, <2>3, MinIsLeast
  <2> QED BY <2>2, <2>3, <2>4
<1> QED BY <1>1, <1>2

(* Either way the groups stay what they have to be. *)
LEMMA JoinedKeeps ==
    ASSUME NEW S \in SUBSET Instrs(F), NEW g, Grouped(g, S), NEW i \in Instrs(F), i \notin S,
           \A x \in S : AreIndependent(x, i) <=> AreIndependent(i, x)
    PROVE  Grouped(Joined(g, i), S \cup {i})
<1>1. /\ g \in Seq(Seq(Instrs(F))) /\ DOMAIN g = 1..Len(g) /\ Len(g) \in Nat
      /\ \A n \in DOMAIN g : /\ g[n] \in Seq(Instrs(F)) /\ Len(g[n]) \in Nat
                             /\ DOMAIN g[n] = 1..Len(g[n])
  <2>1. g \in Seq(Seq(Instrs(F)))
    BY DEF Grouped
  <2>2. \A n \in DOMAIN g : g[n] \in Seq(Instrs(F))
    BY <2>1
  <2> QED BY <2>1, <2>2
<1>2. /\ \A n \in DOMAIN g : \A k \in DOMAIN g[n] : g[n][k] \in S
      /\ \A x \in S : \E n \in DOMAIN g : \E k \in DOMAIN g[n] : g[n][k] = x
      /\ \A n, m \in DOMAIN g : \A k \in DOMAIN g[n] : \A l \in DOMAIN g[m] :
            g[n][k] = g[m][l] => n = m /\ k = l
      /\ \A n \in DOMAIN g : \A k, l \in DOMAIN g[n] : k # l => AreIndependent(g[n][k], g[n][l])
  BY DEF Grouped
<1>3. PICK h : h = Joined(g, i)
  OBVIOUS
<1>4. CASE h = Append(g, <<i>>)
  <2>1. PICK e : e = Len(g) + 1
    OBVIOUS
  <2>2. /\ DOMAIN h = DOMAIN g \cup {e} /\ e \notin DOMAIN g
        /\ \A n \in DOMAIN g : h[n] = g[n]
        /\ h[e] = <<i>>
    BY <1>1, <1>4, <2>1
  <2>3. DOMAIN h[e] = {1} /\ h[e][1] = i
    <3>1. DOMAIN <<i>> = {1} /\ <<i>>[1] = i
      OBVIOUS
    <3> QED BY <3>1, <2>2
  <2>4. h \in Seq(Seq(Instrs(F)))
    <3>1. <<i>> \in Seq(Instrs(F))
      OBVIOUS
    <3> QED BY <3>1, <1>1, <1>4
  <2>5. \A n \in DOMAIN h : \A k \in DOMAIN h[n] : h[n][k] \in S \cup {i}
    BY <1>2, <2>2, <2>3
  <2>6. \A x \in S \cup {i} : \E n \in DOMAIN h : \E k \in DOMAIN h[n] : h[n][k] = x
    <3>1. \A x \in S : \E n \in DOMAIN h : \E k \in DOMAIN h[n] : h[n][k] = x
      BY <1>2, <2>2
    <3>2. e \in DOMAIN h /\ 1 \in DOMAIN h[e] /\ h[e][1] = i
      BY <2>2, <2>3
    <3> QED BY <3>1, <3>2
  <2>7. ASSUME NEW n \in DOMAIN h, NEW m \in DOMAIN h, NEW k \in DOMAIN h[n], NEW l \in DOMAIN h[m],
               h[n][k] = h[m][l]
        PROVE  n = m /\ k = l
    <3>1. (n = e /\ k = 1 /\ h[n][k] = i) \/ (n \in DOMAIN g /\ h[n] = g[n] /\ h[n][k] \in S)
      BY <1>2, <2>2, <2>3
    <3>2. (m = e /\ l = 1 /\ h[m][l] = i) \/ (m \in DOMAIN g /\ h[m] = g[m] /\ h[m][l] \in S)
      BY <1>2, <2>2, <2>3
    <3> QED BY <3>1, <3>2, <2>7, <1>2
  <2>8. \A n \in DOMAIN h : \A k, l \in DOMAIN h[n] : k # l => AreIndependent(h[n][k], h[n][l])
    BY <1>2, <2>2, <2>3
  <2> QED BY <1>3, <2>4, <2>5, <2>6, <2>7, <2>8 DEF Grouped
<1>5. ASSUME NEW w \in DOMAIN g, h = [g EXCEPT ![w] = Append(g[w], i)],
             \A m \in DOMAIN g[w] : AreIndependent(g[w][m], i)
      PROVE  Grouped(h, S \cup {i})
  <2>1. PICK e : e = Len(g[w]) + 1
    OBVIOUS
  <2>2. /\ DOMAIN h = DOMAIN g /\ h[w] = Append(g[w], i)
        /\ \A n \in DOMAIN g : n # w => h[n] = g[n]
    BY <1>5
  <2>3. /\ DOMAIN h[w] = DOMAIN g[w] \cup {e} /\ e \notin DOMAIN g[w]
        /\ \A k \in DOMAIN g[w] : h[w][k] = g[w][k]
        /\ h[w][e] = i
    BY <1>1, <2>1, <2>2
  <2>4. h \in Seq(Seq(Instrs(F)))
    <3>1. Append(g[w], i) \in Seq(Instrs(F))
      BY <1>1
    <3> QED BY <3>1, <1>1, <1>5
  <2>5. ASSUME NEW n \in DOMAIN h, NEW k \in DOMAIN h[n]
        PROVE  \/ n = w /\ k = e /\ h[n][k] = i
               \/ n \in DOMAIN g /\ k \in DOMAIN g[n] /\ h[n][k] = g[n][k] /\ h[n][k] \in S
    <3>1. CASE n = w
      BY <3>1, <1>2, <2>3
    <3>2. CASE n # w
      BY <3>2, <1>2, <2>2
    <3> QED BY <3>1, <3>2
  <2>6. \A n \in DOMAIN h : \A k \in DOMAIN h[n] : h[n][k] \in S \cup {i}
    BY <2>5
  <2>7. \A x \in S \cup {i} : \E n \in DOMAIN h : \E k \in DOMAIN h[n] : h[n][k] = x
    <3>1. ASSUME NEW x \in S PROVE \E n \in DOMAIN h : \E k \in DOMAIN h[n] : h[n][k] = x
      <4>1. PICK n \in DOMAIN g : \E k \in DOMAIN g[n] : g[n][k] = x
        BY <1>2
      <4>2. PICK k \in DOMAIN g[n] : g[n][k] = x
        BY <4>1
      <4>3. n \in DOMAIN h /\ k \in DOMAIN h[n] /\ h[n][k] = x
        BY <4>2, <2>2, <2>3
      <4> QED BY <4>3
    <3>2. w \in DOMAIN h /\ e \in DOMAIN h[w] /\ h[w][e] = i
      BY <2>2, <2>3
    <3> QED BY <3>1, <3>2
  <2>8. ASSUME NEW n \in DOMAIN h, NEW m \in DOMAIN h, NEW k \in DOMAIN h[n], NEW l \in DOMAIN h[m],
               h[n][k] = h[m][l]
        PROVE  n = m /\ k = l
    BY <2>5, <2>8, <1>2
  <2>9. ASSUME NEW n \in DOMAIN h, NEW k \in DOMAIN h[n], NEW l \in DOMAIN h[n], k # l
        PROVE  AreIndependent(h[n][k], h[n][l])
    <3>1. CASE n = w /\ k = e
      <4>1. l \in DOMAIN g[w] /\ h[n][k] = i /\ h[n][l] = g[w][l] /\ g[w][l] \in S
        BY <3>1, <2>3, <2>9, <1>2
      <4>2. AreIndependent(g[w][l], i)
        BY <4>1, <1>5
      <4> QED BY <4>1, <4>2
    <3>2. CASE n = w /\ l = e
      <4>1. k \in DOMAIN g[w] /\ h[n][l] = i /\ h[n][k] = g[w][k]
        BY <3>2, <2>3, <2>9
      <4> QED BY <4>1, <1>5
    <3>3. CASE ~(n = w /\ k = e) /\ ~(n = w /\ l = e)
      <4>1. n \in DOMAIN g /\ k \in DOMAIN g[n] /\ h[n][k] = g[n][k]
        BY <3>3, <2>5
      <4>2. l \in DOMAIN g[n] /\ h[n][l] = g[n][l]
        BY <3>3, <2>5
      <4> QED BY <4>1, <4>2, <2>9, <1>2
    <3> QED BY <3>1, <3>2, <3>3
  <2> QED BY <2>4, <2>6, <2>7, <2>8, <2>9 DEF Grouped
<1> QED BY <1>1, <1>3, <1>4, <1>5, JoinedCases


(* All the instructions of a sequence are grouped. *)
LEMMA SequenceGrouped ==
    ASSUME Addressed, NEW seq \in Seq(Bindable),
           \A k, m \in DOMAIN seq : seq[k] = seq[m] => k = m
    PROVE  Grouped(GroupsOf(seq), ToSet(seq))
<1> DEFINE S == Seq(Seq(Instrs(F)))
           n == Len(seq)
           step == [j \in 1..n |-> [g \in S |-> Joined(g, seq[j])]]
           grouped[k \in 0..n] == IF k = 0 THEN << >> ELSE Joined(grouped[k - 1], seq[k])
           first(k) == {seq[j] : j \in 1..k}
<1>1. n \in Nat /\ DOMAIN seq = 1..n /\ \A j \in 1..n : seq[j] \in Bindable
  OBVIOUS
<1>2. \A j \in 1..n : seq[j] \in Instrs(F)
  BY <1>1 DEF Bindable
<1>3. << >> \in S
  OBVIOUS
<1>4. ASSUME NEW g \in S, NEW i \in Instrs(F) PROVE Joined(g, i) \in S
  <2>1. <<i>> \in Seq(Instrs(F)) /\ Append(g, <<i>>) \in S
    OBVIOUS
  <2>2. ASSUME NEW m \in DOMAIN g PROVE [g EXCEPT ![m] = Append(g[m], i)] \in S
    <3>1. g[m] \in Seq(Instrs(F))
      OBVIOUS
    <3>2. Append(g[m], i) \in Seq(Instrs(F))
      BY <3>1
    <3> QED BY <3>2
  <2>3. \/ Joined(g, i) = Append(g, <<i>>)
        \/ \E m \in DOMAIN g : Joined(g, i) = [g EXCEPT ![m] = Append(g[m], i)]
    BY JoinedCases
  <2> HIDE DEF S
  <2> QED BY <2>1, <2>2, <2>3
<1>5. AreSteps(step, n, S) /\ \A j \in 1..n : \A g \in S : step[j][g] = Joined(g, seq[j])
  <2> HIDE DEF S
  <2> QED BY <1>2, <1>4 DEF AreSteps
<1>6. GroupsOf(seq) = grouped[n]
  BY DEF GroupsOf, grouped
<1> HIDE DEF n, S, step
<1>7. PICK f : IsIterated(f, step, n, S, << >>)
  <2> HIDE DEF grouped
  <2> QED BY <1>1, <1>3, <1>5, RecursionUpTo
<1>8. f \in [0..n -> S] /\ f[0] = << >> /\ \A k \in 1..n : f[k] = Joined(f[k - 1], seq[k])
  <2>1. f \in [0..n -> S] /\ f[0] = << >> /\ \A k \in 1..n : f[k] = step[k][f[k - 1]]
    BY <1>7 DEF IsIterated
  <2>2. \A k \in 1..n : k - 1 \in 0..n
    BY <1>1
  <2> QED BY <1>5, <2>1, <2>2
<1>9. f = [k \in 0..n |-> IF k = 0 THEN << >> ELSE Joined(f[k - 1], seq[k])]
  <2>1. \A k \in 0..n : f[k] = IF k = 0 THEN << >> ELSE Joined(f[k - 1], seq[k])
    BY <1>1, <1>8
  <2> QED BY <1>8, <2>1
<1>10. grouped = [k \in 0..n |-> IF k = 0 THEN << >> ELSE Joined(grouped[k - 1], seq[k])]
  BY <1>9
<1> HIDE DEF grouped
<1> DEFINE T == {k \in 0..n : Grouped(grouped[k], first(k))}
<1>11. 0 \in T
  <2>1. first(0) = {} /\ 0 \in 0..n /\ grouped[0] = << >>
    BY <1>1, <1>10
  <2>2. Grouped(<< >>, {})
    BY DEF Grouped
  <2> QED BY <2>1, <2>2
<1>12. ASSUME NEW k \in 0..(n - 1), k \in T PROVE k + 1 \in T
  <2>1. k + 1 \in 0..n /\ k + 1 \in 1..n /\ (k + 1) - 1 = k /\ k + 1 # 0 /\ k \in Nat
    BY <1>1
  <2>2. grouped[k + 1] = Joined(grouped[k], seq[k + 1])
    BY <2>1, <1>10
  <2>3. first(k + 1) = first(k) \cup {seq[k + 1]}
    <3>1. 1..(k + 1) = 1..k \cup {k + 1}
      BY <2>1
    <3> QED BY <3>1
  <2>4. /\ first(k) \in SUBSET Instrs(F) /\ seq[k + 1] \in Instrs(F) /\ seq[k + 1] \in Bindable
        /\ \A x \in first(k) : x \in Bindable /\ x # seq[k + 1]
    <3>1. \A j \in 1..k : j \in 1..n /\ j # k + 1
      BY <1>1, <2>1
    <3> QED BY <3>1, <2>1, <1>1, <1>2
  <2>5. \A x \in first(k) : AreIndependent(x, seq[k + 1]) <=> AreIndependent(seq[k + 1], x)
    BY <2>4, IndependenceIsMutual
  <2>6. Grouped(grouped[k], first(k)) /\ seq[k + 1] \notin first(k)
    BY <1>12, <2>4
  <2> HIDE DEF first, T
  <2>7. Grouped(Joined(grouped[k], seq[k + 1]), first(k) \cup {seq[k + 1]})
    BY <2>4, <2>5, <2>6, JoinedKeeps
  <2> QED BY <2>1, <2>2, <2>3, <2>7 DEF T
<1>13. n \in T
  <2>1. n \in 0..n
    BY <1>1
  <2> HIDE DEF T
  <2> QED BY <1>1, <1>11, <1>12, <2>1, InductionUpTo
<1>14. first(n) = ToSet(seq)
  BY <1>1 DEF ToSet
<1> QED BY <1>6, <1>13, <1>14

(* The instructions of an instance. *)
LEMMA InstructionsBoundTo ==
    ASSUME Addressed, NEW u
    PROVE  /\ BoundTo(u) \in Seq(Bindable) /\ ToSet(BoundTo(u)) = {i \in Bindable : IsBoundTo(i, u)}
           /\ \A k, m \in DOMAIN BoundTo(u) : BoundTo(u)[k] = BoundTo(u)[m] => k = m
<1> DEFINE P == {k \in DOMAIN address : IsBoundTo(address[k], u)}
           o == LayoutOrder(P)
           s == BoundTo(u)
<1>1. /\ address \in Seq(Bindable) /\ ToSet(address) = Bindable
      /\ \A k, m \in DOMAIN address : address[k] = address[m] => k = m
      /\ DOMAIN address = 1..Len(address) /\ Len(address) \in Nat
  BY DEF Addressed
<1>2. P \subseteq Nat /\ IsFiniteSet(P)
  <2>1. IsFiniteSet(1..Len(address))
    <3>1. 1 \in Int /\ Len(address) \in Int
      BY <1>1
    <3> QED BY <3>1, FS_Interval
  <2>2. P \subseteq 1..Len(address)
    BY <1>1
  <2> QED BY <2>1, <2>2, FS_Subset
<1>3. s = [n \in DOMAIN o |-> address[o[n]]]
  BY DEF BoundTo
<1>4. \A k \in P : k \in DOMAIN address /\ address[k] \in Bindable /\ IsBoundTo(address[k], u)
  BY <1>1
<1>5. \A i \in Bindable : IsBoundTo(i, u) => \E k \in P : address[k] = i
  BY <1>1 DEF ToSet
<1> HIDE DEF P
<1>6. o \in Seq(P) /\ ToSet(o) = P /\ DOMAIN o = 1..Cardinality(P) /\ Cardinality(P) \in Nat
  BY <1>2, LayoutOrderRange, FS_CardinalityType DEF LayoutOrder
<1> HIDE DEF o, s
<1>7. \A k, m \in DOMAIN o : o[k] = o[m] => k = m
  BY <1>2, <1>6, EnumerationIsInjective
<1>8. \A n \in DOMAIN o : o[n] \in P
  BY <1>6
<1>9. DOMAIN s = DOMAIN o /\ \A n \in DOMAIN o : s[n] = address[o[n]] /\ s[n] \in Bindable
  BY <1>3, <1>4, <1>8
<1>10. s \in Seq(Bindable)
  <2>1. s \in [1..Cardinality(P) -> Bindable]
    BY <1>3, <1>6, <1>9
  <2> QED BY <2>1, <1>6
<1>11. ToSet(s) = {i \in Bindable : IsBoundTo(i, u)}
  <2>1. \A n \in DOMAIN s : s[n] \in Bindable /\ IsBoundTo(s[n], u)
    BY <1>4, <1>8, <1>9
  <2>2. ASSUME NEW i \in Bindable, IsBoundTo(i, u) PROVE \E n \in DOMAIN s : s[n] = i
    <3>1. PICK k \in P : address[k] = i
      BY <1>5, <2>2
    <3>2. PICK n \in DOMAIN o : o[n] = k
      BY <1>6 DEF ToSet
    <3> QED BY <3>1, <3>2, <1>9
  <2> QED BY <2>1, <2>2 DEF ToSet
<1>12. \A k, m \in DOMAIN s : s[k] = s[m] => k = m
  BY <1>1, <1>4, <1>7, <1>8, <1>9
<1> QED BY <1>10, <1>11, <1>12 DEF s


(* The places in groups that are what they have to be.                     *)
LEMMA PlacesOfGroups ==
    ASSUME NEW g, NEW S, Grouped(g, S),
           NEW P, P = UNION {{<<n, k>> : k \in DOMAIN g[n]} : n \in DOMAIN g}
    PROVE  /\ {g[p[1]][p[2]] : p \in P} = S
           /\ \A p, q \in P : p # q =>
                 /\ g[p[1]][p[2]] # g[q[1]][q[2]]
                 /\ p[1] = q[1] => AreIndependent(g[p[1]][p[2]], g[q[1]][q[2]])
<1>1. \A p \in P : p = <<p[1], p[2]>> /\ p[1] \in DOMAIN g /\ p[2] \in DOMAIN g[p[1]]
  OBVIOUS
<1>2. \A n \in DOMAIN g : \A k \in DOMAIN g[n] : <<n, k>> \in P
  OBVIOUS
<1>3. /\ \A n \in DOMAIN g : \A k \in DOMAIN g[n] : g[n][k] \in S
      /\ \A x \in S : \E n \in DOMAIN g : \E k \in DOMAIN g[n] : g[n][k] = x
      /\ \A n, m \in DOMAIN g : \A k \in DOMAIN g[n] : \A l \in DOMAIN g[m] :
            g[n][k] = g[m][l] => n = m /\ k = l
      /\ \A n \in DOMAIN g : \A k, l \in DOMAIN g[n] : k # l => AreIndependent(g[n][k], g[n][l])
  BY DEF Grouped
<1>4. {g[p[1]][p[2]] : p \in P} = S
  <2>1. \A p \in P : g[p[1]][p[2]] \in S
    BY <1>1, <1>3
  <2>2. ASSUME NEW x \in S PROVE \E p \in P : g[p[1]][p[2]] = x
    <3>1. PICK n \in DOMAIN g : \E k \in DOMAIN g[n] : g[n][k] = x
      BY <1>3
    <3>2. PICK k \in DOMAIN g[n] : g[n][k] = x
      BY <3>1
    <3>3. PICK p : p = <<n, k>>
      OBVIOUS
    <3>4. p \in P /\ p[1] = n /\ p[2] = k
      BY <1>2, <3>3
    <3> QED BY <3>2, <3>4
  <2> QED BY <2>1, <2>2
<1>5. ASSUME NEW p \in P, NEW q \in P, p # q
      PROVE  /\ g[p[1]][p[2]] # g[q[1]][q[2]]
             /\ p[1] = q[1] => AreIndependent(g[p[1]][p[2]], g[q[1]][q[2]])
  <2>1. ~(p[1] = q[1] /\ p[2] = q[2])
    BY <1>1, <1>5
  <2>2. g[p[1]][p[2]] # g[q[1]][q[2]]
    BY <2>1, <1>1, <1>3
  <2>3. p[1] = q[1] => AreIndependent(g[p[1]][p[2]], g[q[1]][q[2]])
    BY <2>1, <1>1, <1>3
  <2> QED BY <2>2, <2>3
<1> QED BY <1>4, <1>5

(* Sharing puts what is bound to an instance into its groups.              *)
LEMMA shareRegistersStep == BInv /\ shareRegisters => BInv'
<1> SUFFICES ASSUME BInv, shareRegisters PROVE BInv'
  OBVIOUS
<1>1. /\ IInv /\ LvaInv /\ Addressed /\ Phases /\ Assigned /\ Known
      /\ phase = "shareRegisters" /\ phase' = "done" /\ pc = "done" /\ input \in Schedules
      /\ groups' = [u \in UnitInstances |-> GroupsOf(BoundTo(u))]
      /\ UNCHANGED <<mapVars, lvaVars, address, todo, unitOf, mux_inputs, existing_operands,
                     existing_instructions>>
      /\ UNCHANGED <<input, pc, state, startState>>
  BY DEF BInv, BindInv, IInv, ShapeOK, Phases, shareRegisters, mapVars
<1>2. /\ F' = F /\ Bindable' = Bindable /\ \A i : FuOf(i)' = FuOf(i)
      /\ \A S : ReadBy(S)' = ReadBy(S) /\ UnitInstances' = UnitInstances
  BY <1>1, SameFunction DEF UnitInstances
<1>3. IInv' /\ LvaInv'
  BY <1>1, IInvKept, LvaKept
<1>4. BindInv'
  <2>1. Addressed'
    BY <1>1, <1>2 DEF Addressed
  <2>2. Phases'
    BY <1>1 DEF Phases, lvaVars
  <2>3. Assigned'
    BY <1>1, <1>2 DEF Assigned
  <2>4. Known'
    BY <1>1, <1>2 DEF Known, IsBoundTo
  <2> QED BY <2>1, <2>2, <2>3, <2>4 DEF BindInv
<1>5. ASSUME NEW u \in UnitInstances
      PROVE  /\ Grouped(groups'[u], existing_instructions[u])
             /\ groups'[u] \in Seq(Seq(Instrs(F)))
  <2>1. Grouped(GroupsOf(BoundTo(u)), ToSet(BoundTo(u)))
    BY <1>1, InstructionsBoundTo, SequenceGrouped
  <2>2. ToSet(BoundTo(u)) = existing_instructions[u]
    BY <1>1, InstructionsBoundTo DEF Known
  <2>3. groups'[u] = GroupsOf(BoundTo(u))
    BY <1>1
  <2> QED BY <2>1, <2>2, <2>3 DEF Grouped
<1>6. \A x, y : AreIndependent(x, y)' <=> AreIndependent(x, y)
  BY <1>1, IndependentKept
<1>7. ASSUME NEW u \in UnitInstances
      PROVE  /\ {At(u, p)' : p \in Places(u)'} = existing_instructions'[u]
             /\ \A p, q \in Places(u)' : p # q =>
                   /\ At(u, p)' # At(u, q)'
                   /\ p[1] = q[1] => AreIndependent(At(u, p), At(u, q))'
  <2>1. PICK g : g = groups'[u]
    OBVIOUS
  <2>2. PICK P : P = UNION {{<<n, k>> : k \in DOMAIN g[n]} : n \in DOMAIN g}
    OBVIOUS
  <2>3. Grouped(g, existing_instructions[u])
    BY <1>5, <2>1
  <2>4. /\ {g[p[1]][p[2]] : p \in P} = existing_instructions[u]
        /\ \A p, q \in P : p # q =>
              /\ g[p[1]][p[2]] # g[q[1]][q[2]]
              /\ p[1] = q[1] => AreIndependent(g[p[1]][p[2]], g[q[1]][q[2]])
    BY <2>2, <2>3, PlacesOfGroups
  <2>5. Places(u)' = P /\ \A p : At(u, p)' = g[p[1]][p[2]]
    BY <2>1, <2>2 DEF Places, At
  <2>6. \A x, y : AreIndependent(x, y) => AreIndependent(x, y)'
    BY <1>6
  <2> QED BY <1>1, <2>4, <2>5, <2>6
<1>8. Shared'
  <2>1. groups' \in [UnitInstances -> Seq(Seq(Instrs(F)))]
    BY <1>1, <1>5
  <2>2. GroupsIndependent'
    BY <1>2, <1>7 DEF GroupsIndependent
  <2> QED BY <2>1, <2>2, <1>2 DEF Shared
<1> QED BY <1>3, <1>4, <1>8 DEF BInv


(* A step that changes nothing. *)
LEMMA StutteringStep == BInv /\ UNCHANGED vars => BInv'
<1> SUFFICES ASSUME BInv, UNCHANGED vars PROVE BInv'
  OBVIOUS
<1>1. /\ IInv /\ LvaInv /\ Addressed /\ Phases /\ Assigned /\ Known /\ Shared
      /\ UNCHANGED <<mapVars, lvaVars>>
      /\ UNCHANGED <<address, todo, unitOf, mux_inputs, existing_operands,
                     existing_instructions, groups, phase>>
      /\ UNCHANGED <<input, pc, state, startState>>
  BY DEF BInv, BindInv, vars, bindVars, mapVars
<1>2. /\ F' = F /\ Bindable' = Bindable /\ \A i : FuOf(i)' = FuOf(i)
      /\ \A S : ReadBy(S)' = ReadBy(S) /\ UnitInstances' = UnitInstances
  BY <1>1, SameFunction DEF UnitInstances
<1>3. IInv' /\ LvaInv'
  BY <1>1, IInvKept, LvaKept
<1>4. Addressed' /\ Assigned'
  BY <1>1, <1>2 DEF Addressed, Assigned
<1>5. Phases'
  BY <1>1, FitsKept DEF Phases, lvaVars
<1>6. Known'
  BY <1>1, <1>2 DEF Known, IsBoundTo
<1>7. Shared'
  <2>1. \A x, y : AreIndependent(x, y)' <=> AreIndependent(x, y)
    BY <1>1, IndependentKept
  <2>2. \A u : Places(u)' = Places(u) /\ \A p : At(u, p)' = At(u, p)
    BY <1>1 DEF Places, At
  <2> QED BY <2>1, <2>2, <1>1, <1>2 DEF Shared, GroupsIndependent
<1> QED BY <1>3, <1>4, <1>5, <1>6, <1>7 DEF BInv, BindInv

-----------------------------------------------------------------------------
(* Where the value of an instruction is still needed.                      *)

(* State s of a finished machine is the k-th of block b, whose states have  *)
(* the places from p on.                                                    *)
Located(s, b, p, k) ==
    /\ b \in Blocks(F) /\ HasStates(b)
    /\ p \in Nat /\ FinishedRun(b, p)
    /\ k \in 0..input.statesNum[b]
    /\ s = list[p + k]

(* A state belongs to its block, and is in one place of the chain of one.   *)
LEMMA LocatedOnce ==
    ASSUME IInv, pc = "done", NEW s, NEW b, NEW p, NEW k, Located(s, b, p, k)
    PROVE  /\ s \in DOMAIN state /\ s # Wait /\ state[s].block = b
           /\ \A c, q, m : Located(s, c, q, m) => c = b /\ q = p /\ m = k
<1>1. /\ Listed /\ input \in Schedules /\ DOMAIN state = 1..Len(list) /\ Len(list) \in Nat
  BY DEF IInv, ShapeOK, Listed
<1>2. ASSUME NEW c, NEW q, NEW m, Located(s, c, q, m)
      PROVE  /\ q + m \in 2..Len(list) /\ s = list[q + m] /\ state[s].block = c
             /\ q \in Nat /\ m \in Nat /\ q \in 1..Len(list) /\ list[q] = firstState[c]
  <2>1. input.statesNum[c] \in Nat
    BY <1>1, <1>2, LastStateIs DEF Located
  <2>2. /\ q \in Nat /\ m \in 0..input.statesNum[c] /\ s = list[q + m]
        /\ q \in 2..Len(list) /\ q + input.statesNum[c] \in 2..Len(list)
        /\ list[q] = firstState[c]
        /\ \A r \in 2..Len(list) : state[list[r]].block = c <=> r \in q..(q + input.statesNum[c])
    BY <1>2 DEF Located, FinishedRun
  <2>3. q + m \in 2..Len(list) /\ q + m \in q..(q + input.statesNum[c]) /\ m \in Nat
    BY <2>1, <2>2, <1>1
  <2>4. q \in 1..Len(list)
    BY <2>2, <1>1
  <2> QED BY <2>2, <2>3, <2>4
<1>3. /\ p + k \in 2..Len(list) /\ s = list[p + k] /\ state[s].block = b
      /\ p \in Nat /\ k \in Nat /\ p \in 1..Len(list) /\ list[p] = firstState[b]
  BY <1>2
<1>4. p + k \in 1..Len(list) /\ p + k # 1 /\ 1 \in 1..Len(list)
  BY <1>1, <1>3
<1>5. s \in DOMAIN state /\ s # Wait
  <2>1. list[p + k] \in 1..Len(list) /\ list[1] = Wait
    BY <1>1, <1>4 DEF Listed
  <2>2. list[p + k] # list[1]
    BY <1>1, <1>4 DEF Listed
  <2> QED BY <2>1, <2>2, <1>1, <1>3
<1>6. ASSUME NEW c, NEW q, NEW m, Located(s, c, q, m)
      PROVE  c = b /\ q = p /\ m = k
  <2>1. /\ q + m \in 2..Len(list) /\ s = list[q + m] /\ state[s].block = c
        /\ q \in Nat /\ m \in Nat /\ q \in 1..Len(list) /\ list[q] = firstState[c]
    BY <1>6, <1>2
  <2>2. c = b
    BY <2>1, <1>3
  <2>3. q = p
    BY <2>1, <2>2, <1>1, <1>3 DEF Listed
  <2>4. q + m \in 1..Len(list)
    BY <2>1
  <2>5. q + m = p + k
    BY <2>1, <2>4, <1>1, <1>3, <1>4 DEF Listed
  <2>6. m = k
    BY <2>1, <2>3, <2>5, <1>3
  <2> QED BY <2>2, <2>3, <2>6
<1> QED BY <1>3, <1>5, <1>6

(* A block has one chain. *)
LEMMA RunsOnce ==
    ASSUME IInv, NEW b, NEW p \in Nat, NEW q \in Nat, FinishedRun(b, p), FinishedRun(b, q)
    PROVE  p = q
<1>1. Listed /\ Len(list) \in Nat
  BY DEF IInv, ShapeOK
<1>2. p \in 1..Len(list) /\ q \in 1..Len(list) /\ list[p] = list[q]
  BY <1>1 DEF FinishedRun
<1> QED BY <1>1, <1>2 DEF Listed

(* Every state but the wait state is one of a block.                        *)
LEMMA StateLocated ==
    ASSUME IInv, pc = "done", NEW s \in DOMAIN state, s # Wait
    PROVE  \E b, p, k : Located(s, b, p, k)
<1>1. PICK b \in Blocks(F) : /\ HasStates(b) /\ \E p \in Nat : FinishedRun(b, p)
                             /\ \A p \in Nat : FinishedRun(b, p) =>
                                  \E k \in 0..input.statesNum[b] : s = list[p + k]
  BY PlaceFinished DEF Wait
<1>2. PICK p \in Nat : FinishedRun(b, p)
  BY <1>1
<1>3. PICK k \in 0..input.statesNum[b] : s = list[p + k]
  BY <1>1, <1>2
<1>4. Located(s, b, p, k)
  BY <1>1, <1>2, <1>3 DEF Located
<1> QED BY <1>4

(* A block with states has them all in one chain. *)
LEMMA ChainLocated ==
    ASSUME IInv, pc = "done", NEW b \in Blocks(F), HasStates(b)
    PROVE  \E p : /\ \A k \in 0..input.statesNum[b] : Located(list[p + k], b, p, k)
                  /\ FinishedRun(b, p) /\ Located(firstState[b], b, p, 0)
                  /\ LastStateOf(b) = list[p + input.statesNum[b]]
<1>1. PICK p \in Nat : FinishedRun(b, p)
  BY RunFinished
<1>2. PICK n : n = input.statesNum[b]
  OBVIOUS
<1>3. /\ Listed /\ WaitOK /\ input \in Schedules /\ n \in Nat
      /\ list \in Seq(Nat) /\ Len(list) \in Nat
  BY <1>2, LastStateIs DEF IInv, ShapeOK
<1>4. \A k \in 0..n : Located(list[p + k], b, p, k)
  BY <1>1, <1>2 DEF Located
<1>5. /\ p \in 2..Len(list) /\ p + n \in 2..Len(list) /\ list[p] = firstState[b]
      /\ \A q \in 2..Len(list) : state[list[q]].block = b <=> q \in p..(p + n)
  BY <1>1, <1>2 DEF FinishedRun
<1>6. Located(firstState[b], b, p, 0)
  <2>1. 0 \in 0..n /\ p + 0 = p
    BY <1>3
  <2> QED BY <2>1, <1>4, <1>5
<1>7. LastStateOf(b) = list[p + n]
  <2> DEFINE Q == {q \in DOMAIN list : state[list[q]].block = b}
  <2>1. state[list[1]].block # b
    BY <1>3 DEF WaitOK, Listed
  <2>2. \A q \in DOMAIN list : q \in Q <=> q \in p..(p + n)
    <3> TAKE q \in DOMAIN list
    <3>1. q = 1 \/ q \in 2..Len(list)
      BY <1>3
    <3>2. q = 1 => q \notin Q /\ q \notin p..(p + n)
      BY <2>1, <1>5
    <3> QED BY <3>1, <3>2, <1>5
  <2>3. p + n \in DOMAIN list
    BY <1>3, <1>5
  <2>4. p + n \in Q /\ \A q \in Q : q \in p..(p + n)
    <3>1. p + n \in p..(p + n)
      BY <1>3
    <3> QED BY <3>1, <2>2, <2>3
  <2>5. \A q \in Q : q \in Int /\ p + n >= q
    BY <2>4, <1>3
  <2>6. Max(Q) = p + n
    <3>1. \A m \in Q : (\A q \in Q : m >= q) => m = p + n
      BY <2>4, <2>5, <1>3
    <3> HIDE DEF Q
    <3> QED BY <2>4, <2>5, <3>1 DEF Max
  <2> QED BY <2>6 DEF LastStateOf
<1> QED BY <1>1, <1>2, <1>4, <1>6, <1>7

-----------------------------------------------------------------------------
(* The places the value of an instruction that has a unit is needed at.     *)

(* The state of its block that an instruction ends in. *)
EndOf(i) == input.start[i] + Cycles(F, i)

(* No PHI node reads the value. *)
NoPhiReads(x) == \A i \in Users(x) : F.op[i] # "PHI"

(* An instruction that has a unit is in a block that has states, and ends   *)
(* in one of them.                                                          *)
LEMMA BindableEnds ==
    ASSUME IInv, pc = "done", NEW x \in Bindable
    PROVE  /\ x \in Instrs(F) /\ x > 0 /\ F.bb[x] \in Blocks(F) /\ HasStates(F.bb[x])
           /\ x \in BlockInstrs(F, F.bb[x])
           /\ EndOf(x) \in 0..input.statesNum[F.bb[x]]
           /\ \A p : FinishedRun(F.bb[x], p) => endState[x] = list[p + EndOf(x)]
           /\ \E p : Located(endState[x], F.bb[x], p, EndOf(x))
<1>1. input \in Schedules /\ IsControlFlow(F)
  BY SchedulesAssumption DEF IInv, ShapeOK, F
<1>2. x \in Instrs(F) /\ F.bb[x] \in Blocks(F) /\ x > 0
  BY <1>1, ControlFlowShape DEF Bindable
<1>3. x \in BlockInstrs(F, F.bb[x]) /\ HasStates(F.bb[x])
  BY <1>1, <1>2, BindableHasStates DEF BlockInstrs, HasStates
<1>4. /\ input.start[x] \in Nat /\ Cycles(F, x) \in Nat
      /\ input.start[x] + Cycles(F, x) <= input.statesNum[F.bb[x]]
      /\ input.statesNum[F.bb[x]] \in Nat
  BY <1>1, <1>2, <1>3, LastStateIs
<1>5. EndOf(x) \in 0..input.statesNum[F.bb[x]]
  BY <1>4 DEF EndOf
<1>6. ASSUME NEW p, FinishedRun(F.bb[x], p) PROVE endState[x] = list[p + EndOf(x)]
  <2>1. endState[x] = list[p + input.start[x] + Cycles(F, x)] /\ p \in Int
    BY <1>3, <1>6 DEF FinishedRun, PlacedAt
  <2>2. p + input.start[x] + Cycles(F, x) = p + (input.start[x] + Cycles(F, x))
    BY <2>1, <1>4
  <2> QED BY <2>1, <2>2 DEF EndOf
<1>7. \E p : Located(endState[x], F.bb[x], p, EndOf(x))
  <2>1. PICK p : /\ \A k \in 0..input.statesNum[F.bb[x]] : Located(list[p + k], F.bb[x], p, k)
                 /\ FinishedRun(F.bb[x], p)
    BY <1>2, <1>3, ChainLocated
  <2> QED BY <2>1, <1>5, <1>6
<1> QED BY <1>2, <1>3, <1>5, <1>6, <1>7

(* The block after the wait state is dominated by no other, and if it has   *)
(* no states the instruction is not in it.                                  *)
LEMMA EntryNotDominated ==
    ASSUME IInv, pc = "done", NEW x \in Bindable
    PROVE  /\ ~StrictlyDominates(F, F.bb[x], EntryBlock)
           /\ ~StrictlyDominates(F, F.bb[x], 1)
<1>1. input \in Schedules /\ HasStates(F.bb[x])
  BY BindableEnds DEF IInv, ShapeOK
<1>2. ~StrictlyDominates(F, F.bb[x], 1)
  BY DEF StrictlyDominates
<1>3. ASSUME StrictlyDominates(F, F.bb[x], EntryBlock), EntryBlock # 1 PROVE FALSE
  <2>1. PICK S \in SUBSET Blocks(F) :
          /\ 1 \in S /\ EntryBlock \notin S
          /\ \A c \in S \ {F.bb[x]} : ToSet(F.succ[c]) \subseteq S
    BY <1>3 DEF StrictlyDominates
  <2>2. ~HasStates(1) /\ EntryBlock = F.succ[1][1] /\ Len(F.succ[1]) = 1
    BY <1>1, <1>3, EntryHasStates DEF EntryBlock, HasStates
  <2>3. F.bb[x] # 1
    BY <1>1, <2>2
  <2>4. F.succ[1] \in Seq(Blocks(F))
    BY <1>1, SchedulesAssumption, ControlFlowShape DEF F
  <2>5. EntryBlock \in ToSet(F.succ[1])
    BY <2>2, <2>4 DEF ToSet
  <2> QED BY <2>1, <2>3, <2>5
<1> QED BY <1>2, <1>3

(* Where its value is read: later in its block, or where it is live.        *)
LEMMA ReaderOf ==
    ASSUME IInv, pc = "done", LvaInv, lvaPc = "done", NEW x \in Bindable, NoPhiReads(x),
           NEW j \in Users(x)
    PROVE  /\ j \in Instrs(F) /\ F.bb[j] \in Blocks(F) /\ HasStates(F.bb[j])
           /\ j \in BlockInstrs(F, F.bb[j])
           /\ IF F.bb[j] = F.bb[x]
              THEN input.start[j] > EndOf(x)
              ELSE x \in use[F.bb[j]] /\ x \in in[F.bb[j]] /\ StrictlyDominates(F, F.bb[x], F.bb[j])
<1>1. input \in Schedules /\ IsControlFlow(F) /\ IsSchedule(F, input.start, input.statesNum)
  BY SchedulesAssumption DEF IInv, ShapeOK, F
<1>2. j \in Instrs(F) /\ x \in ToSet(F.operands[j])
  BY DEF Users, Lva!Users, Lva!Instrs, Instrs, Lva!ToSet, ToSet
<1>3. F.bb[j] \in Blocks(F) /\ j \in BlockInstrs(F, F.bb[j])
  BY <1>1, <1>2, ControlFlowShape DEF BlockInstrs
<1>4. /\ x \in Instrs(F) /\ x > 0 /\ F.bb[x] \in Blocks(F) /\ HasStates(F.bb[x])
  BY BindableEnds
<1>5. IF F.bb[x] = F.bb[j]
      THEN x \in F.deps[j] \/ F.op[x] = "Alloca"
      ELSE StrictlyDominates(F, F.bb[x], F.bb[j])
  BY <1>1, <1>2, <1>4, ReadersAssumption DEF NoPhiReads, Dominating, F
<1>6. HasStates(F.bb[j])
  <2>1. F.bb[j] # 1 => HasStates(F.bb[j])
    BY <1>1, <1>3, EntryHasStates
  <2>2. F.bb[j] = 1 => F.bb[x] = 1
    BY <1>5, EntryNotDominated
  <2> QED BY <2>1, <2>2, <1>4
<1>7. CASE F.bb[j] = F.bb[x]
  <2>1. F.op[x] # "Alloca"
    BY DEF Bindable, FuOf, getInstructionFu, Units, FuOps
  <2>2. x \in F.deps[j]
    BY <1>5, <1>7, <2>1
  <2>3. input.start[x] + Cycles(F, x) < input.start[j]
    BY <2>2, <1>1, <1>2 DEF IsSchedule, RegistersReady
  <2>4. input.start[j] \in Nat /\ EndOf(x) \in Int
    BY <1>1, <1>2, BindableEnds DEF IsSchedule
  <2> QED BY <1>2, <1>3, <1>6, <1>7, <2>3, <2>4 DEF EndOf
<1>8. CASE F.bb[j] # F.bb[x]
  <2>1. x \in Lva!Values(F)
    BY <1>4 DEF Lva!Values, Lva!Instrs, Instrs
  <2>2. x \notin Lva!Defined(F, F.bb[j])
    <3>1. x \notin Lva!BlockInstrs(F, F.bb[j])
      BY <1>8 DEF Lva!BlockInstrs
    <3>2. x \notin Lva!Arguments(F)
      <4>1. ~(x < 0)
        BY <1>1, <1>4, ControlFlowShape
      <4> QED BY <4>1 DEF Lva!Arguments
    <3> QED BY <3>1, <3>2 DEF Lva!Defined
  <2>3. x \in Lva!Used(F, F.bb[j])
    BY <1>1, <2>1, <2>2, UsedWhereRead DEF Users
  <2>4. use = [b \in Blocks(F) |-> Lva!Used(F, b)] /\ in[F.bb[j]] = Lva!LiveIn(F.bb[j])
    BY <1>3 DEF LvaInv, MasksKnown, Settled, Solved
  <2>5. x \in use[F.bb[j]] /\ x \in in[F.bb[j]]
    BY <2>3, <2>4, <1>3 DEF Lva!LiveIn
  <2> QED BY <1>2, <1>3, <1>5, <1>6, <1>8, <2>5
<1> QED BY <1>7, <1>8

(* Nothing that a unit computes is live where the machine enters. *)
LEMMA NotLiveAtEntry ==
    ASSUME IInv, pc = "done", LvaInv, lvaPc = "done", NEW x \in Bindable, NoPhiReads(x)
    PROVE  x \notin in[EntryBlock]
<1> DEFINE B == F.bb[x]
           Leads(W) == 1 \in W /\ \A c \in W \ {B} : ToSet(F.succ[c]) \subseteq W
           Reach == {b \in Blocks(F) : \A W \in SUBSET Blocks(F) : Leads(W) => b \in W}
           T == Blocks(F) \ Reach
<1>1. /\ input \in Schedules /\ EntryBlock \in Blocks(F) /\ 1 \in Blocks(F)
      /\ \A b \in Blocks(F) : F.succ[b] \in Seq(Blocks(F))
  <2>1. input \in Schedules
    BY DEF IInv, ShapeOK
  <2> QED BY <2>1, SchedulesAssumption, ControlFlowShape, EntryHasStates DEF F
<1>2. /\ def = [b \in Blocks(F) |-> Lva!Defined(F, b)]
      /\ use = [b \in Blocks(F) |-> Lva!Used(F, b)] /\ Below
  BY DEF LvaInv, MasksKnown
<1>3. x \in Lva!Values(F) /\ B \in Blocks(F) /\ HasStates(B) /\ x \in def[B]
  <2>1. x \in Instrs(F) /\ B \in Blocks(F) /\ HasStates(B)
    BY BindableEnds
  <2>2. x \in Lva!Defined(F, B)
    BY <2>1 DEF Lva!Defined, Lva!BlockInstrs, Lva!Instrs, Instrs
  <2> QED BY <2>1, <2>2, <1>2 DEF Lva!Values, Lva!Instrs, Instrs
<1>4. Lva!Closed(x, T)
  <2> SUFFICES ASSUME NEW b \in Blocks(F),
                      \/ x \in use[b]
                      \/ x \notin def[b] /\ \E n \in DOMAIN F.succ[b] :
                            F.succ[b][n] \in T /\ x \in Lva!FlowMask(F, b, F.succ[b][n]),
                      b \in Reach
               PROVE  FALSE
    BY DEF Lva!Closed, Lva!Blocks, Blocks, F
  <2>1. CASE x \in use[b]
    <3>1. PICK j \in Lva!Users(F, x) : F.bb[j] = b /\ (F.bb[x] # b \/ Lva!IsPhi(F, j))
      <4>1. x \in Lva!Used(F, b) /\ x > 0
        BY <2>1, <1>2, BindableEnds
      <4> QED BY <4>1 DEF Lva!Used, Lva!IsInstr
    <3>2. j \in Users(x) /\ F.bb[x] # b
      BY <3>1 DEF Users, NoPhiReads, Lva!IsPhi
    <3>3. StrictlyDominates(F, B, b)
      BY <3>1, <3>2, ReaderOf
    <3> QED BY <3>3 DEF StrictlyDominates
  <2>2. CASE x \notin def[b]
    <3>1. PICK n \in DOMAIN F.succ[b] : F.succ[b][n] \in T
      BY <2>1, <2>2
    <3>2. F.succ[b][n] \in ToSet(F.succ[b]) /\ F.succ[b][n] \in Blocks(F) /\ b # B
      BY <3>1, <2>2, <1>3 DEF ToSet
    <3>3. F.succ[b][n] \in Reach
      BY <3>2
    <3> QED BY <3>1, <3>3
  <2> QED BY <2>1, <2>2
<1>5. EntryBlock \in Reach
  <2>1. 1 \in Reach
    BY <1>1
  <2>2. CASE EntryBlock # 1
    <3>1. ~HasStates(1) /\ EntryBlock = F.succ[1][1] /\ Len(F.succ[1]) = 1
      BY <1>1, <2>2, EntryHasStates DEF EntryBlock, HasStates
    <3>2. B # 1 /\ EntryBlock \in ToSet(F.succ[1])
      <4>1. F.succ[1] \in Seq(Blocks(F))
        BY <1>1
      <4> QED BY <3>1, <4>1, <1>3 DEF ToSet
    <3> QED BY <3>2, <2>1, <1>1
  <2> QED BY <2>1, <2>2
<1>6. \A b \in Blocks(F) : x \in in[b] => b \in T
  <2>1. T \in SUBSET Blocks(F)
    OBVIOUS
  <2> HIDE DEF T
  <2> QED BY <2>1, <1>2, <1>3, <1>4 DEF Below
<1> QED BY <1>1, <1>5, <1>6

(* Where the value is read. *)
LEMMA ReadLocated ==
    ASSUME IInv, pc = "done", LvaInv, lvaPc = "done", NEW x \in Bindable, NoPhiReads(x),
           NEW t \in ReadIn(x)
    PROVE  \E b, p, k : /\ Located(t, b, p, k)
                        /\ IF b = F.bb[x] THEN k > EndOf(x)
                           ELSE x \in in[b] /\ StrictlyDominates(F, F.bb[x], b)
<1>1. PICK j \in Users(x) : \/ t = startState[j]
                            \/ t = LastStateOf(F.bb[j])
  BY DEF ReadIn, NoPhiReads
<1> DEFINE b == F.bb[j]
           n == input.statesNum[b]
<1>2. /\ j \in Instrs(F) /\ b \in Blocks(F) /\ HasStates(b) /\ j \in BlockInstrs(F, b)
      /\ IF b = F.bb[x] THEN input.start[j] > EndOf(x)
         ELSE x \in in[b] /\ StrictlyDominates(F, F.bb[x], b)
  BY ReaderOf
<1>3. PICK p : /\ \A k \in 0..n : Located(list[p + k], b, p, k)
               /\ FinishedRun(b, p) /\ LastStateOf(b) = list[p + n]
  BY <1>2, ChainLocated
<1>4. /\ n \in Nat /\ input.start[j] \in 0..n /\ startState[j] = list[p + input.start[j]]
      /\ EndOf(x) \in Int
  <2>1. /\ n \in Nat /\ input.start[j] \in Nat /\ Cycles(F, j) \in {0, 1}
        /\ input.start[j] + Cycles(F, j) <= n
    BY <1>2, LastStateIs DEF IInv, ShapeOK
  <2>2. startState[j] = list[p + input.start[j]]
    BY <1>2, <1>3 DEF FinishedRun, PlacedAt
  <2>3. EndOf(x) \in Int
    BY BindableEnds
  <2> QED BY <2>1, <2>2, <2>3
<1>5. \E k \in 0..n : t = list[p + k] /\ k >= input.start[j]
  <2>1. n \in 0..n /\ n >= input.start[j] /\ input.start[j] >= input.start[j]
    BY <1>4
  <2> QED BY <2>1, <1>1, <1>3, <1>4
<1>6. PICK k \in 0..n : t = list[p + k] /\ k >= input.start[j]
  BY <1>5
<1>7. Located(t, b, p, k)
  BY <1>3, <1>6
<1>8. input.start[j] > EndOf(x) => k > EndOf(x)
  BY <1>4, <1>6
<1> QED BY <1>2, <1>7, <1>8

(* Where a state of a finished machine leads to. *)
LEMMA SuccessorLocated ==
    ASSUME IInv, pc = "done", NEW s \in DOMAIN state, NEW t \in Successors(s)
    PROVE  \/ t = Wait
           \/ s = Wait /\ t = firstState[EntryBlock]
           \/ \E b, p, k : Located(s, b, p, k) /\ Located(t, b, p, k + 1)
           \/ \E b, p : /\ Located(s, b, p, input.statesNum[b])
                        /\ \E n \in DOMAIN F.succ[b] : t = firstState[F.succ[b][n]]
<1>1. input \in Schedules /\ WaitOK /\ firstState \in [Blocks(F) -> Nat]
  BY DEF IInv, ShapeOK
<1>2. CASE s = Wait
  <2>1. /\ state[Wait].default = Wait
        /\ state[Wait].transitions = <<<<firstState[EntryBlock], Null>>>>
    BY <1>1 DEF WaitOK
  <2> QED BY <2>1, <1>2 DEF Successors
<1>3. CASE s # Wait
  <2>1. PICK b, p, k : Located(s, b, p, k)
    BY <1>3, StateLocated
  <2> DEFINE n == input.statesNum[b]
  <2>2. /\ b \in Blocks(F) /\ n \in Nat /\ k \in 0..n /\ LinkedAt(b, p) /\ s = list[p + k]
        /\ p \in Nat
    BY <2>1, <1>1, LastStateIs DEF Located, FinishedRun
  <2>3. CASE k < n
    <3>1. state[s].transitions = << >> /\ state[s].default = list[p + k + 1]
      BY <2>2, <2>3 DEF LinkedAt
    <3>2. t = list[p + k + 1]
      BY <3>1 DEF Successors
    <3>3. k + 1 \in 0..n /\ p + k + 1 = p + (k + 1)
      BY <2>2, <2>3
    <3>4. Located(t, b, p, k + 1)
      BY <2>1, <3>2, <3>3 DEF Located
    <3> QED BY <2>1, <3>4
  <2>4. CASE k = n
    <3>1. /\ state[s].transitions = Branch(b, NewState).transitions
          /\ state[s].default = Branch(b, NewState).default
      BY <2>2, <2>4 DEF LinkedAt
    <3>2. t = Wait \/ \E m \in DOMAIN F.succ[b] : t = firstState[F.succ[b][m]]
      BY <3>1, <2>2, <1>1, BranchLeads DEF Successors
    <3> QED BY <2>1, <2>4, <3>2
  <2>5. k < n \/ k = n
    BY <2>2
  <2> QED BY <2>3, <2>4, <2>5
<1> QED BY <1>2, <1>3

(* A value is needed after no other states than the later ones of its block *)
(* and those of the blocks it is live into.                                 *)
LEMMA NeededIsLive ==
    ASSUME IInv, pc = "done", LvaInv, lvaPc = "done", NEW x \in Bindable, NoPhiReads(x),
           NEW s \in NeededAfter(x)
    PROVE  \E b, p, k : /\ Located(s, b, p, k)
                        /\ x \in in[b] \/ (b = F.bb[x] /\ k >= EndOf(x))
<1> DEFINE B == F.bb[x]
           e == EndOf(x)
           Live(b, k) == x \in in[b] \/ (b = B /\ k >= e)
           S == {u \in DOMAIN state : \E b, p, k : Located(u, b, p, k) /\ Live(b, k)}
<1>1. /\ x \in Instrs(F) /\ B \in Blocks(F) /\ x \in def[B] /\ e \in 0..input.statesNum[B]
      /\ x \in Lva!Values(F) /\ \A b \in Blocks(F) : x \in def[b] => b = B
      /\ \A b \in Blocks(F) : in[b] = Lva!LiveIn(b)
      /\ input \in Schedules
      /\ \E p : Located(endState[x], B, p, e)
  <2>1. x \in Instrs(F) /\ B \in Blocks(F) /\ e \in 0..input.statesNum[B] /\ x > 0
        /\ \E p : Located(endState[x], B, p, e)
    BY BindableEnds
  <2>2. /\ def = [b \in Blocks(F) |-> Lva!Defined(F, b)]
        /\ \A b \in Blocks(F) : in[b] = Lva!LiveIn(b)
    BY DEF LvaInv, MasksKnown, Settled, Solved
  <2>3. input \in Schedules
    BY DEF IInv, ShapeOK
  <2>4. ~(x < 0)
    BY <2>1, <2>3, SchedulesAssumption, ControlFlowShape DEF F
  <2>5. \A b \in Blocks(F) : x \in Lva!Defined(F, b) <=> b = B
    BY <2>1, <2>4 DEF Lva!Defined, Lva!BlockInstrs, Lva!Instrs, Instrs, Lva!Arguments
  <2> QED BY <2>1, <2>2, <2>3, <2>5 DEF Lva!Values, Lva!Instrs, Instrs
<1>2. PICK pe : Located(endState[x], B, pe, e)
  BY <1>1
<1>3. ASSUME NEW t, t \in ReadIn(x) \/ (t # endState[x] /\ t \in S)
      PROVE  \E b, p, k : Located(t, b, p, k) /\ (x \in in[b] \/ (b = B /\ k > e))
                          /\ (b = EntryBlock /\ k = 0 => x \in in[b])
  <2>1. CASE t \in ReadIn(x)
    <3>1. PICK b, p, k : /\ Located(t, b, p, k)
                         /\ IF b = B THEN k > e
                            ELSE x \in in[b] /\ StrictlyDominates(F, B, b)
      BY <2>1, ReadLocated
    <3>2. k > e => k # 0
      BY <1>1
    <3> QED BY <3>1, <3>2, EntryNotDominated
  <2>2. CASE t # endState[x] /\ t \in S
    <3>1. PICK b, p, k : Located(t, b, p, k) /\ Live(b, k)
      BY <2>2
    <3>2. CASE x \in in[b]
      BY <3>1, <3>2
    <3>3. CASE b = B /\ k >= e
      <4>1. k \in Int /\ e \in Int /\ k \in Nat /\ e >= 0
        BY <3>1, <1>1, LastStateIs DEF Located
      <4>2. k # e
        <5> SUFFICES ASSUME k = e PROVE FALSE
          OBVIOUS
        <5>1. p = pe
          BY <3>1, <3>3, <1>2, RunsOnce DEF Located
        <5>2. t = endState[x]
          BY <3>1, <5>1, <1>2 DEF Located
        <5> QED BY <5>2, <2>2
      <4>3. k > e /\ k # 0
        BY <3>3, <4>1, <4>2
      <4> QED BY <3>1, <3>3, <4>3
    <3> QED BY <3>1, <3>2, <3>3
  <2> QED BY <1>3, <2>1, <2>2
<1>4. Needing(x, S)
  <2> SUFFICES ASSUME NEW u \in DOMAIN state, NEW t \in Successors(u),
                      t \in ReadIn(x) \/ (t # endState[x] /\ t \in S)
               PROVE  u \in S
    BY DEF Needing
  <2>1. PICK c, q, m : /\ Located(t, c, q, m) /\ (x \in in[c] \/ (c = B /\ m > e))
                       /\ (c = EntryBlock /\ m = 0 => x \in in[c])
    BY <1>3
  <2>2. t # Wait /\ \A a, p, k : Located(t, a, p, k) => a = c /\ p = q /\ k = m
    BY <2>1, LocatedOnce
  <2>3. ~(u = Wait /\ t = firstState[EntryBlock])
    <3> SUFFICES ASSUME t = firstState[EntryBlock] PROVE FALSE
      OBVIOUS
    <3>1. EntryBlock \in Blocks(F) /\ HasStates(EntryBlock)
      BY <1>1, EntryHasStates
    <3>2. \E p : Located(t, EntryBlock, p, 0)
      BY <3>1, ChainLocated
    <3>3. c = EntryBlock /\ m = 0
      BY <3>2, <2>2
    <3> QED BY <3>3, <2>1, NotLiveAtEntry
  <2>4. CASE \E b, p, k : Located(u, b, p, k) /\ Located(t, b, p, k + 1)
    <3>1. PICK b, p, k : Located(u, b, p, k) /\ Located(t, b, p, k + 1)
      BY <2>4
    <3>2. b = c /\ k + 1 = m
      BY <3>1, <2>2
    <3>3. k \in Int /\ e \in Int
      BY <3>1, <1>1 DEF Located
    <3>4. m > e => k >= e
      BY <3>2, <3>3
    <3> QED BY <3>1, <3>2, <3>4, <2>1
  <2>5. CASE \E b, p : /\ Located(u, b, p, input.statesNum[b])
                       /\ \E n \in DOMAIN F.succ[b] : t = firstState[F.succ[b][n]]
    <3>1. PICK b, p : /\ Located(u, b, p, input.statesNum[b])
                      /\ \E n \in DOMAIN F.succ[b] : t = firstState[F.succ[b][n]]
      BY <2>5
    <3>2. PICK n \in DOMAIN F.succ[b] : t = firstState[F.succ[b][n]]
      BY <3>1
    <3>3. b \in Blocks(F) /\ F.succ[b][n] \in Blocks(F) /\ F.succ[b][n] # 1
      BY <3>1, <3>2, <1>1, SchedulesAssumption, ControlFlowShape DEF F, Located
    <3>4. \E r : Located(t, F.succ[b][n], r, 0)
      BY <3>2, <3>3, <1>1, EntryHasStates, ChainLocated
    <3>5. c = F.succ[b][n] /\ m = 0
      BY <3>4, <2>2
    <3>6. x \in in[F.succ[b][n]]
      <4>1. ~(0 > e)
        BY <1>1
      <4> QED BY <4>1, <3>5, <2>1
    <3>7. x \in Lva!LiveOut(b)
      <4>1. \A i \in Lva!Users(F, x) : ~Lva!IsPhi(F, i)
        BY DEF NoPhiReads, Users, Lva!IsPhi
      <4>2. x \in Lva!FlowMask(F, b, F.succ[b][n])
        BY <4>1, <1>1, PassedOn
      <4> QED BY <4>2, <3>6, LiveOutMember
    <3>8. CASE b = B
      <4>1. input.statesNum[b] >= e
        BY <3>8, <1>1, LastStateIs
      <4> QED BY <3>1, <3>8, <4>1
    <3>9. CASE b # B
      <4>1. x \in in[b]
        BY <3>3, <3>7, <3>9, <1>1 DEF Lva!LiveIn
      <4> QED BY <3>1, <4>1
    <3> QED BY <3>8, <3>9
  <2> QED BY <2>2, <2>3, <2>4, <2>5, SuccessorLocated
<1>5. S \in SUBSET DOMAIN state
  OBVIOUS
<1> HIDE DEF S
<1>6. s \in S
  BY <1>4, <1>5 DEF NeededAfter
<1> QED BY <1>6 DEF S

(* What is needed while the other is written is in a common block.          *)
LEMMA ClashShares ==
    ASSUME IInv, pc = "done", LvaInv, lvaPc = "done",
           NEW x \in Bindable, NoPhiReads(x), NEW y \in Bindable,
           endState[y] \in NeededAfter(x)
    PROVE  LiveBlocks(x) \cap LiveBlocks(y) # {}
<1>1. PICK b, p, k : /\ Located(endState[y], b, p, k)
                     /\ x \in in[b] \/ (b = F.bb[x] /\ k >= EndOf(x))
  BY NeededIsLive
<1>2. /\ x \in Instrs(F) /\ y \in Instrs(F) /\ F.bb[x] \in Blocks(F) /\ F.bb[y] \in Blocks(F)
      /\ \E q : Located(endState[y], F.bb[y], q, EndOf(y))
  BY BindableEnds
<1>3. b = F.bb[y]
  BY <1>1, <1>2, LocatedOnce
<1>4. def = [c \in Blocks(F) |-> Lva!Defined(F, c)]
  BY DEF LvaInv, MasksKnown
<1>5. y \in def[b] /\ x \in def[F.bb[x]]
  BY <1>2, <1>3, <1>4 DEF Lva!Defined, Lva!BlockInstrs, Lva!Instrs, Instrs
<1>6. b \in LiveBlocks(x) \cap LiveBlocks(y)
  BY <1>1, <1>2, <1>3, <1>5 DEF LiveBlocks
<1> QED BY <1>6

-----------------------------------------------------------------------------
(* The theorems.                                                           *)

(* Every step of the binding keeps the invariant.                          *)
LEMMA BInvKept == BInv /\ [Next]_vars => BInv'
BY createFsmStep, analizeStep, bindFuInStateStep, shareRegistersStep, StutteringStep
   DEF Next, Ended

(* The invariant holds in every state of the binding.                      *)
THEOREM BindingInvariance == Spec => []BInv
BY InitBInv, BInvKept, PTL DEF Spec

(* The maps of the binder keep their types.                                *)
THEOREM BindingTypeCorrect == Spec => []TypeOK
<1>1. BInv => TypeOK
  BY DEF BInv, BindInv, Assigned, Known, Shared, TypeOK
<1> QED BY <1>1, BindingInvariance, PTL

(* Whatever cheapest assignment the solver returns, and in whatever order  *)
(* the units of a state are taken: an assertion fails only if more          *)
(* instructions of a unit start in a state than there are of it; otherwise *)
(* all are bound, and no two of a state to the same instance.              *)
THEOREM UnitsAreExclusive == Spec => []UnitsExclusive
<1>1. BInv => UnitsExclusive
  <2> SUFFICES ASSUME BInv PROVE UnitsExclusive
    OBVIOUS
  <2>1. phase = "assertion" => ~Fits
    BY DEF BInv, BindInv, Phases
  <2>2. ASSUME Bound, NEW i \in ToSet(address)
        PROVE  /\ unitOf[i] # Unbound
               /\ \A j \in ToSet(address) \ {i} :
                    startState[i] = startState[j] /\ FuOf(i) = FuOf(j) => unitOf[i] # unitOf[j]
    <3>1. todo = {} /\ phase \notin {"createFsm", "analize"} /\ i \in Bindable
          /\ ToSet(address) = Bindable
      BY <2>2 DEF BInv, BindInv, Phases, Addressed, Bound
    <3>2. unitOf[i] # Unbound
      BY <3>1 DEF BInv, BindInv, Assigned
    <3> QED BY <3>1, <3>2 DEF BInv, BindInv, Assigned
  <2> QED BY <2>1, <2>2 DEF UnitsExclusive
<1> QED BY <1>1, BindingInvariance, PTL

(* The inputs the weights count are those of what is bound.                *)
THEOREM InputsAreCounted == Spec => []InputsCounted
<1>1. BInv => InputsCounted
  <2> SUFFICES ASSUME BInv, NEW u \in UnitInstances
               PROVE  /\ existing_instructions[u] = ToSet(BoundTo(u))
                      /\ mux_inputs[u] = Cardinality(ReadBy(ToSet(BoundTo(u))))
    BY DEF InputsCounted
  <2>1. ToSet(BoundTo(u)) = {i \in Bindable : IsBoundTo(i, u)}
    BY InstructionsBoundTo DEF BInv, BindInv
  <2> QED BY <2>1 DEF BInv, BindInv, Known
<1> QED BY <1>1, BindingInvariance, PTL

(* What shares a register was found independent of all else in it, and     *)
(* every instruction bound is in one group.                                *)
THEOREM GroupsAreIndependent == Spec => []GroupsIndependent
<1>1. BInv => GroupsIndependent
  BY DEF BInv, Shared
<1> QED BY <1>1, BindingInvariance, PTL

(* The masks the binder reads are the least solution of the equations,     *)
(* whatever the order of the blocks.                                       *)
THEOREM MasksAreLeast == Spec => []LeastFixpoint
<1>1. BInv => LeastFixpoint
  BY SolvedIsLeast DEF BInv
<1> QED BY <1>1, BindingInvariance, PTL


(* A value that an instruction that can still be reached reads, and that   *)
(* no PHI node does, is live on every way to it.                           *)
THEOREM ReadValuesAreLive == Spec => []LiveWhereRead
<1>1. BInv => LiveWhereRead
  BY ReadIsLive DEF BInv
<1> QED BY <1>1, BindingInvariance, PTL

(* Two instructions that are alive in no common block, and that no PHI node *)
(* reads, may share a register: neither is written while the other is       *)
(* needed, in any execution of the machine.                                 *)
THEOREM DisjointBlocksClashNever == Spec => []DisjointBlocksNeverClash
<1>1. BInv => DisjointBlocksNeverClash
  <2> SUFFICES ASSUME BInv, phase = "done",
                      NEW x \in ToSet(address), NEW y \in ToSet(address),
                      LiveBlocks(x) \cap LiveBlocks(y) = {},
                      \A i \in Users(x) \cup Users(y) : F.op[i] # "PHI"
               PROVE  ~Clash(x, y)
    BY DEF DisjointBlocksNeverClash
  <2>1. IInv /\ LvaInv /\ pc = "done" /\ lvaPc = "done" /\ x \in Bindable /\ y \in Bindable
    BY DEF BInv, BindInv, Phases, Addressed
  <2>2. NoPhiReads(x) /\ NoPhiReads(y)
    BY DEF NoPhiReads
  <2>3. endState[y] \notin NeededAfter(x)
    BY <2>1, <2>2, ClashShares
  <2>4. endState[x] \notin NeededAfter(y)
    BY <2>1, <2>2, ClashShares
  <2> QED BY <2>3, <2>4 DEF Clash
<1> QED BY <1>1, BindingInvariance, PTL

-----------------------------------------------------------------------------
(* The signals of the module.                                              *)

IsSequence(q) == q \in Seq(ToSet(q))

IsSignal(s) ==
    /\ s = [type |-> s.type, width |-> s.width, conditions |-> s.conditions, drivers |-> s.drivers]
    /\ IsSequence(s.conditions) /\ IsSequence(s.drivers)

Parallel(s) == Len(s.drivers) = Len(s.conditions)

(* What a driver reads is in the module. *)
Found(m, x) == x[1] = "signal" => x[2] \in DOMAIN m

Connected(m, d) ==
    IF d[1] = "operation" THEN Found(m, d[3]) /\ Found(m, d[4]) ELSE Found(m, d)

(* And it has the operands that are printed, unless it is a unit.          *)
Attached(m, x, d) == Connected(m, d) /\ (x[1] = "fu" \/ Printable(d))

(* The units, and the registers of the instructions of J.                  *)
Replaceable(x, J) == x[1] = "fu" \/ x \in {Reg(i) : i \in J}

(* The drivers of a signal have conditions, one each; not so the drivers of *)
(* the units, and of the registers of J, that another register replaces.    *)
SignalOK(m, x, J) ==
    /\ IsSignal(m[x])
    /\ Parallel(m[x]) \/ (Replaceable(x, J) /\ m[x].conditions = << >>)
    /\ \A k \in DOMAIN m[x].drivers : Attached(m, x, m[x].drivers[k])

ModuleOK(m, J) == m = [x \in DOMAIN m |-> m[x]] /\ \A x \in DOMAIN m : SignalOK(m, x, J)

(* The instructions whose registers are replaced. *)
Joining ==
    IF part \in {"shareRegistersForFu", "print", "printed", "run", "assertion"} /\ phase = "done"
    THEN {i \in ToSet(address) : Joins(i)} ELSE {}

Undeclared == {"createFsm", "generateDeclaration"}

(* Where the generator is, and the binder with it. *)
PartOf ==
    /\ part \in {"createFsm", "generateDeclaration", "addInstructionsSignals",
                 "connectRegistersToWires", "performBinding", "createBindingSignals",
                 "generateDatapath", "shareOperationRegisters", "shareRegistersForFu",
                 "print", "printed", "run", "assertion"}
    /\ part = "createFsm" <=> phase \in {"createFsm", "analize"}
    /\ part \in {"generateDeclaration", "addInstructionsSignals", "connectRegistersToWires",
                 "performBinding"} => phase \in {"bindFuInState", "shareRegisters"}
    /\ part \in {"createBindingSignals", "generateDatapath", "shareOperationRegisters"} =>
         phase = "shareRegisters"
    /\ part = "shareRegistersForFu" => phase = "done"
    /\ part \in {"print", "printed", "run"} => phase \in {"shareRegisters", "done"}

(* What the loop of a part has still to take. *)
Remaining ==
    /\ rest \in Seq(Instrs(F))
    /\ part = "connectRegistersToWires" => ToSet(rest) \subseteq Kept
    /\ visited \in 0..Len(list)
    /\ part = "generateDatapath" =>
         visited < Len(list) /\ ToSet(rest) \subseteq ToSet(state[list[visited + 1]].instrs)
    /\ part \in Undeclared \cup {"addInstructionsSignals", "connectRegistersToWires",
                                 "performBinding", "createBindingSignals"} => visited = 0
    /\ part \in {"shareOperationRegisters", "shareRegistersForFu", "print", "printed", "run"} =>
         visited = Len(list)
    /\ part = "shareRegistersForFu" => ToSet(rest) \subseteq ToSet(address)

(* What there is in the module. *)
Contents ==
    /\ part \in Undeclared => module = << >>
    /\ part \notin Undeclared => ModuleOK(module, Joining) /\ PortNames \subseteq DOMAIN module
    /\ part \notin Undeclared =>
         \A i \in Kept : (part = "addInstructionsSignals" => i \notin ToSet(rest)) =>
             {Wire(i), Reg(i)} \subseteq DOMAIN module
    /\ part \in {"createBindingSignals", "generateDatapath"} =>
         \A i \in Bindable : (part = "createBindingSignals" => i \notin ToSet(rest)) =>
             Fu(i) \in DOMAIN module

GenInv == BInv /\ PartOf /\ Remaining /\ Contents

-----------------------------------------------------------------------------
(* The controller.                                                         *)

ReturnsIn(s) == {i \in ToSet(state[s].instrs) : F.op[i] = "Ret"}

(* The register finish is cleared in the wait state, and set in no state    *)
(* but those that return.                                                   *)
FinishDriven ==
    LET signal == module[Finish]
    IN /\ signal.type = "output reg" /\ signal.width = 1
       /\ \A k \in DOMAIN signal.conditions :
            IF signal.conditions[k].state = list[1] THEN signal.drivers[k] = ZERO
            ELSE /\ signal.drivers[k] = ONE
                 /\ ReturnsIn(signal.conditions[k].state) # {}
       /\ Matching(signal, list[1]) # {}

(* The returns of the state at place q have been visited. *)
Passed(q) ==
    \/ q <= visited
    \/ /\ q = visited + 1 /\ part = "generateDatapath"
       /\ ReturnsIn(list[q]) \cap ToSet(rest) = {}

(* It is set in those that have been. *)
FinishRises ==
    \A q \in 1..Len(list) :
        ReturnsIn(list[q]) # {} /\ Passed(q) => Matching(module[Finish], list[q]) # {}

(* What generateStateTransition adds for a state. *)
Leaving(s) ==
    IF state[s].transitions = << >>
    THEN {<< << >>, StateParam(state[s].default)>>}
    ELSE {<< <<<<getTransitionOperand(s), 1>>>>, StateParam(state[s].transitions[1][1])>>,
          << <<<<getTransitionOperand(s), 0>>>>, StateParam(state[s].default)>>}

Entries(signal, s) ==
    {<<signal.conditions[k].clauses, signal.drivers[k]>> : k \in Matching(signal, s)}

CurStateOK ==
    \A q \in 1..Len(list) :
        Entries(module[CurState], list[q]) = IF q <= visited THEN Leaving(list[q]) ELSE {}

HardwareOK ==
    /\ start \in BOOLEAN /\ reset \in BOOLEAN /\ cond \in BOOLEAN
    /\ part # "run" => cur_state = Wait /\ content = << >>
    /\ part = "run" => cur_state \in DOMAIN state /\ Finish \in DOMAIN content

ControlOK == FinishDriven /\ FinishRises /\ CurStateOK

CtlInv ==
    /\ GenInv /\ HardwareOK
    /\ part \notin Undeclared \cup {"assertion"} => ControlOK

-----------------------------------------------------------------------------
(* What the methods of RtlModule do to the signals.                        *)

(* A sequence that an element is appended to.                              *)
LEMMA AppendedIs ==
    ASSUME NEW q, IsSequence(q), NEW e
    PROVE  /\ IsSequence(Append(q, e)) /\ Len(q) \in Nat /\ DOMAIN q = 1..Len(q)
           /\ Len(Append(q, e)) = Len(q) + 1
           /\ DOMAIN Append(q, e) = 1..(Len(q) + 1)
           /\ \A k \in 1..Len(q) : Append(q, e)[k] = q[k]
           /\ Append(q, e)[Len(q) + 1] = e
<1> DEFINE S == ToSet(q) \cup {e}
<1>1. q \in Seq(S) /\ e \in S
  <2>1. q \in Seq(ToSet(q)) /\ ToSet(q) \subseteq S
    BY DEF IsSequence
  <2> HIDE DEF S
  <2>2. q \in Seq(S)
    BY <2>1
  <2> QED BY <2>2 DEF S
<1> HIDE DEF S
<1>2. /\ Append(q, e) \in Seq(S) /\ Len(q) \in Nat /\ DOMAIN q = 1..Len(q)
      /\ Len(Append(q, e)) = Len(q) + 1
      /\ DOMAIN Append(q, e) = 1..(Len(q) + 1)
      /\ \A k \in 1..Len(q) : Append(q, e)[k] = q[k]
      /\ Append(q, e)[Len(q) + 1] = e
  BY <1>1
<1>3. IsSequence(Append(q, e))
  <2>1. PICK r : r = Append(q, e)
    OBVIOUS
  <2>2. r \in Seq(S)
    BY <1>2, <2>1
  <2>6. Len(r) \in Nat /\ DOMAIN r = 1..Len(r) /\ r \in [1..Len(r) -> S]
    BY <2>2
  <2>3. \A k \in 1..Len(r) : r[k] \in ToSet(r)
    BY <2>6 DEF ToSet
  <2>4. r \in [1..Len(r) -> ToSet(r)]
    BY <2>6, <2>3
  <2>5. r \in Seq(ToSet(r))
    BY <2>6, <2>4
  <2> QED BY <2>1, <2>5 DEF IsSequence
<1> QED BY <1>2, <1>3

LEMMA SingletonIs ==
    ASSUME NEW e
    PROVE  IsSequence(<<e>>) /\ DOMAIN <<e>> = {1} /\ <<e>>[1] = e /\ Len(<<e>>) = 1
<1>1. e \in ToSet(<<e>>)
  <2>1. 1 \in DOMAIN <<e>> /\ <<e>>[1] = e
    OBVIOUS
  <2> QED BY <2>1 DEF ToSet
<1>2. <<e>> \in Seq(ToSet(<<e>>))
  BY <1>1
<1> QED BY <1>2 DEF IsSequence

LEMMA EmptyIs == IsSequence(<< >>) /\ DOMAIN << >> = {} /\ Len(<< >>) = 0
BY DEF IsSequence

(* What addCondition appends. *)
LEMMA Conditioned ==
    ASSUME NEW m, m = [x \in DOMAIN m |-> m[x]], NEW name \in DOMAIN m, IsSignal(m[name]),
           NEW c, NEW d
    PROVE  LET n == addCondition(m, name, c, d)
           IN /\ n = [x \in DOMAIN m |-> n[x]] /\ DOMAIN n = DOMAIN m
              /\ \A x \in DOMAIN m : x # name => n[x] = m[x]
              /\ n[name] = [type |-> m[name].type, width |-> m[name].width,
                            conditions |-> Append(m[name].conditions, c),
                            drivers |-> Append(m[name].drivers, d)]
<1>1. m[name] = [type |-> m[name].type, width |-> m[name].width,
                 conditions |-> m[name].conditions, drivers |-> m[name].drivers]
  BY DEF IsSignal
<1>2. PICK t, w, cs, ds : m[name] = [type |-> t, width |-> w, conditions |-> cs, drivers |-> ds]
  BY <1>1
<1>3. PICK more, longer : more = Append(cs, c) /\ longer = Append(ds, d)
  OBVIOUS
<1>4. PICK n1 : n1 = [m EXCEPT ![name].conditions = Append(@, c)]
  OBVIOUS
<1>5. PICK n2 : n2 = [n1 EXCEPT ![name].drivers = Append(@, d)]
  OBVIOUS
<1>6. /\ n1 = [x \in DOMAIN m |-> n1[x]] /\ DOMAIN n1 = DOMAIN m
      /\ \A x \in DOMAIN m : x # name => n1[x] = m[x]
      /\ n1[name] = [type |-> t, width |-> w, conditions |-> more, drivers |-> ds]
  <2>1. n1[name] = [m[name] EXCEPT !.conditions = Append(@, c)]
    BY <1>4
  <2>2. n1[name] = [[type |-> t, width |-> w, conditions |-> cs, drivers |-> ds]
                    EXCEPT !.conditions = more]
    BY <2>1, <1>2, <1>3
  <2>3. n1[name] = [type |-> t, width |-> w, conditions |-> more, drivers |-> ds]
    BY <2>2
  <2> QED BY <2>3, <1>4
<1>7. /\ n2 = [x \in DOMAIN m |-> n2[x]] /\ DOMAIN n2 = DOMAIN m
      /\ \A x \in DOMAIN m : x # name => n2[x] = m[x]
      /\ n2[name] = [type |-> t, width |-> w, conditions |-> more, drivers |-> longer]
  <2>0. n1[name].drivers = ds
    BY <1>6
  <2>1. n2[name] = [n1[name] EXCEPT !.drivers = longer]
    BY <2>0, <1>3, <1>5, <1>6
  <2>2. n2[name] = [[type |-> t, width |-> w, conditions |-> more, drivers |-> ds]
                    EXCEPT !.drivers = longer]
    BY <2>1, <1>6
  <2>3. n2[name] = [type |-> t, width |-> w, conditions |-> more, drivers |-> longer]
    BY <2>2
  <2> QED BY <2>3, <1>5, <1>6
<1>8. addCondition(m, name, c, d) = n2
  BY <1>4, <1>5 DEF addCondition
<1>9. m[name].type = t /\ m[name].width = w /\ m[name].conditions = cs /\ m[name].drivers = ds
  BY <1>2
<1> QED BY <1>3, <1>7, <1>8, <1>9

(* A driver that is connected stays so when signals are added.             *)
LEMMA StaysAttached ==
    ASSUME NEW m, NEW n, DOMAIN m \subseteq DOMAIN n, NEW d, NEW x, Attached(m, x, d)
    PROVE  Attached(n, x, d)
BY DEF Attached, Connected, Found

(* A driver that is a signal, a constant or a state has no operands. *)
LEMMA PlainAttached ==
    ASSUME NEW m, NEW x
    PROVE  /\ \A y \in DOMAIN m : Attached(m, x, Named(y))
           /\ \A v, w : Attached(m, x, Constant(v, w))
           /\ \A s : Attached(m, x, StateParam(s))
           /\ Attached(m, x, ZERO) /\ Attached(m, x, ONE)
<1>1. ASSUME NEW y \in DOMAIN m PROVE Attached(m, x, Named(y))
  BY DEF Attached, Connected, Found, Printable, Named
<1>2. ASSUME NEW v, NEW w PROVE Attached(m, x, Constant(v, w))
  BY DEF Attached, Connected, Found, Printable, Constant
<1>3. ASSUME NEW s PROVE Attached(m, x, StateParam(s))
  BY DEF Attached, Connected, Found, Printable, StateParam
<1> QED BY <1>1, <1>2, <1>3 DEF ZERO, ONE

(* Nothing but one signal is new or different. *)
DiffersAt(m, n, name) ==
    /\ n = [x \in DOMAIN n |-> n[x]] /\ DOMAIN n = DOMAIN m \cup {name}
    /\ \A x \in DOMAIN m : x # name => n[x] = m[x]

LEMMA OneReplaced ==
    ASSUME NEW m, NEW J, ModuleOK(m, J), NEW n, NEW name, DiffersAt(m, n, name),
           SignalOK(n, name, J)
    PROVE  ModuleOK(n, J)
<1> SUFFICES ASSUME NEW x \in DOMAIN n PROVE SignalOK(n, x, J)
  BY DEF ModuleOK, DiffersAt
<1>1. CASE x = name
  BY <1>1
<1>2. CASE x # name
  <2>1. x \in DOMAIN m /\ n[x] = m[x] /\ DOMAIN m \subseteq DOMAIN n
    BY <1>2 DEF DiffersAt
  <2>2. SignalOK(m, x, J)
    BY <2>1 DEF ModuleOK
  <2>3. ASSUME NEW k \in DOMAIN n[x].drivers PROVE Attached(n, x, n[x].drivers[k])
    <3>1. k \in DOMAIN m[x].drivers /\ n[x].drivers[k] = m[x].drivers[k]
      BY <2>1
    <3>2. Attached(m, x, n[x].drivers[k])
      BY <2>2, <3>1 DEF SignalOK
    <3> QED BY <3>2, <2>1, StaysAttached
  <2> QED BY <2>1, <2>2, <2>3 DEF SignalOK
<1> QED BY <1>1, <1>2

(* More signals may be driven exclusively. *)
LEMMA MoreReplaceable ==
    ASSUME NEW m, NEW J, NEW K, ModuleOK(m, J), J \subseteq K
    PROVE  ModuleOK(m, K)
<1>1. \A x : Replaceable(x, J) => Replaceable(x, K)
  BY DEF Replaceable
<1> QED BY <1>1 DEF ModuleOK, SignalOK

(* A condition is added to a signal that is not driven exclusively.        *)
LEMMA ConditionAdded ==
    ASSUME NEW m, NEW J, ModuleOK(m, J), NEW name, ~Replaceable(name, J), NEW c, NEW d, Attached(m, name, d)
    PROVE  LET n == addCondition(m, name, c, d)
           IN /\ ModuleOK(n, J) /\ DOMAIN n = DOMAIN m
              /\ \A x \in DOMAIN m : x # name => n[x] = m[x]
<1> DEFINE n == addCondition(m, name, c, d)
<1>0. m = [x \in DOMAIN m |-> m[x]]
  BY DEF ModuleOK
<1>1. CASE name \notin DOMAIN m
  <2>1. n = m
    BY <1>0, <1>1 DEF addCondition
  <2> QED BY <2>1
<1>2. CASE name \in DOMAIN m
  <2>1. IsSignal(m[name]) /\ Parallel(m[name])
        /\ \A k \in DOMAIN m[name].drivers : Attached(m, name, m[name].drivers[k])
    BY <1>2 DEF ModuleOK, SignalOK
  <2>2. /\ n = [x \in DOMAIN m |-> n[x]] /\ DOMAIN n = DOMAIN m
        /\ \A x \in DOMAIN m : x # name => n[x] = m[x]
        /\ n[name] = [type |-> m[name].type, width |-> m[name].width,
                      conditions |-> Append(m[name].conditions, c),
                      drivers |-> Append(m[name].drivers, d)]
    BY <1>0, <1>2, <2>1, Conditioned
  <2> HIDE DEF n
  <2>3. PICK cs, ds : cs = m[name].conditions /\ ds = m[name].drivers
    OBVIOUS
  <2>4. IsSequence(cs) /\ IsSequence(ds) /\ Len(ds) = Len(cs)
    BY <2>1, <2>3 DEF IsSignal, Parallel
  <2>5. n[name].conditions = Append(cs, c) /\ n[name].drivers = Append(ds, d)
    <3>1. PICK more, longer : more = Append(cs, c) /\ longer = Append(ds, d)
      OBVIOUS
    <3>2. n[name] = [type |-> m[name].type, width |-> m[name].width,
                     conditions |-> more, drivers |-> longer]
      BY <2>2, <2>3, <3>1
    <3>3. n[name].conditions = more /\ n[name].drivers = longer
      BY <3>2
    <3> QED BY <3>1, <3>3
  <2>6. IsSignal(n[name]) /\ Parallel(n[name])
    <3>1. IsSequence(Append(cs, c)) /\ Len(Append(cs, c)) = Len(cs) + 1
      BY <2>4, AppendedIs
    <3>2. IsSequence(Append(ds, d)) /\ Len(Append(ds, d)) = Len(ds) + 1
      BY <2>4, AppendedIs
    <3>3. n[name] = [type |-> n[name].type, width |-> n[name].width,
                     conditions |-> n[name].conditions, drivers |-> n[name].drivers]
      BY <2>2
    <3> QED BY <3>1, <3>2, <3>3, <2>4, <2>5 DEF IsSignal, Parallel
  <2>7. ASSUME NEW k \in DOMAIN n[name].drivers PROVE Attached(n, name, n[name].drivers[k])
    <3>1. /\ Len(ds) \in Nat /\ DOMAIN ds = 1..Len(ds) /\ DOMAIN Append(ds, d) = 1..(Len(ds) + 1)
          /\ \A l \in 1..Len(ds) : Append(ds, d)[l] = ds[l]
          /\ Append(ds, d)[Len(ds) + 1] = d
      BY <2>4, AppendedIs
    <3>2. k \in 1..Len(ds) \/ k = Len(ds) + 1
      <4>1. k \in 1..(Len(ds) + 1)
        BY <2>5, <3>1
      <4> QED BY <4>1, <3>1
    <3>3. CASE k \in 1..Len(ds)
      <4>1. n[name].drivers[k] = m[name].drivers[k] /\ k \in DOMAIN m[name].drivers
        BY <2>3, <2>5, <3>1, <3>3
      <4> QED BY <4>1, <2>1, <2>2, StaysAttached
    <3>4. CASE k = Len(ds) + 1
      <4>1. n[name].drivers[k] = d
        BY <2>5, <3>1, <3>4
      <4> QED BY <4>1, <2>2, StaysAttached
    <3> QED BY <3>2, <3>3, <3>4
  <2>8. ModuleOK(n, J)
    <3>1. DiffersAt(m, n, name)
      BY <1>2, <2>2 DEF DiffersAt
    <3>2. SignalOK(n, name, J)
      BY <2>6, <2>7 DEF SignalOK
    <3> QED BY <3>1, <3>2, OneReplaced
  <2> QED BY <2>2, <2>8 DEF n
<1> QED BY <1>1, <1>2

(* A signal is created, or takes the width.                                *)
LEMMA SignalAdded ==
    ASSUME NEW m, NEW J, ModuleOK(m, J), NEW name, NEW t, NEW w,
           NEW n, n = AddSignal(m, name, t, w)
    PROVE  ModuleOK(n, J) /\ DiffersAt(m, n, name)
<1>0. m = [x \in DOMAIN m |-> m[x]]
  BY DEF ModuleOK
<1>1. CASE name \notin DOMAIN m
  <2>1. /\ DOMAIN n = DOMAIN m \cup {name} /\ n = [x \in DOMAIN n |-> n[x]]
        /\ \A x \in DOMAIN m : x # name => n[x] = m[x]
        /\ n[name] = NewSignal(t, w)
    BY <1>1 DEF AddSignal, AddPort, exists
  <2>2. IsSignal(n[name]) /\ Parallel(n[name]) /\ DOMAIN n[name].drivers = {}
    BY <2>1, EmptyIs DEF IsSignal, Parallel, NewSignal
  <2>3. ModuleOK(n, J)
    <3>1. DiffersAt(m, n, name)
      BY <2>1 DEF DiffersAt
    <3>2. SignalOK(n, name, J)
      BY <2>2 DEF SignalOK
    <3> QED BY <3>1, <3>2, OneReplaced
  <2> QED BY <2>1, <2>3 DEF DiffersAt
<1>2. CASE name \in DOMAIN m
  <2>1. /\ DOMAIN n = DOMAIN m \cup {name} /\ n = [x \in DOMAIN n |-> n[x]]
        /\ \A x \in DOMAIN m : x # name => n[x] = m[x]
        /\ n[name] = [m[name] EXCEPT !.width = w]
    BY <1>0, <1>2 DEF AddSignal, exists
  <2>2. SignalOK(m, name, J) /\ IsSignal(m[name])
    BY <1>2 DEF ModuleOK, SignalOK
  <2>3. n[name] = [type |-> m[name].type, width |-> w,
                   conditions |-> m[name].conditions, drivers |-> m[name].drivers]
    BY <2>1, <2>2 DEF IsSignal
  <2>4. n[name].conditions = m[name].conditions /\ n[name].drivers = m[name].drivers
    BY <2>3
  <2>5. IsSignal(n[name])
    <3>1. n[name] = [type |-> n[name].type, width |-> n[name].width,
                     conditions |-> n[name].conditions, drivers |-> n[name].drivers]
      BY <2>3
    <3> QED BY <3>1, <2>2, <2>4 DEF IsSignal
  <2>6. SignalOK(n, name, J)
    <3>1. Parallel(n[name]) \/ (Replaceable(name, J) /\ n[name].conditions = << >>)
      BY <2>1, <2>2, <2>4 DEF Parallel, SignalOK
    <3>2. \A k \in DOMAIN n[name].drivers : Attached(n, name, n[name].drivers[k])
      BY <2>1, <2>2, <2>4, StaysAttached DEF SignalOK
    <3> QED BY <3>1, <3>2, <2>5 DEF SignalOK
  <2>7. ModuleOK(n, J)
    BY <2>1, <2>6, OneReplaced DEF DiffersAt
  <2> QED BY <2>1, <2>7 DEF DiffersAt
<1> QED BY <1>1, <1>2

(* A signal gets one driver, and no condition. *)
LEMMA ExclusivelyDriven ==
    ASSUME NEW m, NEW J, ModuleOK(m, J), NEW name,
           Replaceable(name, J), NEW d, Attached(m, name, d)
    PROVE  LET n == setExclDriver(m, name, d)
           IN /\ ModuleOK(n, J) /\ DOMAIN n = DOMAIN m
              /\ \A x \in DOMAIN m : x # name => n[x] = m[x]
<1> DEFINE n == setExclDriver(m, name, d)
<1>0. m = [x \in DOMAIN m |-> m[x]]
  BY DEF ModuleOK
<1>1. CASE name \notin DOMAIN m
  <2>1. n = m
    BY <1>0, <1>1 DEF setExclDriver
  <2> QED BY <2>1
<1>2. CASE name \in DOMAIN m
  <2>1. IsSignal(m[name])
    BY <1>2 DEF ModuleOK, SignalOK
  <2>2. PICK t, w, cs, ds : m[name] = [type |-> t, width |-> w, conditions |-> cs, drivers |-> ds]
    BY <2>1 DEF IsSignal
  <2>3. PICK one : one = <<d>>
    OBVIOUS
  <2>4. PICK n1 : n1 = [m EXCEPT ![name].conditions = << >>]
    OBVIOUS
  <2>5. n = [n1 EXCEPT ![name].drivers = one]
    BY <2>3, <2>4 DEF setExclDriver
  <2>6. /\ n1 = [x \in DOMAIN m |-> n1[x]] /\ DOMAIN n1 = DOMAIN m
        /\ \A x \in DOMAIN m : x # name => n1[x] = m[x]
        /\ n1[name] = [type |-> t, width |-> w, conditions |-> << >>, drivers |-> ds]
    <3>1. n1[name] = [[type |-> t, width |-> w, conditions |-> cs, drivers |-> ds]
                      EXCEPT !.conditions = << >>]
      BY <2>4, <2>2, <1>2
    <3>2. n1[name] = [type |-> t, width |-> w, conditions |-> << >>, drivers |-> ds]
      BY <3>1
    <3> QED BY <3>2, <2>4
  <2> HIDE DEF n
  <2>7. /\ n = [x \in DOMAIN m |-> n[x]] /\ DOMAIN n = DOMAIN m
        /\ \A x \in DOMAIN m : x # name => n[x] = m[x]
        /\ n[name] = [type |-> t, width |-> w, conditions |-> << >>, drivers |-> one]
    <3>1. n[name] = [[type |-> t, width |-> w, conditions |-> << >>, drivers |-> ds]
                      EXCEPT !.drivers = one]
      BY <2>5, <2>6, <1>2
    <3>2. n[name] = [type |-> t, width |-> w, conditions |-> << >>, drivers |-> one]
      BY <3>1
    <3> QED BY <3>2, <2>5, <2>6
  <2>8. n[name].conditions = << >> /\ n[name].drivers = one
    BY <2>7
  <2>9. IsSignal(n[name])
    <3>1. n[name] = [type |-> n[name].type, width |-> n[name].width,
                     conditions |-> n[name].conditions, drivers |-> n[name].drivers]
      BY <2>7
    <3> QED BY <3>1, <2>3, <2>8, SingletonIs, EmptyIs DEF IsSignal
  <2>10. ASSUME NEW k \in DOMAIN n[name].drivers PROVE Attached(n, name, n[name].drivers[k])
    <3>1. n[name].drivers[k] = d
      BY <2>3, <2>8, SingletonIs
    <3> QED BY <3>1, <2>7, StaysAttached
  <2>11. ModuleOK(n, J)
    <3>1. DiffersAt(m, n, name)
      BY <1>2, <2>7 DEF DiffersAt
    <3>2. SignalOK(n, name, J)
      BY <2>8, <2>9, <2>10 DEF SignalOK
    <3> QED BY <3>1, <3>2, OneReplaced
  <2> QED BY <2>7, <2>11 DEF n
<1> QED BY <1>1, <1>2

-----------------------------------------------------------------------------
(* What the generator does to the signals.                                 *)

(* The kinds of the names. *)
LEMMA NamesApart ==
    /\ Finish[1] = "finish" /\ CurState[1] = "cur_state" /\ Start[1] = "start"
    /\ Reset[1] = "reset" /\ ReturnVal[1] = "return_val"
    /\ \A i : /\ Wire(i)[1] = "wire" /\ Reg(i)[1] = "reg" /\ Fu(i)[1] = "fu"
              /\ Op0(i)[1] = "op0" /\ Op1(i)[1] = "op1" /\ Arg(i)[1] = "arg"
BY DEF Finish, CurState, Start, Reset, ReturnVal, Wire, Reg, Fu, Op0, Op1, Arg

LEMMA NotReplaceable ==
    ASSUME NEW x, NEW J, x[1] \notin {"fu", "reg"}
    PROVE  ~Replaceable(x, J)
BY NamesApart DEF Replaceable

(* The module n has what m has, and the same control signals.              *)
Keeps(m, n, J) ==
    /\ ModuleOK(n, J) /\ DOMAIN m \subseteq DOMAIN n
    /\ \A x \in {Finish, CurState} : x \in DOMAIN m => n[x] = m[x]

(* A signal takes another type or width. *)
LEMMA FieldKeeps ==
    ASSUME NEW m, NEW J, ModuleOK(m, J), NEW name \in DOMAIN m, name \notin {Finish, CurState},
           NEW n, DiffersAt(m, n, name), NEW t, NEW w,
           n[name] = [type |-> t, width |-> w, conditions |-> m[name].conditions,
                      drivers |-> m[name].drivers]
    PROVE  Keeps(m, n, J)
<1>1. n[name].conditions = m[name].conditions /\ n[name].drivers = m[name].drivers
  OBVIOUS
<1>2. n[name] = [type |-> n[name].type, width |-> n[name].width,
                 conditions |-> n[name].conditions, drivers |-> n[name].drivers]
  OBVIOUS
<1>3. SignalOK(m, name, J) /\ IsSignal(m[name])
  BY DEF ModuleOK, SignalOK
<1>4. IsSignal(n[name])
  BY <1>1, <1>2, <1>3 DEF IsSignal
<1>5. DOMAIN n = DOMAIN m
  BY DEF DiffersAt
<1>6. SignalOK(n, name, J)
  <2>1. Parallel(n[name]) \/ (Replaceable(name, J) /\ n[name].conditions = << >>)
    BY <1>1, <1>3 DEF Parallel, SignalOK
  <2>2. \A k \in DOMAIN n[name].drivers : Attached(n, name, n[name].drivers[k])
    BY <1>1, <1>3, <1>5, StaysAttached DEF SignalOK
  <2> QED BY <2>1, <2>2, <1>4 DEF SignalOK
<1>7. ModuleOK(n, J)
  BY <1>6, OneReplaced
<1> QED BY <1>5, <1>7 DEF Keeps, DiffersAt

LEMMA KeepsTransitive ==
    ASSUME NEW m, NEW n, NEW o, NEW J, Keeps(m, n, J), Keeps(n, o, J)
    PROVE  Keeps(m, o, J)
<1>1. ASSUME NEW x \in {Finish, CurState}, x \in DOMAIN m PROVE o[x] = m[x]
  BY <1>1 DEF Keeps
<1> QED BY <1>1 DEF Keeps

LEMMA ConditionKeeps ==
    ASSUME NEW m, NEW J, ModuleOK(m, J), NEW name, ~Replaceable(name, J),
           name[1] \notin {"finish", "cur_state"}, NEW c, NEW d, Attached(m, name, d)
    PROVE  Keeps(m, addCondition(m, name, c, d), J)
BY ConditionAdded, NamesApart DEF Keeps

LEMMA SignalKeeps ==
    ASSUME NEW m, NEW J, ModuleOK(m, J), NEW name, name[1] \notin {"finish", "cur_state"},
           NEW t, NEW w
    PROVE  /\ Keeps(m, AddSignal(m, name, t, w), J)
           /\ name \in DOMAIN AddSignal(m, name, t, w)
<1>1. PICK n : n = AddSignal(m, name, t, w)
  OBVIOUS
<1>2. ModuleOK(n, J) /\ DiffersAt(m, n, name)
  BY <1>1, SignalAdded
<1>3. name # Finish /\ name # CurState
  BY NamesApart
<1> QED BY <1>1, <1>2, <1>3 DEF Keeps, DiffersAt

LEMMA DriverKeeps ==
    ASSUME NEW m, NEW J, ModuleOK(m, J), NEW name, Replaceable(name, J), NEW d, Attached(m, name, d)
    PROVE  Keeps(m, setExclDriver(m, name, d), J)
<1>1. name # Finish /\ name # CurState
  BY NamesApart DEF Replaceable
<1> QED BY <1>1, ExclusivelyDriven DEF Keeps

(* The loop that creates the wires and the registers.                      *)
LEMMA InstructionSignalsKeep ==
    ASSUME NEW m, NEW J, ModuleOK(m, J), NEW i
    PROVE  /\ Keeps(m, InstructionSignals(m, i), J)
           /\ {Wire(i), Reg(i)} \subseteq DOMAIN InstructionSignals(m, i)
<1>1. PICK m1 : m1 = addWire(m, Wire(i), F.type[i])
  OBVIOUS
<1>2. PICK m2 : m2 = addReg(m1, Reg(i), F.type[i])
  OBVIOUS
<1>3. Keeps(m, m1, J) /\ Wire(i) \in DOMAIN m1
  BY <1>1, SignalKeeps, NamesApart DEF addWire
<1>4. Keeps(m1, m2, J) /\ Reg(i) \in DOMAIN m2
  <2>1. ModuleOK(m1, J)
    BY <1>3 DEF Keeps
  <2> QED BY <1>2, <2>1, SignalKeeps, NamesApart DEF addReg
<1>5. Wire(i) \in DOMAIN m2
  BY <1>3, <1>4 DEF Keeps
<1>6. InstructionSignals(m, i) = m2
  BY <1>1, <1>2 DEF InstructionSignals
<1> QED BY <1>3, <1>4, <1>5, <1>6, KeepsTransitive

(* What of a function the generator relies on.                             *)
LEMMA FunctionSupported ==
    ASSUME input \in Schedules
    PROVE  /\ \A i \in Instrs(F) :
                F.op[i] \in BinaryOps \cup Comparisons \cup {"Load", "PHI", "Br", "Ret"}
           /\ F.type \in [Instrs(F) -> Nat] /\ F.args \in Seq(Nat)
           /\ \A i \in Instrs(F) :
                /\ F.operands[i] \in Seq(Int)
                /\ F.op[i] \in BinaryOps \cup Comparisons =>
                     F.type[i] > 0 /\ Len(F.operands[i]) = 2
                /\ F.op[i] = "Br" /\ Len(F.succ[F.bb[i]]) = 2 => Len(F.operands[i]) = 1
                /\ F.op[i] = "Ret" => Len(F.operands[i]) <= 1
                /\ \A n \in DOMAIN F.operands[i] :
                     /\ F.operands[i][n] > 0 =>
                          F.operands[i][n] \in Instrs(F) /\ F.type[F.operands[i][n]] > 0
                     /\ F.operands[i][n] < 0 => -F.operands[i][n] \in DOMAIN F.args
<1>1. /\ \A i \in Instrs(F) :
            F.op[i] \in BinaryOps \cup Comparisons \cup {"Load", "PHI", "Br", "Ret"}
      /\ \A i \in Instrs(F) :
           /\ F.operands[i] \in Seq(Int)
           /\ \A n \in DOMAIN F.operands[i] :
                F.operands[i][n] > 0 => F.operands[i][n] \in Instrs(F)
  BY SupportedAssumption, OperandsAssumption DEF F
<1>2. /\ F.type \in [Instrs(F) -> 0..(Unlimited - 1)] /\ F.args \in Seq(Nat)
      /\ \A i \in Instrs(F) :
           /\ F.op[i] \in BinaryOps \cup Comparisons => F.type[i] > 0 /\ Len(F.operands[i]) = 2
           /\ F.op[i] = "Br" /\ Len(F.succ[F.bb[i]]) = 2 => Len(F.operands[i]) = 1
           /\ F.op[i] = "Ret" => IF F.result = 0 THEN F.operands[i] = << >>
                                 ELSE Len(F.operands[i]) = 1
           /\ \A n \in DOMAIN F.operands[i] :
                /\ F.operands[i][n] > 0 => F.type[F.operands[i][n]] > 0
                /\ F.operands[i][n] < 0 => -F.operands[i][n] \in DOMAIN F.args
  BY TypesAssumption DEF F
<1>3. ASSUME NEW i \in Instrs(F), F.op[i] = "Ret" PROVE Len(F.operands[i]) <= 1
  <2>1. IF F.result = 0 THEN F.operands[i] = << >> ELSE Len(F.operands[i]) = 1
    BY <1>2, <1>3, Zenon
  <2>2. Len(F.operands[i]) = 0 \/ Len(F.operands[i]) = 1
    <3>1. PICK o : o = F.operands[i]
      OBVIOUS
    <3>2. o = << >> \/ Len(o) = 1
      BY <2>1, <3>1, Zenon
    <3>3. o = << >> => Len(o) = 0
      BY EmptyIs
    <3> QED BY <3>1, <3>2, <3>3
  <2>3. PICK l : l = Len(F.operands[i])
    OBVIOUS
  <2>4. l = 0 \/ l = 1
    BY <2>2, <2>3, Zenon
  <2>5. l <= 1
    BY <2>4
  <2> QED BY <2>3, <2>5, Zenon
<1>4. 0..(Unlimited - 1) \subseteq Nat
  BY DEF Unlimited
<1> QED BY <1>1, <1>2, <1>3, <1>4

(* Every wire and register of a value that is read is in the module.       *)
RegistersIn(m) == PortNames \subseteq DOMAIN m /\ \A i \in Kept : {Wire(i), Reg(i)} \subseteq DOMAIN m

LEMMA RegistersStay ==
    ASSUME NEW m, NEW n, NEW J, Keeps(m, n, J), RegistersIn(m)
    PROVE  RegistersIn(n)
BY DEF Keeps, RegistersIn

LEMMA ReadIsKept ==
    ASSUME input \in Schedules, NEW i \in Instrs(F), NEW n \in DOMAIN F.operands[i],
           F.operands[i][n] > 0
    PROVE  F.operands[i][n] \in Kept
<1>1. F.operands[i][n] \in Instrs(F) /\ F.type[F.operands[i][n]] > 0
  BY FunctionSupported
<1>2. F.type[F.operands[i][n]] # 0
  BY <1>1, FunctionSupported
<1>3. i \in Users(F.operands[i][n])
  <2>1. PICK ops : ops = F.operands[i]
    OBVIOUS
  <2>2. ops[n] \in ToSet(ops)
    BY <2>1 DEF ToSet
  <2>3. ops[n] \in Lva!ToSet(ops)
    BY <2>2 DEF Lva!ToSet, ToSet
  <2> QED BY <2>1, <2>3 DEF Users, Lva!Users, Lva!Instrs, Instrs
<1> QED BY <1>1, <1>2, <1>3 DEF Kept, shouldIgnoreInstruction

LEMMA OperandConnected ==
    ASSUME NEW m, RegistersIn(m), input \in Schedules, NEW i \in Instrs(F),
           NEW n \in DOMAIN F.operands[i]
    PROVE  /\ \A y : Attached(m, y, getOperandSignal(i, n))
           /\ Found(m, getOperandSignal(i, n)) /\ getOperandSignal(i, n) # NoSignal
           /\ getOperandSignal(i, n) # Named(Start) /\ getOperandSignal(i, n) # Named(Reset)
<1>1. PICK x : x = F.operands[i][n]
  OBVIOUS
<1>2. x \in Int
  BY <1>1, FunctionSupported
<1>3. CASE x > 0
  <2>1. getOperandSignal(i, n) = <<"signal", Reg(x)>>
    BY <1>1, <1>2, <1>3 DEF getOperandSignal, Named
  <2>2. Reg(x) \in DOMAIN m
    BY <1>1, <1>3, ReadIsKept DEF RegistersIn
  <2>3. Reg(x) # Start /\ Reg(x) # Reset
    BY NamesApart
  <2> QED BY <2>1, <2>2, <2>3 DEF Attached, Connected, Printable, Found, Named, NoSignal
<1>4. CASE x < 0
  <2>1. getOperandSignal(i, n) = <<"signal", Arg(-x)>>
    BY <1>1, <1>2, <1>4 DEF getOperandSignal, Named
  <2>2. Arg(-x) \in DOMAIN m
    <3>1. -x \in DOMAIN F.args
      BY <1>1, <1>4, FunctionSupported
    <3> QED BY <3>1 DEF RegistersIn, PortNames
  <2>3. Arg(-x) # Start /\ Arg(-x) # Reset
    BY NamesApart
  <2> QED BY <2>1, <2>2, <2>3 DEF Attached, Connected, Printable, Found, Named, NoSignal
<1>5. CASE x = 0
  <2>1. PICK w : w = OperandWidth(i, n)
    OBVIOUS
  <2>2. getOperandSignal(i, n) = <<"constant", <<"operand", i>>, w>>
    BY <1>1, <1>2, <1>5, <2>1 DEF getOperandSignal, Constant
  <2> QED BY <2>2 DEF Attached, Connected, Printable, Found, Named, NoSignal
<1> QED BY <1>2, <1>3, <1>4, <1>5

(* The signals of a unit. *)
LEMMA BindingSignalsKeep ==
    ASSUME NEW m, NEW J, ModuleOK(m, J), NEW i, unitOf[i] # Unbound
    PROVE  Keeps(m, BindingSignals(m, i), J) /\ Fu(i) \in DOMAIN BindingSignals(m, i)
<1>1. CASE exists(m, Fu(i))
  <2>1. BindingSignals(m, i) = m
    BY <1>1 DEF BindingSignals
  <2> QED BY <2>1, <1>1 DEF Keeps, exists
<1>2. CASE ~exists(m, Fu(i))
  <2> DEFINE binary == F.op[i] \in BinaryOps
             d == createFu(i, Named(Op0(i)), IF binary THEN Named(Op1(i)) ELSE NoSignal)
  <2>1. PICK m1 : m1 = addWire(m, Op0(i), OperandWidth(i, 1))
    OBVIOUS
  <2>2. PICK m2 : m2 = IF binary THEN addWire(m1, Op1(i), OperandWidth(i, 2)) ELSE m1
    OBVIOUS
  <2>3. PICK m3 : m3 = addWire(m2, Fu(i), F.type[i])
    OBVIOUS
  <2>4. BindingSignals(m, i) = setExclDriver(m3, Fu(i), d)
    BY <1>2, <2>1, <2>2, <2>3 DEF BindingSignals
  <2> HIDE DEF binary
  <2>5. Keeps(m, m1, J) /\ Op0(i) \in DOMAIN m1
    BY <2>1, SignalKeeps, NamesApart DEF addWire
  <2>6. ModuleOK(m1, J)
    BY <2>5 DEF Keeps
  <2>7. Keeps(m1, m2, J) /\ (binary => Op1(i) \in DOMAIN m2)
    <3>1. CASE binary
      BY <3>1, <2>2, <2>6, SignalKeeps, NamesApart DEF addWire
    <3>2. CASE ~binary
      <4>1. m2 = m1
        BY <3>2, <2>2
      <4> QED BY <3>2, <4>1, <2>6 DEF Keeps
    <3> QED BY <3>1, <3>2
  <2>8. ModuleOK(m2, J)
    BY <2>7 DEF Keeps
  <2>9. Keeps(m2, m3, J) /\ Fu(i) \in DOMAIN m3
    BY <2>3, <2>8, SignalKeeps, NamesApart DEF addWire
  <2>10. ModuleOK(m3, J)
    BY <2>9 DEF Keeps
  <2>11. Op0(i) \in DOMAIN m3 /\ (binary => Op1(i) \in DOMAIN m3)
    BY <2>5, <2>7, <2>9 DEF Keeps
  <2>12. Attached(m3, Fu(i), d)
    <3>1. d[1] = "operation" /\ d[3] = Named(Op0(i))
          /\ d[4] = IF binary THEN Named(Op1(i)) ELSE NoSignal
      BY DEF createFu, Operation
    <3>2. Found(m3, Named(Op0(i))) /\ (binary => Found(m3, Named(Op1(i))))
      BY <2>11 DEF Found, Named
    <3>3. Found(m3, NoSignal)
      BY DEF Found, NoSignal
    <3>4. Fu(i)[1] = "fu"
      BY DEF Fu
    <3> QED BY <3>1, <3>2, <3>3, <3>4 DEF Attached, Connected
  <2> HIDE DEF d
  <2>13. Replaceable(Fu(i), J)
    BY NamesApart DEF Replaceable
  <2>14. Keeps(m3, setExclDriver(m3, Fu(i), d), J)
    BY <2>10, <2>12, <2>13, DriverKeeps
  <2>15. Fu(i) \in DOMAIN setExclDriver(m3, Fu(i), d)
    BY <2>9, <2>14 DEF Keeps
  <2>16. Keeps(m, m2, J)
    BY <2>5, <2>7, KeepsTransitive
  <2>17. Keeps(m, m3, J)
    BY <2>16, <2>9, KeepsTransitive
  <2> QED BY <2>4, <2>14, <2>15, <2>17, KeepsTransitive
<1> QED BY <1>1, <1>2

(* An operation or a comparison is visited. *)
LEMMA OperatorVisited ==
    ASSUME NEW m, ModuleOK(m, {}), RegistersIn(m), input \in Schedules, NEW i \in Instrs(F),
           F.op[i] \in BinaryOps \cup Comparisons, unitOf[i] # Unbound => Fu(i) \in DOMAIN m, NEW s
    PROVE  Keeps(m, visitBinaryOperator(m, i, s), {})
<1>1. Len(F.operands[i]) = 2 /\ 1 \in DOMAIN F.operands[i] /\ 2 \in DOMAIN F.operands[i]
  BY FunctionSupported
<1>2. PICK m1 : m1 = addWire(m, Wire(i), F.type[i])
  OBVIOUS
<1>3. Keeps(m, m1, {}) /\ ModuleOK(m1, {})
  BY <1>2, SignalKeeps, NamesApart DEF addWire, Keeps
<1>4. RegistersIn(m1)
  BY <1>3, RegistersStay
<1>5. PICK a, b : a = getOperandSignal(i, 1) /\ b = getOperandSignal(i, 2)
  OBVIOUS
<1>6. /\ ~Replaceable(Wire(i), {}) /\ ~Replaceable(Op0(i), {}) /\ ~Replaceable(Op1(i), {})
      /\ Wire(i)[1] \notin {"finish", "cur_state"} /\ Op0(i)[1] \notin {"finish", "cur_state"}
      /\ Op1(i)[1] \notin {"finish", "cur_state"}
  BY NotReplaceable, NamesApart
<1>7. CASE unitOf[i] # Unbound
  <2>1. PICK m2 : m2 = addCondition(m1, Op0(i), InState(s), a)
    OBVIOUS
  <2>2. Keeps(m1, m2, {}) /\ ModuleOK(m2, {})
    <3>1. Attached(m1, Op0(i), a)
      BY <1>1, <1>4, <1>5, OperandConnected
    <3> QED BY <3>1, <1>3, <1>6, <2>1, ConditionKeeps DEF Keeps
  <2>3. PICK m3 : m3 = IF F.op[i] \in BinaryOps THEN addCondition(m2, Op1(i), InState(s), b) ELSE m2
    OBVIOUS
  <2>4. Keeps(m2, m3, {}) /\ ModuleOK(m3, {})
    <3>1. CASE F.op[i] \in BinaryOps
      <4>1. RegistersIn(m2)
        BY <1>4, <2>2, RegistersStay
      <4>2. Attached(m2, Op1(i), b)
        BY <4>1, <1>1, <1>5, OperandConnected
      <4>3. m3 = addCondition(m2, Op1(i), InState(s), b)
        BY <2>3, <3>1
      <4>4. Keeps(m2, m3, {})
        BY <4>2, <4>3, <2>2, <1>6, ConditionKeeps
      <4> QED BY <4>4 DEF Keeps
    <3>2. CASE F.op[i] \notin BinaryOps
      <4>1. m3 = m2
        BY <2>3, <3>2
      <4> QED BY <4>1, <2>2 DEF Keeps
    <3> QED BY <3>1, <3>2
  <2>5. PICK m4 : m4 = addCondition(m3, Wire(i), InState(s), Named(Fu(i)))
    OBVIOUS
  <2>6. Keeps(m3, m4, {})
    <3>1. Fu(i) \in DOMAIN m3
      BY <1>3, <1>7, <2>2, <2>4 DEF Keeps
    <3>2. Attached(m3, Wire(i), Named(Fu(i)))
      BY <3>1, PlainAttached
    <3> QED BY <3>2, <2>4, <2>5, <1>6, ConditionKeeps
  <2>7. visitBinaryOperator(m, i, s) = m4
    BY <1>2, <1>5, <1>7, <2>1, <2>3, <2>5 DEF visitBinaryOperator, BoundUse
  <2>8. Keeps(m, m2, {})
    BY <1>3, <2>2, KeepsTransitive
  <2>9. Keeps(m, m3, {})
    BY <2>8, <2>4, KeepsTransitive
  <2> QED BY <2>6, <2>7, <2>9, KeepsTransitive
<1>8. CASE unitOf[i] = Unbound
  <2> DEFINE d == createFu(i, a, b)
  <2>1. Attached(m1, Wire(i), d)
    <3>1. Found(m1, a) /\ Found(m1, b) /\ a # NoSignal /\ b # NoSignal
      BY <1>1, <1>4, <1>5, OperandConnected
    <3>2. d[1] = "operation" /\ d[3] = a /\ d[4] = b
      BY DEF createFu, Operation
    <3> QED BY <3>1, <3>2 DEF Attached, Connected, Printable
  <2>2. visitBinaryOperator(m, i, s) = addCondition(m1, Wire(i), InState(s), d)
    BY <1>2, <1>5, <1>8 DEF visitBinaryOperator
  <2> HIDE DEF d
  <2>3. Keeps(m1, addCondition(m1, Wire(i), InState(s), d), {})
    BY <2>1, <1>3, <1>6, ConditionKeeps
  <2> QED BY <1>3, <2>2, <2>3, KeepsTransitive
<1> QED BY <1>7, <1>8

(* A condition and a driver are added to finish or to cur_state.           *)
Appended(s, c, d) ==
    [type |-> s.type, width |-> s.width,
     conditions |-> Append(s.conditions, c), drivers |-> Append(s.drivers, d)]

LEMMA ControlAppended ==
    ASSUME NEW m, NEW J, ModuleOK(m, J), NEW name, name \in {Finish, CurState},
           name \in DOMAIN m, NEW c, NEW d, Attached(m, name, d), NEW n, n = addCondition(m, name, c, d)
    PROVE  /\ ModuleOK(n, J) /\ DOMAIN n = DOMAIN m /\ DiffersAt(m, n, name)
           /\ n[name] = Appended(m[name], c, d)
<1>1. ~Replaceable(name, J)
  BY NotReplaceable, NamesApart
<1>2. /\ ModuleOK(n, J) /\ DOMAIN n = DOMAIN m
      /\ \A x \in DOMAIN m : x # name => n[x] = m[x]
  BY <1>1, ConditionAdded
<1>3. m = [x \in DOMAIN m |-> m[x]] /\ IsSignal(m[name])
  BY DEF ModuleOK, SignalOK
<1>4. n[name] = Appended(m[name], c, d)
  BY <1>3, Conditioned DEF Appended
<1>5. DiffersAt(m, n, name)
  BY <1>2 DEF DiffersAt, ModuleOK
<1> QED BY <1>2, <1>4, <1>5

(* An instruction is visited in state s. *)
LEMMA InstructionVisited ==
    ASSUME NEW m, ModuleOK(m, {}), RegistersIn(m), input \in Schedules, NEW i \in Instrs(F),
           unitOf[i] # Unbound => Fu(i) \in DOMAIN m, NEW s, NEW n, n = Visit(m, i, s)
    PROVE  /\ ModuleOK(n, {}) /\ DOMAIN m \subseteq DOMAIN n
           /\ n[CurState] = m[CurState]
           /\ F.op[i] # "Ret" => n[Finish] = m[Finish]
           /\ F.op[i] = "Ret" => n[Finish] = Appended(m[Finish], InState(s), ONE)
<1>0. Finish \in DOMAIN m /\ CurState \in DOMAIN m /\ Finish # CurState
  BY NamesApart DEF RegistersIn, PortNames
<1>1. CASE F.op[i] \in BinaryOps \cup Comparisons
  <2>1. F.op[i] # "Ret"
    BY <1>1 DEF BinaryOps, Comparisons
  <2>2. n = visitBinaryOperator(m, i, s)
    BY <1>1, <2>1 DEF Visit
  <2>3. Keeps(m, n, {})
    BY <1>1, <2>2, OperatorVisited
  <2> QED BY <2>1, <2>3, <1>0 DEF Keeps
<1>2. CASE F.op[i] = "Ret"
  <2>1. PICK v : v = IF F.operands[i] = << >> THEN m
                     ELSE addCondition(m, ReturnVal, InState(s), getOperandSignal(i, 1))
    OBVIOUS
  <2>2. F.op[i] \notin BinaryOps \cup Comparisons
    BY <1>2 DEF BinaryOps, Comparisons
  <2>3. n = addCondition(v, Finish, InState(s), ONE)
    BY <1>2, <2>1, <2>2 DEF Visit, visitReturnInst
  <2>4. Keeps(m, v, {})
    <3>1. CASE F.operands[i] = << >>
      BY <3>1, <2>1 DEF Keeps
    <3>2. CASE F.operands[i] # << >>
      <4>1. 1 \in DOMAIN F.operands[i]
        <5>1. F.operands[i] \in Seq(Int)
          BY FunctionSupported
        <5> QED BY <5>1, <3>2
      <4>2. Attached(m, ReturnVal, getOperandSignal(i, 1))
        BY <4>1, OperandConnected
      <4>3. ~Replaceable(ReturnVal, {}) /\ ReturnVal[1] \notin {"finish", "cur_state"}
        BY NotReplaceable, NamesApart
      <4> QED BY <4>2, <4>3, <3>2, <2>1, ConditionKeeps
    <3> QED BY <3>1, <3>2
  <2>5. ModuleOK(v, {}) /\ DOMAIN m \subseteq DOMAIN v /\ v[Finish] = m[Finish]
        /\ v[CurState] = m[CurState] /\ Finish \in DOMAIN v /\ CurState \in DOMAIN v
    BY <2>4, <1>0 DEF Keeps
  <2>6. Attached(v, Finish, ONE)
    BY PlainAttached
  <2>7. /\ ModuleOK(n, {}) /\ DOMAIN n = DOMAIN v /\ DiffersAt(v, n, Finish)
        /\ n[Finish] = Appended(v[Finish], InState(s), ONE)
    BY <2>3, <2>5, <2>6, ControlAppended
  <2>8. n[CurState] = v[CurState]
    BY <2>7, <2>5, <1>0 DEF DiffersAt
  <2> QED BY <1>2, <2>5, <2>7, <2>8
<1>3. CASE F.op[i] \notin BinaryOps \cup Comparisons \cup {"Ret"}
  <2>1. n = m
    BY <1>3 DEF Visit
  <2> QED BY <2>1, <1>3
<1> QED BY <1>1, <1>2, <1>3

(* The transition of state s is generated. *)
LEMMA TransitionGenerated ==
    ASSUME NEW m, NEW J, ModuleOK(m, J), CurState \in DOMAIN m, NEW s, NEW n,
           n = generateStateTransition(m, s)
    PROVE  /\ ModuleOK(n, J) /\ DOMAIN n = DOMAIN m /\ DiffersAt(m, n, CurState)
           /\ state[s].transitions = << >> =>
                n[CurState] = Appended(m[CurState], InState(s), StateParam(state[s].default))
           /\ state[s].transitions # << >> =>
                n[CurState] =
                  Appended(Appended(m[CurState], InStateWhen(s, getTransitionOperand(s), 1),
                                    StateParam(state[s].transitions[1][1])),
                           InStateWhen(s, getTransitionOperand(s), 0), StateParam(state[s].default))
<1>1. \A x, o : Attached(o, CurState, StateParam(x))
  BY PlainAttached
<1>2. CASE state[s].transitions = << >>
  <2>1. n = addCondition(m, CurState, InState(s), StateParam(state[s].default))
    BY <1>2 DEF generateStateTransition
  <2> QED BY <2>1, <1>1, <1>2, ControlAppended
<1>3. CASE state[s].transitions # << >>
  <2> DEFINE c1 == InStateWhen(s, getTransitionOperand(s), 1)
             c0 == InStateWhen(s, getTransitionOperand(s), 0)
             d1 == StateParam(state[s].transitions[1][1])
             d0 == StateParam(state[s].default)
  <2>1. PICK m1 : m1 = addCondition(m, CurState, c1, d1)
    OBVIOUS
  <2>2. n = addCondition(m1, CurState, c0, d0)
    BY <1>3, <2>1 DEF generateStateTransition
  <2>3. Attached(m, CurState, d1)
    BY <1>1
  <2>4. Attached(m1, CurState, d0)
    BY <1>1
  <2> HIDE DEF c1, c0, d1, d0
  <2>5. /\ ModuleOK(m1, J) /\ DOMAIN m1 = DOMAIN m /\ DiffersAt(m, m1, CurState)
        /\ m1[CurState] = Appended(m[CurState], c1, d1)
    BY <2>1, <2>3, ControlAppended
  <2>6. /\ ModuleOK(n, J) /\ DOMAIN n = DOMAIN m1 /\ DiffersAt(m1, n, CurState)
        /\ n[CurState] = Appended(m1[CurState], c0, d0)
    BY <2>2, <2>4, <2>5, ControlAppended
  <2>7. DiffersAt(m, n, CurState)
    BY <2>5, <2>6 DEF DiffersAt
  <2>8. n[CurState] = Appended(Appended(m[CurState], c1, d1), c0, d0)
    BY <2>5, <2>6
  <2> QED BY <2>5, <2>6, <2>7, <2>8, <1>3 DEF c1, c0, d1, d0
<1> QED BY <1>2, <1>3

(* A register is replaced by that of another instruction. *)
LEMMA RegisterShared ==
    ASSUME NEW m, NEW J, ModuleOK(m, J), NEW i \in J, NEW first, first \notin J,
           {Wire(i), Reg(first)} \subseteq DOMAIN m
    PROVE  Keeps(m, Share(m, first, i), J)
<1>1. PICK w : w = Min({Max({m[Reg(first)].width, m[Reg(i)].width}), F.type[first]})
  OBVIOUS
<1>2. PICK m1 : m1 = [m EXCEPT ![Reg(first)].width = w]
  OBVIOUS
<1>3. PICK m2 : m2 = addCondition(m1, Reg(first), InState(WrittenIn(i)), Named(Wire(i)))
  OBVIOUS
<1>4. PICK m3 : m3 = [m2 EXCEPT ![Reg(i)].type = "wire"]
  OBVIOUS
<1>5. Share(m, first, i) = setExclDriver(m3, Reg(i), Named(Reg(first)))
  BY <1>1, <1>2, <1>3, <1>4 DEF Share
<1>6. \A j : Reg(j) # Finish /\ Reg(j) # CurState /\ Reg(j)[1] \notin {"finish", "cur_state"}
  BY NamesApart
<1>7. ASSUME NEW o, ModuleOK(o, J), NEW j, NEW p, NEW v, p = [o EXCEPT ![Reg(j)].width = v]
      PROVE  Keeps(o, p, J)
  <2>1. o = [x \in DOMAIN o |-> o[x]] /\ (Reg(j) \in DOMAIN o => IsSignal(o[Reg(j)]))
    BY <1>7 DEF ModuleOK, SignalOK
  <2>2. CASE Reg(j) \in DOMAIN o
    <3>1. PICK t, u, cs, ds : o[Reg(j)] = [type |-> t, width |-> u, conditions |-> cs, drivers |-> ds]
      BY <2>1, <2>2 DEF IsSignal
    <3>2. p[Reg(j)] = [type |-> t, width |-> v, conditions |-> cs, drivers |-> ds]
      <4>1. p[Reg(j)] = [[type |-> t, width |-> u, conditions |-> cs, drivers |-> ds] EXCEPT !.width = v]
        BY <1>7, <2>1, <2>2, <3>1
      <4> QED BY <4>1
    <3>3. p[Reg(j)] = [type |-> t, width |-> v, conditions |-> o[Reg(j)].conditions,
                       drivers |-> o[Reg(j)].drivers]
      <4>1. o[Reg(j)].conditions = cs /\ o[Reg(j)].drivers = ds
        BY <3>1
      <4> QED BY <4>1, <3>2
    <3>4. DiffersAt(o, p, Reg(j))
      BY <1>7, <2>1, <2>2 DEF DiffersAt
    <3>5. Reg(j) \notin {Finish, CurState}
      BY <1>6
    <3> QED BY <2>2, <3>3, <3>4, <3>5, <1>7, FieldKeeps
  <2>3. CASE Reg(j) \notin DOMAIN o
    <3>1. p = o
      BY <1>7, <2>1, <2>3
    <3> QED BY <3>1, <1>7 DEF Keeps
  <2> QED BY <2>2, <2>3
<1>8. ASSUME NEW o, ModuleOK(o, J), NEW j, NEW p, NEW v, p = [o EXCEPT ![Reg(j)].type = v]
      PROVE  Keeps(o, p, J)
  <2>1. o = [x \in DOMAIN o |-> o[x]] /\ (Reg(j) \in DOMAIN o => IsSignal(o[Reg(j)]))
    BY <1>8 DEF ModuleOK, SignalOK
  <2>2. CASE Reg(j) \in DOMAIN o
    <3>1. PICK t, u, cs, ds : o[Reg(j)] = [type |-> t, width |-> u, conditions |-> cs, drivers |-> ds]
      BY <2>1, <2>2 DEF IsSignal
    <3>2. p[Reg(j)] = [type |-> v, width |-> u, conditions |-> cs, drivers |-> ds]
      <4>1. p[Reg(j)] = [[type |-> t, width |-> u, conditions |-> cs, drivers |-> ds] EXCEPT !.type = v]
        BY <1>8, <2>1, <2>2, <3>1
      <4> QED BY <4>1
    <3>3. p[Reg(j)] = [type |-> v, width |-> u, conditions |-> o[Reg(j)].conditions,
                       drivers |-> o[Reg(j)].drivers]
      <4>1. o[Reg(j)].conditions = cs /\ o[Reg(j)].drivers = ds
        BY <3>1
      <4> QED BY <4>1, <3>2
    <3>4. DiffersAt(o, p, Reg(j))
      BY <1>8, <2>1, <2>2 DEF DiffersAt
    <3>5. Reg(j) \notin {Finish, CurState}
      BY <1>6
    <3> QED BY <2>2, <3>3, <3>4, <3>5, <1>8, FieldKeeps
  <2>3. CASE Reg(j) \notin DOMAIN o
    <3>1. p = o
      BY <1>8, <2>1, <2>3
    <3> QED BY <3>1, <1>8 DEF Keeps
  <2> QED BY <2>2, <2>3
<1>9. Keeps(m, m1, J) /\ ModuleOK(m1, J)
  <2>1. Keeps(m, m1, J)
    BY <1>2, <1>7
  <2> QED BY <2>1 DEF Keeps
<1>10. Keeps(m1, m2, J) /\ ModuleOK(m2, J)
  <2>1. Wire(i) \in DOMAIN m1
    BY <1>9 DEF Keeps
  <2>2. Attached(m1, Reg(first), Named(Wire(i)))
    BY <2>1, PlainAttached
  <2>3. ~Replaceable(Reg(first), J)
    <3>1. \A j : Reg(j) = Reg(first) => j = first
      BY DEF Reg
    <3> QED BY <3>1, NamesApart DEF Replaceable
  <2>4. Keeps(m1, m2, J)
    BY <2>2, <2>3, <1>3, <1>6, <1>9, ConditionKeeps
  <2> QED BY <2>4 DEF Keeps
<1>11. Keeps(m2, m3, J) /\ ModuleOK(m3, J)
  <2>1. Keeps(m2, m3, J)
    BY <1>4, <1>8, <1>10
  <2> QED BY <2>1 DEF Keeps
<1>12. Keeps(m, m3, J)
  BY <1>9, <1>10, <1>11, KeepsTransitive
<1>13. Keeps(m3, Share(m, first, i), J)
  <2>1. Attached(m3, Reg(i), Named(Reg(first)))
    <3>1. Reg(first) \in DOMAIN m3
      BY <1>12 DEF Keeps
    <3> QED BY <3>1, PlainAttached
  <2>2. Replaceable(Reg(i), J)
    BY DEF Replaceable
  <2> QED BY <2>1, <2>2, <1>5, <1>11, DriverKeeps
<1> QED BY <1>12, <1>13, KeepsTransitive

(* What a step that leaves the machine and the binding alone cannot change. *)
LEMMA SameBinding ==
    ASSUME UNCHANGED vars
    PROVE  /\ F' = F /\ Kept' = Kept /\ PortNames' = PortNames /\ Bindable' = Bindable
           /\ list' = list /\ state' = state /\ address' = address /\ phase' = phase
           /\ \A i : Fu(i)' = Fu(i)
           /\ \A i : Joins(i)' <=> Joins(i)
<1>1. /\ input' = input /\ list' = list /\ state' = state /\ address' = address
      /\ phase' = phase /\ unitOf' = unitOf /\ groups' = groups
  BY DEF vars, mapVars, lvaVars, bindVars
<1>2. F' = F /\ Bindable' = Bindable /\ \A i : FuOf(i)' = FuOf(i)
  BY <1>1, SameFunction
<1>3. Kept' = Kept
  BY <1>2 DEF Kept, shouldIgnoreInstruction, Users, Lva!Users, Lva!Instrs, Instrs
<1>4. PortNames' = PortNames
  BY <1>2 DEF PortNames, Instrs
<1>5. \A i : Fu(i)' = Fu(i)
  BY <1>1, <1>2 DEF Fu, FuInstName, FuOf
<1>6. \A i : Joins(i)' <=> Joins(i)
  BY <1>1, <1>2 DEF Joins, Leader, FuOf
<1> QED BY <1>1, <1>2, <1>3, <1>4, <1>5, <1>6

(* The first element of a sequence and the others. *)
LEMMA TakenFirst ==
    ASSUME NEW S, NEW q \in Seq(S), q # << >>
    PROVE  /\ Head(q) \in ToSet(q) /\ Head(q) \in S /\ Tail(q) \in Seq(S)
           /\ ToSet(q) \subseteq {Head(q)} \cup ToSet(Tail(q)) /\ ToSet(Tail(q)) \subseteq ToSet(q)
<1>1. Len(q) \in Nat /\ Len(q) >= 1 /\ DOMAIN q = 1..Len(q)
  OBVIOUS
<1>2. Head(q) = q[1] /\ 1 \in DOMAIN q
  BY <1>1
<1>3. /\ Tail(q) \in Seq(S) /\ Len(Tail(q)) = Len(q) - 1 /\ DOMAIN Tail(q) = 1..(Len(q) - 1)
      /\ \A k \in 1..(Len(q) - 1) : Tail(q)[k] = q[k + 1]
  BY <1>1
<1>4. ASSUME NEW k \in 1..Len(q) PROVE q[k] \in {Head(q)} \cup ToSet(Tail(q))
  <2>1. CASE k = 1
    BY <2>1, <1>2
  <2>2. CASE k # 1
    <3>1. k - 1 \in 1..(Len(q) - 1) /\ (k - 1) + 1 = k
      BY <2>2, <1>1
    <3>2. Tail(q)[k - 1] = q[k] /\ k - 1 \in DOMAIN Tail(q)
      BY <3>1, <1>3
    <3> QED BY <3>2 DEF ToSet
  <2> QED BY <2>1, <2>2
<1>5. ASSUME NEW k \in 1..(Len(q) - 1) PROVE Tail(q)[k] \in ToSet(q)
  <2>1. k + 1 \in DOMAIN q /\ Tail(q)[k] = q[k + 1]
    BY <1>1, <1>3
  <2> QED BY <2>1 DEF ToSet
<1>6. ToSet(q) \subseteq {Head(q)} \cup ToSet(Tail(q))
  BY <1>1, <1>4 DEF ToSet
<1>7. ToSet(Tail(q)) \subseteq ToSet(q)
  <2>1. \A x \in ToSet(Tail(q)) : \E k \in 1..(Len(q) - 1) : x = Tail(q)[k]
    BY <1>3 DEF ToSet
  <2> QED BY <2>1, <1>5
<1> QED BY <1>2, <1>3, <1>6, <1>7 DEF ToSet

LEMMA EmptySet == ToSet(<< >>) = {}
BY DEF ToSet

-----------------------------------------------------------------------------
(* The steps of the generator.                                             *)

(* Nothing is generated in the beginning. *)
LEMMA InitGenInv == GenInit => GenInv
<1> SUFFICES ASSUME GenInit PROVE GenInv
  OBVIOUS
<1>1. BInv /\ phase = "createFsm"
  BY InitBInv DEF GenInit, Init
<1>2. PartOf
  BY <1>1 DEF PartOf, GenInit
<1>3. Len(list) \in Nat
  BY <1>1 DEF BInv, IInv, ShapeOK
<1>4. Remaining
  BY <1>3 DEF Remaining, GenInit, Undeclared
<1>5. Contents
  BY DEF Contents, GenInit, Undeclared
<1> QED BY <1>1, <1>2, <1>4, <1>5 DEF GenInv

(* What BitpackHls::run calls before. *)
LEMMA BeforeStep == GenInv /\ Before => GenInv'
<1> SUFFICES ASSUME GenInv, Before PROVE GenInv'
  OBVIOUS
<1>1. BInv'
  BY createFsmStep, analizeStep DEF GenInv, Before
<1>2. input' = input /\ F' = F
  <2>1. input' = input
    <3>1. CASE createFsm
      BY <3>1 DEF createFsm, MapNext, createFirstStates, linkWaitState, createChains, nameStates,
                  Returned, mapVars
    <3>2. CASE analize
      BY <3>2 DEF analize, mapVars
    <3> QED BY <3>1, <3>2 DEF Before
  <2> QED BY <2>1 DEF F
<1>3. phase' \in {"createFsm", "analize", "bindFuInState", "shareRegisters"}
  BY DEF Before, createFsm, analize
<1>4. PartOf'
  BY <1>3 DEF PartOf, Before
<1>5. Len(list') \in Nat
  BY <1>1 DEF BInv, IInv, ShapeOK
<1>6. part = "createFsm" /\ visited = 0 /\ module = << >> /\ rest \in Seq(Instrs(F))
  BY DEF GenInv, Before, Remaining, Contents, Undeclared
<1>7. Remaining'
  <2>1. rest' \in Seq(Instrs(F)')
    BY <1>2, <1>6 DEF Before, Instrs
  <2> QED BY <2>1, <1>5, <1>6 DEF Remaining, Undeclared, Before
<1>8. Contents'
  BY <1>6 DEF Contents, Before, Undeclared
<1> QED BY <1>1, <1>4, <1>7, <1>8 DEF GenInv

(* A port is a new signal. *)
LEMMA PortIsNew ==
    /\ \A x \in PortNames : \E t, w : Port(x) = NewSignal(t, w)
    /\ Port(Finish) = NewSignal("output reg", 1) /\ Port(CurState) = NewSignal("reg", 0)
<1>1. /\ Finish \notin {Start, Reset, CurState, ReturnVal}
      /\ CurState \notin {Start, Reset, Finish, ReturnVal}
      /\ Start \notin {Finish, CurState, ReturnVal} /\ Reset \notin {Finish, CurState, ReturnVal}
      /\ ReturnVal \notin {Start, Reset, Finish, CurState}
  BY NamesApart
<1>2. Port(Finish) = NewSignal("output reg", 1)
  BY <1>1 DEF Port
<1>3. Port(CurState) = NewSignal("reg", 0)
  BY <1>1 DEF Port
<1>4. ASSUME NEW x PROVE \E t, w : Port(x) = NewSignal(t, w)
  <2>1. CASE x \in {Start, Reset}
    <3>1. Port(x) = NewSignal("input wire", 1)
      BY <2>1, <1>1 DEF Port
    <3> QED BY <3>1
  <2>2. CASE x \notin {Start, Reset} /\ x \in {Finish, CurState}
    BY <2>2, <1>2, <1>3
  <2>3. CASE x \notin {Start, Reset, Finish, CurState} /\ x = ReturnVal
    <3>1. Port(x) = NewSignal("output reg", F.result)
      BY <2>3 DEF Port
    <3> QED BY <3>1
  <2>4. CASE x \notin {Start, Reset, Finish, CurState, ReturnVal}
    <3>1. Port(x) = NewSignal("input wire", F.args[x[2]])
      BY <2>4 DEF Port
    <3> QED BY <3>1
  <2> QED BY <2>1, <2>2, <2>3, <2>4
<1> QED BY <1>2, <1>3, <1>4

(* The ports are created. *)
LEMMA PortsDeclared ==
    ASSUME generateDeclaration
    PROVE  /\ ModuleOK(module', {}) /\ DOMAIN module' = PortNames
           /\ module'[CurState] = NewSignal("reg", 0)
           /\ module'[Finish] = Appended(NewSignal("output reg", 1), InState(list[1]), ZERO)
<1> DEFINE ports == [x \in PortNames |-> Port(x)]
           cleared == IF F.result = 0 THEN ports
                      ELSE addCondition(ports, ReturnVal, InState(list[1]),
                                        Constant(<<"bit", 0>>, ports[ReturnVal].width))
<1>1. module' = addCondition(cleared, Finish, InState(list[1]), ZERO)
  BY DEF generateDeclaration
<1>2. DOMAIN ports = PortNames /\ ports = [x \in DOMAIN ports |-> ports[x]]
      /\ \A x \in PortNames : ports[x] = Port(x)
  OBVIOUS
<1> HIDE DEF ports
<1>3. ModuleOK(ports, {})
  <2> SUFFICES ASSUME NEW x \in PortNames PROVE SignalOK(ports, x, {})
    BY <1>2 DEF ModuleOK
  <2>0. \E t, w : Port(x) = NewSignal(t, w)
    BY PortIsNew
  <2>1. PICK t, w : ports[x] = NewSignal(t, w)
    BY <1>2, <2>0
  <2>2. ports[x] = [type |-> t, width |-> w, conditions |-> << >>, drivers |-> << >>]
    BY <2>1 DEF NewSignal
  <2>3. /\ ports[x].type = t /\ ports[x].width = w
        /\ ports[x].conditions = << >> /\ ports[x].drivers = << >>
    BY <2>2
  <2> QED BY <2>2, <2>3, EmptyIs DEF SignalOK, IsSignal, Parallel
<1>4. Finish \in PortNames /\ CurState \in PortNames
  BY DEF PortNames
<1>5. ModuleOK(cleared, {}) /\ DOMAIN cleared = PortNames
      /\ cleared[Finish] = NewSignal("output reg", 1) /\ cleared[CurState] = NewSignal("reg", 0)
  <2>1. CASE F.result = 0
    BY <2>1, <1>2, <1>3, <1>4, PortIsNew
  <2>2. CASE F.result # 0
    <3> DEFINE zero == Constant(<<"bit", 0>>, ports[ReturnVal].width)
    <3>1. cleared = addCondition(ports, ReturnVal, InState(list[1]), zero)
      BY <2>2
    <3>2. Attached(ports, ReturnVal, zero)
      BY PlainAttached
    <3>3. ~Replaceable(ReturnVal, {})
      BY NamesApart, NotReplaceable
    <3> HIDE DEF zero, cleared
    <3>4. /\ ModuleOK(cleared, {}) /\ DOMAIN cleared = DOMAIN ports
          /\ \A x \in DOMAIN ports : x # ReturnVal => cleared[x] = ports[x]
      BY <3>1, <3>2, <3>3, <1>3, ConditionAdded
    <3>5. Finish # ReturnVal /\ CurState # ReturnVal
      BY NamesApart
    <3> QED BY <3>4, <3>5, <1>2, <1>4, PortIsNew
  <2> QED BY <2>1, <2>2
<1> HIDE DEF cleared
<1>6. Attached(cleared, Finish, ZERO)
  BY PlainAttached
<1>7. /\ ModuleOK(module', {}) /\ DOMAIN module' = DOMAIN cleared
      /\ DiffersAt(cleared, module', Finish)
      /\ module'[Finish] = Appended(cleared[Finish], InState(list[1]), ZERO)
  <2>1. Finish \in DOMAIN cleared
    BY <1>4, <1>5
  <2>2. PICK n, c : n = module' /\ c = InState(list[1])
    OBVIOUS
  <2>3. n = addCondition(cleared, Finish, c, ZERO)
    BY <2>2, <1>1
  <2>4. ModuleOK(cleared, {})
    BY <1>5
  <2>5. /\ ModuleOK(n, {}) /\ DOMAIN n = DOMAIN cleared /\ DiffersAt(cleared, n, Finish)
        /\ n[Finish] = Appended(cleared[Finish], c, ZERO)
    BY <2>1, <2>3, <2>4, <1>6, ControlAppended
  <2> QED BY <2>2, <2>5
<1>8. module'[CurState] = cleared[CurState]
  <2>1. CurState # Finish
    BY NamesApart
  <2> QED BY <2>1, <1>4, <1>5, <1>7 DEF DiffersAt
<1> QED BY <1>5, <1>7, <1>8

(* The instructions that the generator loops over. *)
LEMMA KeptInOrder ==
    ASSUME input \in Schedules, NEW S, S \subseteq Kept
    PROVE  LayoutOrder(S) \in Seq(Instrs(F)) /\ ToSet(LayoutOrder(S)) = S
<1>1. S \subseteq Instrs(F)
  BY DEF Kept
<1>2. Instrs(F) \subseteq Nat /\ IsFiniteSet(Instrs(F))
  BY SchedulesAssumption, ControlFlowShape DEF F
<1>3. IsFiniteSet(S)
  BY <1>1, <1>2, FS_Subset
<1>4. LayoutOrder(S) \in Seq(S) /\ ToSet(LayoutOrder(S)) = S
  BY <1>1, <1>2, <1>3, LayoutOrderRange
<1>5. LayoutOrder(S) \in Seq(Instrs(F))
  <2>1. PICK o : o = LayoutOrder(S)
    OBVIOUS
  <2> QED BY <2>1, <1>1, <1>4
<1> QED BY <1>4, <1>5

(* The declaration of the module. *)
LEMMA generateDeclarationStep == GenInv /\ generateDeclaration => GenInv'
<1> SUFFICES ASSUME GenInv, generateDeclaration PROVE GenInv'
  OBVIOUS
<1>1. /\ UNCHANGED vars /\ part = "generateDeclaration" /\ part' = "addInstructionsSignals"
      /\ visited' = visited /\ rest' = LayoutOrder(Kept)
  BY DEF generateDeclaration
<1>2. BInv'
  BY <1>1, StutteringStep DEF GenInv
<1>3. /\ F' = F /\ Kept' = Kept /\ PortNames' = PortNames /\ list' = list
      /\ phase' = phase
  BY <1>1, SameBinding
<1>4. input \in Schedules /\ Len(list) \in Nat
  BY DEF GenInv, BInv, IInv, ShapeOK
<1>5. rest' \in Seq(Instrs(F)) /\ ToSet(rest') = Kept
  BY <1>1, <1>4, KeptInOrder
<1>6. PartOf'
  BY <1>1, <1>3 DEF GenInv, PartOf
<1>7. Remaining'
  <2>1. rest' \in Seq(Instrs(F)')
    BY <1>3, <1>5 DEF Instrs
  <2>2. visited = 0
    BY <1>1 DEF GenInv, Remaining, Undeclared
  <2> QED BY <2>1, <2>2, <1>1, <1>3, <1>4 DEF Remaining, Undeclared
<1>8. Contents'
  <2>1. Joining' = {}
    BY <1>1 DEF Joining
  <2>2. ModuleOK(module', {}) /\ DOMAIN module' = PortNames
    BY PortsDeclared
  <2>3. ModuleOK(module', Joining')
    BY <2>1, <2>2
  <2>4. \A i \in Kept' : i \in ToSet(rest)'
    BY <1>3, <1>5 DEF ToSet
  <2> QED BY <2>2, <2>3, <2>4, <1>1, <1>3 DEF Contents, Undeclared
<1> QED BY <1>2, <1>6, <1>7, <1>8 DEF GenInv

(* The names that the function alone decides. *)
LEMMA SameNames ==
    ASSUME UNCHANGED input
    PROVE  Kept' = Kept /\ PortNames' = PortNames
<1>1. F' = F
  BY SameFunction
<1>2. Kept' = Kept
  BY <1>1 DEF Kept, shouldIgnoreInstruction, Users, Lva!Users, Lva!Instrs, Instrs
<1>3. PortNames' = PortNames
  BY <1>1 DEF PortNames, Instrs
<1> QED BY <1>2, <1>3

(* The control signals are what they were. *)
ControlKept == module'[Finish] = module[Finish] /\ module'[CurState] = module[CurState]

(* What a step that keeps the signals has to show. *)
LEMMA ContentsStay ==
    ASSUME GenInv, UNCHANGED input, part \notin Undeclared, part' \notin Undeclared,
           ModuleOK(module', Joining'), DOMAIN module \subseteq DOMAIN module',
           \A i \in Kept : (part' = "addInstructionsSignals" => i \notin ToSet(rest')) =>
               {Wire(i), Reg(i)} \subseteq DOMAIN module',
           part' \in {"createBindingSignals", "generateDatapath"} =>
               /\ unitOf' = unitOf
               /\ \A i \in Bindable : (part' = "createBindingSignals" => i \notin ToSet(rest')) =>
                   Fu(i) \in DOMAIN module'
    PROVE  Contents'
<1>2. Kept' = Kept /\ PortNames' = PortNames
  BY SameNames
<1>3. PortNames \subseteq DOMAIN module
  BY DEF GenInv, Contents
<1>5. ModuleOK(module', Joining') /\ PortNames' \subseteq DOMAIN module'
  BY <1>2, <1>3
<1>6. ASSUME NEW i \in Kept', part' = "addInstructionsSignals" => i \notin ToSet(rest)'
      PROVE  {Wire(i), Reg(i)} \subseteq DOMAIN module'
  <2>1. ToSet(rest)' = ToSet(rest')
    BY DEF ToSet
  <2> QED BY <2>1, <1>2, <1>6
<1>7. ASSUME part' \in {"createBindingSignals", "generateDatapath"}, NEW i \in Bindable',
             part' = "createBindingSignals" => i \notin ToSet(rest)'
      PROVE  Fu(i)' \in DOMAIN module'
  <2>1. ToSet(rest)' = ToSet(rest')
    BY DEF ToSet
  <2>2. F' = F /\ Bindable' = Bindable /\ FuOf(i)' = FuOf(i) /\ unitOf' = unitOf
    BY <1>7, SameFunction
  <2>3. Fu(i)' = Fu(i)
    BY <2>2 DEF Fu, FuInstName, FuOf
  <2>4. i \in Bindable /\ Fu(i) \in DOMAIN module'
    BY <2>1, <2>2, <1>7
  <2> QED BY <2>3, <2>4
<1>8. Contents'
  <2>1. part' \in Undeclared => FALSE
    OBVIOUS
  <2> QED BY <2>1, <1>5, <1>6, <1>7 DEF Contents, Undeclared
<1> QED BY <1>8

(* The same of a step that is the generator's alone. *)
LEMMA ContentsKept ==
    ASSUME GenInv, UNCHANGED vars, part \notin Undeclared, part' \notin Undeclared,
           Keeps(module, module', Joining'),
           \A i \in Kept : (part' = "addInstructionsSignals" => i \notin ToSet(rest')) =>
               {Wire(i), Reg(i)} \subseteq DOMAIN module',
           part' \in {"createBindingSignals", "generateDatapath"} =>
               \A i \in Bindable : (part' = "createBindingSignals" => i \notin ToSet(rest')) =>
                   Fu(i) \in DOMAIN module'
    PROVE  BInv' /\ Contents' /\ ControlKept
<1>1. BInv'
  BY StutteringStep DEF GenInv
<1>2. ControlKept
  <2>1. Finish \in DOMAIN module /\ CurState \in DOMAIN module
    BY DEF GenInv, Contents, PortNames
  <2> QED BY <2>1 DEF ControlKept, Keeps
<1>3. UNCHANGED input /\ unitOf' = unitOf
  BY DEF vars, mapVars, bindVars
<1>4. ModuleOK(module', Joining') /\ DOMAIN module \subseteq DOMAIN module'
  BY DEF Keeps
<1> QED BY <1>1, <1>2, <1>3, <1>4, ContentsStay

(* What is unchanged is kept. *)
LEMMA NothingChanges ==
    ASSUME NEW m, NEW J, ModuleOK(m, J)
    PROVE  Keeps(m, m, J)
BY DEF Keeps

(* The wires and the registers of the instructions. *)
LEMMA addInstructionsSignalsStep ==
    ASSUME GenInv, addInstructionsSignals
    PROVE  GenInv' /\ ControlKept
<1>1. /\ UNCHANGED vars /\ part = "addInstructionsSignals" /\ visited' = visited
      /\ part' \in {"addInstructionsSignals", "connectRegistersToWires"}
  BY DEF addInstructionsSignals, Ends
<1>2. /\ F' = F /\ Kept' = Kept /\ list' = list /\ phase' = phase
  BY <1>1, SameBinding
<1>3. input \in Schedules /\ Len(list) \in Nat /\ rest \in Seq(Instrs(F)) /\ visited = 0
  BY <1>1 DEF GenInv, BInv, IInv, ShapeOK, Remaining, Undeclared
<1>4. part \notin Undeclared /\ part' \notin Undeclared /\ Joining = {} /\ Joining' = {}
  BY <1>1 DEF Undeclared, Joining
<1>5. ModuleOK(module, {}) /\ \A i \in Kept : i \notin ToSet(rest) => {Wire(i), Reg(i)} \subseteq DOMAIN module
  BY <1>1, <1>4 DEF GenInv, Contents
<1>6. PartOf'
  BY <1>1, <1>2 DEF GenInv, PartOf
<1>7. part' \notin {"createBindingSignals", "generateDatapath"}
  BY <1>1
<1>8. CASE Ends("connectRegistersToWires", LayoutOrder({i \in Kept : F.op[i] # "PHI"}))
  <2> DEFINE S == {i \in Kept : F.op[i] # "PHI"}
  <2>1. /\ module' = module /\ rest = << >> /\ part' = "connectRegistersToWires"
        /\ rest' = LayoutOrder(S)
    BY <1>8 DEF Ends
  <2>2. rest' \in Seq(Instrs(F)) /\ ToSet(rest') = S
    BY <2>1, <1>3, KeptInOrder
  <2>3. ToSet(rest) = {}
    BY <2>1, EmptySet
  <2>4. Keeps(module, module', Joining')
    BY <2>1, <1>4, <1>5, NothingChanges
  <2>5. \A i \in Kept : {Wire(i), Reg(i)} \subseteq DOMAIN module'
    BY <2>1, <2>3, <1>5
  <2>6. BInv' /\ Contents' /\ ControlKept
    BY <2>4, <2>5, <1>1, <1>4, <1>7, ContentsKept
  <2>7. Remaining'
    <3>1. rest' \in Seq(Instrs(F)') /\ ToSet(rest)' \subseteq Kept'
      BY <1>2, <2>2 DEF Instrs, ToSet
    <3> QED BY <2>1, <3>1, <1>1, <1>2, <1>3 DEF Remaining, Undeclared
  <2> QED BY <2>6, <2>7, <1>6 DEF GenInv
<1>9. CASE /\ GoesOn /\ module' = InstructionSignals(module, Head(rest)) /\ part' = part
  <2>1. Tail(rest) \in Seq(Instrs(F)) /\ ToSet(rest) \subseteq {Head(rest)} \cup ToSet(Tail(rest))
        /\ rest' = Tail(rest)
    BY <1>3, <1>9, TakenFirst DEF GoesOn
  <2>2. Keeps(module, module', {}) /\ {Wire(Head(rest)), Reg(Head(rest))} \subseteq DOMAIN module'
    BY <1>5, <1>9, InstructionSignalsKeep
  <2>3. ASSUME NEW i \in Kept, i \notin ToSet(rest')
        PROVE  {Wire(i), Reg(i)} \subseteq DOMAIN module'
    <3>1. CASE i = Head(rest)
      BY <3>1, <2>2
    <3>2. CASE i # Head(rest)
      <4>1. {Wire(i), Reg(i)} \subseteq DOMAIN module
        BY <3>2, <2>1, <2>3, <1>5
      <4> QED BY <4>1, <2>2 DEF Keeps
    <3> QED BY <3>1, <3>2
  <2>4. Keeps(module, module', Joining')
    BY <2>2, <1>4
  <2>5. \A i \in Kept : (part' = "addInstructionsSignals" => i \notin ToSet(rest')) =>
               {Wire(i), Reg(i)} \subseteq DOMAIN module'
    BY <2>3, <1>1, <1>9
  <2>6. BInv' /\ Contents' /\ ControlKept
    BY <2>4, <2>5, <1>1, <1>4, <1>7, ContentsKept
  <2>7. Remaining'
    <3>1. rest' \in Seq(Instrs(F)')
      BY <1>2, <2>1 DEF Instrs
    <3> QED BY <3>1, <1>1, <1>2, <1>3, <1>9 DEF Remaining, Undeclared
  <2> QED BY <2>6, <2>7, <1>6 DEF GenInv
<1> QED BY <1>8, <1>9 DEF addInstructionsSignals

(* The registers take their wires. *)
LEMMA connectRegistersToWiresStep ==
    ASSUME GenInv, connectRegistersToWires
    PROVE  GenInv' /\ ControlKept
<1>1. /\ UNCHANGED vars /\ part = "connectRegistersToWires" /\ visited' = visited
      /\ part' \in {"connectRegistersToWires", "performBinding"}
  BY DEF connectRegistersToWires, Ends
<1>2. /\ F' = F /\ Kept' = Kept /\ list' = list /\ phase' = phase
  BY <1>1, SameBinding
<1>3. /\ input \in Schedules /\ Len(list) \in Nat /\ rest \in Seq(Instrs(F)) /\ visited = 0
      /\ ToSet(rest) \subseteq Kept
  BY <1>1 DEF GenInv, BInv, IInv, ShapeOK, Remaining, Undeclared
<1>4. part \notin Undeclared /\ part' \notin Undeclared /\ Joining = {} /\ Joining' = {}
  BY <1>1 DEF Undeclared, Joining
<1>5. ModuleOK(module, {}) /\ \A i \in Kept : {Wire(i), Reg(i)} \subseteq DOMAIN module
  BY <1>1, <1>4 DEF GenInv, Contents
<1>6. PartOf'
  BY <1>1, <1>2 DEF GenInv, PartOf
<1>7. part' \notin {"createBindingSignals", "generateDatapath"}
  BY <1>1
<1>8. Keeps(module, module', Joining') /\ rest' \in Seq(Instrs(F)) /\ ToSet(rest') \subseteq Kept
  <2>1. CASE Ends("performBinding", << >>)
    <3>1. module' = module /\ rest' = << >>
      BY <2>1 DEF Ends
    <3> QED BY <3>1, <1>4, <1>5, NothingChanges, EmptySet
  <2>2. CASE /\ GoesOn
             /\ module' = addCondition(module, Reg(Head(rest)),
                              InState(WrittenIn(Head(rest))), Named(Wire(Head(rest))))
    <3> DEFINE i == Head(rest)
    <3>1. /\ Tail(rest) \in Seq(Instrs(F)) /\ Head(rest) \in ToSet(rest)
          /\ ToSet(Tail(rest)) \subseteq ToSet(rest) /\ rest' = Tail(rest)
      BY <1>3, <2>2, TakenFirst DEF GoesOn
    <3>2. Wire(i) \in DOMAIN module
      BY <3>1, <1>3, <1>5
    <3>3. Attached(module, Reg(i), Named(Wire(i)))
      BY <3>2, PlainAttached
    <3>4. ~Replaceable(Reg(i), {})
      BY NamesApart DEF Replaceable
    <3>5. Reg(i)[1] \notin {"finish", "cur_state"}
      BY NamesApart
    <3> HIDE DEF i
    <3>6. PICK c : c = InState(WrittenIn(i))
      OBVIOUS
    <3>7. Keeps(module, addCondition(module, Reg(i), c, Named(Wire(i))), {})
      BY <3>3, <3>4, <3>5, <1>5, ConditionKeeps
    <3>8. Keeps(module, module', {})
      BY <2>2, <3>6, <3>7 DEF i
    <3> QED BY <3>1, <3>8, <1>3, <1>4
  <2> QED BY <2>1, <2>2 DEF connectRegistersToWires
<1>9. \A i \in Kept : {Wire(i), Reg(i)} \subseteq DOMAIN module'
  BY <1>5, <1>8 DEF Keeps
<1>10. BInv' /\ Contents' /\ ControlKept
  BY <1>8, <1>9, <1>1, <1>4, <1>7, ContentsKept
<1>11. Remaining'
  <2>1. rest' \in Seq(Instrs(F)') /\ ToSet(rest)' \subseteq Kept'
    BY <1>2, <1>8 DEF Instrs, ToSet
  <2> QED BY <2>1, <1>1, <1>2, <1>3 DEF Remaining, Undeclared
<1> QED BY <1>6, <1>10, <1>11 DEF GenInv

(* The instructions are bound. *)
LEMMA performBindingStep ==
    ASSUME GenInv, performBinding
    PROVE  GenInv' /\ ControlKept
<1>1. /\ part = "performBinding" /\ visited' = visited /\ module' = module
  BY DEF performBinding
<1>2. /\ phase \in {"bindFuInState", "shareRegisters"} /\ visited = 0 /\ rest \in Seq(Instrs(F))
      /\ Addressed
  BY <1>1 DEF GenInv, PartOf, Remaining, BInv, BindInv
<1>3. ControlKept
  BY <1>1 DEF ControlKept
<1>4. ModuleOK(module', {}) /\ \A i \in Kept : {Wire(i), Reg(i)} \subseteq DOMAIN module'
  <2>1. Joining = {}
    BY <1>1 DEF Joining
  <2> QED BY <2>1, <1>1 DEF GenInv, Contents, Undeclared
<1>5. CASE phase = "bindFuInState"
  <2>1. PICK unit \in Units : bindFuInState(unit)
    BY <1>1, <1>5 DEF performBinding
  <2>2. BInv'
    BY <2>1, bindFuInStateStep DEF GenInv
  <2>3. /\ input' = input /\ phase' \in {"bindFuInState", "assertion", "shareRegisters"}
        /\ part' = (IF phase' = "assertion" THEN "assertion" ELSE part) /\ rest' = rest
    BY <2>1, <1>1, <1>5 DEF bindFuInState, performBinding, mapVars
  <2>4. F' = F
    BY <2>3, SameFunction
  <2>5. PartOf'
    BY <2>3, <1>1 DEF PartOf
  <2>6. Remaining'
    <3>1. rest' \in Seq(Instrs(F)')
      BY <2>3, <2>4, <1>2 DEF Instrs
    <3>2. Len(list') \in Nat
      BY <2>2 DEF BInv, IInv, ShapeOK
    <3> QED BY <3>1, <3>2, <2>3, <1>1, <1>2 DEF Remaining, Undeclared
  <2>7. Joining' = {}
    BY <2>3 DEF Joining
  <2>8. Contents'
    <3>1. ModuleOK(module', Joining') /\ DOMAIN module \subseteq DOMAIN module'
      BY <2>7, <1>1, <1>4
    <3>2. part \notin Undeclared /\ part' \notin Undeclared
          /\ part' \notin {"createBindingSignals", "generateDatapath"}
      BY <2>3, <1>1 DEF Undeclared
    <3> QED BY <3>1, <3>2, <2>3, <1>4, ContentsStay
  <2> QED BY <2>2, <2>5, <2>6, <2>8, <1>3 DEF GenInv
<1>6. CASE phase # "bindFuInState"
  <2>1. UNCHANGED vars /\ part' = "createBindingSignals" /\ rest' = address
    BY <1>1, <1>6 DEF performBinding
  <2>2. BInv' /\ F' = F /\ list' = list /\ phase' = phase
    BY <2>1, SameBinding, StutteringStep DEF GenInv
  <2>3. rest' \in Seq(Instrs(F)) /\ ToSet(rest') = Bindable
    <3>1. address \in Seq(Bindable) /\ ToSet(address) = Bindable /\ Bindable \subseteq Instrs(F)
      BY <1>2 DEF Addressed, Bindable
    <3>2. address \in Seq(Instrs(F))
      BY <3>1
    <3> QED BY <3>1, <3>2, <2>1
  <2>4. PartOf'
    BY <2>1, <2>2, <1>2, <1>6 DEF PartOf
  <2>5. Remaining'
    <3>1. rest' \in Seq(Instrs(F)')
      BY <2>2, <2>3 DEF Instrs
    <3>2. Len(list') \in Nat
      BY <2>2 DEF BInv, IInv, ShapeOK
    <3> QED BY <3>1, <3>2, <2>1, <1>1, <1>2 DEF Remaining, Undeclared
  <2>6. Contents'
    <3>1. Joining' = {}
      BY <2>1 DEF Joining
    <3>2. ModuleOK(module', Joining') /\ DOMAIN module \subseteq DOMAIN module'
      BY <3>1, <1>1, <1>4
    <3>3. part \notin Undeclared /\ part' \notin Undeclared
      BY <2>1, <1>1 DEF Undeclared
    <3>4. UNCHANGED input /\ unitOf' = unitOf
      BY <2>1 DEF vars, mapVars, bindVars
    <3> QED BY <3>2, <3>3, <3>4, <2>1, <2>3, <1>4, ContentsStay
  <2> QED BY <2>2, <2>4, <2>5, <2>6, <1>3 DEF GenInv
<1> QED BY <1>5, <1>6

(* What has a unit is bound to an instance when the binder is done. *)
LEMMA BoundWhenShared ==
    ASSUME BInv, phase = "shareRegisters"
    PROVE  \A i \in Bindable : unitOf[i] # Unbound
BY DEF BInv, BindInv, Phases, Assigned

(* The instructions of a state of a finished machine. *)
LEMMA InstrsOfPlace ==
    ASSUME BInv, NEW q \in 1..Len(list)
    PROVE  /\ list[q] \in DOMAIN state
           /\ state[list[q]].instrs \in Seq(Instrs(F))
<1>1. list[q] \in DOMAIN state
  <2>1. list \in Seq(DOMAIN state)
    BY DEF BInv, IInv, MapTypeOK
  <2> QED BY <2>1
<1> QED BY <1>1 DEF BInv, IInv, MapTypeOK

(* The signals of the units. *)
LEMMA createBindingSignalsStep ==
    ASSUME GenInv, createBindingSignals
    PROVE  GenInv' /\ ControlKept
<1>1. /\ UNCHANGED vars /\ part = "createBindingSignals" /\ visited' = visited
      /\ part' \in {"createBindingSignals", "generateDatapath"}
  BY DEF createBindingSignals, Ends
<1>2. /\ F' = F /\ Kept' = Kept /\ list' = list /\ phase' = phase /\ state' = state
  BY <1>1, SameBinding
<1>3. /\ input \in Schedules /\ Len(list) \in Nat /\ Len(list) > 0 /\ rest \in Seq(Instrs(F))
      /\ visited = 0 /\ phase = "shareRegisters" /\ BInv
  BY <1>1 DEF GenInv, BInv, IInv, ShapeOK, Remaining, Undeclared, PartOf, Listed
<1>4. part \notin Undeclared /\ part' \notin Undeclared /\ Joining = {} /\ Joining' = {}
  BY <1>1 DEF Undeclared, Joining
<1>5. /\ ModuleOK(module, {}) /\ \A i \in Kept : {Wire(i), Reg(i)} \subseteq DOMAIN module
      /\ \A i \in Bindable : i \notin ToSet(rest) => Fu(i) \in DOMAIN module
  BY <1>1, <1>4 DEF GenInv, Contents
<1>6. PartOf'
  BY <1>1, <1>2, <1>3 DEF PartOf
<1>8. CASE Ends("generateDatapath", state[list[1]].instrs)
  <2>1. /\ module' = module /\ rest = << >> /\ part' = "generateDatapath"
        /\ rest' = state[list[1]].instrs
    BY <1>8 DEF Ends
  <2>2. rest' \in Seq(Instrs(F))
    <3>1. 1 \in 1..Len(list)
      BY <1>3
    <3> QED BY <3>1, <2>1, <1>3, InstrsOfPlace
  <2>3. ToSet(rest) = {}
    BY <2>1, EmptySet
  <2>4. Keeps(module, module', Joining')
    BY <2>1, <1>4, <1>5, NothingChanges
  <2>5. /\ \A i \in Kept : {Wire(i), Reg(i)} \subseteq DOMAIN module'
        /\ \A i \in Bindable : Fu(i) \in DOMAIN module'
    BY <2>1, <2>3, <1>5
  <2>6. BInv' /\ Contents' /\ ControlKept
    BY <2>4, <2>5, <1>1, <1>4, ContentsKept
  <2>7. Remaining'
    <3>1. rest' \in Seq(Instrs(F)') /\ ToSet(rest)' = ToSet(state[list[visited + 1]].instrs)'
      BY <1>1, <1>2, <1>3, <2>1, <2>2 DEF Instrs, ToSet
    <3> QED BY <2>1, <3>1, <1>1, <1>2, <1>3 DEF Remaining, Undeclared
  <2> QED BY <2>6, <2>7, <1>6 DEF GenInv
<1>9. CASE /\ GoesOn /\ module' = BindingSignals(module, Head(rest)) /\ part' = part
  <2> DEFINE h == Head(rest)
  <2>1. Tail(rest) \in Seq(Instrs(F)) /\ ToSet(rest) \subseteq {h} \cup ToSet(Tail(rest))
        /\ rest' = Tail(rest)
    BY <1>3, <1>9, TakenFirst DEF GoesOn
  <2> HIDE DEF h
  <2>2. Keeps(module, module', {}) /\ (unitOf[h] # Unbound => Fu(h) \in DOMAIN module')
    <3>1. CASE unitOf[h] # Unbound
      <4>1. Keeps(module, BindingSignals(module, h), {}) /\ Fu(h) \in DOMAIN BindingSignals(module, h)
        BY <3>1, <1>5, BindingSignalsKeep
      <4> QED BY <4>1, <1>9 DEF h
    <3>2. CASE unitOf[h] = Unbound
      <4>1. module' = module
        BY <3>2, <1>9 DEF BindingSignals, h
      <4> QED BY <3>2, <4>1, <1>5, NothingChanges
    <3> QED BY <3>1, <3>2
  <2>3. ASSUME NEW i \in Bindable, i \notin ToSet(rest')
        PROVE  Fu(i) \in DOMAIN module'
    <3>1. CASE i = h
      BY <3>1, <2>2, <1>3, BoundWhenShared
    <3>2. CASE i # h
      <4>1. Fu(i) \in DOMAIN module
        BY <3>2, <2>1, <2>3, <1>5
      <4> QED BY <4>1, <2>2 DEF Keeps
    <3> QED BY <3>1, <3>2
  <2>4. Keeps(module, module', Joining')
    BY <2>2, <1>4
  <2>5. \A i \in Kept : {Wire(i), Reg(i)} \subseteq DOMAIN module'
    BY <2>2, <1>5 DEF Keeps
  <2>6. BInv' /\ Contents' /\ ControlKept
    <3>1. part' = "createBindingSignals"
      BY <1>1, <1>9
    <3> QED BY <3>1, <2>3, <2>4, <2>5, <1>1, <1>4, ContentsKept
  <2>7. Remaining'
    <3>1. rest' \in Seq(Instrs(F)')
      BY <1>2, <2>1 DEF Instrs
    <3> QED BY <3>1, <1>1, <1>2, <1>3, <1>9 DEF Remaining, Undeclared
  <2> QED BY <2>6, <2>7, <1>6 DEF GenInv
<1> QED BY <1>8, <1>9 DEF createBindingSignals

(* What the states are visited with. *)
LEMMA Visiting ==
    ASSUME GenInv, part = "generateDatapath"
    PROVE  /\ BInv /\ input \in Schedules /\ phase = "shareRegisters"
           /\ Len(list) \in Nat /\ visited \in Nat /\ visited < Len(list)
           /\ rest \in Seq(Instrs(F)) /\ ToSet(rest) \subseteq ToSet(state[list[visited + 1]].instrs)
           /\ Joining = {} /\ ModuleOK(module, {}) /\ RegistersIn(module)
           /\ Finish \in DOMAIN module /\ CurState \in DOMAIN module
           /\ \A i \in Bindable : Fu(i) \in DOMAIN module
<1>1. Joining = {}
  BY DEF Joining
<1>2. BInv /\ phase = "shareRegisters" /\ input \in Schedules /\ Len(list) \in Nat
  BY DEF GenInv, PartOf, BInv, IInv, ShapeOK
<1>3. /\ visited \in Nat /\ visited < Len(list) /\ rest \in Seq(Instrs(F))
      /\ ToSet(rest) \subseteq ToSet(state[list[visited + 1]].instrs)
  BY <1>2 DEF GenInv, Remaining
<1>4. ModuleOK(module, {}) /\ RegistersIn(module) /\ \A i \in Bindable : Fu(i) \in DOMAIN module
  BY <1>1 DEF GenInv, Contents, Undeclared, RegistersIn
<1>5. Finish \in DOMAIN module /\ CurState \in DOMAIN module
  BY <1>4 DEF RegistersIn, PortNames
<1> QED BY <1>1, <1>2, <1>3, <1>4, <1>5

(* An instruction is visited. *)
LEMMA visitStep ==
    ASSUME GenInv, visit
    PROVE  /\ GenInv' /\ module'[CurState] = module[CurState]
           /\ Head(rest) \in Instrs(F) /\ Head(rest) \in ToSet(state[list[visited + 1]].instrs)
           /\ ToSet(rest) \subseteq {Head(rest)} \cup ToSet(rest')
           /\ F.op[Head(rest)] # "Ret" => module'[Finish] = module[Finish]
           /\ F.op[Head(rest)] = "Ret" =>
                module'[Finish] = Appended(module[Finish], InState(list[visited + 1]), ONE)
<1>1. /\ UNCHANGED vars /\ part = "generateDatapath" /\ visited' = visited /\ part' = part
      /\ rest # << >> /\ rest' = Tail(rest)
      /\ module' = Visit(module, Head(rest), list[visited + 1])
  BY DEF visit, GoesOn
<1>2. /\ F' = F /\ list' = list /\ phase' = phase /\ state' = state
  BY <1>1, SameBinding
<1>3. /\ BInv /\ input \in Schedules /\ phase = "shareRegisters"
      /\ Len(list) \in Nat /\ visited \in Nat /\ visited < Len(list)
      /\ rest \in Seq(Instrs(F)) /\ ToSet(rest) \subseteq ToSet(state[list[visited + 1]].instrs)
      /\ Joining = {} /\ ModuleOK(module, {}) /\ RegistersIn(module)
      /\ \A i \in Bindable : Fu(i) \in DOMAIN module
  BY <1>1, Visiting
<1>4. BInv'
  BY <1>1, <1>3, StutteringStep
<1>5. PICK h, s, n : h = Head(rest) /\ s = list[visited + 1] /\ n = module'
  OBVIOUS
<1>6. /\ h \in Instrs(F) /\ h \in ToSet(rest) /\ rest' \in Seq(Instrs(F))
      /\ ToSet(rest) \subseteq {h} \cup ToSet(rest') /\ ToSet(rest') \subseteq ToSet(rest)
  BY <1>1, <1>3, <1>5, TakenFirst
<1>7. unitOf[h] # Unbound => Fu(h) \in DOMAIN module
  BY <1>3, <1>6 DEF BInv, BindInv, Assigned
<1>8. n = Visit(module, h, s)
  BY <1>1, <1>5
<1>9. /\ ModuleOK(n, {}) /\ DOMAIN module \subseteq DOMAIN n
      /\ n[CurState] = module[CurState]
      /\ F.op[h] # "Ret" => n[Finish] = module[Finish]
      /\ F.op[h] = "Ret" => n[Finish] = Appended(module[Finish], InState(s), ONE)
  BY <1>3, <1>6, <1>7, <1>8, InstructionVisited
<1>10. PartOf'
  BY <1>1, <1>2 DEF GenInv, PartOf
<1>11. Remaining'
  <2>1. rest' \in Seq(Instrs(F)') /\ ToSet(rest)' \subseteq ToSet(state[list[visited + 1]].instrs)'
    <3>1. ToSet(rest)' = ToSet(rest')
      BY DEF ToSet
    <3>2. ToSet(state[list[visited + 1]].instrs)' = ToSet(state[list[visited + 1]].instrs)
      BY <1>1, <1>2 DEF ToSet
    <3>3. ToSet(rest') \subseteq ToSet(state[list[visited + 1]].instrs)
      BY <1>3, <1>6
    <3>4. Instrs(F)' = Instrs(F)
      BY <1>2 DEF Instrs
    <3> QED BY <3>1, <3>2, <3>3, <3>4, <1>6
  <2> QED BY <2>1, <1>1, <1>2, <1>3 DEF Remaining, Undeclared
<1>12. Contents'
  <2>1. part \notin Undeclared /\ part' \notin Undeclared /\ part' # "addInstructionsSignals"
    BY <1>1 DEF Undeclared
  <2>2. Joining' = {}
    BY <1>1 DEF Joining
  <2>3. ModuleOK(module', Joining') /\ DOMAIN module \subseteq DOMAIN module'
    BY <2>2, <1>5, <1>9
  <2>4. UNCHANGED input /\ unitOf' = unitOf
    BY <1>1 DEF vars, mapVars, bindVars
  <2>5. /\ \A i \in Kept : {Wire(i), Reg(i)} \subseteq DOMAIN module'
        /\ \A i \in Bindable : Fu(i) \in DOMAIN module'
    BY <2>3, <1>3 DEF RegistersIn
  <2> QED BY <2>1, <2>3, <2>4, <2>5, ContentsStay
<1>13. GenInv'
  BY <1>4, <1>10, <1>11, <1>12 DEF GenInv
<1>14. Head(rest) \in ToSet(state[list[visited + 1]].instrs)
  BY <1>3, <1>5, <1>6
<1> QED BY <1>5, <1>6, <1>9, <1>13, <1>14

(* The reset is added after the last state. *)
ResetOf(m) == addCondition(m, CurState, InStateWhen(Null, Named(Reset), 1), ZERO)

(* The transitions of a state are generated. *)
LEMMA generateDatapathStep ==
    ASSUME GenInv, generateDatapath
    PROVE  /\ GenInv' /\ module'[Finish] = module[Finish]
           /\ \E n : /\ n = generateStateTransition(module, list[visited + 1])
                     /\ \/ module' = n
                        \/ module'[CurState] =
                             Appended(n[CurState], InStateWhen(Null, Named(Reset), 1), ZERO)
<1> DEFINE next == generateStateTransition(module, list[visited + 1])
<1>1. /\ UNCHANGED vars /\ part = "generateDatapath" /\ visited' = visited + 1 /\ rest = << >>
      /\ IF visited' = Len(list)
         THEN /\ module' = ResetOf(next) /\ rest' = rest
              /\ part' = (IF reg_opt THEN "shareOperationRegisters" ELSE "print")
         ELSE module' = next /\ part' = part /\ rest' = state[list[visited' + 1]].instrs
  BY DEF generateDatapath, ResetOf
<1>2. /\ F' = F /\ list' = list /\ phase' = phase /\ state' = state
  BY <1>1, SameBinding
<1>3. /\ BInv /\ input \in Schedules /\ phase = "shareRegisters"
      /\ Len(list) \in Nat /\ visited \in Nat /\ visited < Len(list)
      /\ rest \in Seq(Instrs(F))
      /\ Joining = {} /\ ModuleOK(module, {}) /\ RegistersIn(module)
      /\ Finish \in DOMAIN module /\ CurState \in DOMAIN module
      /\ \A i \in Bindable : Fu(i) \in DOMAIN module
  BY <1>1, Visiting
<1>4. BInv'
  BY <1>1, <1>3, StutteringStep
<1>5. Finish # CurState
  BY NamesApart
<1>6. PICK n, s, r : n = next /\ s = list[visited + 1] /\ r = InStateWhen(Null, Named(Reset), 1)
  OBVIOUS
<1>7. n = generateStateTransition(module, s)
  BY <1>6
<1>8. ModuleOK(n, {}) /\ DOMAIN n = DOMAIN module /\ DiffersAt(module, n, CurState)
  BY <1>3, <1>7, TransitionGenerated
<1>9. n[Finish] = module[Finish]
  BY <1>3, <1>5, <1>8 DEF DiffersAt
<1>10. Joining' = {}
  BY <1>1, <1>2, <1>3 DEF Joining
<1>11. part \notin Undeclared /\ part' \notin Undeclared /\ part' # "addInstructionsSignals"
       /\ part' # "createBindingSignals"
  BY <1>1 DEF Undeclared
<1>12. UNCHANGED input /\ unitOf' = unitOf
  BY <1>1 DEF vars, mapVars, bindVars
<1>13. PartOf'
  BY <1>1, <1>2, <1>3 DEF PartOf
<1>14. CASE visited' = Len(list)
  <2>1. module' = addCondition(n, CurState, r, ZERO)
    BY <1>1, <1>6, <1>14 DEF ResetOf
  <2>2. Attached(n, CurState, ZERO)
    BY PlainAttached
  <2>3. PICK o : o = module'
    OBVIOUS
  <2>4. /\ ModuleOK(o, {}) /\ DOMAIN o = DOMAIN n /\ DiffersAt(n, o, CurState)
        /\ o[CurState] = Appended(n[CurState], r, ZERO)
    BY <2>1, <2>2, <2>3, <1>3, <1>8, ControlAppended
  <2>5. module'[Finish] = module[Finish]
    BY <2>3, <2>4, <1>3, <1>5, <1>8, <1>9 DEF DiffersAt
  <2>6. ModuleOK(module', Joining') /\ DOMAIN module' = DOMAIN module
    BY <2>3, <2>4, <1>8, <1>10
  <2>7. /\ \A i \in Kept : {Wire(i), Reg(i)} \subseteq DOMAIN module'
        /\ \A i \in Bindable : Fu(i) \in DOMAIN module'
    BY <2>6, <1>3 DEF RegistersIn
  <2>8. Contents'
    BY <2>6, <2>7, <1>11, <1>12, ContentsStay
  <2>9. Remaining'
    <3>1. rest' \in Seq(Instrs(F)') /\ part' \in {"shareOperationRegisters", "print"}
      BY <1>1, <1>2, <1>3, <1>14 DEF Instrs
    <3> QED BY <3>1, <1>1, <1>2, <1>3, <1>14 DEF Remaining, Undeclared
  <2>10. GenInv'
    BY <2>8, <2>9, <1>4, <1>13 DEF GenInv
  <2> QED BY <2>3, <2>4, <2>5, <2>10, <1>6, <1>7
<1>15. CASE visited' # Len(list)
  <2>1. module' = n /\ part' = part /\ rest' = state[list[visited' + 1]].instrs
    BY <1>1, <1>6, <1>15
  <2>2. ModuleOK(module', Joining') /\ DOMAIN module' = DOMAIN module
    BY <2>1, <1>8, <1>10
  <2>3. /\ \A i \in Kept : {Wire(i), Reg(i)} \subseteq DOMAIN module'
        /\ \A i \in Bindable : Fu(i) \in DOMAIN module'
    BY <2>2, <1>3 DEF RegistersIn
  <2>4. Contents'
    BY <2>2, <2>3, <1>11, <1>12, ContentsStay
  <2>5. visited' \in Nat /\ visited' < Len(list) /\ visited' + 1 \in 1..Len(list)
    BY <1>1, <1>3, <1>15
  <2>6. rest' \in Seq(Instrs(F))
    BY <2>1, <2>5, <1>3, InstrsOfPlace
  <2>7. Remaining'
    <3>1. rest' \in Seq(Instrs(F)') /\ ToSet(rest)' = ToSet(state[list[visited + 1]].instrs)'
      BY <2>1, <2>6, <1>2 DEF Instrs, ToSet
    <3> QED BY <2>1, <2>5, <3>1, <1>1, <1>2, <1>3 DEF Remaining, Undeclared
  <2>8. GenInv'
    BY <2>4, <2>7, <1>4, <1>13 DEF GenInv
  <2> QED BY <2>1, <2>8, <1>6, <1>7, <1>9
<1> QED BY <1>14, <1>15

(* The first instruction of a group has its own register.                  *)
LEMMA LeaderLeads ==
    ASSUME BInv, phase = "done", NEW i \in Bindable, Joins(i)
    PROVE  Leader(i) \in Bindable /\ ~Joins(Leader(i))
<1> DEFINE u == <<FuOf(i), unitOf[i]>>
           own == groups[u]
           Holding(j) == CHOOSE n \in DOMAIN own : j \in ToSet(own[n])
<1>1. unitOf[i] # Unbound /\ u \in UnitInstances
  <2>1. unitOf[i] # Unbound
    BY DEF Joins
  <2> QED BY <2>1 DEF BInv, BindInv, Assigned, Bindable
<1>2. IsBoundTo(i, u)
  BY <1>1 DEF IsBoundTo
<1>3. /\ {At(u, p) : p \in Places(u)} = {j \in Bindable : IsBoundTo(j, u)}
      /\ \A p, q \in Places(u) : At(u, p) = At(u, q) => p = q
  BY <1>1 DEF BInv, BindInv, Known, Shared, GroupsIndependent
<1>4. own \in Seq(Seq(Instrs(F))) /\ \A n \in DOMAIN own : own[n] \in Seq(Instrs(F))
  <2>1. own \in Seq(Seq(Instrs(F)))
    BY <1>1 DEF BInv, Shared
  <2> QED BY <2>1
<1>5. Leader(i) = own[Holding(i)][1]
  BY DEF Leader
<1> HIDE DEF u, own
<1>6. \A n \in DOMAIN own : \A k \in DOMAIN own[n] :
         <<n, k>> \in Places(u) /\ At(u, <<n, k>>) = own[n][k]
  BY DEF Places, At, own
<1>7. \A p \in Places(u) : \E n \in DOMAIN own : \E k \in DOMAIN own[n] :
         p = <<n, k>> /\ At(u, p) = own[n][k]
  BY DEF Places, At, own
<1>8. PICK n0 \in DOMAIN own : i \in ToSet(own[n0])
  <2>1. PICK p \in Places(u) : At(u, p) = i
    BY <1>2, <1>3
  <2>2. PICK n \in DOMAIN own : \E k \in DOMAIN own[n] : At(u, p) = own[n][k]
    BY <1>7
  <2>3. i \in ToSet(own[n])
    BY <2>1, <2>2 DEF ToSet
  <2> QED BY <2>3
<1>9. Holding(i) \in DOMAIN own /\ i \in ToSet(own[Holding(i)])
  BY <1>8
<1>10. PICK n : n = Holding(i)
  OBVIOUS
<1> HIDE DEF Holding
<1>11. n \in DOMAIN own /\ i \in ToSet(own[n]) /\ Leader(i) = own[n][1]
  BY <1>5, <1>9, <1>10
<1>12. 1 \in DOMAIN own[n]
  <2>1. own[n] \in Seq(Instrs(F)) /\ \E k \in DOMAIN own[n] : own[n][k] = i
    BY <1>4, <1>11 DEF ToSet
  <2> QED BY <2>1
<1>13. PICK j : j = own[n][1]
  OBVIOUS
<1>14. At(u, <<n, 1>>) = j /\ <<n, 1>> \in Places(u)
  BY <1>6, <1>11, <1>12, <1>13
<1>15. j \in Bindable /\ IsBoundTo(j, u)
  BY <1>3, <1>14
<1>16. <<FuOf(j), unitOf[j]>> = u
  BY <1>15 DEF IsBoundTo
<1>17. Leader(j) = own[Holding(j)][1]
  BY <1>16 DEF Leader, Holding, own
<1>18. j \in ToSet(own[n])
  BY <1>12, <1>13 DEF ToSet
<1>19. Holding(j) \in DOMAIN own /\ j \in ToSet(own[Holding(j)])
  BY <1>11, <1>18 DEF Holding
<1>20. PICK m : m = Holding(j)
  OBVIOUS
<1>21. PICK k \in DOMAIN own[m] : own[m][k] = j
  BY <1>19, <1>20 DEF ToSet
<1>22. m = n
  <2>1. <<m, k>> \in Places(u) /\ At(u, <<m, k>>) = j
    BY <1>6, <1>19, <1>20, <1>21
  <2>2. <<m, k>> = <<n, 1>>
    BY <2>1, <1>3, <1>14
  <2> QED BY <2>2
<1>23. Leader(j) = j
  BY <1>13, <1>17, <1>20, <1>22
<1>24. ~Joins(j)
  BY <1>23 DEF Joins
<1> QED BY <1>11, <1>13, <1>15, <1>24

(* The instructions that may share registers are grouped.                  *)
LEMMA shareOperationRegistersStep ==
    ASSUME GenInv, shareOperationRegisters
    PROVE  GenInv' /\ ControlKept
<1>1. /\ part = "shareOperationRegisters" /\ part' = "shareRegistersForFu" /\ rest' = address
      /\ visited' = visited /\ module' = module /\ shareRegisters
  BY DEF shareOperationRegisters
<1>2. BInv' /\ BInv
  BY <1>1, shareRegistersStep DEF GenInv
<1>3. /\ input' = input /\ phase' = "done" /\ address' = address /\ list' = list
      /\ unitOf' = unitOf
  BY <1>1 DEF shareRegisters, mapVars
<1>4. F' = F
  BY <1>3, SameFunction
<1>5. ControlKept
  BY <1>1 DEF ControlKept
<1>6. PartOf'
  BY <1>1, <1>3 DEF PartOf
<1>7. rest' \in Seq(Instrs(F)) /\ ToSet(rest') = ToSet(address)
  <2>1. address \in Seq(Bindable) /\ Bindable \subseteq Instrs(F)
    BY <1>2 DEF BInv, BindInv, Addressed, Bindable
  <2>2. address \in Seq(Instrs(F))
    BY <2>1
  <2> QED BY <2>2, <1>1
<1>8. Remaining'
  <2>1. visited = Len(list) /\ Len(list) \in Nat
    BY <1>1, <1>2 DEF GenInv, Remaining, BInv, IInv, ShapeOK
  <2>2. rest' \in Seq(Instrs(F)') /\ ToSet(rest)' \subseteq ToSet(address)'
    BY <1>1, <1>3, <1>4, <1>7 DEF Instrs, ToSet
  <2> QED BY <2>1, <2>2, <1>1, <1>3 DEF Remaining, Undeclared
<1>9. Contents'
  <2>1. Joining = {} /\ part \notin Undeclared /\ part' \notin Undeclared
        /\ part' \notin {"addInstructionsSignals", "createBindingSignals", "generateDatapath"}
    BY <1>1 DEF Joining, Undeclared
  <2>2. ModuleOK(module, {}) /\ \A i \in Kept : {Wire(i), Reg(i)} \subseteq DOMAIN module
    BY <2>1, <1>1 DEF GenInv, Contents
  <2>3. ModuleOK(module', Joining')
    BY <2>2, <1>1, MoreReplaceable
  <2>4. DOMAIN module \subseteq DOMAIN module'
    BY <1>1
  <2>5. \A i \in Kept : {Wire(i), Reg(i)} \subseteq DOMAIN module'
    BY <2>2, <1>1
  <2> QED BY <2>1, <2>3, <2>4, <2>5, <1>3, ContentsStay
<1> QED BY <1>2, <1>5, <1>6, <1>8, <1>9 DEF GenInv

(* Registers are replaced by that of another instruction. *)
LEMMA shareRegistersForFuStep ==
    ASSUME GenInv, shareRegistersForFu
    PROVE  GenInv' /\ ControlKept
<1>1. /\ UNCHANGED vars /\ part = "shareRegistersForFu" /\ visited' = visited
      /\ part' \in {"shareRegistersForFu", "print", "assertion"}
  BY DEF shareRegistersForFu, Ends
<1>2. /\ F' = F /\ Kept' = Kept /\ list' = list /\ phase' = phase /\ address' = address
      /\ \A i : Joins(i)' <=> Joins(i)
  BY <1>1, SameBinding
<1>3. /\ input \in Schedules /\ Len(list) \in Nat /\ rest \in Seq(Instrs(F)) /\ BInv
      /\ ToSet(rest) \subseteq ToSet(address) /\ visited = Len(list) /\ phase = "done"
  BY <1>1 DEF GenInv, BInv, IInv, ShapeOK, Remaining, Undeclared, PartOf
<1>4. part \notin Undeclared /\ part' \notin Undeclared
      /\ part' \notin {"addInstructionsSignals", "createBindingSignals", "generateDatapath"}
  BY <1>1 DEF Undeclared
<1>5. PICK J : J = {i \in ToSet(address) : Joins(i)}
  OBVIOUS
<1>6. Joining = J
  BY <1>1, <1>3, <1>5 DEF Joining
<1>7. Joining' = J
  <2>1. ToSet(address)' = ToSet(address)
    BY <1>2 DEF ToSet
  <2>2. {i \in ToSet(address) : Joins(i)}' = J
    BY <2>1, <1>2, <1>5
  <2> QED BY <2>2, <1>1, <1>2, <1>3 DEF Joining
<1>8. ModuleOK(module, J) /\ \A i \in Kept : {Wire(i), Reg(i)} \subseteq DOMAIN module
  BY <1>1, <1>4, <1>6 DEF GenInv, Contents
<1>9. PartOf'
  BY <1>1, <1>2, <1>3 DEF PartOf
<1>10. Keeps(module, module', J) /\ rest' \in Seq(Instrs(F)) /\ ToSet(rest') \subseteq ToSet(address)
  <2>1. CASE Ends("print", << >>)
    <3>1. module' = module /\ rest' = << >>
      BY <2>1 DEF Ends
    <3> QED BY <3>1, <1>8, NothingChanges, EmptySet
  <2>2. CASE /\ GoesOn
             /\ module' = IF Joins(Head(rest)) /\ {Head(rest), Leader(Head(rest))} \subseteq Kept
                          THEN Share(module, Leader(Head(rest)), Head(rest)) ELSE module
    <3>1. PICK h, l : h = Head(rest) /\ l = Leader(h)
      OBVIOUS
    <3>2. /\ Tail(rest) \in Seq(Instrs(F)) /\ h \in ToSet(rest)
          /\ ToSet(Tail(rest)) \subseteq ToSet(rest) /\ rest' = Tail(rest)
      BY <3>1, <1>3, <2>2, TakenFirst DEF GoesOn
    <3>3. CASE Joins(h) /\ {h, l} \subseteq Kept
      <4>1. h \in J
        BY <3>2, <3>3, <1>3, <1>5
      <4>2. h \in Bindable
        BY <3>2, <1>3 DEF BInv, BindInv, Addressed
      <4>3. l \notin J
        BY <4>2, <3>1, <3>3, <1>3, <1>5, LeaderLeads
      <4>4. {Wire(h), Reg(l)} \subseteq DOMAIN module
        BY <3>3, <1>8
      <4>5. Keeps(module, Share(module, l, h), J)
        BY <4>1, <4>3, <4>4, <1>8, RegisterShared
      <4>6. module' = Share(module, l, h)
        BY <3>1, <3>3, <2>2
      <4> QED BY <4>5, <4>6, <3>2, <1>3
    <3>4. CASE ~(Joins(h) /\ {h, l} \subseteq Kept)
      <4>1. module' = module
        BY <3>1, <3>4, <2>2
      <4> QED BY <4>1, <3>2, <1>3, <1>8, NothingChanges
    <3> QED BY <3>3, <3>4
  <2> QED BY <2>1, <2>2 DEF shareRegistersForFu
<1>11. \A i \in Kept : {Wire(i), Reg(i)} \subseteq DOMAIN module'
  BY <1>8, <1>10 DEF Keeps
<1>12. BInv' /\ Contents' /\ ControlKept
  <2>1. Keeps(module, module', Joining')
    BY <1>7, <1>10
  <2> QED BY <2>1, <1>11, <1>1, <1>4, ContentsKept
<1>13. Remaining'
  <2>1. rest' \in Seq(Instrs(F)') /\ ToSet(rest)' \subseteq ToSet(address)'
    BY <1>2, <1>10 DEF Instrs, ToSet
  <2> QED BY <2>1, <1>1, <1>2, <1>3 DEF Remaining, Undeclared
<1> QED BY <1>9, <1>12, <1>13 DEF GenInv

(* The module is printed, or is at work. *)
LEMMA PrintedStep ==
    ASSUME GenInv, UNCHANGED vars, visited' = visited, rest' = rest, module' = module,
           \/ part' = part
           \/ part = "print" /\ part' \in {"printed", "assertion"}
           \/ part = "printed" /\ part' = "run"
    PROVE  GenInv'
<1>1. BInv'
  BY StutteringStep DEF GenInv
<1>2. /\ F' = F /\ Kept' = Kept /\ PortNames' = PortNames /\ Bindable' = Bindable
      /\ list' = list /\ phase' = phase /\ state' = state /\ address' = address
      /\ \A i : Fu(i)' = Fu(i)
      /\ \A i : Joins(i)' <=> Joins(i)
  BY SameBinding
<1>3. PartOf'
  BY <1>2 DEF GenInv, PartOf
<1>4. ToSet(rest)' = ToSet(rest) /\ ToSet(address)' = ToSet(address)
      /\ ToSet(state[list[visited + 1]].instrs)' = ToSet(state[list[visited + 1]].instrs)
  BY <1>2 DEF ToSet
<1>5. Instrs(F)' = Instrs(F)
  BY <1>2 DEF Instrs
<1>6. Remaining'
  <2>1. Remaining
    BY DEF GenInv
  <2>2. CASE part' = part
    BY <2>1, <2>2, <1>2, <1>4, <1>5 DEF Remaining
  <2>3. CASE part' # part
    <3>1. part \in {"print", "printed"} /\ part' \in {"printed", "run", "assertion"}
      BY <2>3
    <3>2. visited = Len(list) /\ visited \in 0..Len(list) /\ rest \in Seq(Instrs(F))
      BY <2>1, <3>1 DEF Remaining
    <3> QED BY <3>1, <3>2, <1>2, <1>5 DEF Remaining, Undeclared
  <2> QED BY <2>2, <2>3
<1>7. Joining' = Joining
  <2>1. {i \in ToSet(address) : Joins(i)}' = {i \in ToSet(address) : Joins(i)}
    BY <1>2, <1>4
  <2> QED BY <2>1, <1>2 DEF Joining
<1>8. Contents'
  <2>1. Contents
    BY DEF GenInv
  <2>2. CASE part' = part
    BY <2>1, <2>2, <1>2, <1>4, <1>7 DEF Contents
  <2>3. CASE part' # part
    <3>1. part \in {"print", "printed"} /\ part' \in {"printed", "run", "assertion"}
      BY <2>3
    <3>2. /\ ModuleOK(module, Joining) /\ PortNames \subseteq DOMAIN module
          /\ \A i \in Kept : {Wire(i), Reg(i)} \subseteq DOMAIN module
      BY <2>1, <3>1 DEF Contents, Undeclared
    <3> QED BY <3>1, <3>2, <1>2, <1>7 DEF Contents, Undeclared
  <2> QED BY <2>2, <2>3
<1> QED BY <1>1, <1>3, <1>6, <1>8 DEF GenInv

(* A step of the generator is one of its parts. *)
LEMMA GenNextStep == GenInv /\ GenNext => GenInv'
<1> SUFFICES ASSUME GenInv, GenNext PROVE GenInv'
  OBVIOUS
<1>1. CASE Before
  BY <1>1, BeforeStep
<1>2. CASE generateDeclaration
  BY <1>2, generateDeclarationStep
<1>3. CASE addInstructionsSignals
  BY <1>3, addInstructionsSignalsStep
<1>4. CASE connectRegistersToWires
  BY <1>4, connectRegistersToWiresStep
<1>5. CASE performBinding
  BY <1>5, performBindingStep
<1>6. CASE createBindingSignals
  BY <1>6, createBindingSignalsStep
<1>7. CASE visit
  BY <1>7, visitStep
<1>8. CASE generateDatapath
  BY <1>8, generateDatapathStep
<1>9. CASE shareOperationRegisters
  BY <1>9, shareOperationRegistersStep
<1>10. CASE shareRegistersForFu
  BY <1>10, shareRegistersForFuStep
<1>11. CASE print
  <2>1. /\ UNCHANGED vars /\ visited' = visited /\ rest' = rest /\ module' = module
        /\ part = "print" /\ part' \in {"printed", "assertion"}
    BY <1>11 DEF print
  <2> QED BY <2>1, PrintedStep
<1> QED BY <1>1, <1>2, <1>3, <1>4, <1>5, <1>6, <1>7, <1>8, <1>9, <1>10, <1>11 DEF GenNext

(* Every step keeps the invariant of the generator.                        *)
LEMMA GenInvKept == GenInv /\ [DatapathNext]_allVars => GenInv'
<1> SUFFICES ASSUME GenInv, [DatapathNext]_allVars PROVE GenInv'
  OBVIOUS
<1>1. CASE Generate
  BY <1>1, GenNextStep DEF Generate
<1>2. CASE PowerUp
  <2>1. /\ UNCHANGED vars /\ visited' = visited /\ rest' = rest /\ module' = module
        /\ part = "printed" /\ part' = "run"
    BY <1>2 DEF PowerUp
  <2> QED BY <2>1, PrintedStep
<1>3. CASE Clock
  <2>1. /\ UNCHANGED vars /\ visited' = visited /\ rest' = rest /\ module' = module /\ part' = part
    BY <1>3 DEF Clock, genVars
  <2> QED BY <2>1, PrintedStep
<1>4. CASE UNCHANGED allVars
  <2>1. /\ UNCHANGED vars /\ visited' = visited /\ rest' = rest /\ module' = module /\ part' = part
    BY <1>4 DEF allVars, genVars
  <2> QED BY <2>1, PrintedStep
<1> QED BY <1>1, <1>2, <1>3, <1>4 DEF DatapathNext, Aborted

(* The invariant of the generator holds in every state. *)
THEOREM GeneratorInvariance == DatapathSpec => []GenInv
<1>1. DatapathInit => GenInv
  BY InitGenInv DEF DatapathInit
<1> QED BY <1>1, GenInvKept, PTL DEF DatapathSpec

(* Every condition has a driver, and every signal that a driver names is in *)
(* the module: RtlModule::find has found what the generator asked it for.   *)
THEOREM DatapathTypeCorrect == DatapathSpec => []DatapathTypeOK
<1>1. GenInv => DatapathTypeOK
  <2> SUFFICES ASSUME GenInv PROVE DatapathTypeOK
    OBVIOUS
  <2>1. \A name \in DOMAIN module : SignalOK(module, name, Joining)
    <3>1. CASE part \in Undeclared
      <4>1. module = << >>
        BY <3>1 DEF GenInv, Contents
      <4> QED BY <4>1
    <3>2. CASE part \notin Undeclared
      BY <3>2 DEF GenInv, Contents, ModuleOK
    <3> QED BY <3>1, <3>2
  <2>2. ASSUME NEW name \in DOMAIN module
        PROVE  /\ module[name].conditions # << >> =>
                    Len(module[name].drivers) = Len(module[name].conditions)
               /\ \A k \in DOMAIN module[name].drivers : Attached(module, name, module[name].drivers[k])
    BY <2>1, <2>2 DEF SignalOK, Parallel
  <2> QED BY <2>2 DEF DatapathTypeOK, Attached, Connected, Found, GenInv, PartOf
<1> QED BY <1>1, GeneratorInvariance, PTL

(* The signal a has a condition and a driver more than s.                  *)
OneMore(s, a, c, d) ==
    /\ a.type = s.type /\ a.width = s.width
    /\ Len(s.conditions) \in Nat /\ DOMAIN s.conditions = 1..Len(s.conditions)
    /\ DOMAIN a.conditions = 1..(Len(s.conditions) + 1)
    /\ \A k \in DOMAIN s.conditions :
         a.conditions[k] = s.conditions[k] /\ a.drivers[k] = s.drivers[k]
    /\ a.conditions[Len(s.conditions) + 1] = c /\ a.drivers[Len(s.conditions) + 1] = d
    /\ Len(s.conditions) + 1 \in Matching(a, c.state)
    /\ \A x : Matching(s, x) \subseteq Matching(a, x)

(* What is appended to a signal is one condition more.                     *)
LEMMA AppendedMatches ==
    ASSUME NEW s, IsSignal(s), Parallel(s), NEW c, NEW d, NEW a, a = Appended(s, c, d)
    PROVE  /\ OneMore(s, a, c, d)
           /\ \A x : c.state # x => Entries(a, x) = Entries(s, x)
           /\ Entries(a, c.state) = Entries(s, c.state) \cup {<<c.clauses, d>>}
<1>1. PICK cs, ds : cs = s.conditions /\ ds = s.drivers
  OBVIOUS
<1>2. IsSequence(cs) /\ IsSequence(ds) /\ Len(ds) = Len(cs)
  BY <1>1 DEF IsSignal, Parallel
<1>3. PICK more, longer : more = Append(cs, c) /\ longer = Append(ds, d)
  OBVIOUS
<1>4. /\ Len(cs) \in Nat /\ DOMAIN cs = 1..Len(cs)
      /\ DOMAIN more = 1..(Len(cs) + 1)
      /\ \A k \in 1..Len(cs) : more[k] = cs[k]
      /\ more[Len(cs) + 1] = c
  BY <1>2, <1>3, AppendedIs
<1>5. /\ \A k \in 1..Len(cs) : longer[k] = ds[k]
      /\ longer[Len(cs) + 1] = d
  BY <1>2, <1>3, AppendedIs
<1>6. /\ a.type = s.type /\ a.width = s.width /\ a.conditions = more /\ a.drivers = longer
  <2>1. a = [type |-> s.type, width |-> s.width, conditions |-> more, drivers |-> longer]
    BY <1>1, <1>3 DEF Appended
  <2> QED BY <2>1
<1>7. PICK n : n = Len(cs)
  OBVIOUS
<1>8. /\ n \in Nat /\ DOMAIN cs = 1..n /\ DOMAIN more = 1..(n + 1)
      /\ \A k \in 1..n : more[k] = cs[k] /\ longer[k] = ds[k]
      /\ more[n + 1] = c /\ longer[n + 1] = d
  BY <1>4, <1>5, <1>7
<1>9. 1..(n + 1) = 1..n \cup {n + 1} /\ n + 1 \notin 1..n
  BY <1>8
<1>10. \A x : Matching(s, x) = {k \in 1..n : cs[k].state = x}
  BY <1>1, <1>8 DEF Matching
<1>11. \A x : Matching(a, x) = {k \in 1..(n + 1) : more[k].state = x}
  BY <1>6, <1>8 DEF Matching
<1>12. \A x : Entries(s, x) = {<<cs[k].clauses, ds[k]>> : k \in Matching(s, x)}
  BY <1>1 DEF Entries
<1>13. \A x : Entries(a, x) = {<<more[k].clauses, longer[k]>> : k \in Matching(a, x)}
  BY <1>6 DEF Entries
<1>14. \A x : \A k \in Matching(s, x) :
          k \in 1..n /\ <<more[k].clauses, longer[k]>> = <<cs[k].clauses, ds[k]>>
  BY <1>8, <1>10
<1>15. n + 1 \in Matching(a, c.state) /\ Entries(a, c.state) = Entries(s, c.state) \cup {<<c.clauses, d>>}
  <2>1. PICK x : x = c.state
    OBVIOUS
  <2>2. Matching(a, x) = Matching(s, x) \cup {n + 1}
    BY <1>8, <1>9, <1>10, <1>11, <2>1
  <2>3. <<more[n + 1].clauses, longer[n + 1]>> = <<c.clauses, d>>
    BY <1>8
  <2>4. Entries(a, x) = Entries(s, x) \cup {<<c.clauses, d>>}
    <3>1. \A e : e \in Entries(a, x) <=> \E k \in Matching(a, x) : e = <<more[k].clauses, longer[k]>>
      BY <1>13
    <3>2. \A e : e \in Entries(s, x) <=> \E k \in Matching(s, x) : e = <<more[k].clauses, longer[k]>>
      BY <1>12, <1>14
    <3> QED BY <2>2, <2>3, <3>1, <3>2
  <2> QED BY <2>1, <2>2, <2>4
<1>16. ASSUME NEW x, c.state # x
       PROVE  Entries(a, x) = Entries(s, x)
  <2>1. \A k \in 1..(n + 1) : k \in 1..n \/ k = n + 1
    BY <1>8
  <2>2. ~(more[n + 1].state = x)
    BY <1>8, <1>16
  <2>3. \A k \in 1..n : more[k].state = cs[k].state
    BY <1>8
  <2>4. Matching(s, x) = {k \in 1..n : cs[k].state = x}
    BY <1>10
  <2>5. Matching(a, x) = {k \in 1..(n + 1) : more[k].state = x}
    BY <1>11
  <2>6. Matching(a, x) = Matching(s, x)
    BY <2>1, <2>2, <2>3, <2>4, <2>5, <1>9
  <2>7. Entries(s, x) = {<<cs[k].clauses, ds[k]>> : k \in Matching(s, x)}
    BY <1>12
  <2>8. Entries(a, x) = {<<more[k].clauses, longer[k]>> : k \in Matching(s, x)}
    BY <1>13, <2>6
  <2>9. \A k \in Matching(s, x) : <<more[k].clauses, longer[k]>> = <<cs[k].clauses, ds[k]>>
    BY <1>14
  <2>10. \A e : e \in Entries(a, x) <=> \E k \in Matching(s, x) : e = <<more[k].clauses, longer[k]>>
    BY <2>8
  <2>11. \A e : e \in Entries(s, x) <=> \E k \in Matching(s, x) : e = <<cs[k].clauses, ds[k]>>
    BY <2>7
  <2> QED BY <2>9, <2>10, <2>11
<1>17. \A x : Matching(s, x) \subseteq Matching(a, x)
  BY <1>8, <1>9, <1>10, <1>11
<1>18. OneMore(s, a, c, d)
  BY <1>1, <1>6, <1>7, <1>8, <1>15, <1>17 DEF OneMore
<1> QED BY <1>15, <1>16, <1>18

(* The control signals have a driver for every condition. *)
LEMMA ControlSignals ==
    ASSUME GenInv, part \notin Undeclared
    PROVE  /\ IsSignal(module[Finish]) /\ Parallel(module[Finish])
           /\ IsSignal(module[CurState]) /\ Parallel(module[CurState])
           /\ Finish \in DOMAIN module /\ CurState \in DOMAIN module
<1>1. ModuleOK(module, Joining) /\ Finish \in DOMAIN module /\ CurState \in DOMAIN module
  BY DEF GenInv, Contents, PortNames
<1>2. ~Replaceable(Finish, Joining) /\ ~Replaceable(CurState, Joining)
  BY NamesApart, NotReplaceable
<1> QED BY <1>1, <1>2 DEF ModuleOK, SignalOK

(* What a step that leaves the machine alone cannot change. *)
LEMMA SameMachine ==
    ASSUME UNCHANGED mapVars
    PROVE  /\ list' = list /\ state' = state /\ F' = F
           /\ \A s : ReturnsIn(s)' = ReturnsIn(s)
           /\ \A s : Leaving(s)' = Leaving(s)
<1>1. input' = input /\ list' = list /\ state' = state
  BY DEF mapVars
<1>2. F' = F
  BY <1>1, SameFunction
<1>3. \A s : ReturnsIn(s)' = ReturnsIn(s)
  BY <1>1, <1>2 DEF ReturnsIn, ToSet
<1>4. \A s : Leaving(s)' = Leaving(s)
  BY <1>1, <1>2 DEF Leaving, getTransitionOperand, getOperandSignal, OperandWidth, WidthOf
<1> QED BY <1>1, <1>2, <1>3, <1>4

(* The wait state is the first of the list, and has no instructions. *)
LEMMA WaitIsFirst ==
    ASSUME BInv
    PROVE  /\ Len(list) \in Nat /\ Len(list) > 0 /\ list[1] = Wait
           /\ ReturnsIn(list[1]) = {}
           /\ \A q \in 1..Len(list) : list[q] \in 1..Len(list)
           /\ \A q, r \in 1..Len(list) : list[q] = list[r] => q = r
<1>1. /\ Len(list) \in Nat /\ Len(list) > 0 /\ list[1] = Wait
      /\ \A q \in 1..Len(list) : list[q] \in 1..Len(list)
      /\ \A q, r \in 1..Len(list) : list[q] = list[r] => q = r
  BY DEF BInv, IInv, ShapeOK, Listed
<1>2. state[Wait].instrs = << >>
  BY DEF BInv, IInv, WaitOK
<1>3. ReturnsIn(list[1]) = {}
  BY <1>1, <1>2, EmptySet DEF ReturnsIn
<1> QED BY <1>1, <1>3

(* A step that keeps the control signals. *)
LEMMA ControlStays ==
    ASSUME CtlInv, part \notin Undeclared \cup {"assertion"}, UNCHANGED mapVars, ControlKept,
           visited' = visited,
           \A q \in 2..Len(list) : q = visited + 1 /\ Passed(q)' => Passed(q)
    PROVE  ControlOK'
<1>1. /\ list' = list /\ state' = state
      /\ \A s : ReturnsIn(s)' = ReturnsIn(s)
      /\ \A s : Leaving(s)' = Leaving(s)
  BY SameMachine
<1>2. module'[Finish] = module[Finish] /\ module'[CurState] = module[CurState]
  BY DEF ControlKept
<1>3. ControlOK /\ BInv
  BY DEF CtlInv, GenInv
<1>4. FinishDriven'
  BY <1>1, <1>2, <1>3 DEF ControlOK, FinishDriven, Matching
<1>5. FinishRises'
  <2> SUFFICES ASSUME NEW q \in 1..Len(list), ReturnsIn(list[q]) # {}, Passed(q)'
               PROVE  Matching(module[Finish], list[q]) # {}
    BY <1>1, <1>2 DEF FinishRises, Matching
  <2>1. q # 1
    BY <1>3, WaitIsFirst
  <2>2. q \in 2..Len(list)
    BY <2>1, <1>3, WaitIsFirst
  <2>3. Passed(q)
    <3>1. CASE q <= visited
      BY <3>1 DEF Passed
    <3>2. CASE ~(q <= visited)
      BY <2>2, <3>2 DEF Passed
    <3> QED BY <3>1, <3>2
  <2> QED BY <2>3, <1>3 DEF ControlOK, FinishRises
<1>6. CurStateOK'
  BY <1>1, <1>2, <1>3 DEF ControlOK, CurStateOK, Entries, Matching
<1> QED BY <1>4, <1>5, <1>6 DEF ControlOK

(* Finish is cleared in the wait state from the beginning. *)
LEMMA DeclaredControl ==
    ASSUME GenInv, generateDeclaration
    PROVE  ControlOK'
<1>1. /\ UNCHANGED mapVars /\ visited' = visited /\ visited = 0 /\ part' = "addInstructionsSignals"
  BY DEF generateDeclaration, vars, GenInv, Remaining, Undeclared
<1>2. /\ list' = list /\ state' = state /\ \A s : Leaving(s)' = Leaving(s)
  BY <1>1, SameMachine
<1>3. BInv
  BY DEF GenInv
<1>4. PICK f, g, c : f = module'[Finish] /\ g = NewSignal("output reg", 1) /\ c = InState(list[1])
  OBVIOUS
<1>5. f = Appended(g, c, ZERO) /\ module'[CurState] = NewSignal("reg", 0)
  BY <1>4, PortsDeclared
<1>6. IsSignal(g) /\ Parallel(g) /\ g.type = "output reg" /\ g.width = 1 /\ g.conditions = << >>
  <2>1. g = [type |-> "output reg", width |-> 1, conditions |-> << >>, drivers |-> << >>]
    BY <1>4 DEF NewSignal
  <2>2. /\ g.type = "output reg" /\ g.width = 1
        /\ g.conditions = << >> /\ g.drivers = << >>
    BY <2>1
  <2> QED BY <2>1, <2>2, EmptyIs DEF IsSignal, Parallel
<1>7. c.state = list[1]
  BY <1>4 DEF InState
<1>8. /\ f.type = "output reg" /\ f.width = 1
      /\ DOMAIN f.conditions = {1} /\ f.conditions[1] = c /\ f.drivers[1] = ZERO
      /\ 1 \in Matching(f, list[1])
  <2>1. PICK n : n = Len(g.conditions)
    OBVIOUS
  <2>2. n = 0
    BY <2>1, <1>6, EmptyIs
  <2>3. /\ f.type = g.type /\ f.width = g.width
        /\ DOMAIN f.conditions = 1..(n + 1)
        /\ f.conditions[n + 1] = c /\ f.drivers[n + 1] = ZERO
        /\ n + 1 \in Matching(f, list[1])
    <3>1. OneMore(g, f, c, ZERO)
      BY <1>5, <1>6, AppendedMatches
    <3> QED BY <3>1, <2>1, <1>7 DEF OneMore
  <2>4. n + 1 = 1 /\ 1..1 = {1}
    BY <2>2
  <2> QED BY <2>3, <2>4, <1>6
<1>9. FinishDriven'
  <2>1. \A k \in DOMAIN f.conditions : f.conditions[k].state = list[1] /\ f.drivers[k] = ZERO
    BY <1>7, <1>8
  <2>2. Matching(f, list[1])' = Matching(f, list[1])
    BY <1>2, <1>4 DEF Matching
  <2> QED BY <2>1, <1>2, <1>4, <1>8 DEF FinishDriven, Matching
<1>10. FinishRises'
  <2>1. \A q \in 1..Len(list) : ~Passed(q)'
    <3>1. \A q \in 1..Len(list) : ~(q <= 0)
      BY <1>3, WaitIsFirst
    <3> QED BY <3>1, <1>1 DEF Passed
  <2> QED BY <2>1, <1>2 DEF FinishRises
<1>11. CurStateOK'
  <2>1. NewSignal("reg", 0).conditions = << >>
    BY DEF NewSignal
  <2>2. DOMAIN module'[CurState].conditions = {}
    BY <2>1, <1>5, EmptyIs
  <2>3. \A x : Entries(module'[CurState], x) = {}
    BY <2>2 DEF Entries, Matching
  <2>4. \A q \in 1..Len(list) : ~(q <= 0)
    BY <1>3, WaitIsFirst
  <2>5. \A q \in 1..Len(list) : Entries(module[CurState], list[q])' = {}
    BY <2>3, <1>2 DEF Entries, Matching
  <2> QED BY <2>4, <2>5, <1>1, <1>2 DEF CurStateOK
<1> QED BY <1>9, <1>10, <1>11 DEF ControlOK

(* A part that visits no state leaves the controller what it was. *)
LEMMA PartControl ==
    ASSUME CtlInv, part \notin Undeclared \cup {"assertion"}, UNCHANGED mapVars, ControlKept,
           visited' = visited, part' # "generateDatapath"
    PROVE  ControlOK'
<1>1. visited \in Nat
  BY DEF CtlInv, GenInv, Remaining, BInv, IInv, ShapeOK
<1>2. \A q \in 2..Len(list) : q = visited + 1 /\ Passed(q)' => Passed(q)
  BY <1>1 DEF Passed
<1> QED BY <1>2, ControlStays

(* The states are about to be visited. *)
LEMMA UnitsControl ==
    ASSUME CtlInv, createBindingSignals
    PROVE  ControlOK'
<1>1. /\ UNCHANGED mapVars /\ part = "createBindingSignals" /\ visited' = visited /\ visited = 0
  BY DEF createBindingSignals, Ends, vars, CtlInv, GenInv, Remaining, Undeclared
<1>2. ControlKept
  BY createBindingSignalsStep DEF CtlInv
<1>3. part \notin Undeclared \cup {"assertion"}
  BY <1>1 DEF Undeclared
<1>4. \A q \in 2..Len(list) : q = visited + 1 /\ Passed(q)' => Passed(q)
  BY <1>1
<1> QED BY <1>1, <1>2, <1>3, <1>4, ControlStays

(* A return sets finish. *)
LEMMA VisitControl ==
    ASSUME CtlInv, visit
    PROVE  ControlOK'
<1>1. /\ UNCHANGED vars /\ UNCHANGED mapVars /\ part = "generateDatapath" /\ visited' = visited
      /\ part' = part
  BY DEF visit, vars
<1>2. /\ list' = list /\ state' = state
      /\ \A x : ReturnsIn(x)' = ReturnsIn(x)
      /\ \A x : Leaving(x)' = Leaving(x)
  BY <1>1, SameMachine
<1>3. GenInv /\ BInv /\ ControlOK /\ part \notin Undeclared
  BY <1>1 DEF CtlInv, GenInv, Undeclared
<1>4. PICK h, s : h = Head(rest) /\ s = list[visited + 1]
  OBVIOUS
<1>5. /\ module'[CurState] = module[CurState]
      /\ h \in Instrs(F) /\ h \in ToSet(state[s].instrs)
      /\ ToSet(rest) \subseteq {h} \cup ToSet(rest')
      /\ F.op[h] # "Ret" => module'[Finish] = module[Finish]
      /\ F.op[h] = "Ret" => module'[Finish] = Appended(module[Finish], InState(s), ONE)
  BY <1>3, <1>4, visitStep
<1>6. visited \in Nat /\ visited + 1 \in 1..Len(list)
  BY <1>1, <1>3, Visiting
<1>7. ToSet(rest)' = ToSet(rest')
  BY DEF ToSet
<1>8. CASE F.op[h] # "Ret"
  <2>1. ControlKept
    BY <1>5, <1>8 DEF ControlKept
  <2>2. ASSUME NEW q \in 2..Len(list), q = visited + 1, Passed(q)' PROVE Passed(q)
    <3>1. ReturnsIn(list[q]) \cap ToSet(rest') = {}
      BY <2>2, <1>1, <1>2, <1>6, <1>7 DEF Passed
    <3>2. h \notin ReturnsIn(list[q])
      BY <1>8 DEF ReturnsIn
    <3>3. ReturnsIn(list[q]) \cap ToSet(rest) = {}
      BY <3>1, <3>2, <1>5
    <3> QED BY <2>2, <3>3, <1>1 DEF Passed
  <2>3. part \notin Undeclared \cup {"assertion"}
    BY <1>1, <1>3
  <2> QED BY <2>1, <2>2, <2>3, <1>1, ControlStays
<1>9. CASE F.op[h] = "Ret"
  <2>1. PICK f, g, c : f = module'[Finish] /\ g = module[Finish] /\ c = InState(s)
    OBVIOUS
  <2>2. f = Appended(g, c, ONE) /\ IsSignal(g) /\ Parallel(g)
    BY <2>1, <1>3, <1>5, <1>9, ControlSignals
  <2>3. c.state = s
    BY <2>1 DEF InState
  <2>4. h \in ReturnsIn(s)
    BY <1>5, <1>9 DEF ReturnsIn
  <2>5. s # list[1]
    BY <2>4, <1>3, WaitIsFirst
  <2>6. PICK n : n = Len(g.conditions)
    OBVIOUS
  <2>7. /\ f.type = g.type /\ f.width = g.width
        /\ n \in Nat /\ DOMAIN g.conditions = 1..n
        /\ DOMAIN f.conditions = 1..(n + 1)
        /\ \A k \in DOMAIN g.conditions :
             f.conditions[k] = g.conditions[k] /\ f.drivers[k] = g.drivers[k]
        /\ f.conditions[n + 1] = c /\ f.drivers[n + 1] = ONE
        /\ \A x : Matching(g, x) \subseteq Matching(f, x)
        /\ n + 1 \in Matching(f, s)
    <3>1. OneMore(g, f, c, ONE)
      BY <2>2, AppendedMatches
    <3> QED BY <3>1, <2>3, <2>6 DEF OneMore
  <2>8. FinishDriven'
    <3>1. /\ f.type = "output reg" /\ f.width = 1 /\ Matching(f, list[1]) # {}
      BY <2>1, <2>7, <1>3 DEF ControlOK, FinishDriven
    <3>2. ASSUME NEW k \in DOMAIN f.conditions
          PROVE  IF f.conditions[k].state = list[1] THEN f.drivers[k] = ZERO
                 ELSE f.drivers[k] = ONE /\ ReturnsIn(f.conditions[k].state) # {}
      <4>1. CASE k \in 1..n
        <5>1. IF g.conditions[k].state = list[1] THEN g.drivers[k] = ZERO
              ELSE g.drivers[k] = ONE /\ ReturnsIn(g.conditions[k].state) # {}
          BY <2>1, <2>7, <4>1, <1>3 DEF ControlOK, FinishDriven
        <5> QED BY <5>1, <2>7, <4>1
      <4>2. CASE k \notin 1..n
        <5>1. k = n + 1
          BY <2>7, <4>2
        <5> QED BY <5>1, <2>3, <2>4, <2>5, <2>7
      <4> QED BY <4>1, <4>2
    <3>3. Matching(module[Finish], list[1])' = Matching(f, list[1])
      BY <2>1, <1>2 DEF Matching
    <3> QED BY <3>1, <3>2, <3>3, <2>1, <1>2 DEF FinishDriven
  <2>9. FinishRises'
    <3> SUFFICES ASSUME NEW q \in 1..Len(list), ReturnsIn(list[q]) # {}, Passed(q)'
                 PROVE  Matching(f, list[q]) # {}
      BY <2>1, <1>2 DEF FinishRises, Matching
    <3>1. CASE q = visited + 1
      BY <3>1, <2>7, <1>4
    <3>2. CASE q # visited + 1
      <4>1. Passed(q)
        BY <3>2, <1>1 DEF Passed
      <4>2. Matching(g, list[q]) # {}
        BY <4>1, <2>1, <1>3 DEF ControlOK, FinishRises
      <4> QED BY <4>2, <2>7
    <3> QED BY <3>1, <3>2
  <2>10. CurStateOK'
    BY <1>1, <1>2, <1>3, <1>5 DEF ControlOK, CurStateOK, Entries, Matching
  <2> QED BY <2>8, <2>9, <2>10 DEF ControlOK
<1> QED BY <1>8, <1>9

(* A state leads where the machine says. *)
LEMMA TransitionControl ==
    ASSUME CtlInv, generateDatapath
    PROVE  ControlOK'
<1>1. /\ UNCHANGED vars /\ UNCHANGED mapVars /\ part = "generateDatapath" /\ visited' = visited + 1
      /\ rest = << >> /\ part' \in {"generateDatapath", "shareOperationRegisters", "print"}
      /\ visited' # Len(list) => rest' = state[list[visited' + 1]].instrs
      /\ visited' = Len(list) => part' # "generateDatapath"
  BY DEF generateDatapath, vars
<1>2. /\ list' = list /\ state' = state
      /\ \A s : ReturnsIn(s)' = ReturnsIn(s)
      /\ \A s : Leaving(s)' = Leaving(s)
  BY <1>1, SameMachine
<1>3. GenInv /\ BInv /\ ControlOK /\ part \notin Undeclared
  BY <1>1 DEF CtlInv, GenInv, Undeclared
<1>4. visited \in Nat /\ visited + 1 \in 1..Len(list) /\ Len(list) \in Nat
  BY <1>1, <1>3, Visiting
<1>5. module'[Finish] = module[Finish]
  BY <1>3, generateDatapathStep
<1>6. FinishDriven'
  BY <1>2, <1>3, <1>5 DEF ControlOK, FinishDriven, Matching
<1>7. FinishRises'
  <2> SUFFICES ASSUME NEW q \in 1..Len(list), ReturnsIn(list[q]) # {}, Passed(q)'
               PROVE  Matching(module[Finish], list[q]) # {}
    BY <1>2, <1>5 DEF FinishRises, Matching
  <2>1. CASE q <= visited
    BY <2>1, <1>3 DEF Passed, ControlOK, FinishRises
  <2>2. CASE q = visited + 1
    <3>1. Passed(q)
      BY <2>2, <1>1, EmptySet DEF Passed
    <3> QED BY <3>1, <1>3 DEF ControlOK, FinishRises
  <2>3. CASE q > visited + 1
    <3>1. q = visited' + 1 /\ part' = "generateDatapath" /\ (ReturnsIn(list[q]) \cap ToSet(rest))' = {}
      BY <2>3, <1>1, <1>4 DEF Passed
    <3>2. rest' = state[list[q]].instrs
      BY <3>1, <1>1
    <3>3. ReturnsIn(list[q]) \cap ToSet(rest') = {}
      BY <3>1, <1>2 DEF ToSet
    <3>4. ReturnsIn(list[q]) \subseteq ToSet(rest')
      BY <3>2 DEF ReturnsIn
    <3> QED BY <3>3, <3>4
  <2> QED BY <2>1, <2>2, <2>3, <1>4
<1>8. CurStateOK'
  <2>1. PICK s, n, g : s = list[visited + 1] /\ n = generateStateTransition(module, s)
                       /\ g = module[CurState]
    OBVIOUS
  <2>2. \/ module' = n
        \/ module'[CurState] = Appended(n[CurState], InStateWhen(Null, Named(Reset), 1), ZERO)
    BY <2>1, <1>3, generateDatapathStep
  <2>3. PICK J : ModuleOK(module, J) /\ J = {}
    BY <1>1, <1>3, Visiting
  <2>4. IsSignal(g) /\ Parallel(g) /\ CurState \in DOMAIN module
    BY <2>1, <1>3, ControlSignals
  <2>5. /\ ModuleOK(n, J) /\ CurState \in DOMAIN n
        /\ state[s].transitions = << >> =>
             n[CurState] = Appended(g, InState(s), StateParam(state[s].default))
        /\ state[s].transitions # << >> =>
             n[CurState] =
               Appended(Appended(g, InStateWhen(s, getTransitionOperand(s), 1),
                                 StateParam(state[s].transitions[1][1])),
                        InStateWhen(s, getTransitionOperand(s), 0), StateParam(state[s].default))
    BY <2>1, <2>3, <2>4, TransitionGenerated
  <2>6. IsSignal(n[CurState]) /\ Parallel(n[CurState])
    <3>1. ~Replaceable(CurState, J)
      BY NamesApart, NotReplaceable
    <3> QED BY <3>1, <2>5 DEF ModuleOK, SignalOK
  <2>7. \A x, o, v : /\ InState(x).state = x /\ InState(x).clauses = << >>
                     /\ InStateWhen(x, o, v).state = x
                     /\ InStateWhen(x, o, v).clauses = <<<<o, v>>>>
    BY DEF InState, InStateWhen
  <2>8. \A x : Entries(n[CurState], x) = Entries(g, x) \cup (IF x = s THEN Leaving(s) ELSE {})
    <3> TAKE x
    <3>1. CASE state[s].transitions = << >>
      <4>1. PICK c, d : c = InState(s) /\ d = StateParam(state[s].default)
        OBVIOUS
      <4>2. n[CurState] = Appended(g, c, d)
        BY <2>5, <3>1, <4>1
      <4>3. c.state = s /\ c.clauses = << >>
        BY <2>7, <4>1
      <4>4. Leaving(s) = {<<c.clauses, d>>}
        BY <3>1, <4>1, <4>3 DEF Leaving
      <4>5. /\ s # x => Entries(n[CurState], x) = Entries(g, x)
            /\ s = x => Entries(n[CurState], x) = Entries(g, x) \cup {<<c.clauses, d>>}
        BY <2>4, <4>2, <4>3, AppendedMatches
      <4> QED BY <4>4, <4>5
    <3>2. CASE state[s].transitions # << >>
      <4>1. PICK c, d, e, f, a :
               /\ c = InStateWhen(s, getTransitionOperand(s), 1)
               /\ d = StateParam(state[s].transitions[1][1])
               /\ e = InStateWhen(s, getTransitionOperand(s), 0)
               /\ f = StateParam(state[s].default)
               /\ a = Appended(g, c, d)
        OBVIOUS
      <4>2. n[CurState] = Appended(a, e, f)
        BY <2>5, <3>2, <4>1
      <4>3. c.state = s /\ e.state = s
        BY <2>7, <4>1
      <4>4. Leaving(s) = {<<c.clauses, d>>, <<e.clauses, f>>}
        <5>1. c.clauses = <<<<getTransitionOperand(s), 1>>>> /\ e.clauses = <<<<getTransitionOperand(s), 0>>>>
          BY <2>7, <4>1
        <5> QED BY <3>2, <4>1, <5>1 DEF Leaving
      <4>5. /\ s # x => Entries(a, x) = Entries(g, x)
            /\ s = x => Entries(a, x) = Entries(g, x) \cup {<<c.clauses, d>>}
        BY <2>4, <4>1, <4>3, AppendedMatches
      <4>6. IsSignal(a) /\ Parallel(a)
        <5>1. IsSequence(g.conditions) /\ IsSequence(g.drivers) /\ Len(g.drivers) = Len(g.conditions)
          BY <2>4 DEF IsSignal, Parallel
        <5>2. /\ IsSequence(Append(g.conditions, c)) /\ IsSequence(Append(g.drivers, d))
              /\ Len(Append(g.conditions, c)) = Len(g.conditions) + 1
              /\ Len(Append(g.drivers, d)) = Len(g.drivers) + 1
          BY <5>1, AppendedIs
        <5>3. PICK t, w, more, longer :
                 /\ t = g.type /\ w = g.width
                 /\ more = Append(g.conditions, c) /\ longer = Append(g.drivers, d)
          OBVIOUS
        <5>4. a = [type |-> t, width |-> w, conditions |-> more, drivers |-> longer]
          BY <4>1, <5>3 DEF Appended
        <5>5. a.conditions = more /\ a.drivers = longer /\ a.type = t /\ a.width = w
          BY <5>4
        <5>6. IsSequence(more) /\ IsSequence(longer) /\ Len(more) = Len(longer)
          BY <5>1, <5>2, <5>3
        <5> QED BY <5>4, <5>5, <5>6 DEF IsSignal, Parallel
      <4>7. /\ s # x => Entries(n[CurState], x) = Entries(a, x)
            /\ s = x => Entries(n[CurState], x) = Entries(a, x) \cup {<<e.clauses, f>>}
        BY <4>2, <4>3, <4>6, AppendedMatches
      <4> QED BY <4>4, <4>5, <4>7
    <3> QED BY <3>1, <3>2
  <2>9. \A q \in 1..Len(list) : Entries(module'[CurState], list[q]) = Entries(n[CurState], list[q])
    <3>1. CASE module' = n
      BY <3>1
    <3>2. CASE module'[CurState] = Appended(n[CurState], InStateWhen(Null, Named(Reset), 1), ZERO)
      <4>1. PICK c, a : c = InStateWhen(Null, Named(Reset), 1) /\ a = module'[CurState]
        OBVIOUS
      <4>2. c.state = 0
        BY <2>7, <4>1 DEF Null
      <4>3. a = Appended(n[CurState], c, ZERO)
        BY <3>2, <4>1
      <4>4. ASSUME NEW q \in 1..Len(list) PROVE Entries(a, list[q]) = Entries(n[CurState], list[q])
        <5>1. list[q] # 0
          BY <1>3, <1>4, WaitIsFirst
        <5> QED BY <5>1, <2>6, <4>2, <4>3, AppendedMatches
      <4> QED BY <4>1, <4>4
    <3> QED BY <2>2, <3>1, <3>2
  <2>10. ASSUME NEW q \in 1..Len(list)
         PROVE  Entries(module'[CurState], list[q]) =
                  IF q <= visited + 1 THEN Leaving(list[q]) ELSE {}
    <3>1. Entries(g, list[q]) = IF q <= visited THEN Leaving(list[q]) ELSE {}
      BY <2>1, <1>3 DEF ControlOK, CurStateOK
    <3>2. list[q] = s <=> q = visited + 1
      BY <2>1, <1>3, <1>4, WaitIsFirst
    <3>3. Entries(module'[CurState], list[q]) =
             Entries(g, list[q]) \cup (IF list[q] = s THEN Leaving(s) ELSE {})
      BY <2>8, <2>9
    <3>4. CASE q <= visited
      BY <3>1, <3>2, <3>3, <3>4, <1>4
    <3>5. CASE q = visited + 1
      BY <3>1, <3>2, <3>3, <3>5, <1>4
    <3>6. CASE q > visited + 1
      BY <3>1, <3>2, <3>3, <3>6, <1>4
    <3> QED BY <3>4, <3>5, <3>6, <1>4
  <2> QED BY <2>10, <1>1, <1>2 DEF CurStateOK, Entries, Matching
<1> QED BY <1>6, <1>7, <1>8 DEF ControlOK

LEMMA SameCardinality == \A S : Ctl!Cardinality(S) = Cardinality(S)
BY DEF Ctl!Cardinality, Cardinality

LEMMA SameExtremes == \A S : Ctl!Max(S) = Max(S) /\ Ctl!Min(S) = Min(S)
BY DEF Ctl!Max, Max, Ctl!Min, Min

LEMMA SameIr ==
    /\ Ctl!F = F /\ Ctl!Blocks(F) = Blocks(F) /\ Ctl!Instrs(F) = Instrs(F)
    /\ \A b : Ctl!BlockInstrs(F, b) = BlockInstrs(F, b)
    /\ \A i : Ctl!IsTerminator(F, i) <=> IsTerminator(F, i)
    /\ \A i : Ctl!Cycles(F, i) = Cycles(F, i)
BY DEF Ctl!F, F, Ctl!Blocks, Blocks, Ctl!Instrs, Instrs, Ctl!BlockInstrs, BlockInstrs,
       Ctl!IsTerminator, IsTerminator, Ctl!Terminators, Terminators, Ctl!Cycles, Cycles,
       Ctl!MemoryOps, MemoryOps

LEMMA SameTerminator == \A b : Ctl!Terminator(F, b) = Terminator(F, b)
BY DEF Ctl!Instrs, Instrs, Ctl!BlockInstrs, BlockInstrs,
       Ctl!IsTerminator, IsTerminator, Ctl!Terminators, Terminators, Ctl!Terminator, Terminator

LEMMA SameEmpty == \A b : Ctl!isBasicBlockEmpty(F, b) <=> isBasicBlockEmpty(F, b)
BY SameCardinality, SameIr, SameTerminator DEF Ctl!isBasicBlockEmpty, isBasicBlockEmpty

LEMMA SameNew == Ctl!NewState = NewState /\ Ctl!Wait = Wait /\ Ctl!Null = Null
BY DEF Ctl!NewState, NewState, Ctl!Wait, Wait, Ctl!Null, Null, Ctl!NoVariable, NoVariable

LEMMA SameOrder == \A S : Ctl!LayoutOrder(S) = LayoutOrder(S)
<1> SUFFICES ASSUME NEW S PROVE Ctl!LayoutOrder(S) = LayoutOrder(S)
  OBVIOUS
<1> DEFINE at(k) == CHOOSE i \in S : Cardinality({j \in S : j <= i}) = k
           ctlAt(k) == CHOOSE i \in S : Ctl!Cardinality({j \in S : j <= i}) = k
<1>1. \A k : ctlAt(k) = at(k)
  BY SameCardinality
<1>2. Ctl!LayoutOrder(S) = [k \in 1..Ctl!Cardinality(S) |-> ctlAt(k)]
  BY DEF Ctl!LayoutOrder
<1>3. LayoutOrder(S) = [k \in 1..Cardinality(S) |-> at(k)]
  BY DEF LayoutOrder
<1> HIDE DEF at, ctlAt
<1> QED BY <1>1, <1>2, <1>3, SameCardinality

LEMMA SameLastState == \A b : Ctl!LastState(b) = LastState(b)
BY SameIr, SameExtremes DEF Ctl!LastState, LastState

LEMMA SameStateOrder == \A b, k : Ctl!StateOrder(b, k) = StateOrder(b, k)
BY DEF Ctl!StateOrder, StateOrder

LEMMA SameInstrsIn == \A b, k : Ctl!InstrsIn(b, k) = InstrsIn(b, k)
BY SameIr, SameOrder DEF Ctl!InstrsIn, InstrsIn

LEMMA SameBranch == \A b, s : Ctl!Branch(b, s) = Branch(b, s)
<1> SUFFICES ASSUME NEW b, NEW s PROVE Ctl!Branch(b, s) = Branch(b, s)
  OBVIOUS
<1>1. Ctl!Terminator(F, b) = Terminator(F, b) /\ Ctl!F = F /\ Ctl!Wait = Wait /\ Ctl!Null = Null
  BY SameIr, SameTerminator, SameNew
<1> QED BY <1>1 DEF Ctl!Branch, Branch

LEMMA SameChainState == \A b, k : Ctl!ChainState(b, k) = ChainState(b, k)
BY SameLastState, SameStateOrder, SameInstrsIn, SameBranch, SameNew DEF Ctl!ChainState, ChainState

LEMMA SameInit == MapInit => Ctl!MapInit
BY SameIr, SameNew DEF Ctl!MapInit, MapInit

LEMMA SameWait == linkWaitState => Ctl!linkWaitState
BY SameIr, SameNew, SameEmpty DEF Ctl!linkWaitState, linkWaitState

LEMMA SameFirst == createFirstStates => Ctl!createFirstStates
BY SameIr, SameNew, SameEmpty, SameCardinality DEF Ctl!createFirstStates, createFirstStates, Advance, Ctl!Advance

LEMMA SameInserted == \A b : Ctl!ChainInserted(b) = ChainInserted(b)
BY SameExtremes, SameLastState, SameStateOrder DEF Ctl!ChainInserted, ChainInserted, Ctl!SelectInSeq, SelectInSeq

LEMMA SameChains == createChains => Ctl!createChains
BY SameIr, SameEmpty, SameInserted, SameChainState, SameLastState, SameStateOrder
   DEF Ctl!createChains, createChains, Advance, Ctl!Advance

LEMMA SameRank == \A k : Ctl!RankInBlock(k) = RankInBlock(k)
BY SameCardinality DEF Ctl!RankInBlock, RankInBlock

LEMMA SameNaming == nameStates => Ctl!nameStates
BY SameRank, SameExtremes DEF Ctl!nameStates, nameStates, Ctl!SelectInSeq, SelectInSeq

LEMMA SameReturned == Returned => Ctl!Returned
BY DEF Ctl!Returned, Returned, mapVars, Ctl!mapVars

LEMMA SameMapNext == MapNext => Ctl!MapNext
BY SameReturned, SameNaming, SameChains, SameFirst, SameWait DEF Ctl!MapNext, MapNext

(* Where the state machine leads from cur_state. *)
OperandBit == IF cur_state = list[1] THEN start ELSE cond

Following ==
    IF state[cur_state].transitions # << >> /\ OperandBit
    THEN state[cur_state].transitions[1][1] ELSE state[cur_state].default

(* The clause of a transition tests start in the wait state, and elsewhere  *)
(* the condition.                                                           *)
LEMMA BitOfTransition == Bit(getTransitionOperand(cur_state)) = OperandBit
<1>1. Named(Start) # Named(Reset)
  <2>1. Start # Reset
    BY NamesApart
  <2> QED BY <2>1 DEF Named
<1>2. ASSUME NEW i, NEW n
      PROVE  getOperandSignal(i, n) # Named(Start) /\ getOperandSignal(i, n) # Named(Reset)
  <2>1. PICK x, w : x = F.operands[i][n] /\ w = OperandWidth(i, n)
    OBVIOUS
  <2>2. \/ getOperandSignal(i, n) = <<"signal", Reg(x)>>
        \/ getOperandSignal(i, n) = <<"signal", Arg(-x)>>
        \/ getOperandSignal(i, n) = <<"constant", <<"operand", i>>, w>>
    <3>1. CASE x > 0
      BY <2>1, <3>1 DEF getOperandSignal, Named
    <3>2. CASE ~(x > 0) /\ x < 0
      BY <2>1, <3>2 DEF getOperandSignal, Named
    <3>3. CASE ~(x > 0) /\ ~(x < 0)
      BY <2>1, <3>3 DEF getOperandSignal, Constant
    <3> QED BY <3>1, <3>2, <3>3
  <2>3. Reg(x) # Start /\ Reg(x) # Reset /\ Arg(-x) # Start /\ Arg(-x) # Reset
    BY NamesApart
  <2> QED BY <2>2, <2>3 DEF Named
<1>3. CASE cur_state = list[1]
  BY <1>1, <1>3 DEF Bit, getTransitionOperand, OperandBit
<1>4. CASE cur_state # list[1]
  <2>1. PICK x : x = getTransitionOperand(cur_state)
    OBVIOUS
  <2>2. x # Named(Start) /\ x # Named(Reset)
    BY <1>2, <1>4, <2>1 DEF getTransitionOperand
  <2> QED BY <2>1, <2>2, <1>4 DEF Bit, OperandBit
<1> QED BY <1>3, <1>4

(* The printed case statement takes the state that every condition that     *)
(* holds leads to.                                                          *)
LEMMA TakenLeads ==
    ASSUME NEW signal, signal = module[CurState], IsSignal(signal), ~reset, reset \in BOOLEAN, NEW n,
           \A k \in Matching(signal, cur_state) :
               Holds(signal.conditions[k]) => signal.drivers[k] = StateParam(n),
           \E k \in Matching(signal, cur_state) :
               Holds(signal.conditions[k]) /\ signal.drivers[k] = StateParam(n)
    PROVE  NextCurState = n
<1>1. PICK taken : taken = {k \in Matching(signal, cur_state) :
                              signal.drivers[k] # StateParam(cur_state) /\ Holds(signal.conditions[k])}
  OBVIOUS
<1>2. NextCurState = IF taken = {} THEN cur_state ELSE signal.drivers[Min(taken)][2]
  <2>1. CASE taken = {}
    BY <1>1, <2>1 DEF NextCurState
  <2>2. CASE taken # {}
    BY <1>1, <2>2 DEF NextCurState
  <2> QED BY <2>1, <2>2
<1>3. \A k \in taken : signal.drivers[k] = StateParam(n)
  BY <1>1
<1>4. StateParam(n)[2] = n /\ (StateParam(n) = StateParam(cur_state) <=> n = cur_state)
  BY DEF StateParam
<1>5. CASE n = cur_state
  <2>1. taken = {}
    BY <1>1, <1>3, <1>5
  <2> QED BY <2>1, <1>2, <1>5
<1>6. CASE n # cur_state
  <2>1. taken # {}
    BY <1>1, <1>4, <1>6
  <2>2. taken \subseteq Int /\ IsFiniteSet(taken)
    <3>1. PICK m : m = Len(signal.conditions)
      OBVIOUS
    <3>2. m \in Nat /\ DOMAIN signal.conditions = 1..m
      BY <3>1 DEF IsSignal, IsSequence
    <3>3. taken \subseteq 1..m
      BY <1>1, <3>2 DEF Matching
    <3>4. 1 \in Int /\ m \in Int
      BY <3>2
    <3>5. IsFiniteSet(1..m)
      BY <3>4, FS_Interval
    <3>6. taken \subseteq Int
      BY <3>2, <3>3
    <3> QED BY <3>3, <3>5, <3>6, FS_Subset
  <2>3. Min(taken) \in taken
    BY <2>1, <2>2, MinIsLeast
  <2> QED BY <2>1, <2>3, <1>2, <1>3, <1>4
<1> QED BY <1>5, <1>6

(* Once the module is printed, every state has been visited. *)
LEMMA AtWork ==
    ASSUME CtlInv, part \in {"printed", "run"}
    PROVE  /\ GenInv /\ BInv /\ IInv /\ pc = "done" /\ input \in Schedules /\ ControlOK
           /\ part \notin Undeclared /\ visited = Len(list)
           /\ Len(list) \in Nat /\ list[1] = Wait /\ DOMAIN state = 1..Len(list)
           /\ Wait \in DOMAIN state
           /\ \A s \in DOMAIN state : \E q \in 1..Len(list) : list[q] = s
<1>1. GenInv /\ BInv /\ IInv /\ BindInv /\ part \notin Undeclared
  BY DEF CtlInv, GenInv, BInv, Undeclared
<1>2. ControlOK
  BY <1>1 DEF CtlInv
<1>3. visited = Len(list)
  BY <1>1 DEF GenInv, Remaining
<1>4. phase # "createFsm"
  BY <1>1 DEF GenInv, PartOf
<1>5. pc = "done"
  BY <1>1, <1>4 DEF BindInv, Phases
<1>6. input \in Schedules /\ state \in Seq(StateRecords) /\ list \in Seq(Nat)
  BY <1>1 DEF IInv, ShapeOK
<1>7. /\ Len(list) = Len(state) /\ Len(list) > 0 /\ list[1] = Wait
      /\ \A s \in 1..Len(list) : \E q \in 1..Len(list) : list[q] = s
  BY <1>1 DEF IInv, Listed
<1>8. DOMAIN state = 1..Len(list) /\ Len(list) \in Nat
  BY <1>6, <1>7
<1>9. Wait \in DOMAIN state
  BY <1>7, <1>8 DEF Wait
<1> QED BY <1>1, <1>2, <1>3, <1>5, <1>6, <1>7, <1>8, <1>9

(* What is printed for cur_state leads where the state machine does.       *)
LEMMA NextCurStateIs ==
    ASSUME CtlInv, part = "run"
    PROVE  NextCurState = IF reset THEN list[1] ELSE Following
<1>1. /\ start \in BOOLEAN /\ reset \in BOOLEAN /\ cond \in BOOLEAN /\ cur_state \in DOMAIN state
  BY DEF CtlInv, HardwareOK
<1>2. CASE reset
  BY <1>2 DEF NextCurState
<1>3. CASE ~reset
  <2>1. PICK signal : signal = module[CurState]
    OBVIOUS
  <2>2. IsSignal(signal)
    BY <2>1, AtWork, ControlSignals
  <2>3. PICK q \in 1..Len(list) : list[q] = cur_state
    BY <1>1, AtWork
  <2>4. Entries(signal, cur_state) = Leaving(cur_state)
    <3>1. q <= visited
      BY AtWork
    <3>2. CurStateOK
      BY AtWork DEF ControlOK
    <3> QED BY <3>1, <3>2, <2>1, <2>3 DEF CurStateOK
  <2>5. PICK M : M = Matching(signal, cur_state)
    OBVIOUS
  <2>6. /\ \A k \in M : <<signal.conditions[k].clauses, signal.drivers[k]>> \in Leaving(cur_state)
        /\ \A e \in Leaving(cur_state) : \E k \in M :
             e = <<signal.conditions[k].clauses, signal.drivers[k]>>
    BY <2>4, <2>5 DEF Entries
  <2>7. OperandBit \in BOOLEAN
    BY <1>1 DEF OperandBit
  <2>8. CASE state[cur_state].transitions = << >>
    <3>1. PICK d : d = StateParam(state[cur_state].default)
      OBVIOUS
    <3>2. Leaving(cur_state) = {<< << >>, d>>}
      BY <2>8, <3>1 DEF Leaving
    <3>3. \A k \in M : signal.conditions[k].clauses = << >> /\ signal.drivers[k] = d
      BY <2>6, <3>2
    <3>4. \E k \in M : signal.conditions[k].clauses = << >> /\ signal.drivers[k] = d
      BY <2>6, <3>2, <3>3
    <3>5. \A k \in M : Holds(signal.conditions[k])
      BY <3>3 DEF Holds
    <3>6. Following = state[cur_state].default
      BY <2>8 DEF Following
    <3> QED BY <3>1, <3>3, <3>4, <3>5, <3>6, <2>1, <2>2, <2>5, <1>1, <1>3, TakenLeads
  <2>9. CASE state[cur_state].transitions # << >>
    <3>1. PICK op, t, d : /\ op = getTransitionOperand(cur_state)
                          /\ t = state[cur_state].transitions[1][1]
                          /\ d = state[cur_state].default
      OBVIOUS
    <3>2. Leaving(cur_state) = {<< <<<<op, 1>>>>, StateParam(t)>>, << <<<<op, 0>>>>, StateParam(d)>>}
      BY <2>9, <3>1 DEF Leaving
    <3>3. Bit(op) = OperandBit
      BY <3>1, BitOfTransition
    <3>4. Following = IF OperandBit THEN t ELSE d
      BY <2>9, <3>1 DEF Following
    <3>5. \A k \in M : \/ signal.conditions[k].clauses = <<<<op, 1>>>> /\ signal.drivers[k] = StateParam(t)
                       \/ signal.conditions[k].clauses = <<<<op, 0>>>> /\ signal.drivers[k] = StateParam(d)
      BY <2>6, <3>2
    <3>6. \E k \in M : signal.conditions[k].clauses = <<<<op, 1>>>> /\ signal.drivers[k] = StateParam(t)
      <4>1. PICK k \in M : << <<<<op, 1>>>>, StateParam(t)>> =
                            <<signal.conditions[k].clauses, signal.drivers[k]>>
        BY <2>6, <3>2
      <4> QED BY <4>1
    <3>7. \E k \in M : signal.conditions[k].clauses = <<<<op, 0>>>> /\ signal.drivers[k] = StateParam(d)
      <4>1. PICK k \in M : << <<<<op, 0>>>>, StateParam(d)>> =
                            <<signal.conditions[k].clauses, signal.drivers[k]>>
        BY <2>6, <3>2
      <4> QED BY <4>1
    <3>8. ASSUME NEW c, c.clauses = <<<<op, 1>>>>
          PROVE  Holds(c) <=> OperandBit
      <4>1. DOMAIN c.clauses = {1} /\ c.clauses[1] = <<op, 1>>
        BY <3>8
      <4>2. \A n \in DOMAIN c.clauses : c.clauses[n][1] = op /\ c.clauses[n][2] = 1
        BY <4>1
      <4>3. (1 = 1) = TRUE
        OBVIOUS
      <4>4. Holds(c) <=> \A n \in DOMAIN c.clauses : Bit(op) = (1 = 1)
        BY <4>2 DEF Holds
      <4>5. Holds(c) <=> (OperandBit = TRUE)
        BY <4>1, <4>3, <4>4, <3>3
      <4> QED BY <4>5, <2>7
    <3>9. ASSUME NEW c, c.clauses = <<<<op, 0>>>>
          PROVE  Holds(c) <=> ~OperandBit
      <4>1. DOMAIN c.clauses = {1} /\ c.clauses[1] = <<op, 0>>
        BY <3>9
      <4>2. \A n \in DOMAIN c.clauses : c.clauses[n][1] = op /\ c.clauses[n][2] = 0
        BY <4>1
      <4>3. (0 = 1) = FALSE
        OBVIOUS
      <4>4. Holds(c) <=> \A n \in DOMAIN c.clauses : Bit(op) = (0 = 1)
        BY <4>2 DEF Holds
      <4>5. Holds(c) <=> (OperandBit = FALSE)
        BY <4>1, <4>3, <4>4, <3>3
      <4> QED BY <4>5, <2>7
    <3>10. CASE OperandBit
      <4>1. \A k \in M : Holds(signal.conditions[k]) => signal.drivers[k] = StateParam(t)
        BY <3>5, <3>9, <3>10
      <4>2. \E k \in M : Holds(signal.conditions[k]) /\ signal.drivers[k] = StateParam(t)
        BY <3>6, <3>8, <3>10
      <4>3. NextCurState = t
        BY <4>1, <4>2, <2>1, <2>2, <2>5, <1>1, <1>3, TakenLeads
      <4> QED BY <4>3, <3>4, <3>10, <1>3
    <3>11. CASE ~OperandBit
      <4>1. \A k \in M : Holds(signal.conditions[k]) => signal.drivers[k] = StateParam(d)
        BY <3>5, <3>8, <3>11
      <4>2. \E k \in M : Holds(signal.conditions[k]) /\ signal.drivers[k] = StateParam(d)
        BY <3>7, <3>9, <3>11
      <4>3. NextCurState = d
        BY <4>1, <4>2, <2>1, <2>2, <2>5, <1>1, <1>3, TakenLeads
      <4> QED BY <4>3, <3>4, <3>11, <1>3
    <3> QED BY <3>10, <3>11
  <2> QED BY <2>8, <2>9
<1> QED BY <1>1, <1>2, <1>3

(* Finish is a register of the module. *)
LEMMA FinishIsRegister ==
    ASSUME CtlInv, part \in {"printed", "run"}
    PROVE  Finish \in Registers /\ module[Finish].width = 1
<1>1. Finish \in DOMAIN module /\ FinishDriven
  BY AtWork, ControlSignals DEF ControlOK
<1>2. module[Finish].type = "output reg" /\ module[Finish].width = 1
  BY <1>1 DEF FinishDriven
<1>3. Finish # CurState
  BY NamesApart
<1> QED BY <1>1, <1>2, <1>3 DEF Registers, isRegister

(* The driver that a register has in a state, if it has one. *)
LEMMA DriverOf ==
    ASSUME NEW signal, IsSignal(signal), Parallel(signal), signal.conditions # << >>, NEW s
    PROVE  /\ Matching(signal, s) = {} => RegisterDriver(signal, s) = NoSignal
           /\ Matching(signal, s) # {} =>
                \E k \in Matching(signal, s) : RegisterDriver(signal, s) = signal.drivers[k]
<1>1. PICK cs, ds, m : cs = signal.conditions /\ ds = signal.drivers /\ m = Len(cs)
  OBVIOUS
<1>2. m \in Nat /\ DOMAIN cs = 1..m /\ Len(ds) = m /\ m # 0
  <2>1. cs \in Seq(ToSet(cs)) /\ Len(ds) = Len(cs) /\ cs # << >>
    BY <1>1 DEF IsSignal, IsSequence, Parallel
  <2> QED BY <2>1, <1>1
<1>3. ds # << >>
  BY <1>2, EmptyIs
<1>4. RegisterDriver(signal, s) =
        IF Matching(signal, s) = {} THEN NoSignal ELSE ds[Max(Matching(signal, s))]
  BY <1>1, <1>3 DEF RegisterDriver
<1>5. CASE Matching(signal, s) # {}
  <2>1. 1 \in Int /\ m \in Int
    BY <1>2
  <2>2. IsFiniteSet(1..m)
    BY <2>1, FS_Interval
  <2>3. Matching(signal, s) \subseteq 1..m
    BY <1>1, <1>2 DEF Matching
  <2>4. Matching(signal, s) \subseteq Int
    BY <2>3, <1>2
  <2>5. Max(Matching(signal, s)) \in Matching(signal, s)
    BY <2>2, <2>3, <2>4, <1>5, FS_Subset, MaxIsGreatest
  <2> QED BY <2>5, <1>1, <1>4, <1>5
<1> QED BY <1>4, <1>5

(* The output finish after an edge. *)
LEMMA FinishedAfter ==
    ASSUME CtlInv, part = "run", content' = [name \in Registers |-> Latched(name)]
    PROVE  Finished' <=> IF cur_state = list[1] THEN FALSE
                         ELSE IF ReturnsIn(cur_state) # {} THEN TRUE ELSE Finished
<1>1. PICK signal : signal = module[Finish]
  OBVIOUS
<1>2. IsSignal(signal) /\ Parallel(signal) /\ FinishDriven /\ FinishRises
  BY <1>1, AtWork, ControlSignals DEF ControlOK
<1>3. Finish \in DOMAIN content' /\ content'[Finish] = Latched(Finish) /\ signal.width = 1
  BY <1>1, FinishIsRegister
<1>4. Finish \in DOMAIN content /\ cur_state \in DOMAIN state
  BY DEF CtlInv, HardwareOK
<1>5. signal.conditions # << >> /\ Matching(signal, list[1]) # {}
  <2>1. Matching(signal, list[1]) # {}
    BY <1>1, <1>2 DEF FinishDriven
  <2>2. DOMAIN signal.conditions # {}
    BY <2>1 DEF Matching
  <2> QED BY <2>1, <2>2, EmptyIs
<1>6. PICK driver : driver = RegisterDriver(signal, cur_state)
  OBVIOUS
<1>7. /\ driver = NoSignal => Latched(Finish) = content[Finish]
      /\ driver # NoSignal => Latched(Finish) = Cut(DriverValue(driver, Signal), 1)
  BY <1>1, <1>3, <1>6 DEF Latched
<1>8. ASSUME NEW n \in {0, 1}, driver = Constant(<<"bit", n>>, 1)
      PROVE  Finished' <=> n = 1
  <2>1. driver = <<"constant", <<"bit", n>>, 1>>
    BY <1>8 DEF Constant
  <2>2. driver # NoSignal
    BY <2>1 DEF NoSignal
  <2>3. DriverValue(driver, Signal) = Value(<<"bit", n>>, 1)
    <3>1. driver[1] = "constant" /\ driver[2] = <<"bit", n>> /\ driver[3] = 1
      BY <2>1
    <3> QED BY <3>1 DEF DriverValue
  <2>4. Cut(Value(<<"bit", n>>, 1), 1) = Value(<<"bit", n>>, 1)
    <3>1. IsFiniteSet({1})
      BY FS_Singleton, Zenon
    <3>2. Min({1}) = 1
      <4>1. {1} \subseteq Int /\ {1} # {}
        OBVIOUS
      <4> QED BY <3>1, <4>1, MinIsLeast
    <3>3. Value(<<"bit", n>>, 1).term = <<"bit", n>> /\ Value(<<"bit", n>>, 1).bits = 1
      BY DEF Value
    <3>4. {1, 1} = {1}
      OBVIOUS
    <3> QED BY <3>2, <3>3, <3>4 DEF Cut
  <2>5. content'[Finish] = Value(<<"bit", n>>, 1)
    BY <2>2, <2>3, <2>4, <1>3, <1>7
  <2>6. ONE[2] = <<"bit", 1>>
    BY DEF ONE, Constant
  <2>7. Value(<<"bit", n>>, 1) = Value(<<"bit", 1>>, 1) <=> n = 1
    <3>1. Value(<<"bit", n>>, 1).term[2] = n
      BY DEF Value
    <3>2. Value(<<"bit", 1>>, 1).term[2] = 1
      BY DEF Value
    <3> QED BY <3>1, <3>2
  <2> QED BY <2>5, <2>6, <2>7, <1>3 DEF Finished
<1>9. CASE cur_state = list[1]
  <2>1. PICK k \in Matching(signal, cur_state) : driver = signal.drivers[k]
    BY <1>2, <1>5, <1>6, <1>9, DriverOf
  <2>2. k \in DOMAIN signal.conditions /\ signal.conditions[k].state = list[1]
    BY <2>1, <1>9 DEF Matching
  <2>3. driver = Constant(<<"bit", 0>>, 1)
    BY <2>1, <2>2, <1>1, <1>2 DEF FinishDriven, ZERO
  <2> QED BY <2>3, <1>8, <1>9
<1>10. CASE cur_state # list[1] /\ ReturnsIn(cur_state) # {}
  <2>1. PICK q \in 1..Len(list) : list[q] = cur_state
    BY <1>4, AtWork
  <2>2. Passed(q)
    BY AtWork DEF Passed
  <2>3. Matching(signal, cur_state) # {}
    BY <2>1, <2>2, <1>1, <1>2, <1>10 DEF FinishRises
  <2>4. PICK k \in Matching(signal, cur_state) : driver = signal.drivers[k]
    BY <2>3, <1>2, <1>5, <1>6, DriverOf
  <2>5. k \in DOMAIN signal.conditions /\ signal.conditions[k].state = cur_state
    BY <2>4 DEF Matching
  <2>6. driver = Constant(<<"bit", 1>>, 1)
    BY <2>4, <2>5, <1>1, <1>2, <1>10 DEF FinishDriven, ONE
  <2> QED BY <2>6, <1>8, <1>10
<1>11. CASE cur_state # list[1] /\ ReturnsIn(cur_state) = {}
  <2>1. Matching(signal, cur_state) = {}
    <3> SUFFICES ASSUME NEW k \in Matching(signal, cur_state) PROVE FALSE
      OBVIOUS
    <3>1. k \in DOMAIN signal.conditions /\ signal.conditions[k].state = cur_state
      BY DEF Matching
    <3> QED BY <3>1, <1>1, <1>2, <1>11 DEF FinishDriven
  <2>2. driver = NoSignal
    BY <2>1, <1>2, <1>5, <1>6, DriverOf
  <2>3. content'[Finish] = content[Finish]
    BY <2>2, <1>3, <1>7
  <2> QED BY <2>3, <1>3, <1>4, <1>11 DEF Finished
<1> QED BY <1>9, <1>10, <1>11

(* Every state has one transition or none beside its default one: there is *)
(* no switch.                                                              *)
LEMMA TransitionsFew ==
    ASSUME IInv, pc = "done", NEW s \in DOMAIN state
    PROVE  /\ Len(state[s].transitions) <= 1
           /\ state[s].transitions # << >> => 1 \in DOMAIN state[s].transitions
<1>1. PICK t : t = state[s].transitions
  OBVIOUS
<1>2. t = << >> \/ \E e : t = <<e>>
  <2>1. CASE s = 1
    <3>1. state[Wait].transitions = <<<<firstState[EntryBlock], Null>>>>
      BY DEF IInv, WaitOK
    <3> QED BY <3>1, <2>1, <1>1 DEF Wait
  <2>2. CASE s # 1
    <3>1. PICK b \in Blocks(F) : /\ HasStates(b) /\ \E p \in Nat : FinishedRun(b, p)
                                 /\ \A p \in Nat : FinishedRun(b, p) =>
                                      \E k \in 0..input.statesNum[b] : s = list[p + k]
      BY <2>2, PlaceFinished
    <3>2. PICK p \in Nat : FinishedRun(b, p)
      BY <3>1
    <3>3. PICK k \in 0..input.statesNum[b] : s = list[p + k]
      BY <3>1, <3>2
    <3>4. LinkedAt(b, p)
      BY <3>2 DEF FinishedRun
    <3>5. input \in Schedules /\ firstState \in [Blocks(F) -> Nat] /\ IsControlFlow(F)
      <4>1. input \in Schedules /\ firstState \in [Blocks(F) -> Nat]
        BY DEF IInv, ShapeOK
      <4> QED BY <4>1, SchedulesAssumption DEF F
    <3>6. input.statesNum[b] \in Nat
      BY <3>5, LastStateIs
    <3>7. CASE k # input.statesNum[b]
      <4>1. k < input.statesNum[b]
        BY <3>6, <3>7
      <4>2. state[list[p + k]].transitions = << >>
        BY <4>1, <3>4 DEF LinkedAt
      <4> QED BY <4>2, <3>3, <1>1
    <3>8. CASE k = input.statesNum[b]
      <4>1. t = Branch(b, NewState).transitions
        BY <3>3, <3>4, <3>8, <1>1 DEF LinkedAt
      <4>2. F.op[Terminator(F, b)] \in {"Br", "Ret"}
        <5>1. F.op[Terminator(F, b)] \in Terminators /\ Terminator(F, b) \in Instrs(F)
          BY <3>5, TerminatorOf DEF BlockInstrs
        <5>2. F.op[Terminator(F, b)] \in BinaryOps \cup Comparisons \cup {"Load", "PHI", "Br", "Ret"}
          BY <5>1, <3>5, FunctionSupported
        <5> QED BY <5>1, <5>2 DEF Terminators, BinaryOps, Comparisons
      <4>3. Len(F.succ[b]) \in {0, 1, 2} /\ (Len(F.succ[b]) = 2 => F.op[Terminator(F, b)] = "Br")
        <5>1. F.op[Terminator(F, b)] = "Ret" => Len(F.succ[b]) = 0
          BY <3>5, TerminatorOf
        <5>2. F.op[Terminator(F, b)] = "Br" => Len(F.succ[b]) \in 1..2
          BY <3>5, TerminatorOf
        <5>3. 1..2 = {1, 2}
          OBVIOUS
        <5> QED BY <5>1, <5>2, <5>3, <4>2
      <4>4. NewState \in StateRecords /\ NewState.transitions = << >>
        BY DEF NewState, StateRecords, Null, NoVariable
      <4>5. /\ Len(F.succ[b]) = 0 => Branch(b, NewState).transitions = << >>
            /\ Len(F.succ[b]) = 1 => Branch(b, NewState).transitions = << >>
            /\ Len(F.succ[b]) = 2 /\ F.op[Terminator(F, b)] = "Br" =>
                 Branch(b, NewState).transitions = <<<<firstState[F.succ[b][1]], Null>>>>
        BY <4>4, <3>5, BranchFields
      <4> QED BY <4>1, <4>3, <4>5
    <3> QED BY <3>7, <3>8
  <2> QED BY <2>1, <2>2
<1>3. CASE t = << >>
  BY <1>1, <1>3, EmptyIs
<1>4. ASSUME NEW e, t = <<e>> PROVE Len(t) <= 1 /\ 1 \in DOMAIN t
  BY <1>4, SingletonIs
<1> QED BY <1>1, <1>2, <1>3, <1>4

(* The state machine leads to states. *)
LEMMA FollowingIsState ==
    ASSUME CtlInv, part = "run"
    PROVE  Following \in DOMAIN state /\ list[1] \in DOMAIN state
<1>1. /\ IInv /\ pc = "done" /\ input \in Schedules /\ list[1] = Wait /\ Wait \in DOMAIN state
  BY AtWork
<1>2. cur_state \in DOMAIN state
  BY DEF CtlInv, HardwareOK
<1>3. Following \in Successors(cur_state)
  BY <1>1, <1>2, TransitionsFew DEF Following, Successors
<1>4. PICK t : t = Following
  OBVIOUS
<1>5. \/ t = Wait
      \/ cur_state = Wait /\ t = firstState[EntryBlock]
      \/ \E b, p, k : Located(cur_state, b, p, k) /\ Located(t, b, p, k + 1)
      \/ \E b, p : /\ Located(cur_state, b, p, input.statesNum[b])
                   /\ \E n \in DOMAIN F.succ[b] : t = firstState[F.succ[b][n]]
  BY <1>1, <1>2, <1>3, <1>4, SuccessorLocated
<1>6. CASE t = firstState[EntryBlock]
  BY <1>1, <1>4, <1>6, EntryHasStates, FirstStateExists
<1>7. ASSUME NEW b, NEW p, NEW k, Located(t, b, p, k + 1)
      PROVE  t \in DOMAIN state
  BY <1>1, <1>7, LocatedOnce
<1>8. ASSUME NEW b, NEW p, Located(cur_state, b, p, input.statesNum[b]),
             NEW n \in DOMAIN F.succ[b], t = firstState[F.succ[b][n]]
      PROVE  t \in DOMAIN state
  <2>1. b \in Blocks(F)
    BY <1>8 DEF Located
  <2>2. F.succ[b][n] \in Blocks(F) /\ F.succ[b][n] # 1
    BY <1>1, <2>1, ControlFlowShape, SchedulesAssumption DEF F
  <2>3. HasStates(F.succ[b][n])
    BY <2>2, <1>1, EntryHasStates
  <2> QED BY <2>2, <2>3, <1>1, <1>8, FirstStateExists
<1> QED BY <1>1, <1>4, <1>5, <1>6, <1>7, <1>8

(* The generator does not set the hardware to work. *)
LEMMA StillGenerating == Generate => part' # "run" /\ part # "run"
BY DEF Generate, GenNext, Before, generateDeclaration, addInstructionsSignals,
       connectRegistersToWires, performBinding, createBindingSignals, visit, generateDatapath,
       shareOperationRegisters, shareRegistersForFu, print, Ends

(* A part of the generator keeps what the controller is. *)
LEMMA GenerateControl ==
    ASSUME CtlInv, GenNext, part' \notin Undeclared \cup {"assertion"}
    PROVE  ControlOK'
<1>1. CASE Before
  BY <1>1 DEF Before, Undeclared
<1>2. CASE generateDeclaration
  BY <1>2, DeclaredControl DEF CtlInv
<1>3. CASE addInstructionsSignals
  <2>1. ControlKept
    BY <1>3, addInstructionsSignalsStep DEF CtlInv
  <2> QED BY <2>1, <1>3, PartControl DEF addInstructionsSignals, Ends, vars, Undeclared
<1>4. CASE connectRegistersToWires
  <2>1. ControlKept
    BY <1>4, connectRegistersToWiresStep DEF CtlInv
  <2> QED BY <2>1, <1>4, PartControl DEF connectRegistersToWires, Ends, vars, Undeclared
<1>5. CASE performBinding
  <2>1. ControlKept
    BY <1>5, performBindingStep DEF CtlInv
  <2>2. UNCHANGED mapVars
    BY <1>5 DEF performBinding, bindFuInState, vars
  <2> QED BY <2>1, <2>2, <1>5, PartControl DEF performBinding, Undeclared
<1>6. CASE createBindingSignals
  BY <1>6, UnitsControl
<1>7. CASE visit
  BY <1>7, VisitControl
<1>8. CASE generateDatapath
  BY <1>8, TransitionControl
<1>9. CASE shareOperationRegisters
  <2>1. ControlKept
    BY <1>9, shareOperationRegistersStep DEF CtlInv
  <2>2. UNCHANGED mapVars
    BY <1>9 DEF shareOperationRegisters, shareRegisters
  <2> QED BY <2>1, <2>2, <1>9, PartControl DEF shareOperationRegisters, Undeclared
<1>10. CASE shareRegistersForFu
  <2>1. ControlKept
    BY <1>10, shareRegistersForFuStep DEF CtlInv
  <2> QED BY <2>1, <1>10, PartControl DEF shareRegistersForFu, Ends, vars, Undeclared
<1>11. CASE print
  <2>1. ControlKept
    BY <1>11 DEF print, ControlKept
  <2> QED BY <2>1, <1>11, PartControl DEF print, vars, Undeclared
<1> QED BY <1>1, <1>2, <1>3, <1>4, <1>5, <1>6, <1>7, <1>8, <1>9, <1>10, <1>11 DEF GenNext

(* The module at work keeps it too. *)
LEMMA WorkControl ==
    ASSUME CtlInv, UNCHANGED <<vars, reg_opt, visited, rest, module>>,
           part' = part \/ (part = "printed" /\ part' = "run"),
           part' \notin Undeclared \cup {"assertion"}
    PROVE  ControlOK'
<1>1. part \notin Undeclared \cup {"assertion"}
  BY DEF Undeclared
<1>2. UNCHANGED mapVars /\ visited' = visited /\ module' = module /\ rest' = rest
  BY DEF vars
<1>3. ControlKept
  BY <1>2 DEF ControlKept
<1>4. CASE part' # "generateDatapath"
  BY <1>1, <1>2, <1>3, <1>4, PartControl
<1>5. CASE part' = "generateDatapath"
  <2>1. part' = part
    BY <1>5
  <2>2. list' = list /\ \A s : ReturnsIn(s)' = ReturnsIn(s)
    BY <1>2, SameMachine
  <2>3. ToSet(rest)' = ToSet(rest)
    BY <1>2 DEF ToSet
  <2>4. \A q \in 2..Len(list) : Passed(q)' => Passed(q)
    BY <2>1, <2>2, <2>3, <1>2 DEF Passed
  <2> QED BY <2>4, <1>1, <1>2, <1>3, ControlStays
<1> QED BY <1>4, <1>5

(* Initially nothing is generated, and the machine waits. *)
LEMMA InitCtlInv == DatapathInit => CtlInv
<1> SUFFICES ASSUME DatapathInit PROVE CtlInv
  OBVIOUS
<1>1. GenInv
  BY InitGenInv DEF DatapathInit
<1>2. part = "createFsm"
  BY DEF DatapathInit, GenInit
<1> QED BY <1>1, <1>2 DEF CtlInv, HardwareOK, DatapathInit, Undeclared

(* What of the hardware is between its bounds stays there. *)
LEMMA HardwareKept ==
    ASSUME CtlInv, [DatapathNext]_allVars
    PROVE  HardwareOK'
<1>1. HardwareOK
  BY DEF CtlInv
<1>2. CASE Generate
  <2>1. part' # "run" /\ part # "run" /\ UNCHANGED hwVars
    BY <1>2, StillGenerating DEF Generate
  <2> QED BY <2>1, <1>1 DEF HardwareOK, hwVars, Wait
<1>3. CASE PowerUp
  <2>1. /\ part = "printed" /\ part' = "run" /\ content' = [name \in Registers |-> Undriven]
        /\ UNCHANGED <<vars, cur_state, start, reset, cond>>
    BY <1>3 DEF PowerUp
  <2>2. Finish \in Registers /\ Wait \in DOMAIN state
    BY <2>1, FinishIsRegister, AtWork
  <2>3. state' = state
    BY <2>1 DEF vars, mapVars
  <2> QED BY <2>1, <2>2, <2>3, <1>1 DEF HardwareOK, Wait
<1>4. CASE Clock
  <2>1. /\ part = "run" /\ part' = "run" /\ content' = [name \in Registers |-> Latched(name)]
        /\ cur_state' = NextCurState
        /\ start' \in BOOLEAN /\ reset' \in BOOLEAN /\ cond' \in BOOLEAN
        /\ UNCHANGED vars
    BY <1>4 DEF Clock, genVars
  <2>2. Finish \in DOMAIN content'
    BY <2>1, FinishIsRegister
  <2>3. cur_state' \in DOMAIN state'
    <3>1. state' = state
      BY <2>1 DEF vars, mapVars
    <3>2. NextCurState \in DOMAIN state
      BY <2>1, NextCurStateIs, FollowingIsState
    <3> QED BY <2>1, <3>1, <3>2
  <2> QED BY <2>1, <2>2, <2>3 DEF HardwareOK
<1>5. CASE UNCHANGED allVars
  <2>1. part' = part /\ state' = state /\ UNCHANGED hwVars
    BY <1>5 DEF allVars, genVars, vars, mapVars
  <2> QED BY <2>1, <1>1 DEF HardwareOK, hwVars, Wait
<1> QED BY <1>2, <1>3, <1>4, <1>5 DEF DatapathNext, Aborted

LEMMA CtlInvKept == CtlInv /\ [DatapathNext]_allVars => CtlInv'
<1> SUFFICES ASSUME CtlInv, [DatapathNext]_allVars PROVE CtlInv'
  OBVIOUS
<1>1. GenInv' /\ HardwareOK'
  BY GenInvKept, HardwareKept DEF CtlInv
<1>2. ASSUME part' \notin Undeclared \cup {"assertion"} PROVE ControlOK'
  <2>1. CASE Generate
    BY <1>2, <2>1, GenerateControl DEF Generate
  <2>2. CASE PowerUp
    BY <1>2, <2>2, WorkControl DEF PowerUp
  <2>3. CASE Clock
    BY <1>2, <2>3, WorkControl DEF Clock, genVars
  <2>4. CASE UNCHANGED allVars
    BY <1>2, <2>4, WorkControl DEF allVars, genVars
  <2> QED BY <2>1, <2>2, <2>3, <2>4 DEF DatapathNext, Aborted
<1>3. Undeclared' = Undeclared
  BY DEF Undeclared
<1> QED BY <1>1, <1>2, <1>3 DEF CtlInv

(* The invariant of the generated module. *)
THEOREM ControlInvariance == DatapathSpec => []CtlInv
<1> QED BY InitCtlInv, CtlInvKept, PTL DEF DatapathSpec

-----------------------------------------------------------------------------
(* The step of the controller that a step of the module is.                *)

LEMMA SameStutter ==
    UNCHANGED mapVars /\ UNCHANGED <<cur_state, start, reset, cond>> /\ (Finished' <=> Finished)
        => UNCHANGED Ctl!vars
BY DEF Ctl!vars, Ctl!mapVars, Ctl!hwVars, mapVars, Finished

(* Nothing is in the registers before the reset. *)
LEMMA NotFinished == CtlInv /\ part # "run" => ~Finished
BY EmptyIs DEF CtlInv, HardwareOK, Finished

LEMMA InitRefines == DatapathInit => Ctl!Init
<1> SUFFICES ASSUME DatapathInit PROVE Ctl!Init
  OBVIOUS
<1>1. MapInit /\ cur_state = Wait /\ start = FALSE /\ reset = TRUE /\ cond = FALSE
  BY DEF DatapathInit, GenInit, Init
<1> QED BY <1>1, SameInit, SameNew DEF Ctl!Init, Finished

LEMMA GenerateRefines == CtlInv /\ CtlInv' /\ Generate => [Ctl!Next]_Ctl!vars
<1> SUFFICES ASSUME CtlInv, CtlInv', Generate PROVE [Ctl!Next]_Ctl!vars
  OBVIOUS
<1>1. part # "run" /\ part' # "run" /\ UNCHANGED hwVars /\ GenNext
  BY StillGenerating DEF Generate
<1>2. ~Finished /\ ~Finished'
  <2>1. ~Finished
    BY <1>1, NotFinished
  <2>2. content' = << >>
    BY <1>1 DEF CtlInv, HardwareOK
  <2> QED BY <2>1, <2>2, EmptyIs DEF Finished
<1>3. CASE Before /\ createFsm
  <2>1. phase = "createFsm" /\ MapNext
    BY <1>3 DEF createFsm
  <2>2. pc # "done"
    BY <2>1 DEF CtlInv, GenInv, BInv, BindInv, Phases
  <2>3. UNCHANGED Ctl!hwVars
    BY <1>1, <1>2 DEF Ctl!hwVars, hwVars, Finished
  <2>4. Ctl!Build
    BY <2>1, <2>2, <2>3, SameMapNext DEF Ctl!Build
  <2> QED BY <2>4 DEF Ctl!Next
<1>4. CASE UNCHANGED mapVars
  BY <1>1, <1>2, <1>4, SameStutter DEF hwVars
<1>5. (Before /\ createFsm) \/ UNCHANGED mapVars
  BY <1>1 DEF GenNext, Before, analize, generateDeclaration, addInstructionsSignals,
       connectRegistersToWires, performBinding, bindFuInState, createBindingSignals, visit,
       generateDatapath, shareOperationRegisters, shareRegisters, shareRegistersForFu, print, vars
<1> QED BY <1>3, <1>4, <1>5

LEMMA PowerUpRefines == CtlInv /\ PowerUp => UNCHANGED Ctl!vars
<1> SUFFICES ASSUME CtlInv, PowerUp PROVE UNCHANGED Ctl!vars
  OBVIOUS
<1>1. /\ part = "printed" /\ UNCHANGED mapVars /\ UNCHANGED <<cur_state, start, reset, cond>>
      /\ content' = [name \in Registers |-> Undriven]
  BY DEF PowerUp, vars
<1>2. ~Finished
  BY <1>1, NotFinished
<1>3. ~Finished'
  <2>1. content'[Finish] = Undriven
    BY <1>1, FinishIsRegister
  <2>2. Undriven.bits = 0 /\ Value(ONE[2], 1).bits = 1
    BY DEF Undriven, Value
  <2>3. Undriven # Value(ONE[2], 1)
    BY <2>2
  <2> QED BY <2>1, <2>3 DEF Finished
<1> QED BY <1>1, <1>2, <1>3, SameStutter

LEMMA ClockRefines == CtlInv /\ Clock => Ctl!Clock
<1> SUFFICES ASSUME CtlInv, Clock PROVE Ctl!Clock
  OBVIOUS
<1>1. /\ part = "run" /\ UNCHANGED mapVars /\ cur_state' = NextCurState
      /\ content' = [name \in Registers |-> Latched(name)]
      /\ start' \in BOOLEAN /\ reset' \in BOOLEAN /\ cond' \in BOOLEAN
  BY DEF Clock, vars
<1>2. IInv /\ pc = "done" /\ DOMAIN state = 1..Len(list)
  BY <1>1, AtWork
<1>3. Ctl!Generated
  BY <1>2, TransitionsFew DEF Ctl!Generated, Ctl!Transitions
<1>4. Ctl!BPHLS = list[1]
  BY DEF Ctl!BPHLS
<1>5. Ctl!NextState = Following
  BY <1>4 DEF Ctl!NextState, Ctl!Transitions, Ctl!Operand, Following, OperandBit
<1>6. cur_state' = IF reset THEN Ctl!BPHLS ELSE Ctl!NextState
  BY <1>1, <1>4, <1>5, NextCurStateIs
<1>7. Ctl!Returns(cur_state) = ReturnsIn(cur_state)
  BY SameIr DEF Ctl!Returns, ReturnsIn, Ctl!ToSet, ToSet
<1>8. Finished' = IF cur_state = Ctl!BPHLS THEN FALSE
                  ELSE IF Ctl!Returns(cur_state) # {} THEN TRUE ELSE Finished
  <2>1. Finished \in BOOLEAN /\ Finished' \in BOOLEAN
    BY DEF Finished
  <2>2. Finished' <=> IF cur_state = list[1] THEN FALSE
                      ELSE IF ReturnsIn(cur_state) # {} THEN TRUE ELSE Finished
    BY <1>1, FinishedAfter
  <2> QED BY <2>1, <2>2, <1>4, <1>7
<1>9. UNCHANGED Ctl!mapVars
  BY <1>1 DEF mapVars, Ctl!mapVars
<1> QED BY <1>1, <1>2, <1>3, <1>6, <1>8, <1>9 DEF Ctl!Clock

(* The generated module is the controller that the state machine           *)
(* describes: cur_state follows the transitions of createFsm's states,     *)
(* reset leads to the wait state, and finish is what the returns make it.  *)
THEOREM DatapathImplementsController == DatapathSpec => ImplementsController
<1>1. CtlInv /\ CtlInv' /\ [DatapathNext]_allVars => [Ctl!Next]_Ctl!vars
  <2> SUFFICES ASSUME CtlInv, CtlInv', [DatapathNext]_allVars PROVE [Ctl!Next]_Ctl!vars
    OBVIOUS
  <2>1. CASE Generate
    BY <2>1, GenerateRefines
  <2>2. CASE PowerUp
    BY <2>2, PowerUpRefines
  <2>3. CASE Clock
    BY <2>3, ClockRefines DEF Ctl!Next
  <2>4. CASE UNCHANGED allVars
    <3>1. UNCHANGED mapVars /\ UNCHANGED <<cur_state, start, reset, cond, content>>
      BY <2>4 DEF allVars, vars, hwVars
    <3>2. Finished' <=> Finished
      BY <3>1 DEF Finished
    <3> QED BY <3>1, <3>2, SameStutter
  <2> QED BY <2>1, <2>2, <2>3, <2>4 DEF DatapathNext, Aborted
<1> QED BY <1>1, InitRefines, ControlInvariance, PTL DEF DatapathSpec, ImplementsController, Ctl!Spec

=============================================================================
