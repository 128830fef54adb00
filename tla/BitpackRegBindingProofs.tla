----------------------- MODULE BitpackRegBindingProofs -----------------------
(***************************************************************************)
(* Theorems about BitpackRegBinding and, in the second part, about         *)
(* HungarianMethod: two methods that only fill tables, each with an        *)
(* invariant of its own, IInv and HungarianInv.                            *)
(*                                                                         *)
(* What performLeftEdge asserts of every pool, that its lifetime ends      *)
(* after it starts, holds for every scheduled function: later states with  *)
(* instructions get greater stages, and a value is read in a later state   *)
(* than it is written in.  The rest follows from one inductive invariant,  *)
(* IInv, that says what every table of the binder holds from the step that *)
(* builds it on: the table lists all pools, every sub-register was opened  *)
(* by a pool that is dead before the others are written, and the register  *)
(* a sub-register was given to is one that holds it.                       *)
(***************************************************************************)
EXTENDS BitpackRegBinding, HungarianMethod, FiniteSetLemmas

-----------------------------------------------------------------------------
(* The states that are counted before state s. *)
StatesBefore(p, s) == {t \in Range(p.state) \cup {p.last} : 0 < t /\ t < s}

(* The states of a function are numbers. *)
LEMMA StatesAreNatural ==
    ASSUME NEW p, IsProgram(p)
    PROVE  /\ Range(p.state) \cup {p.last} \subseteq Nat
           /\ \A v \in Variables(p) : p.state[v] \in Range(p.state) /\ p.state[v] \in Nat
BY DEF IsProgram, Range

(* Finitely many are counted. *)
LEMMA StatesBeforeFinite ==
    ASSUME NEW p, IsProgram(p), NEW s \in Nat
    PROVE  IsFiniteSet(StatesBefore(p, s)) /\ Cardinality(StatesBefore(p, s)) \in Nat
<1>1. StatesBefore(p, s) \in SUBSET Nat /\ \A t \in StatesBefore(p, s) : t <= s
  BY StatesAreNatural DEF StatesBefore
<1>2. IsFiniteSet(StatesBefore(p, s))
  BY <1>1, FS_BoundedSetOfNaturals
<1> QED BY <1>2, FS_CardinalityType

(* A stage is a number. *)
LEMMA StageType ==
    ASSUME NEW p, IsProgram(p), NEW s \in Nat
    PROVE  Stage(p, s) \in Nat
BY StatesBeforeFinite DEF Stage, StatesBefore

(* A state that is counted, and the one before all of them, has a smaller  *)
(* stage than every later state.                                           *)
LEMMA StagesAscend ==
    ASSUME NEW p, IsProgram(p), NEW s \in {0} \cup Range(p.state), NEW t \in Nat, s < t
    PROVE  Stage(p, s) < Stage(p, t)
<1>1. s \in Nat
  BY StatesAreNatural
<1> DEFINE m == Cardinality(StatesBefore(p, s))
           n == Cardinality(StatesBefore(p, t))
<1>2. m \in Nat /\ n \in Nat
  BY <1>1, StatesBeforeFinite
<1>3. Stage(p, t) = 1 + n
  BY <1>1 DEF Stage, StatesBefore
<1>4. CASE s = 0
  <2>1. Stage(p, s) = 0
    BY <1>4 DEF Stage
  <2> HIDE DEF n
  <2> QED BY <2>1, <1>2, <1>3
<1>5. CASE s # 0
  <2>1. Stage(p, s) = 1 + m
    BY <1>5 DEF Stage, StatesBefore
  <2>2. StatesBefore(p, s) \in SUBSET StatesBefore(p, t)
    BY <1>1, StatesAreNatural DEF StatesBefore
  <2>3. s \in StatesBefore(p, t) /\ s \notin StatesBefore(p, s)
    BY <1>1, <1>5 DEF StatesBefore
  <2>4. IsFiniteSet(StatesBefore(p, t))
    BY StatesBeforeFinite
  <2>5. m <= n /\ m # n
    BY <2>2, <2>3, <2>4, FS_Subset
  <2> HIDE DEF m, n
  <2> QED BY <2>1, <2>5, <1>2, <1>3
<1> QED BY <1>4, <1>5

(* The last stage in which a variable is read is that of a reader, unless  *)
(* there is none.                                                          *)
LEMMA LastReadIsRead ==
    ASSUME NEW p, IsProgram(p), NEW v \in Variables(p), LastRead(p, v) # 0
    PROVE  \E u \in Variables(p) : v \in p.ops[u] /\ LastRead(p, v) = Stage(p, p.state[u])
<1> DEFINE W == {w \in Variables(p) : v \in p.ops[w]}
           f == [u \in W |-> Stage(p, p.state[u])]
           R == {f[u] : u \in W}
           S == {0} \cup R
<1>1. IsFiniteSet(W)
  <2>1. Len(p.width) \in Nat /\ Variables(p) = 1..Len(p.width)
    BY DEF IsProgram, Variables
  <2>2. IsFiniteSet(Variables(p))
    BY <2>1, FS_Interval
  <2> QED BY <2>2, FS_Subset
<1>2. IsFiniteSet(S)
  <2>1. f = [u \in W |-> f[u]]
    OBVIOUS
  <2>2. IsFiniteSet(R)
    <3> HIDE DEF f, W
    <3> QED BY <2>1, <1>1, FiniteRange
  <2>3. IsFiniteSet({0})
    BY FS_Singleton
  <2> HIDE DEF R
  <2> QED BY <2>2, <2>3, FS_Union
<1>3. S \subseteq Int
  <2>1. \A u \in W : Stage(p, p.state[u]) \in Nat
    BY StageType, StatesAreNatural
  <2>2. \A u \in W : f[u] \in Nat
    BY <2>1
  <2> HIDE DEF f, W
  <2> QED BY <2>2
<1>4. Max(S) \in S
  <2> HIDE DEF R
  <2> QED BY <1>2, <1>3, MaxIsGreatest
<1>5. R = {Stage(p, p.state[u]) : u \in W}
  OBVIOUS
<1>6. LastRead(p, v) = Max(S)
  BY <1>5 DEF LastRead
<1>7. LastRead(p, v) \in R
  <2> HIDE DEF R
  <2> QED BY <1>4, <1>6
<1> QED BY <1>7

(* A variable is written before it is read for the last time, or before    *)
(* the function ends.                                                      *)
LEMMA LifetimeIsPositive ==
    ASSUME NEW p, IsProgram(p), NEW v \in Variables(p)
    PROVE  Lifetime(p, v).def < Lifetime(p, v).use
<1>1. p.state[v] \in Range(p.state) /\ p.state[v] \in Nat /\ p.last \in Nat
  BY StatesAreNatural DEF IsProgram
<1>2. CASE LastRead(p, v) = 0
  <2>1. p.state[v] < p.last
    BY DEF IsProgram
  <2>2. Stage(p, p.state[v]) < Stage(p, p.last)
    BY <2>1, <1>1, StagesAscend
  <2> QED BY <2>2, <1>2 DEF Lifetime
<1>3. CASE LastRead(p, v) # 0
  <2>1. PICK u \in Variables(p) : v \in p.ops[u] /\ LastRead(p, v) = Stage(p, p.state[u])
    BY <1>3, LastReadIsRead
  <2>2. p.state[v] < p.state[u] /\ p.state[u] \in Nat
    BY <2>1, StatesAreNatural DEF IsProgram
  <2>3. Stage(p, p.state[v]) < Stage(p, p.state[u])
    BY <2>2, <1>1, StagesAscend
  <2> QED BY <2>1, <2>3, <1>3 DEF Lifetime
<1> QED BY <1>2, <1>3

-----------------------------------------------------------------------------
(* The table of lifetimes is filled by analyzeLifetime and then read only. *)
LifetimesKept ==
    /\ prog \in Programs
    /\ lt = << >> \/ lt = [v \in Variables(prog) |-> Lifetime(prog, v)]

(* No pool of a scheduled function fails the assertion of performLeftEdge. *)
THEOREM LifetimesArePositive == Spec => []LifetimesPositive
<1>1. Init => LifetimesKept
  BY DEF Init, LifetimesKept
<1>2. LifetimesKept /\ [Next]_vars => LifetimesKept'
  <2> SUFFICES ASSUME LifetimesKept, [Next]_vars PROVE LifetimesKept'
    OBVIOUS
  <2>1. CASE analyzeLifetime
    BY <2>1 DEF LifetimesKept, analyzeLifetime, passed
  <2>2. CASE UNCHANGED <<passed, lifetime>>
    BY <2>2 DEF LifetimesKept, passed, lifetime
  <2>3. splitTable \/ performLeftEdge \/ sortVariables \/ mergeSubRegisters \/ createRegisters
           \/ mapVariablesToBitfields \/ Returned \/ UNCHANGED vars => UNCHANGED <<passed, lifetime>>
    BY DEF splitTable, performLeftEdge, sortVariables, mergeSubRegisters, createRegisters,
           mapVariablesToBitfields, Returned, vars
  <2> QED BY <2>1, <2>2, <2>3 DEF Next
<1>3. LifetimesKept => LifetimesPositive
  <2> SUFFICES ASSUME LifetimesKept, NEW v \in DOMAIN lt PROVE lt[v].def < lt[v].use
    BY DEF LifetimesPositive
  <2>1. IsProgram(prog)
    BY ProgramsAssumption DEF LifetimesKept
  <2>2. v \in Variables(prog) /\ lt[v] = Lifetime(prog, v)
    BY DEF LifetimesKept
  <2> QED BY <2>1, <2>2, LifetimeIsPositive
<1> QED BY <1>1, <1>2, <1>3, PTL DEF Spec

-----------------------------------------------------------------------------
(* What the other operators return.                                        *)

(* The variables are an interval, and the smallest width is one of theirs.  *)
LEMMA WidthsShape ==
    ASSUME NEW p, IsProgram(p)
    PROVE  /\ Len(p.width) \in Nat \ {0} /\ Variables(p) = 1..Len(p.width)
           /\ IsFiniteSet(Variables(p)) /\ Cardinality(Variables(p)) = Len(p.width)
           /\ MinWidth(p) \in Nat \ {0}
           /\ \A v \in Variables(p) : p.width[v] \div MinWidth(p) \in Nat \ {0}
<1>1. Len(p.width) \in Nat \ {0} /\ Variables(p) = 1..Len(p.width)
  BY DEF IsProgram, Variables
<1>2. IsFiniteSet(Variables(p)) /\ Cardinality(Variables(p)) = Len(p.width)
  BY <1>1, FS_Interval
<1> DEFINE S == {p.width[v] : v \in Variables(p)}
<1>3. p.width = [v \in Variables(p) |-> p.width[v]] /\ Range(p.width) = S
  BY DEF IsProgram, Variables, Range
<1>4. \A v \in Variables(p) : p.width[v] \in Nat \ {0}
  BY <1>1 DEF IsProgram
<1>5. S \subseteq Int /\ S # {}
  <2>1. 1 \in Variables(p)
    BY <1>1
  <2> QED BY <1>4, <2>1
<1>6. IsFiniteSet(S)
  BY <1>2, <1>3, FiniteRange
<1>7. Min(S) \in S /\ \A m \in S : Min(S) <= m
  <2> HIDE DEF S
  <2> QED BY <1>5, <1>6, MinIsLeast
<1>8. MinWidth(p) \in Nat \ {0} /\ \A v \in Variables(p) : MinWidth(p) <= p.width[v]
  BY <1>3, <1>4, <1>7 DEF MinWidth
<1>9. ASSUME NEW v \in Variables(p) PROVE p.width[v] \div MinWidth(p) \in Nat \ {0}
  <2>1. \A a, m \in Nat : m # 0 /\ m <= a => a \div m \in Nat \ {0}
    OBVIOUS
  <2> QED BY <1>4, <1>8, <2>1
<1> QED BY <1>1, <1>2, <1>8, <1>9

(* A set listed in a total order is listed completely. *)
LEMMA ListedShape ==
    ASSUME NEW S, IsFiniteSet(S), NEW upTo \in [S -> SUBSET S],
           \A x \in S : x \in upTo[x],
           \A x, y \in S : x \in upTo[y] \/ y \in upTo[x],
           \A x, y \in S : x \in upTo[y] => upTo[x] \subseteq upTo[y],
           \A x, y \in S : x \in upTo[y] /\ y \in upTo[x] => x = y
    PROVE  /\ Cardinality(S) \in Nat /\ Listed(upTo) \in [1..Cardinality(S) -> S]
           /\ \A x \in S : \E h \in 1..Cardinality(S) : Listed(upTo)[h] = x
<1> DEFINE n == Cardinality(S)
           place == [x \in S |-> Cardinality(upTo[x])]
<1>1. n \in Nat
  BY FS_CardinalityType
<1>2. ASSUME NEW x \in S
      PROVE  IsFiniteSet(upTo[x]) /\ Cardinality(upTo[x]) \in 1..n
  <2>1. upTo[x] \in SUBSET S /\ x \in upTo[x]
    OBVIOUS
  <2>2. IsFiniteSet(upTo[x]) /\ Cardinality(upTo[x]) <= n
    BY <2>1, FS_Subset
  <2>3. Cardinality(upTo[x]) \in Nat /\ Cardinality(upTo[x]) # 0
    BY <2>1, <2>2, FS_CardinalityType, FS_EmptySet
  <2> QED BY <2>2, <2>3, <1>1
<1>3. \A x \in S : place[x] = Cardinality(upTo[x]) /\ place[x] \in 1..n
  BY <1>2
<1>4. ASSUME NEW x \in S, NEW y \in S, x \in upTo[y], place[x] = place[y]
      PROVE  x = y
  <2>1. upTo[x] \in SUBSET upTo[y]
    BY <1>4
  <2>2. Cardinality(upTo[x]) = Cardinality(upTo[y])
    BY <1>3, <1>4
  <2>3. upTo[x] = upTo[y]
    BY <2>1, <2>2, <1>2, FS_Subset
  <2>4. y \in upTo[x]
    BY <2>3
  <2> QED BY <1>4, <2>4
<1>5. place \in Injection(S, 1..n)
  <2>1. \A x, y \in S : place[x] = place[y] => x = y
    <3> HIDE DEF place
    <3> QED BY <1>4
  <2>2. place \in [S -> 1..n]
    BY <1>3
  <2> HIDE DEF place, n
  <2> QED BY <2>1, <2>2 DEF Injection, IsInjective
<1>6. place \in Surjection(S, 1..n)
  <2>1. IsFiniteSet(1..n) /\ Cardinality(1..n) = n
    BY <1>1, FS_Interval
  <2> HIDE DEF n, place
  <2>2. Cardinality(S) = Cardinality(1..n)
    BY <2>1 DEF n
  <2> QED BY <2>1, <2>2, <1>5, FS_Injection
<1>7. \A h \in 1..n : \E x \in S : Cardinality(upTo[x]) = h
  <2>1. \A h \in 1..n : \E x \in S : place[x] = h
    <3> HIDE DEF place, n
    <3> QED BY <1>6 DEF Surjection
  <2> HIDE DEF place
  <2> QED BY <2>1, <1>3
<1>8. Listed(upTo) = [h \in 1..n |-> CHOOSE x \in S : Cardinality(upTo[x]) = h]
  BY DEF Listed
<1> HIDE DEF n
<1>9. \A h \in 1..n : Listed(upTo)[h] \in S /\ Cardinality(upTo[Listed(upTo)[h]]) = h
  BY <1>7, <1>8
<1>10. ASSUME NEW x \in S PROVE \E h \in 1..n : Listed(upTo)[h] = x
  <2>1. PICK h \in 1..n : h = Cardinality(upTo[x])
    BY <1>2
  <2>2. PICK y \in S : y = Listed(upTo)[h] /\ Cardinality(upTo[y]) = h
    BY <1>9
  <2>3. place[x] = place[y]
    BY <2>1, <2>2
  <2> HIDE DEF place
  <2>4. x = y
    BY <2>3, <1>4
  <2> QED BY <2>2, <2>4
<1>11. Listed(upTo) \in [1..n -> S]
  BY <1>8, <1>9
<1> QED BY <1>1, <1>10, <1>11 DEF n

(* The addresses number the variables. *)
LEMMA AddressShape ==
    ASSUME IsProgram(prog), addr \in SetToSeqs(Variables(prog))
    PROVE  /\ Range(addr) = Variables(prog) /\ Len(addr) = Len(prog.width)
           /\ \A v \in Variables(prog) : Address(v) \in Nat
           /\ \A u, v \in Variables(prog) : Address(u) = Address(v) => u = v
<1> DEFINE n == Len(prog.width)
           V == Variables(prog)
<1>1. n \in Nat /\ IsFiniteSet(V) /\ Cardinality(V) = n
  BY WidthsShape
<1>2. addr \in [1..n -> V] /\ \A i, j \in 1..n : i # j => addr[i] # addr[j]
  BY <1>1 DEF SetToSeqs
<1> HIDE DEF n, V
<1>3. IsFiniteSet(1..n) /\ Cardinality(1..n) = Cardinality(V)
  <2>1. IsFiniteSet(1..n) /\ Cardinality(1..n) = n
    BY <1>1, FS_Interval
  <2> QED BY <1>1, <2>1
<1>4. addr \in Injection(1..n, V)
  BY <1>2 DEF Injection, IsInjective
<1>5. addr \in Surjection(1..n, V)
  BY <1>1, <1>3, <1>4, FS_Injection
<1>6. \A v \in V : \E h \in 1..n : addr[h] = v
  BY <1>5 DEF Surjection
<1>7. \A v \in V : Address(v) \in 1..n /\ addr[Address(v)] = v
  BY <1>2, <1>6 DEF Address
<1>8. Len(addr) = n /\ Range(addr) = V
  BY <1>1, <1>2, <1>6 DEF Range
<1>9. \A v \in V : Address(v) \in Nat
  BY <1>1, <1>7
<1> QED BY <1>7, <1>8, <1>9 DEF n, V

(* There are finitely many pools, and every variable has one. *)
LEMMA PoolsShape ==
    ASSUME IsProgram(prog)
    PROVE  /\ IsFiniteSet(Pools)
           /\ Pools \subseteq [var : Variables(prog), id : Nat]
           /\ \A v \in Variables(prog) : \E o \in Pools : o.var = v
<1> DEFINE V == Variables(prog)
           count(v) == prog.width[v] \div MinWidth(prog)
           parts == [v \in V |-> PoolsOf(prog, v)]
<1>1. IsFiniteSet(V) /\ \A v \in V : count(v) \in Nat \ {0}
  BY WidthsShape
<1>2. ASSUME NEW v \in V
      PROVE  IsFiniteSet(PoolsOf(prog, v))
  <2> DEFINE I == 0..(count(v) - 1)
             f == [h \in I |-> [var |-> v, id |-> h]]
  <2>1. count(v) - 1 \in Int
    BY <1>1
  <2>2. IsFiniteSet(I)
    <3> HIDE DEF count
    <3> QED BY <2>1, FS_Interval
  <2>3. f = [h \in I |-> f[h]] /\ PoolsOf(prog, v) = {f[h] : h \in I}
    BY DEF PoolsOf
  <2>4. IsFiniteSet({f[h] : h \in I})
    <3>1. f = [h \in I |-> f[h]]
      BY <2>3
    <3> HIDE DEF I, f
    <3> QED BY <2>2, <3>1, FiniteRange
  <2> QED BY <2>3, <2>4
<1>3. IsFiniteSet({parts[v] : v \in V})
  <2>1. parts = [v \in V |-> parts[v]]
    OBVIOUS
  <2> HIDE DEF parts, V
  <2> QED BY <1>1, <2>1, FiniteRange
<1>4. Pools = UNION {parts[v] : v \in V}
  BY DEF Pools
<1>5. IsFiniteSet(Pools)
  <2>1. \A T \in {parts[v] : v \in V} : IsFiniteSet(T)
    BY <1>2
  <2> HIDE DEF parts, V
  <2> QED BY <1>3, <1>4, <2>1, FS_UNION
<1>6. Pools \subseteq [var : V, id : Nat]
  BY <1>1 DEF Pools, PoolsOf
<1>7. ASSUME NEW v \in V PROVE \E o \in Pools : o.var = v
  <2>1. 0 \in 0..(count(v) - 1)
    BY <1>1
  <2>2. [var |-> v, id |-> 0] \in PoolsOf(prog, v)
    BY <2>1 DEF PoolsOf
  <2> QED BY <2>2 DEF Pools
<1> QED BY <1>5, <1>6, <1>7

(* The lifetimes of the first n pools of a table end after they start. *)
HaveLifetimes(t, n, life) ==
    \A h \in 1..n : /\ life[t[h].var].def \in Nat /\ life[t[h].var].use \in Nat
                    /\ life[t[h].var].def < life[t[h].var].use

(* What follows a pool in its sub-register has none yet and is written      *)
(* after the pool was read for the last time: what is reckoned as the last  *)
(* use of the pools that are taken only grows.                              *)
LEMMA ChainShape ==
    ASSUME NEW t, NEW n \in Nat, Len(t) = n, NEW bound, NEW life, NEW i \in 1..n,
           HaveLifetimes(t, n, life)
    PROVE  /\ i \in Chain(t, bound, life, i) /\ Chain(t, bound, life, i) \subseteq 1..n
           /\ \A h \in Chain(t, bound, life, i) \ {i} :
                 h \notin bound /\ life[t[h].var].def >= life[t[i].var].use
<1> DEFINE base == [taken |-> {i}, lastUse |-> life[t[i].var].use]
           S == [taken : SUBSET (1..n), lastUse : Nat]
           step == [j \in 1..n |-> [a \in S |-> Taken(t, bound, life, j, a)]]
           acc[j \in 0..Len(t)] ==
               IF j = 0 THEN [taken |-> {i}, lastUse |-> life[t[i].var].use]
               ELSE Taken(t, bound, life, j, acc[j - 1])
<1>1. base \in S
  BY DEF HaveLifetimes
<1>2. ASSUME NEW j \in 1..n, NEW a \in S
      PROVE  /\ Taken(t, bound, life, j, a) \in S
             /\ Taken(t, bound, life, j, a).lastUse >= a.lastUse
             /\ a.taken \subseteq Taken(t, bound, life, j, a).taken
             /\ \A h \in Taken(t, bound, life, j, a).taken \ a.taken :
                   h \notin bound /\ life[t[h].var].def >= a.lastUse
  <2>1. PICK d \in Nat, u \in Nat : d = life[t[j].var].def /\ u = life[t[j].var].use /\ d < u
    BY DEF HaveLifetimes
  <2>2. CASE j \notin bound \cup a.taken /\ d >= a.lastUse
    <3>1. Taken(t, bound, life, j, a) = [taken |-> a.taken \cup {j}, lastUse |-> a.lastUse + (u - d)]
      BY <2>1, <2>2 DEF Taken
    <3>2. a.lastUse \in Nat /\ a.taken \in SUBSET (1..n)
      OBVIOUS
    <3>3. a.lastUse + (u - d) \in Nat /\ a.lastUse + (u - d) >= a.lastUse
      <4>1. PICK w \in Nat : w = a.lastUse
        BY <3>2
      <4>2. d < u
        BY <2>1
      <4>3. w + (u - d) \in Nat /\ w + (u - d) >= w
        BY <4>2
      <4> QED BY <4>1, <4>3
    <3>4. a.taken \cup {j} \in SUBSET (1..n)
      BY <3>2
    <3> QED BY <3>1, <3>3, <3>4, <2>1, <2>2
  <2>3. CASE ~(j \notin bound \cup a.taken /\ d >= a.lastUse)
    <3>1. Taken(t, bound, life, j, a) = a
      BY <2>1, <2>3 DEF Taken
    <3>2. a.lastUse \in Nat
      OBVIOUS
    <3> QED BY <3>1, <3>2
  <2> QED BY <2>2, <2>3
<1>3. AreSteps(step, n, S)
  <2> HIDE DEF S
  <2> QED BY <1>2 DEF AreSteps
<1> HIDE DEF base, S
<1>4. PICK f : IsIterated(f, step, n, S, base)
  <2> HIDE DEF step, acc
  <2> QED BY <1>1, <1>3, RecursionUpTo
<1>5. f = [j \in 0..Len(t) |->
              IF j = 0 THEN [taken |-> {i}, lastUse |-> life[t[i].var].use]
              ELSE Taken(t, bound, life, j, f[j - 1])]
  <2>1. ASSUME NEW j \in 0..n, j # 0
        PROVE  step[j][f[j - 1]] = Taken(t, bound, life, j, f[j - 1])
    <3>1. j \in 1..n /\ j - 1 \in 0..n
      BY <2>1
    <3>2. f[j - 1] \in S
      BY <3>1, <1>4 DEF IsIterated
    <3> QED BY <3>1, <3>2
  <2>2. ASSUME NEW j \in 0..n
        PROVE  f[j] = IF j = 0 THEN [taken |-> {i}, lastUse |-> life[t[i].var].use]
                      ELSE Taken(t, bound, life, j, f[j - 1])
    <3> HIDE DEF step
    <3>1. j # 0 => j \in 1..n
      OBVIOUS
    <3> QED BY <1>4, <2>1, <3>1 DEF base, IsIterated
  <2> HIDE DEF step
  <2> QED BY <1>4, <2>2 DEF IsIterated
<1>6. acc = [j \in 0..n |-> IF j = 0 THEN base ELSE Taken(t, bound, life, j, acc[j - 1])]
  BY <1>5 DEF base
<1> HIDE DEF acc
<1> DEFINE T == {j \in 0..n : /\ acc[j] \in S /\ i \in acc[j].taken
                              /\ acc[j].lastUse >= base.lastUse
                              /\ \A h \in acc[j].taken \ {i} :
                                    h \notin bound /\ life[t[h].var].def >= base.lastUse}
<1>7. base.taken = {i} /\ base.lastUse = life[t[i].var].use /\ base.lastUse \in Nat
  BY DEF base, HaveLifetimes
<1>8. 0 \in T
  <2>1. 0 \in 0..n /\ acc[0] = base
    BY <1>6
  <2> QED BY <2>1, <1>1, <1>7
<1>9. ASSUME NEW j \in 0..(n - 1), j \in T PROVE j + 1 \in T
  <2>1. j + 1 \in 1..n /\ j + 1 \in 0..n /\ j + 1 # 0 /\ (j + 1) - 1 = j
    OBVIOUS
  <2>2. acc[j + 1] = Taken(t, bound, life, j + 1, acc[j])
    BY <1>6, <2>1
  <2>3. PICK a \in S : a = acc[j]
    BY <1>9
  <2>4. PICK b \in S : b = acc[j + 1]
    BY <2>1, <2>2, <2>3, <1>2
  <2>5. /\ b.lastUse >= a.lastUse /\ a.taken \subseteq b.taken
        /\ \A h \in b.taken \ a.taken : h \notin bound /\ life[t[h].var].def >= a.lastUse
    BY <2>1, <2>2, <2>3, <2>4, <1>2
  <2>6. /\ i \in a.taken /\ a.lastUse >= base.lastUse
        /\ \A h \in a.taken \ {i} : h \notin bound /\ life[t[h].var].def >= base.lastUse
    BY <2>3, <1>9
  <2>7. a.lastUse \in Nat /\ b.lastUse \in Nat /\ b.taken \subseteq 1..n
    BY DEF S
  <2>8. b.lastUse >= base.lastUse
    BY <2>5, <2>6, <2>7, <1>7
  <2>9. ASSUME NEW h \in b.taken \ {i}
        PROVE  h \notin bound /\ life[t[h].var].def >= base.lastUse
    <3>1. CASE h \in a.taken
      BY <3>1, <2>6
    <3>2. CASE h \notin a.taken
      <4>1. h \in 1..n
        BY <2>7
      <4>2. h \notin bound /\ life[t[h].var].def >= a.lastUse /\ life[t[h].var].def \in Nat
        BY <3>2, <4>1, <2>5 DEF HaveLifetimes
      <4> QED BY <4>2, <2>6, <2>7, <1>7
    <3> QED BY <3>1, <3>2
  <2> QED BY <2>1, <2>4, <2>5, <2>6, <2>8, <2>9
<1>10. n \in T
  <2>1. n \in 0..n
    OBVIOUS
  <2> HIDE DEF T
  <2> QED BY <1>8, <1>9, <2>1, InductionUpTo
<1>11. Chain(t, bound, life, i) = acc[n].taken
  BY DEF Chain, acc
<1>12. acc[n].taken \subseteq 1..n
  BY <1>10 DEF S
<1> QED BY <1>7, <1>10, <1>11, <1>12

-----------------------------------------------------------------------------
(* The inductive invariant: what each table holds once it is built, and     *)
(* what the loops have made of it.                                          *)

(* Where bindRegisters is. *)
PassedOK ==
    /\ prog \in Programs /\ addr \in SetToSeqs(Variables(prog))
    /\ pc \in Steps
    /\ cursor \in Nat \ {0}
    /\ pc \in {"performLeftEdge", "mergeSubRegisters"} \/ cursor = 1

LifetimesOK ==
    /\ stages \in Nat
    /\ lt = IF pc = "analyzeLifetime" THEN << >>
            ELSE [v \in Variables(prog) |-> Lifetime(prog, v)]

(* The table lists the pools. *)
TableOK ==
    IF pc \in {"analyzeLifetime", "splitTable"}
    THEN table = << >> /\ sub = << >> /\ nSubRegs = 0 /\ poolWidth = 0
    ELSE /\ poolWidth = MinWidth(prog)
         /\ table \in Seq(Pools)
         /\ \A v \in Variables(prog) : \E j \in DOMAIN table : table[j].var = v
         /\ nSubRegs \in Nat
         /\ sub \in [DOMAIN table -> (0..(nSubRegs - 1)) \cup {Unbound}]

(* j is the first of the pools of a sub-register and dead before the others *)
(* are written.                                                             *)
Opens(j, s) ==
    /\ sub[j] = s
    /\ \A h \in DOMAIN table : sub[h] = s /\ h # j =>
          j < h /\ lt[table[h].var].def >= lt[table[j].var].use

(* Every sub-register has been opened by a pool, and the pools the outer    *)
(* loop has passed have one.                                                *)
EdgeOK ==
    /\ \A s \in 0..(nSubRegs - 1) : \E j \in DOMAIN table : Opens(j, s)
    /\ \A j \in DOMAIN table :
          pc \notin {"analyzeLifetime", "splitTable"}
          /\ (pc = "performLeftEdge" => j < cursor) => sub[j] # Unbound
    /\ pc = "performLeftEdge" => cursor \in DOMAIN table

BeforeMerge == {"analyzeLifetime", "splitTable", "performLeftEdge", "sortVariables"}

(* The register a sub-register was given to holds it, and the variables the *)
(* merging loop has passed have all of theirs in one.                       *)
MergeOK ==
    IF pc \in BeforeMerge
    THEN varSubRegs = << >> /\ lookup = << >> /\ regFields = << >>
    ELSE /\ varSubRegs \in Seq(Held)
         /\ \A x \in Held : \E h \in DOMAIN varSubRegs : varSubRegs[h] = x
         /\ lookup \in [1..nSubRegs -> Nat \cup {Unbound}]
         /\ regFields \in Seq(SUBSET (0..(nSubRegs - 1)))
         /\ \A s \in 1..nSubRegs : lookup[s] # Unbound =>
               lookup[s] < nRegs /\ s - 1 \in regFields[lookup[s] + 1]
         /\ \A h \in DOMAIN varSubRegs :
               (pc = "mergeSubRegisters" => h < cursor) =>
               \A s \in varSubRegs[h].subs : lookup[s + 1] # Unbound
         /\ pc = "mergeSubRegisters" => cursor \in DOMAIN varSubRegs

FieldsOK ==
    /\ IF pc \in {"mapVariablesToBitfields", "done"}
       THEN /\ registers = [r \in DOMAIN regFields |-> Cardinality(regFields[r]) * poolWidth]
            /\ bitfields = [s \in 1..nSubRegs |-> FieldOf(regFields, poolWidth, s - 1)]
       ELSE registers = << >> /\ bitfields = << >>
    /\ binding = IF pc = "done"
                 THEN [v \in Variables(prog) |-> Span(bitfields, SubRegsOf(table, sub, v))]
                 ELSE << >>

IInv == PassedOK /\ LifetimesOK /\ TableOK /\ EdgeOK /\ MergeOK /\ FieldsOK

-----------------------------------------------------------------------------
(* The lists that are sorted.                                              *)

(* A function that is passed is one that can be bound. *)
LEMMA PassedProgram == PassedOK => IsProgram(prog)
BY ProgramsAssumption DEF PassedOK

(* The lifetimes are numbers, and end after they start. *)
LEMMA LifetimeType ==
    ASSUME NEW p, IsProgram(p), NEW v \in Variables(p)
    PROVE  /\ Lifetime(p, v) \in [def : Nat, use : Nat]
           /\ Lifetime(p, v).def < Lifetime(p, v).use
<1>1. p.state[v] \in Nat /\ p.last \in Nat
  BY StatesAreNatural DEF IsProgram
<1>2. Stage(p, p.state[v]) \in Nat /\ Stage(p, p.last) \in Nat
  BY <1>1, StageType
<1>3. LastRead(p, v) \in Nat
  <2>1. CASE LastRead(p, v) = 0
    BY <2>1
  <2>2. CASE LastRead(p, v) # 0
    <3>1. PICK u \in Variables(p) : LastRead(p, v) = Stage(p, p.state[u])
      BY <2>2, LastReadIsRead
    <3>2. p.state[u] \in Nat
      BY StatesAreNatural
    <3> QED BY <3>1, <3>2, StageType
  <2> QED BY <2>1, <2>2
<1> QED BY <1>2, <1>3, LifetimeIsPositive DEF Lifetime

(* The table lists every pool. *)
LEMMA TableListed ==
    ASSUME PassedOK, LifetimesOK, pc # "analyzeLifetime"
    PROVE  LET list == Listed([o \in Pools |-> DefinedUpTo(o)])
           IN  /\ list \in Seq(Pools)
               /\ \A v \in Variables(prog) : \E j \in DOMAIN list : list[j].var = v
<1> DEFINE upTo == [o \in Pools |-> DefinedUpTo(o)]
           n == Cardinality(Pools)
           def(o) == lt[o.var].def
           place(o) == Address(o.var)
<1>1. IsProgram(prog) /\ addr \in SetToSeqs(Variables(prog))
  BY PassedProgram DEF PassedOK
<1>2. IsFiniteSet(Pools) /\ Pools \subseteq [var : Variables(prog), id : Nat]
  BY <1>1, PoolsShape
<1>3. ASSUME NEW o \in Pools
      PROVE  def(o) \in Nat /\ place(o) \in Nat /\ o.id \in Nat /\ o.var \in Variables(prog)
  <2>1. o.var \in Variables(prog) /\ o.id \in Nat
    BY <1>2
  <2>2. lt[o.var] = Lifetime(prog, o.var)
    BY <2>1 DEF LifetimesOK
  <2>3. Lifetime(prog, o.var).def \in Nat
    BY <1>1, <2>1, LifetimeType
  <2> QED BY <2>1, <2>2, <2>3, <1>1, AddressShape
<1>4. \A o, r \in Pools : place(o) = place(r) => o.var = r.var
  BY <1>1, <1>3, AddressShape
<1>5. \A o, r \in Pools : o.var = r.var /\ o.id = r.id => o = r
  BY <1>2
<1>6. \A o, r \in Pools : r \in upTo[o] <=>
         \/ def(r) < def(o)
         \/ def(r) = def(o) /\ (place(r) < place(o) \/ (r.var = o.var /\ r.id <= o.id))
  BY DEF DefinedUpTo
<1>7. upTo \in [Pools -> SUBSET Pools]
  BY DEF DefinedUpTo
<1>8. \A o, r \in Pools : o.var = r.var => def(o) = def(r) /\ place(o) = place(r)
  OBVIOUS
<1> HIDE DEF upTo, def, place
<1>9. \A o \in Pools : o \in upTo[o]
  BY <1>3, <1>6
<1>10. \A o, r \in Pools : o \in upTo[r] \/ r \in upTo[o]
  <2> SUFFICES ASSUME NEW o \in Pools, NEW r \in Pools PROVE o \in upTo[r] \/ r \in upTo[o]
    OBVIOUS
  <2>1. place(o) = place(r) => o.var = r.var
    BY <1>4
  <2> QED BY <2>1, <1>3, <1>6
<1>11. \A o, r \in Pools : o \in upTo[r] /\ r \in upTo[o] => o = r
  <2> SUFFICES ASSUME NEW o \in Pools, NEW r \in Pools, o \in upTo[r], r \in upTo[o] PROVE o = r
    OBVIOUS
  <2>1. o.var = r.var => place(o) = place(r)
    BY <1>8
  <2>2. o.var = r.var /\ o.id = r.id
    BY <2>1, <1>3, <1>6
  <2> QED BY <2>2, <1>5
<1>12. \A o, r \in Pools : o \in upTo[r] => upTo[o] \subseteq upTo[r]
  <2> SUFFICES ASSUME NEW o \in Pools, NEW r \in Pools, o \in upTo[r], NEW x \in upTo[o]
               PROVE  x \in upTo[r]
    OBVIOUS
  <2>1. x \in Pools
    BY <1>7
  <2>2. (o.var = r.var => place(o) = place(r)) /\ (x.var = o.var => place(x) = place(o))
    BY <2>1, <1>8
  <2> QED BY <2>1, <2>2, <1>3, <1>6
<1>13. /\ n \in Nat /\ Listed(upTo) \in [1..n -> Pools]
       /\ \A o \in Pools : \E h \in 1..n : Listed(upTo)[h] = o
  BY <1>2, <1>7, <1>9, <1>10, <1>11, <1>12, ListedShape
<1> DEFINE list == Listed(upTo)
<1> HIDE DEF n, list
<1>14. list \in Seq(Pools) /\ DOMAIN list = 1..n
  BY <1>13 DEF list
<1>15. \A v \in Variables(prog) : \E j \in DOMAIN list : list[j].var = v
  <2> SUFFICES ASSUME NEW v \in Variables(prog) PROVE \E j \in DOMAIN list : list[j].var = v
    OBVIOUS
  <2>1. PICK o \in Pools : o.var = v
    BY <1>1, PoolsShape
  <2> QED BY <2>1, <1>13, <1>14 DEF list
<1> QED BY <1>14, <1>15 DEF list, upTo

(* Every variable has a sub-register when all pools have. *)
LEMMA HeldShape ==
    ASSUME PassedOK, TableOK, pc \notin {"analyzeLifetime", "splitTable"},
           \A j \in DOMAIN table : sub[j] # Unbound, NEW v \in Variables(prog)
    PROVE  /\ SubRegsOf(table, sub, v) \subseteq 0..(nSubRegs - 1)
           /\ SubRegsOf(table, sub, v) # {}
<1>1. /\ sub \in [DOMAIN table -> (0..(nSubRegs - 1)) \cup {Unbound}]
      /\ \E j \in DOMAIN table : table[j].var = v
  BY DEF TableOK
<1>2. \A j \in DOMAIN table : sub[j] \in 0..(nSubRegs - 1)
  BY <1>1
<1>3. \A s : s \in SubRegsOf(table, sub, v) <=> \E j \in DOMAIN table : table[j].var = v /\ s = sub[j]
  BY DEF SubRegsOf
<1> QED BY <1>1, <1>2, <1>3

(* The variables are listed completely too. *)
LEMMA VariablesListed ==
    ASSUME PassedOK, TableOK, pc \notin {"analyzeLifetime", "splitTable"},
           \A j \in DOMAIN table : sub[j] # Unbound
    PROVE  LET list == Listed([x \in Held |-> LargestUpTo(x)])
           IN  /\ list \in Seq(Held)
               /\ \A x \in Held : \E h \in DOMAIN list : list[h] = x
<1> DEFINE upTo == [x \in Held |-> LargestUpTo(x)]
           n == Cardinality(Held)
           size(x) == Cardinality(x.subs)
           place(x) == Address(x.var)
<1>1. IsProgram(prog) /\ addr \in SetToSeqs(Variables(prog))
  BY PassedProgram DEF PassedOK
<1>2. IsFiniteSet(Held)
  <2> DEFINE f == [v \in Variables(prog) |-> [var |-> v, subs |-> SubRegsOf(table, sub, v)]]
  <2>1. f = [v \in Variables(prog) |-> f[v]] /\ Held = {f[v] : v \in Variables(prog)}
    BY DEF Held
  <2>2. IsFiniteSet(Variables(prog))
    BY <1>1, WidthsShape
  <2> HIDE DEF f
  <2> QED BY <2>1, <2>2, FiniteRange
<1>3. \A x \in Held : x.var \in Variables(prog) /\ x.subs = SubRegsOf(table, sub, x.var)
  BY DEF Held
<1>4. \A x, y \in Held : x.var = y.var => x = y
  BY DEF Held
<1>5. ASSUME NEW x \in Held PROVE size(x) \in Nat /\ place(x) \in Nat
  <2>1. x.subs \subseteq 0..(nSubRegs - 1) /\ x.var \in Variables(prog)
    BY <1>3, HeldShape
  <2>2. nSubRegs - 1 \in Int
    BY DEF TableOK
  <2>3. IsFiniteSet(0..(nSubRegs - 1))
    BY <2>2, FS_Interval
  <2>4. IsFiniteSet(x.subs)
    BY <2>1, <2>3, FS_Subset
  <2> QED BY <2>1, <2>4, <1>1, FS_CardinalityType, AddressShape
<1>6. \A x, y \in Held : place(x) = place(y) => x = y
  BY <1>1, <1>3, <1>4, AddressShape
<1>7. \A x, y \in Held : y \in upTo[x] <=>
         size(y) > size(x) \/ (size(y) = size(x) /\ place(y) <= place(x))
  BY DEF LargestUpTo
<1>8. upTo \in [Held -> SUBSET Held]
  BY DEF LargestUpTo
<1> HIDE DEF upTo, size, place
<1>9. \A x \in Held : x \in upTo[x]
  BY <1>5, <1>7
<1>10. \A x, y \in Held : x \in upTo[y] \/ y \in upTo[x]
  BY <1>5, <1>7
<1>11. \A x, y \in Held : x \in upTo[y] /\ y \in upTo[x] => x = y
  <2> SUFFICES ASSUME NEW x \in Held, NEW y \in Held, x \in upTo[y], y \in upTo[x] PROVE x = y
    OBVIOUS
  <2>1. place(x) = place(y)
    BY <1>5, <1>7
  <2> QED BY <2>1, <1>6
<1>12. \A x, y \in Held : x \in upTo[y] => upTo[x] \subseteq upTo[y]
  <2> SUFFICES ASSUME NEW x \in Held, NEW y \in Held, x \in upTo[y], NEW z \in upTo[x]
               PROVE  z \in upTo[y]
    OBVIOUS
  <2>1. z \in Held
    BY <1>8
  <2> QED BY <2>1, <1>5, <1>7
<1>13. /\ n \in Nat /\ Listed(upTo) \in [1..n -> Held]
       /\ \A x \in Held : \E h \in 1..n : Listed(upTo)[h] = x
  BY <1>2, <1>8, <1>9, <1>10, <1>11, <1>12, ListedShape
<1> DEFINE list == Listed(upTo)
<1> HIDE DEF n, list
<1>14. list \in Seq(Held) /\ DOMAIN list = 1..n
  BY <1>13 DEF list
<1> QED BY <1>13, <1>14 DEF list, upTo

-----------------------------------------------------------------------------
(* The inductive step, one lemma per action.                               *)

LEMMA InitIInv == Init => IInv
<1> SUFFICES ASSUME Init PROVE IInv
  OBVIOUS
<1>1. PassedOK /\ LifetimesOK /\ TableOK
  BY DEF Init, PassedOK, LifetimesOK, TableOK, Steps
<1>2. EdgeOK /\ MergeOK /\ FieldsOK
  BY DEF Init, EdgeOK, MergeOK, FieldsOK, BeforeMerge
<1> QED BY <1>1, <1>2 DEF IInv

(* What depends on the function only does not change. *)
LEMMA SamePools == prog' = prog => Pools' = Pools /\ Variables(prog)' = Variables(prog)
BY DEF Pools, Variables

LEMMA SameHeld ==
    UNCHANGED <<prog, table, sub>> => Held' = Held
BY DEF Held, Variables

(* An action that leaves the tables alone leaves what is said of them. *)
LEMMA SameOpens == UNCHANGED <<table, sub, lt>> => \A j, s : Opens(j, s)' <=> Opens(j, s)
BY DEF Opens

LEMMA analyzeLifetimeStep == IInv /\ analyzeLifetime => IInv'
<1> SUFFICES ASSUME IInv, analyzeLifetime PROVE IInv'
  OBVIOUS
<1>1. /\ PassedOK /\ LifetimesOK /\ TableOK /\ EdgeOK /\ MergeOK /\ FieldsOK
      /\ pc = "analyzeLifetime" /\ pc' = "splitTable"
      /\ prog' = prog /\ addr' = addr /\ cursor' = cursor
      /\ UNCHANGED pools /\ UNCHANGED edge /\ UNCHANGED merged /\ UNCHANGED fields
      /\ lt' = [v \in Variables(prog) |-> Lifetime(prog, v)]
      /\ stages' = Stage(prog, prog.last)
  BY DEF IInv, analyzeLifetime, passed
<1>2. PassedOK'
  BY <1>1 DEF PassedOK, Steps
<1>3. LifetimesOK'
  <2>1. IsProgram(prog) /\ prog.last \in Nat
    BY <1>1, PassedProgram DEF IsProgram
  <2>2. Stage(prog, prog.last) \in Nat
    BY <2>1, StageType
  <2> QED BY <2>2, <1>1 DEF LifetimesOK
<1>4. TableOK' /\ EdgeOK'
  BY <1>1 DEF TableOK, EdgeOK, pools, edge
<1>5. MergeOK' /\ FieldsOK'
  BY <1>1 DEF MergeOK, FieldsOK, BeforeMerge, merged, fields
<1> QED BY <1>2, <1>3, <1>4, <1>5 DEF IInv

LEMMA splitTableStep == IInv /\ splitTable => IInv'
<1> SUFFICES ASSUME IInv, splitTable PROVE IInv'
  OBVIOUS
<1>1. /\ PassedOK /\ LifetimesOK /\ TableOK /\ EdgeOK /\ MergeOK /\ FieldsOK
      /\ pc = "splitTable" /\ pc' = "performLeftEdge"
      /\ prog' = prog /\ addr' = addr /\ cursor' = cursor /\ lt' = lt /\ stages' = stages
      /\ nSubRegs' = nSubRegs /\ UNCHANGED merged /\ UNCHANGED fields
      /\ poolWidth' = MinWidth(prog)
      /\ table' = Listed([o \in Pools |-> DefinedUpTo(o)])
      /\ sub' = [j \in DOMAIN table' |-> Unbound]
  BY DEF IInv, splitTable, passed, lifetime
<1>2. PassedOK' /\ LifetimesOK'
  BY <1>1 DEF PassedOK, LifetimesOK, Steps
<1>3. /\ table' \in Seq(Pools)
      /\ \A v \in Variables(prog) : \E j \in DOMAIN table' : table'[j].var = v
  BY <1>1, TableListed
<1>4. nSubRegs = 0
  BY <1>1 DEF TableOK
<1>5. TableOK'
  BY <1>1, <1>3, <1>4, SamePools DEF TableOK
<1>6. cursor = 1 /\ 1 \in DOMAIN table'
  <2>1. 1 \in Variables(prog)
    BY <1>1, PassedProgram, WidthsShape
  <2>2. DOMAIN table' # {} /\ Len(table') \in Nat /\ DOMAIN table' = 1..Len(table')
    BY <1>3, <2>1
  <2> QED BY <2>2, <1>1 DEF PassedOK
<1>7. EdgeOK'
  <2>1. \A s : s \notin 0..(0 - 1)
    OBVIOUS
  <2>2. \A j \in DOMAIN table' : ~(j < 1)
    <3>1. DOMAIN table' \subseteq Nat \ {0}
      BY <1>3
    <3> QED BY <3>1
  <2> QED BY <2>1, <2>2, <1>1, <1>4, <1>6 DEF EdgeOK
<1>8. MergeOK' /\ FieldsOK'
  BY <1>1 DEF MergeOK, FieldsOK, BeforeMerge, merged, fields
<1> QED BY <1>2, <1>5, <1>7, <1>8 DEF IInv

(* A pool that has no sub-register opens one, for the pools it is dead      *)
(* before.                                                                  *)
LEMMA performLeftEdgeStep == IInv /\ performLeftEdge => IInv'
<1> SUFFICES ASSUME IInv, performLeftEdge PROVE IInv'
  OBVIOUS
<1>1. /\ PassedOK /\ LifetimesOK /\ TableOK /\ EdgeOK /\ MergeOK /\ FieldsOK
      /\ pc = "performLeftEdge" /\ cursor \in DOMAIN table /\ cursor \in Nat \ {0}
      /\ prog' = prog /\ addr' = addr /\ lt' = lt /\ stages' = stages
      /\ table' = table /\ poolWidth' = poolWidth /\ UNCHANGED merged /\ UNCHANGED fields
  BY DEF IInv, performLeftEdge, passed, lifetime, pools, EdgeOK, PassedOK
<1>0. PICK n, c, m : n = Len(table) /\ c = cursor /\ m = nSubRegs
  OBVIOUS
<1>2. /\ n \in Nat /\ n = Len(table) /\ DOMAIN table = 1..n
      /\ m \in Nat /\ m = nSubRegs /\ c = cursor /\ c \in 1..n
  BY <1>0, <1>1 DEF TableOK
<1>3. /\ sub \in [1..n -> (0..(nSubRegs - 1)) \cup {Unbound}]
      /\ \A j \in 1..n : j < cursor => sub[j] # Unbound
      /\ \A s \in 0..(nSubRegs - 1) : \E j \in 1..n : Opens(j, s)
  BY <1>1, <1>2 DEF TableOK, EdgeOK
<1>4. \/ cursor < n /\ cursor' = cursor + 1 /\ pc' = "performLeftEdge"
      \/ cursor = n /\ cursor' = 1 /\ pc' = "sortVariables"
  BY <1>1, <1>2 DEF performLeftEdge, Advance
<1>5. PassedOK' /\ LifetimesOK'
  <2>1. cursor' \in Nat \ {0}
    BY <1>1, <1>4
  <2>2. pc' \in Steps /\ (pc' = "performLeftEdge" \/ cursor' = 1)
    BY <1>4 DEF Steps
  <2>3. PassedOK'
    BY <2>1, <2>2, <1>1 DEF PassedOK
  <2>4. LifetimesOK'
    BY <1>1, <1>4 DEF LifetimesOK
  <2> QED BY <2>3, <2>4
<1>6. MergeOK' /\ FieldsOK'
  BY <1>1, <1>4 DEF MergeOK, FieldsOK, BeforeMerge, merged, fields
<1>7. SUFFICES /\ nSubRegs' \in Nat
               /\ sub' \in [1..n -> (0..(nSubRegs' - 1)) \cup {Unbound}]
               /\ sub'[cursor] # Unbound
               /\ \A j \in 1..n : sub[j] # Unbound => sub'[j] # Unbound
               /\ \A s \in 0..(nSubRegs' - 1) : \E j \in 1..n : Opens(j, s)'
  <2>1. TableOK'
    BY <1>1, <1>2, <1>4, <1>7, SamePools DEF TableOK
  <2>2. \A j \in 1..n : (pc' = "performLeftEdge" => j < cursor') => sub'[j] # Unbound
    <3> SUFFICES ASSUME NEW j \in 1..n, pc' = "performLeftEdge" => j < cursor'
                 PROVE  sub'[j] # Unbound
      OBVIOUS
    <3>1. j < cursor \/ j = cursor
      BY <1>1, <1>2, <1>4
    <3> QED BY <3>1, <1>3, <1>7
  <2>3. pc' = "performLeftEdge" => cursor' \in 1..n
    BY <1>1, <1>2, <1>4
  <2>4. EdgeOK'
    BY <2>2, <2>3, <1>1, <1>2, <1>7 DEF EdgeOK
  <2> QED BY <2>1, <2>4, <1>5, <1>6 DEF IInv
<1>8. CASE sub[cursor] # Unbound
  <2>1. sub' = sub /\ nSubRegs' = nSubRegs
    BY <1>8 DEF performLeftEdge, edge
  <2> QED BY <2>1, <1>1, <1>2, <1>3, <1>8, SameOpens
<1>9. CASE sub[cursor] = Unbound
  <2> DEFINE chain == Chain(table, Bound, lt, cursor)
  <2>1. /\ sub' = [j \in 1..n |-> IF j \in chain THEN nSubRegs ELSE sub[j]]
        /\ nSubRegs' = nSubRegs + 1
    BY <1>2, <1>9 DEF performLeftEdge
  <2>2. \A h \in 1..n : lt[table[h].var].def \in Nat /\ lt[table[h].var].use \in Nat
                        /\ lt[table[h].var].def < lt[table[h].var].use
    <3> SUFFICES ASSUME NEW h \in 1..n
                 PROVE  lt[table[h].var].def \in Nat /\ lt[table[h].var].use \in Nat
                        /\ lt[table[h].var].def < lt[table[h].var].use
      OBVIOUS
    <3>1. IsProgram(prog)
      BY <1>1, PassedProgram
    <3>2. table[h] \in Pools
      BY <1>1, <1>2 DEF TableOK
    <3>3. table[h].var \in Variables(prog)
      BY <3>1, <3>2, PoolsShape
    <3>4. PICK v \in Variables(prog) : v = table[h].var
      BY <3>3
    <3>5. lt[v] = Lifetime(prog, v)
      BY <1>1 DEF LifetimesOK
    <3> QED BY <3>1, <3>4, <3>5, LifetimeType
  <2>3. /\ cursor \in chain /\ chain \subseteq 1..n
        /\ \A h \in chain \ {cursor} :
              h \notin Bound /\ lt[table[h].var].def >= lt[table[cursor].var].use
    <3>1. HaveLifetimes(table, n, lt)
      BY <2>2 DEF HaveLifetimes
    <3> HIDE DEF chain
    <3>2. PICK t, bound, life : t = table /\ bound = Bound /\ life = lt
      OBVIOUS
    <3>3. chain = Chain(t, bound, life, c)
      BY <3>2, <1>2 DEF chain
    <3>4. /\ c \in Chain(t, bound, life, c) /\ Chain(t, bound, life, c) \subseteq 1..n
          /\ \A h \in Chain(t, bound, life, c) \ {c} :
                h \notin bound /\ life[t[h].var].def >= life[t[c].var].use
      BY <3>1, <3>2, <1>2, ChainShape
    <3> QED BY <3>2, <3>3, <3>4, <1>2
  <2> HIDE DEF chain
  <2>4. \A j \in 1..n : j \in Bound <=> sub[j] # Unbound
    BY <1>2 DEF Bound
  <2>5. \A j \in 1..n : sub[j] # Unbound => j \notin chain
    BY <2>3, <2>4, <1>9
  <2>6. \A j \in 1..n : sub'[j] = IF j \in chain THEN nSubRegs ELSE sub[j]
    BY <2>1
  <2>7. \A j \in 1..n : sub[j] # nSubRegs
    BY <1>2, <1>3 DEF Unbound
  <2>8. ASSUME NEW s \in 0..(nSubRegs - 1)
        PROVE  \E j \in 1..n : Opens(j, s)'
    <3>1. PICK j \in 1..n : Opens(j, s)
      BY <1>3
    <3>2. \A h \in 1..n : sub'[h] = s <=> sub[h] = s
      <4>1. s # Unbound /\ s # nSubRegs
        BY <1>2 DEF Unbound
      <4> QED BY <4>1, <2>5, <2>6
    <3>3. Opens(j, s)'
      BY <3>1, <3>2, <1>1, <1>2 DEF Opens
    <3> QED BY <3>3
  <2>9. Opens(c, m)'
    <3>1. sub'[cursor] = nSubRegs
      BY <2>3, <2>6
    <3>2. ASSUME NEW h \in 1..n, sub'[h] = nSubRegs, h # cursor
          PROVE  cursor < h /\ lt[table[h].var].def >= lt[table[cursor].var].use
      <4>1. h \in chain
        BY <3>2, <2>6, <2>7
      <4>2. sub[h] = Unbound
        BY <4>1, <2>5
      <4>3. ~(h < cursor)
        BY <4>2, <1>3
      <4> QED BY <4>1, <4>3, <3>2, <2>3, <1>1, <1>2
    <3>3. \A h \in DOMAIN table' : sub'[h] = m /\ h # c =>
             c < h /\ lt'[table'[h].var].def >= lt'[table'[c].var].use
      BY <3>2, <1>1, <1>2
    <3>4. sub'[c] = m
      BY <3>1, <1>2
    <3> QED BY <3>3, <3>4 DEF Opens
  <2>10. \A s \in 0..(nSubRegs' - 1) : s \in 0..(nSubRegs - 1) \/ s = nSubRegs
    BY <2>1, <1>2
  <2>11. /\ nSubRegs' \in Nat
         /\ nSubRegs \in 0..(nSubRegs' - 1) /\ 0..(nSubRegs - 1) \subseteq 0..(nSubRegs' - 1)
    BY <2>1, <1>2
  <2>12. sub' \in [1..n -> (0..(nSubRegs' - 1)) \cup {Unbound}]
    BY <2>1, <2>11, <1>3
  <2>13. \A j \in 1..n : sub[j] # Unbound => sub'[j] # Unbound
    BY <2>5, <2>6
  <2>14. sub'[cursor] # Unbound
    BY <2>3, <2>6, <1>2 DEF Unbound
  <2>15. ASSUME NEW s \in 0..(nSubRegs' - 1)
         PROVE  \E j \in 1..n : Opens(j, s)'
    <3>1. s \in 0..(nSubRegs - 1) \/ s = m
      BY <2>10, <1>2
    <3>2. CASE s = m
      BY <3>2, <2>9, <1>2
    <3> QED BY <3>1, <3>2, <2>8
  <2> QED BY <2>11, <2>12, <2>13, <2>14, <2>15
<1> QED BY <1>8, <1>9

LEMMA sortVariablesStep == IInv /\ sortVariables => IInv'
<1> SUFFICES ASSUME IInv, sortVariables PROVE IInv'
  OBVIOUS
<1>1. /\ PassedOK /\ LifetimesOK /\ TableOK /\ EdgeOK /\ MergeOK /\ FieldsOK
      /\ pc = "sortVariables" /\ pc' = "mergeSubRegisters"
      /\ prog' = prog /\ addr' = addr /\ cursor' = cursor /\ lt' = lt /\ stages' = stages
      /\ table' = table /\ poolWidth' = poolWidth /\ sub' = sub /\ nSubRegs' = nSubRegs
      /\ regFields' = regFields /\ UNCHANGED fields
      /\ varSubRegs' = Listed([x \in Held |-> LargestUpTo(x)])
      /\ lookup' = [s \in 1..nSubRegs |-> Unbound]
  BY DEF IInv, sortVariables, passed, lifetime, pools, edge
<1>2. PassedOK' /\ LifetimesOK' /\ TableOK'
  BY <1>1, SamePools DEF PassedOK, LifetimesOK, TableOK, Steps
<1>3. EdgeOK'
  BY <1>1, SameOpens DEF EdgeOK
<1>4. FieldsOK'
  BY <1>1 DEF FieldsOK, fields
<1>5. \A j \in DOMAIN table : sub[j] # Unbound
  BY <1>1 DEF EdgeOK
<1>6. varSubRegs' \in Seq(Held) /\ \A x \in Held : \E h \in DOMAIN varSubRegs' : varSubRegs'[h] = x
  BY <1>1, <1>5, VariablesListed
<1>7. cursor = 1 /\ 1 \in DOMAIN varSubRegs'
  <2>1. 1 \in Variables(prog)
    BY <1>1, PassedProgram, WidthsShape
  <2>2. Held # {}
    BY <2>1 DEF Held
  <2>3. DOMAIN varSubRegs' # {}
    BY <1>6, <2>2
  <2>4. Len(varSubRegs') \in Nat /\ DOMAIN varSubRegs' = 1..Len(varSubRegs')
    BY <1>6
  <2> QED BY <2>3, <2>4, <1>1 DEF PassedOK
<1>8. MergeOK'
  <2>1. regFields' = << >>
    BY <1>1 DEF MergeOK, BeforeMerge
  <2>2. \A h \in DOMAIN varSubRegs' : ~(h < 1)
    <3>1. DOMAIN varSubRegs' \subseteq Nat \ {0}
      BY <1>6
    <3> QED BY <3>1
  <2>3. Held' = Held
    BY <1>1, SameHeld
  <2>4. regFields' \in Seq(SUBSET (0..(nSubRegs' - 1)))
    BY <2>1
  <2>5. \A s \in 1..nSubRegs' : lookup'[s] = Unbound
    BY <1>1
  <2>6. lookup' \in [1..nSubRegs' -> Nat \cup {Unbound}]
    BY <1>1
  <2> QED BY <1>1, <1>6, <1>7, <2>2, <2>3, <2>4, <2>5, <2>6 DEF MergeOK, BeforeMerge
<1> QED BY <1>2, <1>3, <1>4, <1>8 DEF IInv

(* The sub-registers of a variable on the list are numbers of sub-registers. *)
LEMMA HeldSubRegisters ==
    ASSUME PassedOK, TableOK, EdgeOK, pc \notin {"analyzeLifetime", "splitTable", "performLeftEdge"},
           NEW x \in Held
    PROVE  x.subs \subseteq 0..(nSubRegs - 1) /\ x.subs # {} /\ x.var \in Variables(prog)
<1>1. x.var \in Variables(prog) /\ x.subs = SubRegsOf(table, sub, x.var)
  BY DEF Held
<1>2. \A j \in DOMAIN table : sub[j] # Unbound
  BY DEF EdgeOK
<1> QED BY <1>1, <1>2, HeldShape

(* The register that takes the sub-registers of a variable is new or one of *)
(* those there are.                                                         *)
LEMMA TargetShape ==
    ASSUME MergeOK, pc \notin BeforeMerge, nSubRegs \in Nat,
           NEW subs, subs \subseteq 0..(nSubRegs - 1)
    PROVE  Target(subs) \in 0..nRegs /\ nRegs \in Nat
<1>1. /\ lookup \in [1..nSubRegs -> Nat \cup {Unbound}]
      /\ regFields \in Seq(SUBSET (0..(nSubRegs - 1)))
      /\ \A s \in 1..nSubRegs : lookup[s] # Unbound => lookup[s] < nRegs
  BY DEF MergeOK
<1>2. nRegs \in Nat
  BY <1>1 DEF nRegs
<1>3. CASE Binded(subs) = {}
  BY <1>2, <1>3 DEF Target
<1>4. CASE Binded(subs) # {}
  <2>1. Binded(subs) \subseteq 0..(nSubRegs - 1)
    BY DEF Binded
  <2>2. IsFiniteSet(0..(nSubRegs - 1)) /\ 0..(nSubRegs - 1) \subseteq Int
    BY FS_Interval
  <2>3. IsFiniteSet(Binded(subs)) /\ Binded(subs) \subseteq Int
    BY <2>1, <2>2, FS_Subset
  <2>4. Min(Binded(subs)) \in Binded(subs)
    BY <2>3, <1>4, MinIsLeast
  <2>5. PICK s \in subs : s = Min(Binded(subs)) /\ lookup[s + 1] # Unbound
    BY <2>4 DEF Binded
  <2>6. s + 1 \in 1..nSubRegs
    OBVIOUS
  <2>7. lookup[s + 1] \in Nat /\ lookup[s + 1] < nRegs
    BY <1>1, <2>5, <2>6
  <2>8. Target(subs) = lookup[s + 1]
    BY <2>5, <1>4 DEF Target
  <2> QED BY <2>7, <2>8, <1>2
<1> QED BY <1>2, <1>3, <1>4

(* All sub-registers of a variable go to one register, and those that were  *)
(* in another stay among its fields.                                        *)
LEMMA mergeSubRegistersStep == IInv /\ mergeSubRegisters => IInv'
<1> SUFFICES ASSUME IInv, mergeSubRegisters PROVE IInv'
  OBVIOUS
<1>1. /\ PassedOK /\ LifetimesOK /\ TableOK /\ EdgeOK /\ MergeOK /\ FieldsOK
      /\ pc = "mergeSubRegisters" /\ cursor \in DOMAIN varSubRegs /\ cursor \in Nat \ {0}
      /\ prog' = prog /\ addr' = addr /\ lt' = lt /\ stages' = stages
      /\ table' = table /\ poolWidth' = poolWidth /\ sub' = sub /\ nSubRegs' = nSubRegs
      /\ varSubRegs' = varSubRegs /\ UNCHANGED fields
  BY DEF IInv, mergeSubRegisters, passed, lifetime, pools, edge, MergeOK, PassedOK, BeforeMerge
<1>0. PICK n, c, m, S, r : /\ n = Len(varSubRegs) /\ c = cursor /\ m = nSubRegs
                           /\ S = varSubRegs[cursor].subs /\ r = Target(S)
  OBVIOUS
<1>2. /\ varSubRegs \in Seq(Held)
      /\ lookup \in [1..m -> Nat \cup {Unbound}]
      /\ regFields \in Seq(SUBSET (0..(m - 1)))
      /\ \A s \in 1..m : lookup[s] # Unbound =>
            lookup[s] < nRegs /\ s - 1 \in regFields[lookup[s] + 1]
      /\ m \in Nat
  BY <1>0, <1>1 DEF MergeOK, BeforeMerge, TableOK
<1>3. n \in Nat /\ DOMAIN varSubRegs = 1..n /\ c \in 1..n /\ varSubRegs[c] \in Held
  BY <1>0, <1>1, <1>2
<1>4. \/ cursor < n /\ cursor' = cursor + 1 /\ pc' = "mergeSubRegisters"
      \/ cursor = n /\ cursor' = 1 /\ pc' = "createRegisters"
  BY <1>0, <1>1, <1>3 DEF mergeSubRegisters, Advance
<1>5. PassedOK'
  <2>1. cursor' \in Nat \ {0}
    BY <1>1, <1>4
  <2>2. pc' \in Steps /\ (pc' = "mergeSubRegisters" \/ cursor' = 1)
    BY <1>4 DEF Steps
  <2> QED BY <2>1, <2>2, <1>1 DEF PassedOK
<1>6. LifetimesOK' /\ TableOK'
  BY <1>1, <1>4, SamePools DEF LifetimesOK, TableOK
<1>7. EdgeOK'
  BY <1>1, <1>4, SameOpens DEF EdgeOK
<1>8. FieldsOK'
  BY <1>1, <1>4 DEF FieldsOK, fields
<1>9. S \subseteq 0..(m - 1)
  BY <1>0, <1>1, <1>3, HeldSubRegisters
<1>10. r \in 0..nRegs /\ nRegs \in Nat /\ nRegs = Len(regFields)
  <2>1. pc \notin BeforeMerge
    BY <1>1 DEF BeforeMerge
  <2> QED BY <2>1, <1>0, <1>1, <1>2, <1>9, TargetShape DEF nRegs
<1>11. /\ lookup' = [s \in 1..m |-> IF s - 1 \in S THEN r ELSE lookup[s]]
       /\ regFields' = IF r = nRegs THEN Append(regFields, S)
                       ELSE [regFields EXCEPT ![r + 1] = @ \cup S]
  <2>1. DOMAIN lookup = 1..m
    BY <1>2
  <2> QED BY <2>1, <1>0 DEF mergeSubRegisters
<1>12. /\ regFields' \in Seq(SUBSET (0..(m - 1)))
       /\ r < Len(regFields') /\ Len(regFields) <= Len(regFields')
       /\ S \subseteq regFields'[r + 1]
       /\ \A h \in 1..Len(regFields) : regFields[h] \subseteq regFields'[h]
  <2>1. CASE r = nRegs
    <3>1. regFields' = Append(regFields, S)
      BY <2>1, <1>11
    <3>2. /\ regFields' \in Seq(SUBSET (0..(m - 1))) /\ Len(regFields') = Len(regFields) + 1
          /\ regFields'[Len(regFields) + 1] = S
          /\ \A h \in 1..Len(regFields) : regFields'[h] = regFields[h]
      BY <3>1, <1>2, <1>9
    <3> QED BY <3>2, <2>1, <1>10
  <2>2. CASE r # nRegs
    <3>1. regFields' = [regFields EXCEPT ![r + 1] = @ \cup S]
      BY <2>2, <1>11
    <3>2. r + 1 \in 1..Len(regFields) /\ r < Len(regFields)
      BY <2>2, <1>10
    <3>3. regFields[r + 1] \cup S \in SUBSET (0..(m - 1))
      <4>1. regFields[r + 1] \in SUBSET (0..(m - 1))
        BY <3>2, <1>2
      <4> QED BY <4>1, <1>9
    <3>4. Len(regFields') = Len(regFields) /\ regFields' \in Seq(SUBSET (0..(m - 1)))
      BY <3>1, <3>2, <3>3, <1>2
    <3>5. /\ regFields'[r + 1] = regFields[r + 1] \cup S
          /\ \A h \in 1..Len(regFields) : h # r + 1 => regFields'[h] = regFields[h]
      BY <3>1, <3>2, <1>2
    <3> QED BY <3>2, <3>4, <3>5
  <2> QED BY <2>1, <2>2
<1>13. lookup' \in [1..m -> Nat \cup {Unbound}]
  BY <1>2, <1>10, <1>11
<1>14. ASSUME NEW s \in 1..m, lookup'[s] # Unbound
       PROVE  lookup'[s] < Len(regFields') /\ s - 1 \in regFields'[lookup'[s] + 1]
  <2>1. CASE s - 1 \in S
    BY <2>1, <1>11, <1>12
  <2>2. CASE s - 1 \notin S
    <3>1. lookup'[s] = lookup[s]
      BY <2>2, <1>11
    <3>2. lookup[s] < Len(regFields) /\ s - 1 \in regFields[lookup[s] + 1] /\ lookup[s] \in Nat
      BY <3>1, <1>2, <1>10, <1>14
    <3>3. lookup[s] + 1 \in 1..Len(regFields) /\ Len(regFields) \in Nat /\ Len(regFields') \in Nat
      BY <3>2, <1>10, <1>12
    <3> QED BY <3>1, <3>2, <3>3, <1>12
  <2> QED BY <2>1, <2>2
<1>15. ASSUME NEW h \in 1..n, pc' = "mergeSubRegisters" => h < cursor', NEW s \in varSubRegs[h].subs
       PROVE  lookup'[s + 1] # Unbound
  <2>1. varSubRegs[h] \in Held
    BY <1>2, <1>3
  <2>2. s \in 0..(m - 1)
    BY <2>1, <1>0, <1>1, HeldSubRegisters
  <2>3. s + 1 \in 1..m /\ (s + 1) - 1 = s
    BY <2>2, <1>2
  <2>4. lookup'[s + 1] = IF s \in S THEN r ELSE lookup[s + 1]
    BY <2>3, <1>11
  <2>5. CASE h = c
    <3>1. s \in S
      BY <2>5, <1>0
    <3> QED BY <3>1, <2>4, <1>10 DEF Unbound
  <2>6. CASE h # c
    <3>1. h < cursor
      BY <2>6, <1>0, <1>1, <1>3, <1>4, <1>15
    <3>2. lookup[s + 1] # Unbound
      BY <3>1, <1>1, <1>3 DEF MergeOK, BeforeMerge
    <3> QED BY <3>2, <2>4, <1>10 DEF Unbound
  <2> QED BY <2>5, <2>6
<1>16. pc' = "mergeSubRegisters" => cursor' \in 1..n
  BY <1>1, <1>3, <1>4
<1>17. Held' = Held
  BY <1>1, SameHeld
<1>18. \A x \in Held : \E h \in DOMAIN varSubRegs : varSubRegs[h] = x
  BY <1>1 DEF MergeOK, BeforeMerge
<1>19. pc' \notin BeforeMerge
  BY <1>4 DEF BeforeMerge
<1>20. nRegs' = Len(regFields')
  BY DEF nRegs
<1>21. MergeOK'
  BY <1>0, <1>1, <1>2, <1>3, <1>12, <1>13, <1>14, <1>15, <1>16, <1>17, <1>18, <1>19, <1>20 DEF MergeOK
<1> QED BY <1>5, <1>6, <1>7, <1>8, <1>21 DEF IInv

LEMMA createRegistersStep == IInv /\ createRegisters => IInv'
<1> SUFFICES ASSUME IInv, createRegisters PROVE IInv'
  OBVIOUS
<1>1. /\ PassedOK /\ LifetimesOK /\ TableOK /\ EdgeOK /\ MergeOK /\ FieldsOK
      /\ pc = "createRegisters" /\ pc' = "mapVariablesToBitfields"
      /\ prog' = prog /\ addr' = addr /\ cursor' = cursor /\ lt' = lt /\ stages' = stages
      /\ table' = table /\ poolWidth' = poolWidth /\ sub' = sub /\ nSubRegs' = nSubRegs
      /\ varSubRegs' = varSubRegs /\ lookup' = lookup /\ regFields' = regFields
      /\ binding' = binding
      /\ registers' = [r \in DOMAIN regFields |-> Cardinality(regFields[r]) * poolWidth]
      /\ bitfields' = [s \in 1..nSubRegs |-> FieldOf(regFields, poolWidth, s - 1)]
  BY DEF IInv, createRegisters, passed, lifetime, pools, edge, merged
<1>2. PassedOK' /\ LifetimesOK' /\ TableOK'
  BY <1>1, SamePools DEF PassedOK, LifetimesOK, TableOK, Steps
<1>3. EdgeOK'
  BY <1>1, SameOpens DEF EdgeOK
<1>4. MergeOK'
  BY <1>1, SameHeld DEF MergeOK, BeforeMerge, nRegs
<1>5. FieldsOK'
  BY <1>1 DEF FieldsOK
<1> QED BY <1>2, <1>3, <1>4, <1>5 DEF IInv

LEMMA mapVariablesToBitfieldsStep == IInv /\ mapVariablesToBitfields => IInv'
<1> SUFFICES ASSUME IInv, mapVariablesToBitfields PROVE IInv'
  OBVIOUS
<1>1. /\ PassedOK /\ LifetimesOK /\ TableOK /\ EdgeOK /\ MergeOK /\ FieldsOK
      /\ pc = "mapVariablesToBitfields" /\ pc' = "done"
      /\ prog' = prog /\ addr' = addr /\ cursor' = cursor /\ lt' = lt /\ stages' = stages
      /\ table' = table /\ poolWidth' = poolWidth /\ sub' = sub /\ nSubRegs' = nSubRegs
      /\ varSubRegs' = varSubRegs /\ lookup' = lookup /\ regFields' = regFields
      /\ registers' = registers /\ bitfields' = bitfields
      /\ binding' = [v \in Variables(prog) |-> Span(bitfields, SubRegsOf(table, sub, v))]
  BY DEF IInv, mapVariablesToBitfields, passed, lifetime, pools, edge, merged
<1>2. PassedOK' /\ LifetimesOK' /\ TableOK'
  BY <1>1, SamePools DEF PassedOK, LifetimesOK, TableOK, Steps
<1>3. EdgeOK'
  BY <1>1, SameOpens DEF EdgeOK
<1>4. MergeOK'
  BY <1>1, SameHeld DEF MergeOK, BeforeMerge, nRegs
<1>5. FieldsOK'
  BY <1>1 DEF FieldsOK
<1> QED BY <1>2, <1>3, <1>4, <1>5 DEF IInv

LEMMA StutterStep == IInv /\ UNCHANGED vars => IInv'
<1> SUFFICES ASSUME IInv, UNCHANGED vars PROVE IInv'
  OBVIOUS
<1>1. /\ PassedOK /\ LifetimesOK /\ TableOK /\ EdgeOK /\ MergeOK /\ FieldsOK
      /\ pc' = pc /\ prog' = prog /\ addr' = addr /\ cursor' = cursor /\ lt' = lt
      /\ stages' = stages /\ table' = table /\ poolWidth' = poolWidth /\ sub' = sub
      /\ nSubRegs' = nSubRegs /\ varSubRegs' = varSubRegs /\ lookup' = lookup
      /\ regFields' = regFields /\ registers' = registers /\ bitfields' = bitfields
      /\ binding' = binding
  BY DEF IInv, vars, passed, lifetime, pools, edge, merged, fields
<1>2. PassedOK' /\ LifetimesOK' /\ TableOK'
  BY <1>1, SamePools DEF PassedOK, LifetimesOK, TableOK
<1>3. EdgeOK'
  BY <1>1, SameOpens DEF EdgeOK
<1>4. MergeOK'
  BY <1>1, SameHeld DEF MergeOK, nRegs
<1>5. FieldsOK'
  BY <1>1 DEF FieldsOK
<1> QED BY <1>2, <1>3, <1>4, <1>5 DEF IInv

(* The invariant holds in every state. *)
THEOREM Invariance == Spec => []IInv
<1>1. IInv /\ [Next]_vars => IInv'
  BY analyzeLifetimeStep, splitTableStep, performLeftEdgeStep, sortVariablesStep,
     mergeSubRegistersStep, createRegistersStep, mapVariablesToBitfieldsStep, StutterStep
     DEF Next, Returned
<1> QED BY <1>1, InitIInv, PTL DEF Spec

-----------------------------------------------------------------------------
(* What follows from the invariant.                                        *)

(* After the merging loop every sub-register has been given to a register   *)
(* and is among its fields.                                                 *)
LEMMA AllMerged ==
    ASSUME IInv, pc \notin BeforeMerge, pc # "mergeSubRegisters", NEW s \in 1..nSubRegs
    PROVE  lookup[s] \in Nat /\ lookup[s] < nRegs /\ s - 1 \in regFields[lookup[s] + 1]
<1>1. PassedOK /\ TableOK /\ EdgeOK /\ MergeOK
  BY DEF IInv
<1>2. /\ nSubRegs \in Nat /\ table \in Seq(Pools) /\ IsProgram(prog)
      /\ pc \notin {"analyzeLifetime", "splitTable"}
  BY <1>1, PassedProgram DEF TableOK, BeforeMerge
<1>3. s - 1 \in 0..(nSubRegs - 1) /\ (s - 1) + 1 = s
  BY <1>2
<1>4. PICK j \in DOMAIN table : sub[j] = s - 1
  BY <1>1, <1>3 DEF EdgeOK, Opens
<1>5. table[j].var \in Variables(prog)
  <2>1. table[j] \in Pools
    BY <1>2
  <2> QED BY <2>1, <1>2, PoolsShape
<1>6. PICK v \in Variables(prog) : v = table[j].var
  BY <1>5
<1>7. [var |-> v, subs |-> SubRegsOf(table, sub, v)] \in Held /\ s - 1 \in SubRegsOf(table, sub, v)
  BY <1>4, <1>6 DEF Held, SubRegsOf
<1>8. PICK h \in DOMAIN varSubRegs : varSubRegs[h] = [var |-> v, subs |-> SubRegsOf(table, sub, v)]
  BY <1>1, <1>7 DEF MergeOK
<1>9. s - 1 \in varSubRegs[h].subs
  BY <1>7, <1>8
<1>10. lookup[(s - 1) + 1] # Unbound
  BY <1>1, <1>9 DEF MergeOK
<1>11. lookup[s] # Unbound
  BY <1>3, <1>10
<1> QED BY <1>1, <1>11 DEF MergeOK

(* The place of a field is one among those of its register, and fields have *)
(* different places.                                                        *)
LEMMA RankShape ==
    ASSUME NEW S, S \subseteq Int, IsFiniteSet(S)
    PROVE  /\ Cardinality(S) \in Nat
           /\ \A s \in S : Rank(S, s) \in 0..(Cardinality(S) - 1)
           /\ \A s, t \in S : s < t => Rank(S, s) < Rank(S, t)
<1>1. /\ Cardinality(S) \in Nat
      /\ \A x \in S : CountUpTo(S, x) \in 1..Cardinality(S)
      /\ \A x, y \in S : x < y => CountUpTo(S, x) < CountUpTo(S, y)
  BY RanksAreBijective
<1>2. ASSUME NEW s \in S PROVE Rank(S, s) = CountUpTo(S, s) - 1
  <2> DEFINE U == {m \in S : m <= s}
             L == {r \in S : r < s}
  <2>1. IsFiniteSet(U) /\ s \in U
    <3>1. U \subseteq S /\ s \in Int
      OBVIOUS
    <3> QED BY <3>1, FS_Subset
  <2>2. L = U \ {s}
    <3>1. \A r \in S : (r < s) <=> (r <= s /\ r # s)
      OBVIOUS
    <3> QED BY <3>1
  <2>3. Cardinality(U \ {s}) = Cardinality(U) - 1
    <3> HIDE DEF U
    <3> QED BY <2>1, FS_RemoveElement
  <2> QED BY <2>2, <2>3 DEF Rank, CountUpTo
<1>3. \A s \in S : CountUpTo(S, s) \in Int
  BY <1>1
<1> QED BY <1>1, <1>2, <1>3

(* The field of sub-register s lies at its place in a register that holds   *)
(* it.                                                                      *)
HasField(held, w, s) ==
    \E r \in DOMAIN held : \E h \in Nat :
       /\ s \in held[r] /\ h = Rank(held[r], s) /\ h < Cardinality(held[r])
       /\ FieldOf(held, w, s)
             = [reg |-> r - 1, msb |-> UChar(h * w + w - 1), lsb |-> UChar(h * w)]

(* The field of a sub-register lies at its place in a register it is in.    *)
LEMMA FieldShape ==
    ASSUME NEW m \in Nat, NEW held \in Seq(SUBSET (0..(m - 1))), NEW w \in Nat \ {0},
           NEW s, \E r \in DOMAIN held : s \in held[r]
    PROVE  HasField(held, w, s)
<1> DEFINE R == {r \in DOMAIN held : s \in held[r]}
<1>1. IsFiniteSet(R) /\ R \subseteq Int /\ R # {}
  <2>1. Len(held) \in Nat /\ DOMAIN held = 1..Len(held)
    OBVIOUS
  <2>2. IsFiniteSet(DOMAIN held)
    BY <2>1, FS_Interval
  <2>3. R \subseteq DOMAIN held
    OBVIOUS
  <2>4. IsFiniteSet(R)
    BY <2>2, <2>3, FS_Subset
  <2> QED BY <2>1, <2>3, <2>4
<1>2. PICK r : r = Max(R) /\ r \in R
  <2> HIDE DEF R
  <2> QED BY <1>1, MaxIsGreatest
<1>3. r \in DOMAIN held /\ s \in held[r] /\ held[r] \in SUBSET (0..(m - 1))
  <2>1. r \in DOMAIN held /\ s \in held[r]
    BY <1>2
  <2>2. \A o \in DOMAIN held : held[o] \in SUBSET (0..(m - 1))
    OBVIOUS
  <2> QED BY <2>1, <2>2
<1>4. IsFiniteSet(held[r]) /\ held[r] \subseteq Int
  <2>1. 0 \in Int /\ m - 1 \in Int
    OBVIOUS
  <2>2. IsFiniteSet(0..(m - 1))
    BY <2>1, FS_Interval
  <2> QED BY <2>2, <1>3, FS_Subset
<1>5. PICK h : h = Rank(held[r], s)
  OBVIOUS
<1>6. h \in 0..(Cardinality(held[r]) - 1) /\ Cardinality(held[r]) \in Nat
  BY <1>3, <1>4, <1>5, RankShape
<1>7. FieldOf(held, w, s) = [reg |-> r - 1, msb |-> UChar(h * w + w - 1), lsb |-> UChar(h * w)]
  BY <1>2, <1>5 DEF FieldOf
<1>8. h \in Nat /\ h < Cardinality(held[r])
  <2>1. PICK c \in Nat : c = Cardinality(held[r])
    BY <1>6
  <2>2. h \in 0..(c - 1)
    BY <1>6, <2>1
  <2> QED BY <2>1, <2>2
<1> QED BY <1>3, <1>5, <1>7, <1>8 DEF HasField

(* The fields that are created lie in a register each. *)
LEMMA CreatedField ==
    ASSUME IInv, pc \in {"mapVariablesToBitfields", "done"}, NEW s \in 1..nSubRegs
    PROVE  \E r \in DOMAIN regFields : \E h \in Nat :
              /\ s - 1 \in regFields[r] /\ h = Rank(regFields[r], s - 1)
              /\ h < Cardinality(regFields[r]) /\ Cardinality(regFields[r]) \in Nat
              /\ registers[r] = Cardinality(regFields[r]) * poolWidth
              /\ bitfields[s] = [reg |-> r - 1, msb |-> UChar(h * poolWidth + poolWidth - 1),
                                 lsb |-> UChar(h * poolWidth)]
<1>1. /\ PassedOK /\ TableOK /\ MergeOK /\ FieldsOK /\ IsProgram(prog)
      /\ pc \notin BeforeMerge /\ pc # "mergeSubRegisters"
      /\ pc \notin {"analyzeLifetime", "splitTable"}
  BY PassedProgram DEF IInv, BeforeMerge
<1>2. /\ regFields \in Seq(SUBSET (0..(nSubRegs - 1))) /\ nSubRegs \in Nat
      /\ poolWidth \in Nat \ {0}
  BY <1>1, WidthsShape DEF MergeOK, TableOK
<1>3. \E r \in DOMAIN regFields : s - 1 \in regFields[r]
  <2>1. lookup[s] \in Nat /\ lookup[s] < nRegs /\ s - 1 \in regFields[lookup[s] + 1]
    BY <1>1, AllMerged
  <2>2. lookup[s] + 1 \in DOMAIN regFields
    BY <2>1, <1>2 DEF nRegs
  <2> QED BY <2>1, <2>2
<1>4. PICK r \in DOMAIN regFields, h \in Nat :
         /\ s - 1 \in regFields[r] /\ h = Rank(regFields[r], s - 1)
         /\ h < Cardinality(regFields[r])
         /\ FieldOf(regFields, poolWidth, s - 1)
               = [reg |-> r - 1, msb |-> UChar(h * poolWidth + poolWidth - 1),
                  lsb |-> UChar(h * poolWidth)]
  <2>1. PICK i : i = s - 1
    OBVIOUS
  <2>2. PICK held \in Seq(SUBSET (0..(nSubRegs - 1))), w \in Nat \ {0} :
           held = regFields /\ w = poolWidth
    BY <1>2
  <2>3. \E r \in DOMAIN held : i \in held[r]
    BY <1>3, <2>1, <2>2
  <2>4. HasField(held, w, i)
    BY <1>2, <2>3, FieldShape
  <2> QED BY <2>1, <2>2, <2>4 DEF HasField
<1>5. bitfields[s] = FieldOf(regFields, poolWidth, s - 1)
      /\ registers[r] = Cardinality(regFields[r]) * poolWidth
  BY <1>1 DEF FieldsOK
<1>6. Cardinality(regFields[r]) \in Nat
  <2>1. regFields[r] \subseteq 0..(nSubRegs - 1)
    BY <1>2
  <2>2. IsFiniteSet(0..(nSubRegs - 1))
    BY <1>2, FS_Interval
  <2> QED BY <2>1, <2>2, FS_Subset, FS_CardinalityType
<1> QED BY <1>4, <1>5, <1>6

(* The assertion of mergeSubRegisters holds: when the registers are created *)
(* every sub-register has been given to one that holds it.                  *)
THEOREM SubRegistersAreMerged == Spec => []EverySubRegisterMerged
<1>1. IInv => EverySubRegisterMerged
  <2> SUFFICES ASSUME IInv, pc = "createRegisters", NEW s \in DOMAIN lookup
               PROVE  lookup[s] # Unbound /\ s - 1 \in regFields[lookup[s] + 1]
    BY DEF EverySubRegisterMerged
  <2>1. s \in 1..nSubRegs /\ pc \notin BeforeMerge
    BY DEF IInv, MergeOK, BeforeMerge
  <2> QED BY <2>1, AllMerged DEF Unbound
<1> QED BY <1>1, Invariance, PTL

(* The pool that opens a sub-register, the first of its pools, is dead      *)
(* before any other of them is written.                                     *)
THEOREM OpenersAreExclusive == Spec => []OpenerExclusive
<1>1. IInv => OpenerExclusive
  <2> SUFFICES ASSUME IInv, NEW j \in DOMAIN sub, NEW h \in DOMAIN sub, Share(j, h),
                      \A i \in 1..(j - 1) : sub[i] # sub[j]
               PROVE  ~Together(table[j].var, table[h].var)
    BY DEF OpenerExclusive
  <2>1. pc \notin {"analyzeLifetime", "splitTable"}
    BY DEF IInv, TableOK
  <2>2. /\ table \in Seq(Pools) /\ nSubRegs \in Nat /\ DOMAIN sub = DOMAIN table
        /\ sub[j] \in 0..(nSubRegs - 1) /\ sub[h] = sub[j] /\ j # h
    BY <2>1 DEF IInv, TableOK, Share
  <2>3. PICK i \in DOMAIN table : Opens(i, sub[j])
    BY <2>2 DEF IInv, EdgeOK
  <2>4. i = j
    <3>1. sub[i] = sub[j] /\ (j # i => i < j)
      BY <2>2, <2>3 DEF Opens
    <3>2. i \in Nat \ {0} /\ j \in Nat \ {0}
      BY <2>2
    <3>3. i < j => i \in 1..(j - 1)
      BY <3>2
    <3> QED BY <3>1, <3>3
  <2>5. lt[table[h].var].def >= lt[table[j].var].use
    BY <2>2, <2>3, <2>4 DEF Opens
  <2> QED BY <2>5 DEF Together
<1> QED BY <1>1, Invariance, PTL

(* Different sub-registers are different bits of the registers, as long as  *)
(* no register is wider than the bounds of a field, which are kept in eight *)
(* bits, can say.                                                           *)
THEOREM SubRegistersAreDisjoint ==
    Spec => []((\A r \in DOMAIN registers : registers[r] <= 256) => SubRegistersDisjoint)
<1>1. ASSUME NEW h \in Nat, NEW c \in Nat, h < c, NEW w \in Nat \ {0}, c * w <= 256
      PROVE  /\ h * w \in Nat /\ h * w + w - 1 < c * w /\ c * w \in Nat
             /\ UChar(h * w) = h * w /\ UChar(h * w + w - 1) = h * w + w - 1
  <2>1. h + 1 <= c
    BY <1>1
  <2>2. (h + 1) * w <= c * w /\ (h + 1) * w = h * w + w
    BY <2>1
  <2>3. PICK a \in Nat, b \in Nat : a = h * w /\ b = c * w
    OBVIOUS
  <2>4. a + w <= b /\ b <= 256
    BY <1>1, <2>2, <2>3
  <2>5. a % 256 = a /\ (a + w - 1) % 256 = a + w - 1 /\ a + w - 1 < b
    BY <2>4
  <2> QED BY <2>3, <2>5 DEF UChar
<1>2. ASSUME NEW h \in Nat, NEW e \in Nat, h < e, NEW w \in Nat \ {0}
      PROVE  h * w + w - 1 < e * w
  <2>1. h + 1 <= e
    BY <1>2
  <2>2. (h + 1) * w <= e * w /\ (h + 1) * w = h * w + w
    BY <2>1
  <2>3. PICK a \in Nat, b \in Nat : a = h * w /\ b = e * w
    OBVIOUS
  <2>4. a + w <= b
    BY <2>2, <2>3
  <2> QED BY <2>3, <2>4
<1>3. ASSUME IInv, \A r \in DOMAIN registers : registers[r] <= 256 PROVE SubRegistersDisjoint
  <2>1. CASE pc \notin {"mapVariablesToBitfields", "done"}
    <3>1. bitfields = << >>
      BY <2>1, <1>3 DEF IInv, FieldsOK
    <3> QED BY <3>1 DEF SubRegistersDisjoint
  <2>2. CASE pc \in {"mapVariablesToBitfields", "done"}
    <3>1. /\ DOMAIN bitfields = 1..nSubRegs /\ DOMAIN registers = DOMAIN regFields
          /\ nSubRegs \in Nat /\ poolWidth \in Nat \ {0}
          /\ regFields \in Seq(SUBSET (0..(nSubRegs - 1)))
      <4>1. FieldsOK /\ TableOK /\ MergeOK /\ PassedOK /\ pc \notin BeforeMerge
            /\ pc \notin {"analyzeLifetime", "splitTable"}
        BY <1>3, <2>2 DEF IInv, BeforeMerge
      <4> QED BY <4>1, <2>2, PassedProgram, WidthsShape DEF FieldsOK, TableOK, MergeOK
    <3>2. ASSUME NEW s \in 1..nSubRegs
          PROVE  \E r \in DOMAIN regFields : \E h \in Nat :
                    /\ s - 1 \in regFields[r] /\ h = Rank(regFields[r], s - 1)
                    /\ h * poolWidth + poolWidth - 1 < registers[r]
                    /\ bitfields[s] = [reg |-> r - 1, msb |-> h * poolWidth + poolWidth - 1,
                                       lsb |-> h * poolWidth]
      <4>1. PICK r \in DOMAIN regFields, h \in Nat :
               /\ s - 1 \in regFields[r] /\ h = Rank(regFields[r], s - 1)
               /\ h < Cardinality(regFields[r]) /\ Cardinality(regFields[r]) \in Nat
               /\ registers[r] = Cardinality(regFields[r]) * poolWidth
               /\ bitfields[s] = [reg |-> r - 1, msb |-> UChar(h * poolWidth + poolWidth - 1),
                                  lsb |-> UChar(h * poolWidth)]
        BY <1>3, <2>2, CreatedField
      <4>2. registers[r] <= 256
        BY <1>3, <3>1
      <4>3. PICK c \in Nat, w \in Nat \ {0} : c = Cardinality(regFields[r]) /\ w = poolWidth
        BY <4>1, <3>1
      <4>4. c * w <= 256 /\ h < c
        BY <4>1, <4>2, <4>3
      <4>5. h * w + w - 1 < c * w /\ UChar(h * w) = h * w /\ UChar(h * w + w - 1) = h * w + w - 1
        BY <4>4, <1>1
      <4> QED BY <4>1, <4>3, <4>5
    <3>3. ASSUME NEW s \in 1..nSubRegs, NEW t \in 1..nSubRegs, s < t
          PROVE  ~Overlap(bitfields[s], bitfields[t])
      <4>1. PICK r \in DOMAIN regFields, h \in Nat :
               /\ s - 1 \in regFields[r] /\ h = Rank(regFields[r], s - 1)
               /\ bitfields[s] = [reg |-> r - 1, msb |-> h * poolWidth + poolWidth - 1,
                                  lsb |-> h * poolWidth]
        BY <3>2
      <4>2. PICK o \in DOMAIN regFields, e \in Nat :
               /\ t - 1 \in regFields[o] /\ e = Rank(regFields[o], t - 1)
               /\ bitfields[t] = [reg |-> o - 1, msb |-> e * poolWidth + poolWidth - 1,
                                  lsb |-> e * poolWidth]
        BY <3>2
      <4>3. r \in Nat /\ o \in Nat
        BY <3>1
      <4>4. CASE r # o
        BY <4>1, <4>2, <4>3, <4>4 DEF Overlap
      <4>5. CASE r = o
        <5>1. regFields[r] \subseteq 0..(nSubRegs - 1)
          BY <3>1
        <5>2. IsFiniteSet(regFields[r]) /\ regFields[r] \subseteq Int
          <6>1. IsFiniteSet(0..(nSubRegs - 1)) /\ 0..(nSubRegs - 1) \subseteq Int
            BY <3>1, FS_Interval
          <6>2. IsFiniteSet(regFields[r])
            BY <6>1, <5>1, FS_Subset
          <6> QED BY <6>1, <6>2, <5>1
        <5>3. s - 1 < t - 1
          BY <3>3, <3>1
        <5>4. h < e
          BY <4>1, <4>2, <4>5, <5>2, <5>3, RankShape
        <5>5. PICK w \in Nat \ {0} : w = poolWidth
          BY <3>1
        <5>6. h * w + w - 1 < e * w
          BY <5>4, <1>2
        <5>7. bitfields[s].msb < bitfields[t].lsb
          BY <4>1, <4>2, <5>5, <5>6
        <5>8. bitfields[s].msb \in Int /\ bitfields[t].lsb \in Int
          BY <4>1, <4>2, <5>5
        <5> QED BY <5>7, <5>8 DEF Overlap
      <4> QED BY <4>4, <4>5
    <3>4. ASSUME NEW s \in 1..nSubRegs, NEW t \in 1..nSubRegs, s # t
          PROVE  ~Overlap(bitfields[s], bitfields[t])
      <4>1. s < t \/ t < s
        BY <3>1, <3>4
      <4>2. Overlap(bitfields[s], bitfields[t]) => Overlap(bitfields[t], bitfields[s])
        BY DEF Overlap
      <4> QED BY <4>1, <4>2, <3>3
    <3>5. ASSUME NEW s \in 1..nSubRegs
          PROVE  bitfields[s].msb < registers[bitfields[s].reg + 1]
      <4>1. PICK r \in DOMAIN regFields, h \in Nat :
               /\ h * poolWidth + poolWidth - 1 < registers[r]
               /\ bitfields[s] = [reg |-> r - 1, msb |-> h * poolWidth + poolWidth - 1,
                                  lsb |-> h * poolWidth]
        BY <3>2
      <4>2. r \in Int /\ (r - 1) + 1 = r
        BY <3>1
      <4> QED BY <4>1, <4>2
    <3> QED BY <3>1, <3>4, <3>5 DEF SubRegistersDisjoint
  <2> QED BY <2>1, <2>2
<1>4. IInv => ((\A r \in DOMAIN registers : registers[r] <= 256) => SubRegistersDisjoint)
  BY <1>3
<1> QED BY <1>4, Invariance, PTL

(* A table of the elements of a set is one of a larger set's.               *)
LEMMA SeqOfLarger ==
    ASSUME NEW A, NEW B, A \subseteq B, NEW s \in Seq(A)
    PROVE  s \in Seq(B)
OBVIOUS

(* A function of the numbers up to n is a table. *)
LEMMA FunctionIsSeq ==
    ASSUME NEW A, NEW n \in Nat, NEW f \in [1..n -> A]
    PROVE  f \in Seq(A)
OBVIOUS

(* The bounds of a field are kept in eight bits. *)
Field == [reg: Nat, msb: 0..255, lsb: 0..255]

(* The bits that span some fields of eight bits are a field of eight bits.  *)
LEMMA SpanType ==
    ASSUME NEW n \in Nat, NEW fs \in [1..n -> Field],
           NEW S \in SUBSET (0..(n - 1)), S # {}
    PROVE  Span(fs, S) \in Field
<1>1. S \subseteq Int /\ IsFiniteSet(S)
  <2>1. IsFiniteSet(0..(n - 1)) /\ 0..(n - 1) \subseteq Int
    BY FS_Interval
  <2>2. IsFiniteSet(S)
    BY <2>1, FS_Subset
  <2> QED BY <2>1, <2>2
<1>2. \A s \in S : s + 1 \in 1..n
  OBVIOUS
<1> DEFINE f == [s \in S |-> fs[s + 1].msb]
           g == [s \in S |-> fs[s + 1].lsb]
           M == {f[s] : s \in S}
           L == {g[s] : s \in S}
<1>3. \A s \in S : fs[s + 1] \in Field
  BY <1>2
<1>4. M \subseteq 0..255 /\ L \subseteq 0..255 /\ M # {} /\ L # {}
  <2>1. \A s \in S : fs[s + 1].msb \in 0..255 /\ fs[s + 1].lsb \in 0..255
    BY <1>3 DEF Field
  <2>2. PICK x : x \in S
    OBVIOUS
  <2>3. f[x] \in M /\ g[x] \in L
    BY <2>2
  <2>4. ASSUME NEW y \in M PROVE y \in 0..255
    <3>1. PICK s \in S : y = fs[s + 1].msb
      OBVIOUS
    <3> QED BY <3>1, <2>1
  <2>5. ASSUME NEW y \in L PROVE y \in 0..255
    <3>1. PICK s \in S : y = fs[s + 1].lsb
      OBVIOUS
    <3> QED BY <3>1, <2>1
  <2> HIDE DEF M, L
  <2> QED BY <2>3, <2>4, <2>5
<1>5. M = {fs[s + 1].msb : s \in S} /\ L = {fs[s + 1].lsb : s \in S}
  OBVIOUS
<1>6. f = [s \in S |-> f[s]] /\ g = [s \in S |-> g[s]]
  OBVIOUS
<1> HIDE DEF f, g
<1>7. IsFiniteSet(M) /\ IsFiniteSet(L)
  BY <1>1, <1>6, FiniteRange
<1> HIDE DEF M, L
<1>8. M \subseteq Int /\ L \subseteq Int
  BY <1>4
<1>9. Max(M) \in 0..255
  <2>1. Max(M) \in M
    BY <1>4, <1>7, <1>8, MaxIsGreatest
  <2> QED BY <2>1, <1>4
<1>10. Min(L) \in 0..255
  <2>1. Min(L) \in L
    BY <1>4, <1>7, <1>8, MinIsLeast
  <2> QED BY <2>1, <1>4
<1>11. Min(S) \in S
  BY <1>1, MinIsLeast
<1>12. fs[Min(S) + 1].reg \in Nat
  BY <1>3, <1>11 DEF Field
<1>13. Span(fs, S) = [reg |-> fs[Min(S) + 1].reg, msb |-> Max(M), lsb |-> Min(L)]
  BY <1>5 DEF Span
<1> QED BY <1>9, <1>10, <1>12, <1>13 DEF Field

(* The binder's tables keep their types: see TypeOK.                        *)
THEOREM TypeCorrect == Spec => []TypeOK
<1>1. ASSUME IInv PROVE TypeOK
  <2>1. /\ PassedOK /\ LifetimesOK /\ TableOK /\ EdgeOK /\ MergeOK /\ FieldsOK
        /\ IsProgram(prog)
    BY <1>1, PassedProgram DEF IInv
  <2>2. PICK n \in Nat : Variables(prog) = 1..n
    BY <2>1, WidthsShape
  <2>3. Range(addr) = Variables(prog) /\ Len(addr) = Len(prog.width)
    BY <2>1, AddressShape DEF PassedOK
  <2>4. lt \in Seq([def: Nat, use: Nat])
    <3>1. \A v \in Variables(prog) : Lifetime(prog, v) \in [def: Nat, use: Nat]
      BY <2>1, LifetimeType
    <3>2. PICK T : T = [def: Nat, use: Nat]
      OBVIOUS
    <3>3. [v \in 1..n |-> Lifetime(prog, v)] \in [1..n -> T]
      BY <2>2, <3>1, <3>2
    <3>4. [v \in 1..n |-> Lifetime(prog, v)] \in Seq(T)
      BY <3>3, FunctionIsSeq
    <3>5. lt = << >> \/ lt = [v \in 1..n |-> Lifetime(prog, v)]
      BY <2>1, <2>2 DEF LifetimesOK
    <3>6. << >> \in Seq(T)
      OBVIOUS
    <3>7. lt \in Seq(T)
      BY <3>4, <3>5, <3>6, Zenon
    <3> QED BY <3>2, <3>7
  <2>5. nSubRegs \in Nat /\ poolWidth \in Nat
    BY <2>1, WidthsShape DEF TableOK
  <2>6. /\ table \in Seq([var: Variables(prog), id: Nat])
        /\ sub \in Seq(Nat \cup {Unbound})
    <3>1. CASE pc \in {"analyzeLifetime", "splitTable"}
      BY <3>1, <2>1 DEF TableOK
    <3>2. CASE pc \notin {"analyzeLifetime", "splitTable"}
      <4>1. Pools \subseteq [var: Variables(prog), id: Nat]
        BY <2>1, PoolsShape
      <4>2. table \in Seq(Pools) /\ sub \in [DOMAIN table -> (0..(nSubRegs - 1)) \cup {Unbound}]
        BY <3>2, <2>1 DEF TableOK
      <4>3. Len(table) \in Nat /\ DOMAIN table = 1..Len(table)
        BY <4>2
      <4>4. sub \in [1..Len(table) -> Nat \cup {Unbound}]
        BY <4>2, <4>3, <2>5
      <4>5. table \in Seq([var: Variables(prog), id: Nat])
        BY <4>1, <4>2, SeqOfLarger
      <4> QED BY <4>3, <4>4, <4>5
    <3> QED BY <3>1, <3>2
  <2>7. 0..(nSubRegs - 1) \subseteq Nat
    BY <2>5
  <2>8. /\ varSubRegs \in Seq([var: Variables(prog), subs: SUBSET Nat])
        /\ lookup \in Seq(Nat \cup {Unbound}) /\ regFields \in Seq(SUBSET Nat)
    <3>1. CASE pc \in BeforeMerge
      BY <3>1, <2>1 DEF MergeOK
    <3>2. CASE pc \notin BeforeMerge
      <4>1. /\ varSubRegs \in Seq(Held) /\ lookup \in [1..nSubRegs -> Nat \cup {Unbound}]
            /\ regFields \in Seq(SUBSET (0..(nSubRegs - 1)))
        BY <3>2, <2>1 DEF MergeOK
      <4>2. /\ pc \notin {"analyzeLifetime", "splitTable"}
            /\ \A j \in DOMAIN table : sub[j] # Unbound
        BY <3>2, <2>1 DEF BeforeMerge, EdgeOK
      <4>3. \A v \in Variables(prog) : SubRegsOf(table, sub, v) \in SUBSET Nat
        BY <4>2, <2>1, <2>7, HeldShape
      <4>4. Held \subseteq [var: Variables(prog), subs: SUBSET Nat]
        BY <4>3 DEF Held
      <4>5. varSubRegs \in Seq([var: Variables(prog), subs: SUBSET Nat])
        BY <4>1, <4>4, SeqOfLarger
      <4>6. lookup \in Seq(Nat \cup {Unbound})
        BY <4>1, <2>5
      <4>7. regFields \in Seq(SUBSET Nat)
        BY <4>1, <2>7
      <4> QED BY <4>5, <4>6, <4>7
    <3> QED BY <3>1, <3>2
  <2>9. /\ registers \in Seq(Nat)
        /\ bitfields \in Seq(Field)
        /\ binding \in Seq(Field)
    <3>1. CASE pc \notin {"mapVariablesToBitfields", "done"}
      BY <3>1, <2>1 DEF FieldsOK
    <3>2. CASE pc \in {"mapVariablesToBitfields", "done"}
      <4>1. /\ registers = [r \in DOMAIN regFields |-> Cardinality(regFields[r]) * poolWidth]
            /\ bitfields = [s \in 1..nSubRegs |-> FieldOf(regFields, poolWidth, s - 1)]
            /\ regFields \in Seq(SUBSET (0..(nSubRegs - 1)))
            /\ pc \notin {"analyzeLifetime", "splitTable"}
            /\ \A j \in DOMAIN table : sub[j] # Unbound
        BY <3>2, <2>1 DEF FieldsOK, MergeOK, EdgeOK, BeforeMerge
      <4>2. \A r \in DOMAIN regFields : registers[r] \in Nat
        <5> SUFFICES ASSUME NEW r \in DOMAIN regFields PROVE registers[r] \in Nat
          OBVIOUS
        <5>1. regFields[r] \subseteq 0..(nSubRegs - 1)
          BY <4>1
        <5>2. IsFiniteSet(0..(nSubRegs - 1))
          BY <2>5, FS_Interval
        <5>3. Cardinality(regFields[r]) \in Nat
          BY <5>1, <5>2, FS_Subset, FS_CardinalityType
        <5> QED BY <5>3, <4>1, <2>5
      <4>3. registers \in Seq(Nat)
        <5>1. PICK m \in Nat : DOMAIN regFields = 1..m
          BY <4>1
        <5>2. registers \in [1..m -> Nat]
          BY <5>1, <4>1, <4>2
        <5> QED BY <5>2
      <4>4. ASSUME NEW s \in 1..nSubRegs
            PROVE  bitfields[s] \in Field
        <5>1. PICK r \in DOMAIN regFields, h \in Nat :
                 bitfields[s] = [reg |-> r - 1, msb |-> UChar(h * poolWidth + poolWidth - 1),
                                 lsb |-> UChar(h * poolWidth)]
          BY <1>1, <3>2, CreatedField
        <5>2. \A i \in Int : UChar(i) \in 0..255
          BY DEF UChar
        <5>3. h * poolWidth \in Int /\ h * poolWidth + poolWidth - 1 \in Int
          BY <2>5
        <5>4. r - 1 \in Nat
          BY <4>1
        <5>5. UChar(h * poolWidth) \in 0..255
          BY <5>2, <5>3
        <5>6. UChar(h * poolWidth + poolWidth - 1) \in 0..255
          BY <5>2, <5>3
        <5> QED BY <5>1, <5>4, <5>5, <5>6 DEF Field
      <4>5. bitfields \in [1..nSubRegs -> Field]
        BY <4>1, <4>4
      <4>6. bitfields \in Seq(Field)
        BY <4>5, <2>5, FunctionIsSeq
      <4>7. \A v \in Variables(prog) :
               Span(bitfields, SubRegsOf(table, sub, v)) \in Field
        <5> SUFFICES ASSUME NEW v \in Variables(prog)
                     PROVE  Span(bitfields, SubRegsOf(table, sub, v))
                               \in Field
          OBVIOUS
        <5>1. PICK S : S = SubRegsOf(table, sub, v)
          OBVIOUS
        <5>2. S \in SUBSET (0..(nSubRegs - 1)) /\ S # {}
          BY <5>1, <4>1, <2>1, HeldShape
        <5> QED BY <5>1, <5>2, <4>5, <2>5, SpanType
      <4>8. binding \in Seq(Field)
        <5>1. CASE pc # "done"
          BY <5>1, <2>1 DEF FieldsOK
        <5>2. CASE pc = "done"
          <6>1. binding = [v \in 1..n |-> Span(bitfields, SubRegsOf(table, sub, v))]
            BY <5>2, <2>1, <2>2 DEF FieldsOK
          <6>2. binding \in [1..n -> Field]
            BY <6>1, <4>7, <2>2
          <6> QED BY <6>2, FunctionIsSeq
        <5> QED BY <5>1, <5>2
      <4> QED BY <4>3, <4>6, <4>8
    <3> QED BY <3>1, <3>2
  <2> QED BY <2>1, <2>3, <2>4, <2>5, <2>6, <2>8, <2>9
         DEF TypeOK, PassedOK, LifetimesOK, Field
<1>2. IInv => TypeOK
  BY <1>1
<1> QED BY <1>2, Invariance, PTL

-----------------------------------------------------------------------------
(***************************************************************************)
(* Proofs about hungarian_solve, for every problem whose costs are within  *)
(* CostLimit: its arrays stay well typed, the forest leads back to a root, *)
(* the matching is along entries of reduced cost zero, the double check at *)
(* the end does not fail, and the assignment is the best there is.         *)
(*                                                                         *)
(* The inductive invariant has a part for every array.  The reduced costs  *)
(* are never negative, because a dual value changes by the least slack and *)
(* a slack is at most the reduced cost of every row explored; this needs   *)
(* that no row is in the forest twice, so that its dual value changes by   *)
(* the slack once.  A slack is never INF once a row is explored, because   *)
(* some column is still free, has never been raised, and so bounds the     *)
(* dual values of the rows; without it a column could be reached through   *)
(* a slack_row of an earlier stage.                                        *)
(***************************************************************************)

-----------------------------------------------------------------------------
(* The inductive invariant.                                                *)

(* No cost is greater when the least of its column is subtracted. *)
Spread == 2 * CostLimit

Unmatched == {i \in Index : col_mate[i] = None}

(* Before the first section nothing is known but the costs. *)
ColumnsStage ==
    section = "columns" =>
        /\ \A i, j \in Index : cost[i][j] \in Int
        /\ \A i, m, j \in Index : cost[i][j] - cost[m][j] <= Spread
        /\ row_dec = [i \in Index |-> 0] /\ col_inc = [j \in Index |-> 0]
        /\ unchosen_row = << >> /\ q = 0

(* The reduced costs are not negative, nor are the dual values; a column    *)
(* is not raised before it has a row.                                       *)
Dual ==
    section # "columns" =>
        /\ \A i, j \in Index : cost[i][j] \in 0..Spread /\ Reduced(i, j) >= 0
        /\ \A i \in Index : row_dec[i] >= 0
        /\ \A j \in Index : col_inc[j] >= 0 /\ (row_mate[j] = None => col_inc[j] = 0)

(* The two arrays describe one matching, along entries of reduced cost      *)
(* zero, of all columns but those of S.                                     *)
Mates(S) ==
    /\ \A i \in Index : col_mate[i] # None =>
          /\ col_mate[i] \notin S
          /\ row_mate[col_mate[i]] = i /\ Reduced(i, col_mate[i]) = 0
    /\ \A j \in Index \ S : row_mate[j] # None => col_mate[row_mate[j]] = j

Matched ==
    /\ section \in {"explore", "check", "done"} => Mates({})
    /\ section = "augment" => Mates({l})

Counted ==
    /\ section \in {"explore", "augment"} => unmatched = Cardinality(Unmatched) /\ unmatched # 0
    /\ section \in {"check", "done"} => unmatched = 0 /\ Unmatched = {}

(* The first m rows have been given a column or made a root. *)
Served(m) ==
    /\ \A i \in Index : i >= m => row_dec[i] = 0
    /\ \A i \in Index : i < m /\ col_mate[i] # None =>
          row_mate[col_mate[i]] = i /\ Reduced(i, col_mate[i]) = 0
    /\ \A j \in Index : row_mate[j] # None =>
          row_mate[j] < m /\ col_mate[row_mate[j]] = j
    /\ IsInjective(unchosen_row)
    /\ \A i \in Index : i \in ToSet(unchosen_row) <=> i < m /\ col_mate[i] = None

RowsStage ==
    section = "rows" =>
        /\ col_inc = [j \in Index |-> 0] /\ slack = [j \in Index |-> INF]
        /\ parent_row = [j \in Index |-> None] /\ q = 0
        /\ Served(k)

(* The x-th row of the forest is a root, or its column was reached through  *)
(* an earlier one.                                                          *)
PathBack(x) ==
    LET j == col_mate[unchosen_row[x]]
    IN j # None => /\ \E y \in 1..(x - 1) : unchosen_row[y] = parent_row[j]
                   /\ Reduced(parent_row[j], j) = 0

Forest ==
    section = "explore" =>
        /\ unchosen_row # << >> /\ IsInjective(unchosen_row)
        /\ \A i \in Index : i \in ToSet(unchosen_row) <=>
              col_mate[i] = None \/ slack[col_mate[i]] = 0
        /\ \A j \in Index : slack[j] = 0 => row_mate[j] # None
        /\ \A x \in DOMAIN unchosen_row : PathBack(x)

(* The slack of a column is the least reduced cost of the rows explored.    *)
Slack ==
    section = "explore" =>
        \A j \in Index : slack[j] # 0 =>
            /\ slack[j] \in 1..INF
            /\ \A x \in 1..q : Reduced(unchosen_row[x], j) >= slack[j]
            /\ slack[j] # INF => \E x \in 1..q :
                  slack_row[j] = unchosen_row[x] /\ Reduced(unchosen_row[x], j) = slack[j]

(* The way back from the column l has come to row k of the forest. *)
WayBack ==
    section = "augment" =>
        /\ IsInjective(unchosen_row) /\ Reduced(k, l) = 0
        /\ \E x \in DOMAIN unchosen_row : unchosen_row[x] = k /\ \A y \in 1..x : PathBack(y)

HungarianInv ==
    /\ HungarianTypeOK /\ section # "exit"
    /\ ColumnsStage /\ RowsStage /\ Dual /\ Matched /\ Counted /\ Forest /\ Slack /\ WayBack

-----------------------------------------------------------------------------
(* What the definitions of the model return.                               *)

(* The sums of the solver stay below INF. *)
LEMMA Limits ==
    /\ CostLimit \in Nat /\ Spread \in Nat /\ INF \in Nat /\ INF # 0
    /\ Spread = CostLimit + CostLimit /\ Spread + Spread < INF
BY SMT DEF CostLimit, Spread, INF

(* The greater of two numbers. *)
LEMMA MaxOfTwo ==
    ASSUME NEW a \in Nat \ {0}, NEW b \in Nat \ {0}
    PROVE  Max({a, b}) \in Nat \ {0} /\ Max({a, b}) >= a /\ Max({a, b}) >= b
<1>1. IsFiniteSet({a} \cup {b})
  BY FS_Singleton, FS_Union
<1>2. {a, b} = {a} \cup {b}
  OBVIOUS
<1>3. Max({a, b}) \in {a, b} /\ \A n \in {a, b} : Max({a, b}) >= n
  <2>1. {a, b} \subseteq Int /\ {a, b} # {} /\ IsFiniteSet({a, b})
    BY <1>1, <1>2
  <2> QED BY <2>1, MaxIsGreatest
<1> QED BY <1>3

(* The rows and the columns are an interval from 0. *)
LEMMA IndexShape ==
    ASSUME problem \in Problems
    PROVE  /\ Size(problem) \in Nat \ {0} /\ Index = 0..(Size(problem) - 1)
           /\ 0 \in Index /\ Index \subseteq Nat /\ None \notin Index
           /\ IsFiniteSet(Index) /\ Cardinality(Index) = Size(problem)
           /\ 0..(problem.rows - 1) \subseteq Index /\ 0..(problem.cols - 1) \subseteq Index
<1>1. problem.rows \in Nat \ {0} /\ problem.cols \in Nat \ {0}
  BY ProblemsAssumption
<1>2. /\ Size(problem) \in Nat \ {0}
      /\ Size(problem) >= problem.rows /\ Size(problem) >= problem.cols
  BY <1>1, MaxOfTwo DEF Size
<1>3. Index = 0..(Size(problem) - 1)
  BY DEF Index
<1>4. 0 \in Index /\ Index \subseteq Nat /\ None \notin Index
  BY <1>2, <1>3 DEF None
<1>5. IsFiniteSet(Index) /\ Cardinality(Index) = Size(problem)
  BY <1>2, <1>3, FS_Interval
<1>6. 0..(problem.rows - 1) \subseteq Index /\ 0..(problem.cols - 1) \subseteq Index
  BY <1>1, <1>2, <1>3
<1> QED BY <1>2, <1>3, <1>4, <1>5, <1>6

(* A problem that does not change has the same rows and columns. *)
LEMMA IndexFixed == problem' = problem => Index' = Index
BY DEF Index, Size

(* The least of the values of a function over the rows or columns.         *)
LEMMA MinOverIndex ==
    ASSUME problem \in Problems, NEW f, f = [i \in Index |-> f[i]],
           \A i \in Index : f[i] \in Int
    PROVE  LET S == {f[i] : i \in Index}
           IN (\E m \in Index : Min(S) = f[m]) /\ \A i \in Index : Min(S) <= f[i]
<1> DEFINE S == {f[i] : i \in Index}
<1>1. IsFiniteSet(S)
  BY IndexShape, FiniteRange
<1>2. S \subseteq Int /\ S # {}
  BY IndexShape
<1>3. Min(S) \in S /\ \A v \in S : Min(S) <= v
  <2> HIDE DEF S
  <2> QED BY <1>1, <1>2, MinIsLeast
<1> QED BY <1>3

(* The first of a nonempty set of columns. *)
LEMMA FirstColumn ==
    ASSUME problem \in Problems, NEW S, S \subseteq Index, S # {}
    PROVE  Min(S) \in S /\ \A j \in S : Min(S) <= j
<1>1. S \subseteq Int /\ IsFiniteSet(S)
  BY IndexShape, FS_Subset
<1> QED BY <1>1, MinIsLeast

(* Ascending lists a set of columns, each once. *)
LEMMA AscendingLists ==
    ASSUME problem \in Problems, NEW S, S \subseteq Index
    PROVE  /\ Ascending(S) \in Seq(S) /\ IsInjective(Ascending(S))
           /\ \A j \in S : \E x \in DOMAIN Ascending(S) : Ascending(S)[x] = j
<1> DEFINE n == Cardinality(S)
           a == Ascending(S)
<1>1. S \subseteq Int /\ IsFiniteSet(S)
  BY IndexShape, FS_Subset
<1>2. a \in [1..n -> S] /\ \A x, y \in DOMAIN a : x < y => a[x] < a[y]
  BY <1>1, AscendingExists DEF Ascending
<1>3. n \in Nat /\ IsFiniteSet(1..n) /\ Cardinality(1..n) = n
  BY <1>1, FS_CardinalityType, FS_Interval
<1> HIDE DEF a, n
<1>4. IsInjective(a)
  <2> SUFFICES ASSUME NEW x \in 1..n, NEW y \in 1..n, a[x] = a[y], x # y PROVE FALSE
    BY <1>2 DEF IsInjective
  <2>1. a[x] \in Int /\ x \in Int /\ y \in Int
    <3>1. a[x] \in S
      BY <1>2
    <3>2. x \in Int /\ y \in Int
      BY <1>3
    <3> QED BY <3>1, <3>2, <1>1
  <2>2. x < y \/ y < x
    BY <2>1
  <2>3. a[x] < a[y] \/ a[y] < a[x]
    BY <2>2, <1>2
  <2> QED BY <2>1, <2>3
<1>5. a \in Injection(1..n, S)
  BY <1>2, <1>4 DEF Injection, IsInjective
<1>6. a \in Surjection(1..n, S)
  <2>1. Cardinality(1..n) = Cardinality(S)
    BY <1>3 DEF n
  <2> QED BY <2>1, <1>1, <1>5, FS_Injection
<1>7. a \in Seq(S)
  BY <1>2, <1>3
<1> QED BY <1>2, <1>4, <1>6, <1>7 DEF a, Surjection

(* The costs of the square matrix are costs of the argument, or 0. *)
LEMMA PaddedShape ==
    ASSUME problem \in Problems
    PROVE  /\ \A i, j \in Index : Padded(problem)[i][j] \in (-CostLimit)..CostLimit
           /\ MaxCost(problem) \in Int
<1> DEFINE p == problem
           Range0 == (-CostLimit)..CostLimit
           pad(i, j) == IF i < p.rows /\ j < p.cols THEN p.cost[i][j] ELSE 0
<1>1. /\ p.rows \in Nat \ {0} /\ p.cols \in Nat \ {0}
      /\ p.cost \in [0..(p.rows - 1) -> [0..(p.cols - 1) -> Range0]]
  BY ProblemsAssumption
<1>2. Index = 0..(Size(p) - 1) /\ Index \subseteq Nat
  BY IndexShape
<1>3. \A i, j \in Index : pad(i, j) \in Range0
  <2> SUFFICES ASSUME NEW i \in Index, NEW j \in Index PROVE pad(i, j) \in Range0
    OBVIOUS
  <2>1. CASE i < p.rows /\ j < p.cols
    <3>1. i \in 0..(p.rows - 1) /\ j \in 0..(p.cols - 1)
      BY <1>1, <1>2, <2>1
    <3>2. p.cost[i] \in [0..(p.cols - 1) -> Range0]
      BY <1>1, <3>1
    <3>3. p.cost[i][j] \in Range0
      BY <3>1, <3>2
    <3> QED BY <2>1, <3>3
  <2>2. CASE ~(i < p.rows /\ j < p.cols)
    <3>1. 0 \in Range0
      BY Limits
    <3> QED BY <2>2, <3>1
  <2> QED BY <2>1, <2>2
<1>4. Padded(p) = [i \in Index |-> [j \in Index |-> pad(i, j)]]
  BY <1>2 DEF Padded
<1>5. MaxCost(p) \in Int
  <2> DEFINE S == {0} \cup {p.cost[i][j] : i \in 0..(p.rows - 1), j \in 0..(p.cols - 1)}
  <2>1. S \subseteq Range0 /\ S # {}
    <3>1. \A i \in 0..(p.rows - 1) : p.cost[i] \in [0..(p.cols - 1) -> Range0]
      BY <1>1
    <3>2. \A i \in 0..(p.rows - 1), j \in 0..(p.cols - 1) : p.cost[i][j] \in Range0
      BY <3>1
    <3>3. 0 \in Range0
      BY Limits
    <3> HIDE DEF Range0
    <3> QED BY <3>2, <3>3
  <2>2. IsFiniteSet(Range0) /\ Range0 \subseteq Int
    BY Limits, FS_Interval
  <2>3. MaxCost(p) = Max(S)
    BY DEF MaxCost
  <2> HIDE DEF S, Range0
  <2>4. IsFiniteSet(S) /\ S \subseteq Int
    BY <2>1, <2>2, FS_Subset
  <2>5. Max(S) \in S
    BY <2>1, <2>4, MaxIsGreatest
  <2> QED BY <2>3, <2>4, <2>5
<1> HIDE DEF Range0, pad
<1>6. \A i, j \in Index : Padded(p)[i][j] = pad(i, j)
  BY <1>4
<1> QED BY <1>3, <1>5, <1>6 DEF Range0

(* The costs of the square matrix are numbers, and those of a column are   *)
(* within Spread of one another.                                           *)
LEMMA SquareCostShape ==
    ASSUME problem \in Problems
    PROVE  /\ SquareCost(problem) \in [Index -> [Index -> Int]]
           /\ \A i, m, j \in Index :
                 SquareCost(problem)[i][j] - SquareCost(problem)[m][j] <= Spread
<1> DEFINE p == problem
           pad(i, j) == Padded(p)[i][j]
<1>1. Index = 0..(Size(p) - 1)
  BY IndexShape
<1>2. Padded(p) = [i \in Index |-> [j \in Index |-> pad(i, j)]]
  BY <1>1 DEF Padded
<1>3. MaxCost(p) \in Int
  BY PaddedShape
<1>4. \A i, j \in Index : pad(i, j) \in Int /\ -CostLimit <= pad(i, j) /\ pad(i, j) <= CostLimit
  BY PaddedShape, Limits
<1> HIDE DEF pad
<1>5. \A i, m, j \in Index : pad(i, j) - pad(m, j) <= Spread
  BY <1>4, Limits
<1>6. CASE problem.mode = MINIMIZE_COST
  <2>1. SquareCost(p) = [i \in Index |-> [j \in Index |-> pad(i, j)]]
    BY <1>2, <1>6 DEF SquareCost
  <2> QED BY <2>1, <1>4, <1>5
<1>7. CASE problem.mode # MINIMIZE_COST
  <2>1. SquareCost(p) = [i \in Index |-> [j \in Index |-> MaxCost(p) - pad(i, j)]]
    BY <1>1, <1>7 DEF SquareCost, pad
  <2>2. \A i, m, j \in Index : (MaxCost(p) - pad(i, j)) - (MaxCost(p) - pad(m, j)) <= Spread
    BY <1>3, <1>4, <1>5, Limits
  <2> QED BY <2>1, <2>2, <1>3, <1>4
<1> QED BY <1>6, <1>7

(* A sequence of rows without repetition is as long as it has rows. *)
LEMMA LengthOfRows ==
    ASSUME problem \in Problems, NEW s \in Seq(Index), IsInjective(s)
    PROVE  Len(s) = Cardinality(ToSet(s)) /\ ToSet(s) \subseteq Index
<1>1. Len(s) \in Nat /\ DOMAIN s = 1..Len(s) /\ ToSet(s) = {s[x] : x \in 1..Len(s)}
  BY DEF ToSet
<1>2. s \in [1..Len(s) -> ToSet(s)] /\ ToSet(s) \subseteq Index
  BY <1>1
<1>3. s \in Bijection(1..Len(s), ToSet(s))
  BY <1>1, <1>2 DEF Bijection, Injection, Surjection, IsInjective
<1>4. IsFiniteSet(1..Len(s)) /\ Cardinality(1..Len(s)) = Len(s)
  BY <1>1, FS_Interval
<1>5. Cardinality(1..Len(s)) = Cardinality(ToSet(s))
  <2> DEFINE D == 1..Len(s)
             T == ToSet(s)
  <2>1. IsFiniteSet(D) /\ s \in Bijection(D, T)
    BY <1>3, <1>4
  <2> HIDE DEF D, T
  <2>2. Cardinality(D) = Cardinality(T)
    BY <2>1, FS_Bijection DEF ExistsBijection
  <2> QED BY <2>2 DEF D, T
<1> QED BY <1>2, <1>4, <1>5

(* A row that is appended joins the others. *)
LEMMA AppendedRow ==
    ASSUME NEW T, NEW s \in Seq(T), NEW e \in T, IsInjective(s), e \notin ToSet(s)
    PROVE  /\ Append(s, e) \in Seq(T) /\ IsInjective(Append(s, e))
           /\ ToSet(Append(s, e)) = ToSet(s) \cup {e}
<1>1. /\ Append(s, e) \in Seq(T) /\ Len(Append(s, e)) = Len(s) + 1 /\ Len(s) \in Nat
      /\ DOMAIN s = 1..Len(s) /\ DOMAIN Append(s, e) = 1..(Len(s) + 1)
      /\ \A x \in 1..Len(s) : Append(s, e)[x] = s[x]
      /\ Append(s, e)[Len(s) + 1] = e
  OBVIOUS
<1>2. \A x \in 1..(Len(s) + 1) : x \in 1..Len(s) \/ x = Len(s) + 1
  BY <1>1
<1>3. \A x \in 1..Len(s) : s[x] \in ToSet(s)
  BY <1>1 DEF ToSet
<1>4. IsInjective(Append(s, e))
  BY <1>1, <1>2, <1>3 DEF IsInjective
<1>5. ToSet(Append(s, e)) = ToSet(s) \cup {e}
  BY <1>1, <1>2 DEF ToSet
<1> QED BY <1>1, <1>4, <1>5

-----------------------------------------------------------------------------
(* The first sections.                                                     *)

(* A problem is at its beginning. *)
LEMMA HungarianInitInv == HungarianInit => HungarianInv
<1> SUFFICES ASSUME HungarianInit PROVE HungarianInv
  OBVIOUS
<1>1. /\ problem \in Problems /\ section = "columns" /\ cost = SquareCost(problem)
      /\ row_dec = [i \in Index |-> 0] /\ col_inc = [j \in Index |-> 0]
      /\ unchosen_row = << >> /\ q = 0
  BY DEF HungarianInit
<1>2. Size(problem) \in Nat /\ 0 \in Index
  BY <1>1, IndexShape
<1>3. HungarianTypeOK
  <2>1. cost \in [Index -> [Index -> Int]]
    BY <1>1, SquareCostShape
  <2> QED BY <1>1, <1>2, <2>1 DEF HungarianInit, HungarianTypeOK
<1>4. ColumnsStage
  <2>1. \A i, j \in Index : cost[i][j] \in Int
    BY <1>3 DEF HungarianTypeOK
  <2>2. \A i, m, j \in Index : cost[i][j] - cost[m][j] <= Spread
    BY <1>1, SquareCostShape
  <2> QED BY <1>1, <2>1, <2>2 DEF ColumnsStage
<1> QED
  BY <1>1, <1>3, <1>4 DEF HungarianInv, RowsStage, Dual, Matched, Counted, Forest, Slack, WayBack

(* The first section leaves costs that are not negative. *)
LEMMA subtractColumnMinimaStep ==
    ASSUME HungarianInv, subtractColumnMinima
    PROVE  HungarianInv'
<1>1. /\ HungarianTypeOK /\ ColumnsStage /\ section = "columns" /\ problem \in Problems
      /\ cost' = [i \in Index |-> [j \in Index |-> cost[i][j] - Min({cost[m][j] : m \in Index})]]
      /\ row_mate' = [j \in Index |-> None] /\ parent_row' = [j \in Index |-> None]
      /\ slack' = [j \in Index |-> INF] /\ section' = "rows" /\ k' = 0
      /\ UNCHANGED <<problem, row_dec, col_inc, col_mate, slack_row, unchosen_row, q, unmatched, l>>
  BY DEF HungarianInv, HungarianTypeOK, subtractColumnMinima
<1>2. Index' = Index /\ 0 \in Index /\ Index \subseteq Nat /\ Size(problem) \in Nat
  BY <1>1, IndexShape, IndexFixed
<1>3. ASSUME NEW i \in Index, NEW j \in Index
      PROVE  cost'[i][j] \in 0..Spread
  <2> DEFINE f == [m \in Index |-> cost[m][j]]
             S == {f[m] : m \in Index}
  <2>1. \A m \in Index : f[m] = cost[m][j] /\ f[m] \in Int
    BY <1>1 DEF ColumnsStage
  <2>2. f = [m \in Index |-> f[m]]
    OBVIOUS
  <2>3. S = {cost[m][j] : m \in Index}
    BY <2>1
  <2>4. cost'[i][j] = f[i] - Min(S)
    BY <1>1, <2>1, <2>3
  <2> HIDE DEF f
  <2>5. (\E m \in Index : Min(S) = f[m]) /\ Min(S) <= f[i]
    BY <1>1, <2>1, <2>2, MinOverIndex
  <2>6. PICK m \in Index : Min(S) = f[m]
    BY <2>5
  <2>7. cost[i][j] - cost[m][j] <= Spread
    BY <1>1 DEF ColumnsStage
  <2> HIDE DEF S
  <2>8. f[i] \in Int /\ f[m] \in Int /\ f[i] - f[m] <= Spread
    BY <2>1, <2>7
  <2> QED BY <2>4, <2>5, <2>6, <2>8, Limits
<1>4. row_dec = [i \in Index |-> 0] /\ col_inc = [j \in Index |-> 0] /\ unchosen_row = << >> /\ q = 0
  BY <1>1 DEF ColumnsStage
<1>5. HungarianTypeOK'
  <2>1. cost' \in [Index -> [Index -> Int]]
    <3>1. \A i, j \in Index : cost'[i][j] \in Int
      BY <1>3, Limits
    <3> QED BY <3>1, <1>1
  <2>2. slack' \in [Index -> Int]
    BY <1>1, Limits
  <2> QED BY <2>1, <2>2, <1>1, <1>2, <1>4 DEF HungarianTypeOK, Size
<1>6. Dual'
  <2>1. ASSUME NEW i \in Index, NEW j \in Index
        PROVE  cost'[i][j] \in 0..Spread /\ Reduced(i, j)' >= 0
    <3>1. cost'[i][j] \in 0..Spread /\ cost'[i][j] \in Int /\ cost'[i][j] >= 0
      BY <1>3, Limits
    <3>2. row_dec'[i] = 0 /\ col_inc'[j] = 0
      BY <1>1, <1>4
    <3> QED BY <3>1, <3>2 DEF Reduced
  <2>2. \A i \in Index : row_dec'[i] = 0 /\ col_inc'[i] = 0
    BY <1>1, <1>4
  <2> QED BY <2>1, <2>2, <1>2 DEF Dual
<1>7. RowsStage'
  <2>1. IsInjective(unchosen_row') /\ ToSet(unchosen_row') = {}
    BY <1>1, <1>4 DEF IsInjective, ToSet
  <2>2. \A i \in Index : ~(i < 0)
    BY <1>2
  <2>3. \A i \in Index : row_dec'[i] = 0
    BY <1>1, <1>4
  <2>4. \A j \in Index : row_mate'[j] = None
    BY <1>1
  <2> QED BY <2>1, <2>2, <2>3, <2>4, <1>1, <1>2, <1>4 DEF RowsStage, Served
<1> QED
  BY <1>1, <1>5, <1>6, <1>7 DEF HungarianInv, ColumnsStage, Matched, Counted, Forest, Slack, WayBack

(* A stage begins with a forest of roots. *)
LEMMA StageBegins ==
    ASSUME problem \in Problems, problem' = problem, section' = "explore", q' = 0,
           slack' = [j \in Index |-> INF], unchosen_row' \in Seq(Index), unchosen_row' # << >>,
           IsInjective(unchosen_row)', col_mate' \in [Index -> Index \cup {None}],
           \A i \in Index : i \in ToSet(unchosen_row') <=> col_mate'[i] = None
    PROVE  Forest' /\ Slack'
<1>1. Index' = Index
  BY IndexFixed
<1>2. \A j \in Index : slack'[j] = INF /\ slack'[j] # 0 /\ slack'[j] \in 1..INF
  BY Limits
<1>3. \A x \in DOMAIN unchosen_row' : unchosen_row'[x] \in Index /\ col_mate'[unchosen_row'[x]] = None
  BY DEF ToSet
<1>4. \A x \in DOMAIN unchosen_row' : PathBack(x)'
  BY <1>3 DEF PathBack
<1>5. ASSUME NEW i \in Index
      PROVE  i \in ToSet(unchosen_row') <=> col_mate'[i] = None \/ slack'[col_mate'[i]] = 0
  BY <1>2
<1>6. Forest'
  BY <1>1, <1>2, <1>4, <1>5 DEF Forest
<1>7. Slack'
  BY <1>1, <1>2 DEF Slack
<1> QED BY <1>6, <1>7

(* A row is given a column of reduced cost zero or made a root. *)
LEMMA matchRowServes ==
    ASSUME HungarianInv, matchRow, NEW n, n = k
    PROVE  Served(n + 1)' /\ Dual' /\ unchosen_row' \in Seq(Index)
           /\ col_mate' \in [Index -> Index \cup {None}]
           /\ row_mate' \in [Index -> Index \cup {None}]
           /\ row_dec' \in [Index -> Int]
<1> DEFINE f == [j \in Index |-> cost[n][j]]
           s == Min({f[j] : j \in Index})
           zeros == {j \in Index : cost[n][j] = s /\ row_mate[j] < 0}
<1>0. PICK j0 : j0 = Min(zeros)
  OBVIOUS
<1>1. /\ HungarianTypeOK /\ Dual /\ Served(n) /\ problem \in Problems /\ n \in Index /\ section = "rows" /\ section' # "columns"
      /\ col_inc = [j \in Index |-> 0] /\ UNCHANGED <<problem, cost, col_inc>>
      /\ Index' = Index /\ Index \subseteq Nat
  <2>1. HungarianInv /\ matchRow /\ problem \in Problems /\ k \in Index /\ section = "rows"
    BY DEF HungarianInv, HungarianTypeOK, matchRow
  <2> QED BY <2>1, IndexFixed, IndexShape DEF HungarianInv, RowsStage, matchRow
<1>m. /\ \A i \in Index : i \in Nat /\ i \in Int /\ i # None /\ ~(i < 0)
      /\ \A j \in Index : row_mate[j] \in Index \/ row_mate[j] = None
      /\ n \in Int
  <2>1. \A i \in Index : i \in Nat
    BY <1>1
  <2> QED BY <2>1, <1>1 DEF HungarianTypeOK, None
<1>2. \A j \in Index : f[j] = cost[n][j] /\ f[j] \in Nat /\ f[j] <= Spread
  BY <1>1, Limits DEF Dual
<1>3. {f[j] : j \in Index} = {cost[k][j] : j \in Index}
  BY <1>2
<1>4. /\ row_dec' = [row_dec EXCEPT ![n] = s]
      /\ IF zeros = {} THEN col_mate' = [col_mate EXCEPT ![n] = None] /\ row_mate' = row_mate
                       ELSE /\ col_mate' = [col_mate EXCEPT ![n] = j0]
                            /\ row_mate' = [row_mate EXCEPT ![j0] = n]
      /\ unchosen_row' = IF zeros = {} THEN Append(unchosen_row, n) ELSE unchosen_row
  BY <1>0, <1>3 DEF matchRow
<1>5. f = [j \in Index |-> f[j]]
  OBVIOUS
<1> HIDE DEF f
<1>6. s \in Nat /\ \A j \in Index : s <= f[j]
  BY <1>1, <1>2, <1>5, MinOverIndex
<1> HIDE DEF s
<1>7. zeros # {} => j0 \in Index /\ cost[n][j0] = s /\ row_mate[j0] = None
  <2>1. ASSUME zeros # {} PROVE j0 \in zeros
    <3>1. zeros \subseteq Index
      OBVIOUS
    <3> HIDE DEF zeros
    <3> QED BY <1>0, <1>1, <2>1, <3>1, FirstColumn
  <2>2. \A j \in Index : row_mate[j] < 0 => row_mate[j] = None
    BY <1>m
  <2> QED BY <2>1, <2>2
<1> HIDE DEF zeros
<1>8. row_dec' \in [Index -> Int] /\ row_dec'[n] = s /\ \A i \in Index \ {n} : row_dec'[i] = row_dec[i]
  BY <1>1, <1>4, <1>6 DEF HungarianTypeOK
<1>9. \A i, j \in Index : cost[i][j] \in Nat /\ row_dec[i] \in Int /\ col_inc'[j] = 0 /\ cost'[i][j] = cost[i][j]
  BY <1>1, Limits DEF HungarianTypeOK, Dual
<1>10. \A i \in Index \ {n}, j \in Index : Reduced(i, j)' = Reduced(i, j)
  BY <1>1, <1>8 DEF Reduced
<1>11. \A j \in Index : Reduced(n, j)' = cost[n][j] - s
  BY <1>1, <1>6, <1>8, <1>9 DEF Reduced
<1>12. Dual'
  <2>1. \A i, j \in Index : Reduced(i, j)' >= 0
    <3>1. \A j \in Index : cost[n][j] - s >= 0
      BY <1>1, <1>2, <1>6
    <3> QED BY <3>1, <1>1, <1>10, <1>11 DEF Dual
  <2>2. \A i \in Index : row_dec'[i] >= 0
    BY <1>1, <1>6, <1>8 DEF Dual
  <2>3. \A i, j \in Index : cost'[i][j] \in 0..Spread
    BY <1>1 DEF Dual
  <2>4. \A j \in Index : col_inc'[j] >= 0 /\ col_inc'[j] = 0
    BY <1>1, <1>9
  <2> QED BY <2>1, <2>2, <2>3, <2>4, <1>1 DEF Dual
<1>13. unchosen_row' \in Seq(Index) /\ IsInjective(unchosen_row')
       /\ \A i \in Index : i \in ToSet(unchosen_row') <=> i \in ToSet(unchosen_row) \/ (zeros = {} /\ i = n)
  <2>1. unchosen_row \in Seq(Index) /\ IsInjective(unchosen_row) /\ n \notin ToSet(unchosen_row)
    BY <1>1 DEF HungarianTypeOK, Served
  <2>2. CASE zeros # {}
    BY <2>1, <2>2, <1>4
  <2>3. CASE zeros = {}
    <3>1. unchosen_row' = Append(unchosen_row, n)
      BY <2>3, <1>4
    <3> QED BY <2>1, <2>3, <3>1, <1>1, AppendedRow
  <2> QED BY <2>2, <2>3
<1>14. /\ col_mate' \in [Index -> Index \cup {None}] /\ row_mate' \in [Index -> Index \cup {None}]
       /\ \A i \in Index \ {n} : col_mate'[i] = col_mate[i]
       /\ \A j \in Index : zeros = {} \/ j # j0 => row_mate'[j] = row_mate[j]
       /\ IF zeros = {} THEN col_mate'[n] = None ELSE col_mate'[n] = j0 /\ row_mate'[j0] = n
  <2>0. /\ col_mate \in [Index -> Index \cup {None}] /\ row_mate \in [Index -> Index \cup {None}]
        /\ n \in Index
    BY <1>1 DEF HungarianTypeOK
  <2>1. CASE zeros = {}
    <3>1. col_mate' = [col_mate EXCEPT ![n] = None] /\ row_mate' = row_mate
      BY <2>1, <1>4
    <3> QED BY <3>1, <2>0, <2>1
  <2>2. CASE zeros # {}
    <3>1. col_mate' = [col_mate EXCEPT ![n] = j0] /\ row_mate' = [row_mate EXCEPT ![j0] = n]
      BY <2>2, <1>4
    <3>2. j0 \in Index
      BY <2>2, <1>7
    <3>3. col_mate' \in [Index -> Index \cup {None}] /\ row_mate' \in [Index -> Index \cup {None}]
      BY <3>1, <3>2, <2>0
    <3>4. col_mate'[n] = j0 /\ row_mate'[j0] = n
      BY <3>1, <3>2, <2>0
    <3>5. /\ \A i \in Index \ {n} : col_mate'[i] = col_mate[i]
          /\ \A j \in Index : j # j0 => row_mate'[j] = row_mate[j]
      BY <3>1, <2>0
    <3> QED BY <3>3, <3>4, <3>5, <2>2
  <2> QED BY <2>1, <2>2
<1>15. ASSUME NEW i \in Index, i >= n + 1 PROVE row_dec'[i] = 0
  <2>1. i # n /\ i >= n
    BY <1>1, <1>15
  <2> QED BY <2>1, <1>1, <1>8 DEF Served
<1>16. ASSUME NEW i \in Index, i < n + 1, col_mate'[i] # None
       PROVE  row_mate'[col_mate'[i]] = i /\ Reduced(i, col_mate[i])' = 0
  <2>1. CASE i = n
    <3>1. zeros # {} /\ col_mate'[i] = j0
      BY <2>1, <1>14, <1>16
    <3>2. Reduced(n, j0)' = 0
      BY <3>1, <1>6, <1>7, <1>11
    <3>3. Reduced(i, col_mate[i])' = Reduced(n, j0)'
      BY <3>1, <2>1 DEF Reduced
    <3> QED BY <3>1, <3>2, <3>3, <2>1, <1>14
  <2>2. CASE i # n
    <3>1. i < n
      BY <2>2, <1>m, <1>16
    <3>2. PICK c : c = col_mate[i]
      OBVIOUS
    <3>3. col_mate'[i] = c /\ c # None
      BY <2>2, <3>2, <1>14, <1>16
    <3>4. c \in Index /\ row_mate[c] = i /\ Reduced(i, c) = 0
      BY <3>1, <3>2, <3>3, <1>1 DEF Served, HungarianTypeOK
    <3>5. row_mate'[c] = i
      BY <3>4, <1>m, <1>7, <1>14
    <3>6. Reduced(i, c)' = 0
      BY <3>4, <2>2, <1>10
    <3>7. Reduced(i, col_mate[i])' = Reduced(i, c)'
      BY <3>3 DEF Reduced
    <3> QED BY <3>3, <3>5, <3>6, <3>7
  <2> QED BY <2>1, <2>2
<1>17. ASSUME NEW j \in Index, row_mate'[j] # None
       PROVE  row_mate'[j] < n + 1 /\ col_mate'[row_mate'[j]] = j
  <2>1. CASE zeros # {} /\ j = j0
    BY <2>1, <1>1, <1>14
  <2>2. CASE zeros = {} \/ j # j0
    <3>0. row_mate'[j] = row_mate[j]
      BY <2>2, <1>14
    <3>1. row_mate'[j] = row_mate[j] /\ row_mate[j] < n /\ row_mate[j] \in Index /\ col_mate[row_mate[j]] = j
      BY <3>0, <1>1, <1>m, <1>17 DEF Served
    <3>2. row_mate[j] # n /\ row_mate[j] < n + 1
      BY <3>1, <1>m
    <3> QED BY <3>1, <3>2, <1>14
  <2> QED BY <2>1, <2>2
<1>18. ASSUME NEW i \in Index
       PROVE  i \in ToSet(unchosen_row') <=> i < n + 1 /\ col_mate'[i] = None
  <2>1. CASE i = n
    <3>1. n \notin ToSet(unchosen_row) /\ n < n + 1
      BY <1>1 DEF Served
    <3>2. zeros = {} <=> col_mate'[n] = None
      BY <1>1, <1>7, <1>14, IndexShape
    <3> QED BY <2>1, <3>1, <3>2, <1>13
  <2>2. CASE i # n
    <3>1. i < n <=> i < n + 1
      BY <2>2, <1>1
    <3> QED BY <2>2, <3>1, <1>1, <1>13, <1>14 DEF Served
  <2> QED BY <2>1, <2>2
<1>19. Served(n + 1)'
  <2>1. \A i \in Index : i < n + 1 /\ col_mate'[i] # None => row_mate'[col_mate'[i]] = i
    BY <1>16
  <2>2. \A i \in Index : i < n + 1 /\ col_mate'[i] # None => Reduced(i, col_mate[i])' = 0
    BY <1>16
  <2>3. Index' = Index /\ IsInjective(unchosen_row')
    BY <1>1, <1>13
  <2> QED BY <2>1, <2>2, <2>3, <1>15, <1>17, <1>18 DEF Served
<1> QED BY <1>8, <1>12, <1>13, <1>14, <1>19

(* After the last row the forest is made of the roots, or there are none. *)
LEMMA matchRowStep ==
    ASSUME HungarianInv, matchRow
    PROVE  HungarianInv'
<1>1. PICK n : n = k
  OBVIOUS
<1>2. /\ Served(n + 1)' /\ Dual' /\ unchosen_row' \in Seq(Index)
      /\ col_mate' \in [Index -> Index \cup {None}]
      /\ row_mate' \in [Index -> Index \cup {None}] /\ row_dec' \in [Index -> Int]
  BY <1>1, matchRowServes
<1>3. /\ HungarianTypeOK /\ problem \in Problems /\ n \in Index
      /\ col_inc = [j \in Index |-> 0] /\ slack = [j \in Index |-> INF]
      /\ parent_row = [j \in Index |-> None] /\ q = 0
      /\ UNCHANGED <<problem, cost, col_inc, parent_row, slack, slack_row, q, l>>
  BY <1>1 DEF HungarianInv, HungarianTypeOK, RowsStage, matchRow
<1>4. /\ Index' = Index /\ Size(problem)' = Size(problem) /\ Size(problem) \in Nat \ {0}
      /\ Index = 0..(Size(problem) - 1) /\ Index \subseteq Nat
  BY <1>3, IndexFixed, IndexShape DEF Size
<1>5. Len(unchosen_row') = Cardinality(ToSet(unchosen_row')) /\ ToSet(unchosen_row') \subseteq Index
      /\ IsInjective(unchosen_row')
  <2>1. IsInjective(unchosen_row')
    BY <1>2 DEF Served
  <2> QED BY <2>1, <1>2, <1>3, LengthOfRows
<1>6. Len(unchosen_row') \in 0..Size(problem)
  <2>1. Len(unchosen_row') \in Nat
    BY <1>2
  <2>2. Cardinality(ToSet(unchosen_row')) <= Cardinality(Index)
    BY <1>3, <1>5, IndexShape, FS_Subset
  <2> QED BY <2>1, <2>2, <1>3, <1>5, <1>4, IndexShape
<1>7. HungarianTypeOK'
  <2>1. section' \in {"rows", "explore", "check"} /\ k' \in Index /\ unmatched' \in 0..Size(problem)
    <3>1. section' \in {"rows", "explore", "check"} /\ unmatched \in 0..Size(problem)
      BY DEF HungarianInv, HungarianTypeOK, matchRow
    <3>2. unmatched' \in 0..Size(problem)
      BY <3>1, <1>6 DEF matchRow
    <3>3. k' \in Index
      <4>1. n # Size(problem) - 1 => n + 1 \in Index
        BY <1>3, <1>4
      <4> QED BY <4>1, <1>1, <1>3 DEF matchRow
    <3> QED BY <3>1, <3>2, <3>3
  <2>2. q' \in 0..Len(unchosen_row')
    BY <1>2, <1>3
  <2> QED BY <2>1, <2>2, <1>2, <1>3, <1>4 DEF HungarianTypeOK
<1>8. CASE n # Size(problem) - 1
  <2>1. section' = "rows" /\ k' = n + 1
    BY <1>1, <1>8 DEF HungarianInv, matchRow
  <2>2. RowsStage'
    BY <2>1, <1>2, <1>3, <1>4 DEF RowsStage
  <2> QED BY <2>1, <2>2, <1>2, <1>7
          DEF HungarianInv, ColumnsStage, Matched, Counted, Forest, Slack, WayBack
<1>9. CASE n = Size(problem) - 1
  <2>1. \A i \in Index : i < n + 1
    BY <1>4, <1>9
  <2>2. \A i \in Index : i \in ToSet(unchosen_row') <=> col_mate'[i] = None
    BY <2>1, <1>2, <1>4 DEF Served
  <2>3. /\ unmatched' = Len(unchosen_row')
        /\ section' = IF unchosen_row' = << >> THEN "check" ELSE "explore"
    BY <1>1, <1>9 DEF matchRow
  <2>4. Mates({})'
    BY <2>1, <1>2, <1>4 DEF Served, Mates
  <2>5. Unmatched' = ToSet(unchosen_row')
    BY <2>2, <1>4, <1>5 DEF Unmatched
  <2>6. Counted'
    <3>1. CASE unchosen_row' = << >>
      BY <3>1, <2>3, <2>5 DEF Counted, ToSet
    <3>2. CASE unchosen_row' # << >>
      <4>1. Len(unchosen_row') # 0
        BY <3>2, <1>2
      <4> QED BY <3>2, <4>1, <2>3, <2>5, <1>5 DEF Counted
    <3> QED BY <3>1, <3>2
  <2>7. Forest' /\ Slack'
    <3>1. CASE unchosen_row' = << >>
      BY <3>1, <2>3 DEF Forest, Slack
    <3>2. CASE unchosen_row' # << >>
      BY <3>2, <2>2, <2>3, <1>2, <1>3, <1>5, StageBegins
    <3> QED BY <3>1, <3>2
  <2> QED BY <2>3, <2>4, <2>6, <2>7, <1>2, <1>7
          DEF HungarianInv, ColumnsStage, RowsStage, Matched, WayBack
<1> QED BY <1>8, <1>9

-----------------------------------------------------------------------------
(* The sections of a stage.                                                *)

(* As long as a row has no column, a column has no row: otherwise row_mate *)
(* would be an injection of the columns that misses a row.                 *)
LEMMA FreeColumn ==
    ASSUME HungarianTypeOK, Mates({}), Unmatched # {}
    PROVE  \E j \in Index : row_mate[j] = None
<1> SUFFICES ASSUME \A j \in Index : row_mate[j] # None PROVE FALSE
  OBVIOUS
<1>1. problem \in Problems /\ row_mate \in [Index -> Index \cup {None}]
  BY DEF HungarianTypeOK
<1>2. row_mate \in [Index -> Index] /\ \A j \in Index : col_mate[row_mate[j]] = j
  BY <1>1 DEF Mates
<1>3. row_mate \in Injection(Index, Index)
  BY <1>2 DEF Injection, IsInjective
<1>4. row_mate \in Surjection(Index, Index)
  <2>1. IsFiniteSet(Index)
    BY <1>1, IndexShape
  <2> QED BY <2>1, <1>3, FS_Injection
<1>5. PICK i \in Index : col_mate[i] = None
  BY DEF Unmatched
<1>6. PICK j \in Index : row_mate[j] = i
  BY <1>4 DEF Surjection
<1> QED BY <1>1, <1>2, <1>5, <1>6, IndexShape

(* A free column bounds the dual values, and so the reduced costs. *)
LEMMA ReducedBelowINF ==
    ASSUME HungarianTypeOK, Mates({}), Unmatched # {}, Dual, section # "columns", NEW i \in Index, NEW j \in Index
    PROVE  Reduced(i, j) \in Nat /\ Reduced(i, j) < INF
<1>1. PICK j0 \in Index : row_mate[j0] = None
  BY FreeColumn
<1>2. \A a, b \in Index : /\ cost[a][b] \in Nat /\ cost[a][b] <= Spread
                         /\ row_dec[a] \in Nat /\ col_inc[b] \in Nat
                         /\ cost[a][b] - row_dec[a] + col_inc[b] >= 0
  <2>1. \A a \in Index : row_dec[a] \in Int /\ col_inc[a] \in Int
    BY DEF HungarianTypeOK
  <2> QED BY <2>1, Limits DEF Dual, Reduced
<1>3. \A a \in Index : row_dec[a] <= Spread
  <2> TAKE a \in Index
  <2>1. col_inc[j0] = 0
    BY <1>1 DEF Dual
  <2>2. cost[a][j0] - row_dec[a] + col_inc[j0] >= 0 /\ cost[a][j0] <= Spread
    BY <1>1, <1>2
  <2> QED BY <2>1, <2>2, <1>1, <1>2, Limits
<1>4. col_inc[j] <= Spread
  <2>1. CASE row_mate[j] = None
    BY <2>1, Limits DEF Dual
  <2>2. CASE row_mate[j] # None
    <3>1. PICK m \in Index : m = row_mate[j]
      BY <2>2 DEF HungarianTypeOK
    <3>2. cost[m][j] - row_dec[m] + col_inc[j] = 0
      <4>1. col_mate[m] = j /\ j # None
        BY <2>2, <3>1, IndexShape DEF Mates, HungarianTypeOK
      <4> QED BY <4>1, <3>1 DEF Mates, Reduced
    <3> QED BY <3>1, <3>2, <1>2, <1>3, Limits
  <2> QED BY <2>1, <2>2
<1> QED BY <1>2, <1>4, Limits DEF Reduced

(* The rows u, and the mates g of the columns of J that join them. *)
Joined(u, J, g) == u \o [x \in DOMAIN Ascending(J) |-> g[Ascending(J)[x]]]

(* The rows of w begin with those of u, and the others are mates in J. *)
Extension(w, u, J, g) ==
    /\ w \in Seq(Index) /\ IsInjective(w)
    /\ Len(u) \in Nat /\ Len(w) \in Nat /\ Len(u) <= Len(w)
    /\ \A x \in 1..Len(u) : w[x] = u[x]
    /\ \A x \in 1..Len(w) : ~(x <= Len(u)) => \E j \in J : w[x] = g[j]
    /\ \A i \in Index : i \in ToSet(w) <=> i \in ToSet(u) \/ \E j \in J : i = g[j]

(* The mates follow the rows of the forest, each once. *)
LEMMA RowsJoin ==
    ASSUME problem \in Problems, NEW u \in Seq(Index), IsInjective(u), NEW J, J \subseteq Index,
           NEW g, \A j \in J : g[j] \in Index /\ g[j] \notin ToSet(u),
           \A i, j \in J : g[i] = g[j] => i = j,
           NEW w, w = Joined(u, J, g)
    PROVE  Extension(w, u, J, g)
<1>1. PICK a \in Seq(J) : /\ a = Ascending(J) /\ IsInjective(a)
                         /\ \A j \in J : \E x \in DOMAIN a : a[x] = j
  BY AscendingLists
<1> DEFINE v == [x \in DOMAIN a |-> g[a[x]]]
<1>2. Len(a) \in Nat /\ DOMAIN a = 1..Len(a) /\ \A x \in 1..Len(a) : a[x] \in J
  BY <1>1
<1>3. v \in Seq(Index) /\ Len(v) = Len(a) /\ \A x \in 1..Len(a) : v[x] = g[a[x]]
  BY <1>2
<1>4. w = u \o v
  BY <1>1 DEF Joined
<1> HIDE DEF v
<1>5. /\ w \in Seq(Index) /\ Len(w) = Len(u) + Len(a) /\ Len(u) \in Nat
      /\ DOMAIN u = 1..Len(u) /\ DOMAIN w = 1..Len(w)
      /\ \A x \in 1..Len(u) : w[x] = u[x]
      /\ \A x \in 1..Len(w) : ~(x <= Len(u)) => w[x] = v[x - Len(u)] /\ x - Len(u) \in 1..Len(a)
      /\ \A x \in 1..Len(a) : w[x + Len(u)] = v[x] /\ x + Len(u) \in 1..Len(w)
  <2>1. u \in Seq(Index) /\ v \in Seq(Index) /\ Len(v) \in Nat /\ Len(u) \in Nat
    BY <1>3
  <2>2. w \in Seq(Index) /\ Len(w) = Len(u) + Len(v) /\ DOMAIN u = 1..Len(u) /\ DOMAIN w = 1..Len(w)
    <3>1. u \o v \in Seq(Index) /\ Len(u \o v) = Len(u) + Len(v)
      BY <2>1
    <3>2. w \in Seq(Index) /\ Len(w) = Len(u) + Len(v)
      BY <3>1, <1>4
    <3>3. DOMAIN w = 1..Len(w)
      BY <3>2
    <3>4. DOMAIN u = 1..Len(u)
      BY <2>1
    <3> QED BY <3>2, <3>3, <3>4
  <2>3. \A x \in 1..(Len(u) + Len(v)) : w[x] = IF x <= Len(u) THEN u[x] ELSE v[x - Len(u)]
    BY <2>1, <1>4
  <2>4. \A x \in 1..Len(u) : x \in 1..(Len(u) + Len(v)) /\ x <= Len(u)
    BY <2>1
  <2>5. \A x \in 1..(Len(u) + Len(v)) : ~(x <= Len(u)) => x - Len(u) \in 1..Len(v)
    BY <2>1
  <2>6. \A x \in 1..Len(v) : /\ x + Len(u) \in 1..(Len(u) + Len(v)) /\ ~(x + Len(u) <= Len(u))
                             /\ (x + Len(u)) - Len(u) = x
    BY <2>1
  <2> QED BY <2>1, <2>2, <2>3, <2>4, <2>5, <2>6, <1>3
<1>6. \A x \in 1..Len(u) : u[x] \in ToSet(u)
  BY DEF ToSet
<1>7. \A x \in 1..Len(w) : x \in 1..Len(u) \/ (~(x <= Len(u)) /\ x - Len(u) \in 1..Len(a))
  BY <1>2, <1>5
<1>8. \A x \in 1..Len(w) : ~(x <= Len(u)) => a[x - Len(u)] \in J /\ w[x] = g[a[x - Len(u)]]
  BY <1>2, <1>3, <1>5
<1>9. IsInjective(w)
  <2> SUFFICES ASSUME NEW x \in 1..Len(w), NEW y \in 1..Len(w), w[x] = w[y] PROVE x = y
    BY <1>5 DEF IsInjective
  <2>1. CASE x <= Len(u) /\ y <= Len(u)
    <3>1. x \in 1..Len(u) /\ y \in 1..Len(u) /\ u[x] = u[y]
      BY <2>1, <1>5, <1>7
    <3> QED BY <3>1 DEF IsInjective
  <2>2. CASE ~(x <= Len(u)) /\ ~(y <= Len(u))
    <3> DEFINE m == x - Len(u)
               n == y - Len(u)
    <3>1. /\ m \in 1..Len(a) /\ n \in 1..Len(a)
          /\ a[m] \in J /\ a[n] \in J /\ w[x] = g[a[m]] /\ w[y] = g[a[n]]
      BY <2>2, <1>5, <1>8
    <3>2. x \in Int /\ y \in Int /\ Len(u) \in Int
      BY <1>5
    <3>3. m = n => x = y
      BY <3>2
    <3> HIDE DEF m, n
    <3>4. a[m] = a[n]
      BY <3>1
    <3>5. m = n
      BY <3>1, <3>4, <1>1, <1>2 DEF IsInjective
    <3> QED BY <3>3, <3>5
  <2>3. CASE ~(x <= Len(u) <=> y <= Len(u))
    <3>1. \A z \in 1..Len(w) : z <= Len(u) => w[z] \in ToSet(u)
      BY <1>5, <1>6, <1>7
    <3>2. \A z \in 1..Len(w) : ~(z <= Len(u)) => w[z] \notin ToSet(u)
      BY <1>8
    <3> QED BY <3>1, <3>2, <2>3
  <2> QED BY <2>1, <2>2, <2>3
<1>10. ASSUME NEW i \in Index
       PROVE  i \in ToSet(w) <=> i \in ToSet(u) \/ \E j \in J : i = g[j]
  <2>1. ASSUME NEW x \in 1..Len(w) PROVE w[x] \in ToSet(u) \/ \E j \in J : w[x] = g[j]
    BY <1>5, <1>6, <1>7, <1>8
  <2>2. ASSUME i \in ToSet(u) PROVE i \in ToSet(w)
    <3>1. PICK x \in 1..Len(u) : u[x] = i
      BY <2>2 DEF ToSet
    <3>2. x \in 1..Len(w) /\ w[x] = i
      BY <3>1, <1>2, <1>5
    <3> QED BY <3>2, <1>5 DEF ToSet
  <2>3. ASSUME NEW j \in J, i = g[j] PROVE i \in ToSet(w)
    <3>1. PICK x \in 1..Len(a) : a[x] = j
      BY <1>1, <1>2
    <3>2. w[x + Len(u)] = i /\ x + Len(u) \in 1..Len(w)
      BY <3>1, <2>3, <1>2, <1>3, <1>5
    <3> QED BY <3>2, <1>5 DEF ToSet
  <2>4. i \in ToSet(w) => \E x \in 1..Len(w) : w[x] = i
    BY <1>5 DEF ToSet
  <2> QED BY <2>1, <2>2, <2>3, <2>4
<1>11. \A x \in 1..Len(w) : ~(x <= Len(u)) => \E j \in J : w[x] = g[j]
  BY <1>8
<1>12. Len(w) \in Nat /\ Len(u) <= Len(w)
  BY <1>2, <1>5
<1> QED BY <1>5, <1>9, <1>10, <1>11, <1>12 DEF Extension

(* The forest u has grown by the rows of the columns of J. *)
Grown(u, J) ==
    /\ unchosen_row' \in Seq(Index) /\ IsInjective(unchosen_row')
    /\ Len(u) \in Nat /\ Len(unchosen_row') \in Nat /\ Len(u) <= Len(unchosen_row')
    /\ \A x \in 1..Len(u) : unchosen_row'[x] = u[x]
    /\ \A i \in Index : i \in ToSet(unchosen_row') <=>
          col_mate[i] = None \/ slack[col_mate[i]] = 0 \/ col_mate[i] \in J
    /\ \A x \in DOMAIN unchosen_row' : PathBack(x)'

(* Columns that are reached bring their rows into the forest, and the way  *)
(* back from each of them goes through a row that was there before.        *)
LEMMA ForestGrows ==
    ASSUME HungarianTypeOK, section = "explore", Forest, Mates({}),
           UNCHANGED <<problem, col_mate, row_mate>>,
           NEW u, u = unchosen_row,
           NEW J, J \subseteq Index, \A j \in J : slack[j] # 0 /\ row_mate[j] # None,
           unchosen_row' = Joined(u, J, row_mate),
           \A j \in Index \ J : parent_row'[j] = parent_row[j],
           \A j \in J : \E y \in 1..Len(u) : u[y] = parent_row'[j] /\ Reduced(u[y], j)' = 0,
           \A y \in 1..Len(u), j \in Index :
              slack[j] = 0 /\ Reduced(u[y], j) = 0 => Reduced(u[y], j)' = 0
    PROVE  Grown(u, J)
<1>1. /\ problem \in Problems /\ u \in Seq(Index) /\ IsInjective(u)
      /\ Len(u) \in Nat /\ DOMAIN u = 1..Len(u)
      /\ \A i \in Index : col_mate[i] \in Index \/ col_mate[i] = None
      /\ \A j \in Index : row_mate[j] \in Index \/ row_mate[j] = None
      /\ None \notin Index
      /\ \A i \in Index : i \in ToSet(u) <=> col_mate[i] = None \/ slack[col_mate[i]] = 0
  <2>1. problem \in Problems /\ u \in Seq(Index)
    BY DEF HungarianTypeOK
  <2>2. /\ \A i \in Index : col_mate[i] \in Index \/ col_mate[i] = None
        /\ \A j \in Index : row_mate[j] \in Index \/ row_mate[j] = None
    BY DEF HungarianTypeOK
  <2>3. None \notin Index
    BY <2>1, IndexShape
  <2>4. /\ IsInjective(u)
        /\ \A i \in Index : i \in ToSet(u) <=> col_mate[i] = None \/ slack[col_mate[i]] = 0
    BY DEF Forest
  <2> QED BY <2>1, <2>2, <2>3, <2>4
<1>2. ASSUME NEW j \in J
      PROVE  /\ row_mate[j] \in Index /\ row_mate[j] \notin ToSet(u)
             /\ col_mate[row_mate[j]] = j
  BY <1>1 DEF Mates
<1>3. \A i, j \in J : row_mate[i] = row_mate[j] => i = j
  BY <1>2
<1> DEFINE w == unchosen_row'
<1>4. /\ w \in Seq(Index) /\ IsInjective(w)
      /\ Len(w) \in Nat /\ Len(u) <= Len(w)
      /\ \A x \in 1..Len(u) : w[x] = u[x]
      /\ \A x \in 1..Len(w) : ~(x <= Len(u)) => \E j \in J : w[x] = row_mate[j]
      /\ \A i \in Index : i \in ToSet(w) <=> i \in ToSet(u) \/ \E j \in J : i = row_mate[j]
  <2>1. w = Joined(u, J, row_mate)
    OBVIOUS
  <2>2. \A j \in J : row_mate[j] \in Index /\ row_mate[j] \notin ToSet(u)
    BY <1>2
  <2> HIDE DEF w
  <2>3. Extension(w, u, J, row_mate)
    BY <2>1, <2>2, <1>1, <1>3, RowsJoin
  <2> QED BY <2>3 DEF Extension
<1>5. ASSUME NEW i \in Index
      PROVE  i \in ToSet(w) <=> col_mate[i] = None \/ slack[col_mate[i]] = 0 \/ col_mate[i] \in J
  <2>1. (\E j \in J : i = row_mate[j]) <=> col_mate[i] \in J
    <3>1. ASSUME col_mate[i] \in J PROVE row_mate[col_mate[i]] = i
      BY <3>1, <1>1 DEF Mates
    <3> QED BY <3>1, <1>2
  <2> QED BY <2>1, <1>1, <1>4
<1>6. ASSUME NEW x \in 1..Len(w) PROVE PathBack(x)'
  <2>1. PICK c : c = col_mate[w[x]]
    OBVIOUS
  <2>2. PICK p : p = parent_row'[c]
    OBVIOUS
  <2>3. SUFFICES ASSUME c # None
                 PROVE  (\E y \in 1..(x - 1) : w[y] = p) /\ Reduced(p, c)' = 0
    BY <2>1, <2>2 DEF PathBack, Reduced
  <2>4. w[x] \in Index /\ c \in Index /\ x \in Nat
    BY <2>1, <2>3, <1>1, <1>4
  <2>5. CASE x <= Len(u)
    <3>1. x \in 1..Len(u) /\ w[x] = u[x]
      BY <2>4, <2>5, <1>1, <1>4
    <3>2. PathBack(x) /\ u[x] \in ToSet(u)
      BY <3>1, <1>1 DEF Forest, ToSet
    <3>3. slack[c] = 0 /\ c \notin J
      BY <3>1, <3>2, <2>1, <2>3, <2>4, <1>1
    <3>4. p = parent_row[c]
      BY <3>3, <2>2, <2>4
    <3>5. (\E y \in 1..(x - 1) : u[y] = p) /\ Reduced(p, c) = 0
      BY <3>1, <3>2, <3>4, <2>1, <2>3 DEF PathBack
    <3>6. PICK y \in 1..(x - 1) : u[y] = p
      BY <3>5
    <3>7. y \in 1..Len(u)
      BY <3>1, <3>6, <1>1
    <3>8. w[y] = p /\ Reduced(u[y], c)' = 0
      BY <3>3, <3>5, <3>6, <3>7, <2>4, <1>4
    <3> QED BY <3>6, <3>8
  <2>6. CASE ~(x <= Len(u))
    <3>1. PICK j \in J : w[x] = row_mate[j]
      BY <2>6, <1>4
    <3>2. c = j
      BY <3>1, <2>1, <1>2
    <3>3. PICK y \in 1..Len(u) : u[y] = p /\ Reduced(u[y], c)' = 0
      BY <3>1, <3>2, <2>2
    <3>4. y \in 1..(x - 1)
      BY <3>3, <2>4, <2>6, <1>1
    <3> QED BY <3>3, <3>4, <1>4
  <2> QED BY <2>5, <2>6
<1>7. DOMAIN w = 1..Len(w)
  BY <1>4
<1> QED BY <1>1, <1>4, <1>5, <1>6, <1>7 DEF Grown

(* What exploreNode does with row r: columns of seen get their slack, those *)
(* of J are reached, and those of free are breakthroughs.                   *)
Explored(r, seen, J, free) ==
    /\ q + 1 \in 1..Len(unchosen_row) /\ r = unchosen_row[q + 1]
    /\ seen \subseteq Nearer(r) /\ (free = {} => seen = Nearer(r))
    /\ J = {j \in seen : Reduced(r, j) = 0} /\ \A j \in J : row_mate[j] # None
    /\ slack' = [j \in Index |-> IF j \in seen THEN Reduced(r, j) ELSE slack[j]]
    /\ slack_row' = [j \in Index |-> IF j \in seen \ J THEN r ELSE slack_row[j]]
    /\ parent_row' = [j \in Index |-> IF j \in J THEN r ELSE parent_row[j]]
    /\ unchosen_row' = Joined(unchosen_row, J, row_mate)
    /\ k' = r
    /\ free = {} => q' = q + 1 /\ UNCHANGED <<section, l>>
    /\ free # {} => /\ l' \in Nearer(r) /\ Reduced(r, l') = 0 /\ row_mate[l'] = None
                    /\ section' = "augment" /\ q' = q
    /\ UNCHANGED <<problem, cost, row_dec, col_inc, col_mate, row_mate, unmatched>>

(* exploreNode does that. *)
LEMMA exploreNodeShape ==
    ASSUME HungarianTypeOK, exploreNode
    PROVE  \E r \in Index : \E seen, J, free \in SUBSET Index : Explored(r, seen, J, free)
<1> DEFINE r == unchosen_row[q + 1]
           tight == {j \in Nearer(r) : Reduced(r, j) = 0}
           free == Free(tight)
           seen == Until(Nearer(r), free) \ free
           J == seen \cap tight
<1>1. /\ q + 1 \in 1..Len(unchosen_row) /\ r \in Index /\ problem \in Problems
      /\ Nearer(r) \subseteq Index
  <2>1. q \in Nat /\ q < Len(unchosen_row) /\ unchosen_row \in Seq(Index) /\ problem \in Problems
    BY DEF HungarianTypeOK, exploreNode
  <2>2. q + 1 \in 1..Len(unchosen_row)
    <3>1. Len(unchosen_row) \in Nat
      BY <2>1
    <3>2. \A x, n \in Nat : x < n => x + 1 \in 1..n
      OBVIOUS
    <3> QED BY <2>1, <3>1, <3>2
  <2> QED BY <2>1, <2>2 DEF Nearer
<1>2. /\ free \subseteq tight /\ tight \subseteq Nearer(r)
      /\ \A j \in tight : Reduced(r, j) = 0 /\ (j \in free <=> row_mate[j] < 0)
  BY DEF Free
<1>3. seen \subseteq Nearer(r) /\ (free = {} => seen = Nearer(r)) /\ seen \cap free = {}
  BY DEF Until
<1>4. J = {j \in seen : Reduced(r, j) = 0}
  BY <1>3
<1>5. \A j \in J : row_mate[j] # None
  BY <1>2, <1>3 DEF None
<1>6. /\ slack' = [j \in Index |-> IF j \in seen THEN Reduced(r, j) ELSE slack[j]]
      /\ slack_row' = [j \in Index |-> IF j \in seen \ J THEN r ELSE slack_row[j]]
      /\ parent_row' = [j \in Index |-> IF j \in J THEN r ELSE parent_row[j]]
      /\ UNCHANGED <<problem, cost, row_dec, col_inc, col_mate, row_mate, unmatched>>
      /\ k' = r
      /\ free = {} => q' = q + 1 /\ UNCHANGED <<section, l>>
      /\ free # {} => section' = "augment" /\ l' = Min(free) /\ q' = q
  <2>1. seen \ J = seen \ tight
    OBVIOUS
  <2> QED BY <2>1 DEF exploreNode
<1>7. unchosen_row' = Joined(unchosen_row, J, row_mate)
  BY DEF exploreNode, Joined
<1>8. free # {} => l' \in Nearer(r) /\ Reduced(r, l') = 0 /\ row_mate[l'] = None
  <2>1. free # {} => Min(free) \in free
    <3>1. free \subseteq Index
      BY <1>1, <1>2
    <3> HIDE DEF free
    <3> QED BY <3>1, <1>1, FirstColumn
  <2>2. \A j \in Index : row_mate[j] < 0 => row_mate[j] = None
    <3>1. \A j \in Index : row_mate[j] \in Index \/ row_mate[j] = None
      BY DEF HungarianTypeOK
    <3>2. \A i \in Index : ~(i < 0)
      BY <1>1, IndexShape
    <3> QED BY <3>1, <3>2
  <2> HIDE DEF free, tight, r
  <2> QED BY <2>1, <2>2, <1>1, <1>2, <1>6
<1> HIDE DEF free, tight, r, seen
<1>9. seen \in SUBSET Index /\ J \in SUBSET Index /\ free \in SUBSET Index
  BY <1>1, <1>2, <1>3
<1> HIDE DEF J
<1>10. Explored(r, seen, J, free)
  <2>1. r = unchosen_row[q + 1]
    BY DEF r
  <2> QED BY <2>1, <1>1, <1>3, <1>4, <1>5, <1>6, <1>7, <1>8, Zenon DEF Explored
<1> QED BY <1>1, <1>9, <1>10

(* A row explored keeps the forest, and brings the slack up to date; or it *)
(* is the row from which the way back begins.                              *)
LEMMA exploreNodeStep ==
    ASSUME HungarianInv, exploreNode
    PROVE  HungarianInv'
<1>1. /\ HungarianTypeOK /\ Dual /\ Mates({}) /\ Forest /\ Slack /\ Counted /\ section = "explore"
      /\ problem \in Problems /\ Unmatched # {}
  <2>1. HungarianTypeOK /\ Dual /\ Matched /\ Forest /\ Slack /\ Counted /\ section = "explore" /\ problem \in Problems
    BY DEF HungarianInv, HungarianTypeOK, exploreNode
  <2>2. Unmatched # {}
    BY <2>1, FS_EmptySet DEF Counted
  <2> QED BY <2>1, <2>2 DEF Matched
<1>2. PICK r \in Index : \E seen, J, free \in SUBSET Index : Explored(r, seen, J, free)
  BY <1>1, exploreNodeShape
<1>3. PICK seen \in SUBSET Index, J \in SUBSET Index, free \in SUBSET Index : Explored(r, seen, J, free)
  BY <1>2
<1>4. PICK u : u = unchosen_row
  OBVIOUS
<1>5. /\ Len(u) \in Nat /\ DOMAIN u = 1..Len(u) /\ q \in Nat /\ q + 1 \in 1..Len(u) /\ u[q + 1] = r
      /\ u \in Seq(Index)
  BY <1>1, <1>3, <1>4 DEF HungarianTypeOK, Explored
<1>6. /\ UNCHANGED <<problem, cost, row_dec, col_inc, col_mate, row_mate, unmatched>>
      /\ Index' = Index /\ Size(problem)' = Size(problem)
  BY <1>3, IndexFixed DEF Explored, Size
<1>7. \A i, j \in Index : Reduced(i, j)' = Reduced(i, j) /\ Reduced(i, j) \in Nat /\ Reduced(i, j) < INF
  BY <1>1, <1>6, ReducedBelowINF DEF Reduced
<1>8. \A j \in Index : slack[j] # 0 => slack[j] \in 1..INF
  BY <1>1 DEF Slack
<1>9. /\ \A j \in seen : /\ slack[j] # 0 /\ Reduced(r, j) < slack[j]
                         /\ slack'[j] = Reduced(r, j) /\ (j \in J <=> Reduced(r, j) = 0)
                         /\ j \notin J => slack_row'[j] = r
      /\ \A j \in Index \ seen : slack'[j] = slack[j] /\ slack_row'[j] = slack_row[j] /\ j \notin J
      /\ \A j \in J : parent_row'[j] = r /\ row_mate[j] # None
      /\ \A j \in Index \ J : parent_row'[j] = parent_row[j]
      /\ J \subseteq seen
  BY <1>3 DEF Explored, Nearer
<1>10. Grown(u, J)
  <2>1. \A j \in J : slack[j] # 0 /\ row_mate[j] # None
    BY <1>9
  <2>2. unchosen_row' = Joined(u, J, row_mate)
    BY <1>3, <1>4 DEF Explored
  <2>3. \A j \in J : \E y \in 1..Len(u) : u[y] = parent_row'[j] /\ Reduced(u[y], j)' = 0
    <3>1. \A j \in J : Reduced(r, j)' = 0
      BY <1>7, <1>9
    <3> QED BY <3>1, <1>5, <1>9
  <2>4. \A y \in 1..Len(u), j \in Index :
           slack[j] = 0 /\ Reduced(u[y], j) = 0 => Reduced(u[y], j)' = 0
    BY <1>5, <1>7
  <2> QED BY <2>1, <2>2, <2>3, <2>4, <1>1, <1>3, <1>4, <1>6, <1>9, ForestGrows
<1>11. Dual'
  <2>1. section' # "columns"
    BY <1>1, <1>3 DEF Explored
  <2>2. \A i, j \in Index : Reduced(i, j)' >= 0
    BY <1>7
  <2> QED BY <2>2, <1>1, <1>6 DEF Dual
<1>12. Counted' /\ \A S : Mates(S)' <=> Mates(S)
  <2>1. section' \in {"explore", "augment"}
    BY <1>1, <1>3 DEF Explored
  <2>2. Unmatched' = Unmatched
    BY <1>6 DEF Unmatched
  <2>3. Counted'
    BY <2>1, <2>2, <1>1, <1>6 DEF Counted
  <2> QED BY <2>3, <1>6 DEF Mates, Reduced
<1>13. HungarianTypeOK'
  <2>1. /\ slack' = [j \in Index |-> IF j \in seen THEN Reduced(r, j) ELSE slack[j]]
        /\ slack_row' = [j \in Index |-> IF j \in seen \ J THEN r ELSE slack_row[j]]
        /\ parent_row' = [j \in Index |-> IF j \in J THEN r ELSE parent_row[j]]
        /\ k' \in Index
    BY <1>3 DEF Explored
  <2>2. slack' \in [Index -> Int]
    <3>1. \A j \in Index : Reduced(r, j) \in Int /\ slack[j] \in Int
      BY <1>1, <1>7 DEF HungarianTypeOK
    <3> QED BY <2>1, <3>1
  <2>3. slack_row' \in [Index -> Index] /\ parent_row' \in [Index -> Index \cup {None}]
    <3>1. \A j \in Index : slack_row[j] \in Index /\ parent_row[j] \in Index \cup {None}
      BY <1>1 DEF HungarianTypeOK
    <3> QED BY <2>1, <3>1
  <2>4. section' \in {"explore", "augment"} /\ l' \in Index
    <3>1. Nearer(r) \subseteq Index /\ l \in Index
      BY <1>1 DEF Nearer, HungarianTypeOK
    <3> QED BY <3>1, <1>1, <1>3 DEF Explored
  <2>5. unchosen_row' \in Seq(Index) /\ q' \in 0..Len(unchosen_row')
    <3>1. q' = q \/ q' = q + 1
      BY <1>3 DEF Explored
    <3> QED BY <3>1, <1>5, <1>10 DEF Grown
  <2> QED BY <2>1, <2>2, <2>3, <2>4, <2>5, <1>1, <1>6 DEF HungarianTypeOK
<1>14. CASE free = {}
  <2>1. section' = "explore" /\ q' = q + 1 /\ seen = Nearer(r)
    BY <1>1, <1>3, <1>14 DEF Explored
  <2>2. \A j \in Index : slack'[j] = 0 <=> slack[j] = 0 \/ j \in J
    BY <1>9
  <2>3. Forest'
    <3>1. unchosen_row' # << >>
      BY <1>5, <1>10 DEF Grown
    <3>2. \A j \in Index : slack'[j] = 0 => row_mate[j] # None
      BY <2>2, <1>1, <1>9 DEF Forest
    <3>3. ASSUME NEW i \in Index
          PROVE  i \in ToSet(unchosen_row') <=> col_mate[i] = None \/ slack'[col_mate[i]] = 0
      <4>1. col_mate[i] # None => col_mate[i] \in Index
        BY <1>1 DEF HungarianTypeOK
      <4>2. None \notin J
        BY <1>1, IndexShape
      <4> QED BY <4>1, <4>2, <2>2, <1>10 DEF Grown
    <3> QED BY <3>1, <3>2, <3>3, <1>6, <1>10 DEF Forest, Grown
  <2>4. Slack'
    <3> SUFFICES ASSUME NEW j \in Index, slack'[j] # 0
                 PROVE  /\ slack'[j] \in 1..INF
                        /\ \A x \in 1..(q + 1) : Reduced(unchosen_row[x], j)' >= slack'[j]
                        /\ slack'[j] # INF => \E x \in 1..(q + 1) :
                              slack_row'[j] = unchosen_row'[x] /\ Reduced(unchosen_row[x], j)' = slack'[j]
      BY <1>6, <2>1 DEF Slack
    <3>1. slack[j] # 0 /\ slack[j] \in 1..INF
      BY <2>2, <1>8
    <3>2. ASSUME NEW x \in 1..(q + 1)
          PROVE  /\ unchosen_row'[x] = u[x] /\ u[x] \in Index
                 /\ Reduced(unchosen_row[x], j)' = Reduced(u[x], j)
      <4>1. x \in 1..Len(u)
        BY <1>5
      <4>2. unchosen_row'[x] = u[x] /\ u[x] \in Index
        BY <4>1, <1>5, <1>10 DEF Grown
      <4>3. Reduced(unchosen_row[x], j)' = Reduced(u[x], j)'
        BY <4>2 DEF Reduced
      <4> QED BY <4>2, <4>3, <1>7
    <3>3. \A x \in 1..(q + 1) : x \in 1..q \/ x = q + 1
      BY <1>5
    <3>4. /\ \A x \in 1..q : Reduced(u[x], j) >= slack[j]
          /\ slack[j] # INF => \E x \in 1..q :
                slack_row[j] = u[x] /\ Reduced(u[x], j) = slack[j]
      BY <3>1, <1>1, <1>4 DEF Slack
    <3>5. \A x \in 1..q : x \in 1..(q + 1) /\ u[x] \in Index
      BY <1>5
    <3>6. q + 1 \in 1..(q + 1)
      BY <1>5
    <3>7. CASE j \in seen
      <4>1. /\ slack'[j] = Reduced(r, j) /\ Reduced(r, j) < slack[j] /\ slack_row'[j] = r
            /\ Reduced(r, j) \in Nat
        BY <3>7, <1>7, <1>9
      <4>2. slack'[j] \in 1..INF
        BY <4>1, <3>1, Limits
      <4>3. \A x \in 1..q : Reduced(u[x], j) \in Nat
        BY <3>5, <1>7
      <4>4. \A x \in 1..q : Reduced(u[x], j) >= slack'[j]
        BY <4>1, <4>3, <3>1, <3>4
      <4>5. \A x \in 1..(q + 1) : Reduced(u[x], j) >= slack'[j]
        BY <4>1, <4>4, <3>3, <1>5
      <4> QED BY <4>1, <4>2, <4>5, <3>2, <3>6, <1>5
    <3>8. CASE j \notin seen
      <4>1. slack'[j] = slack[j] /\ slack_row'[j] = slack_row[j]
        BY <3>8, <1>9
      <4>2. Reduced(r, j) \in Nat /\ ~(Reduced(r, j) < slack[j])
        BY <3>1, <3>8, <2>1, <1>7 DEF Nearer
      <4>3. Reduced(r, j) >= slack'[j]
        BY <4>1, <4>2, <3>1
      <4>4. \A x \in 1..(q + 1) : Reduced(u[x], j) >= slack'[j]
        BY <4>1, <4>3, <3>3, <3>4, <1>5
      <4> QED BY <4>1, <4>4, <3>1, <3>2, <3>4, <3>5
    <3> QED BY <3>7, <3>8
  <2> QED BY <2>1, <2>3, <2>4, <1>1, <1>11, <1>12, <1>13
          DEF HungarianInv, ColumnsStage, RowsStage, Matched, WayBack
<1>15. CASE free # {}
  <2>1. /\ section' = "augment" /\ l' \in Index /\ Reduced(r, l') = 0 /\ row_mate[l'] = None /\ k' = r
    <3>1. Nearer(r) \subseteq Index
      BY DEF Nearer
    <3> QED BY <3>1, <1>3, <1>15 DEF Explored
  <2>2. PICK m : m = l'
    OBVIOUS
  <2>3. Mates({m})
    <3>1. \A i \in Index : col_mate[i] # None => col_mate[i] # m
      BY <2>1, <2>2, <1>1, IndexShape DEF Mates
    <3> QED BY <3>1, <1>1 DEF Mates
  <2>4. Matched'
    <3>1. Mates({m})' <=> Mates({l})'
      BY <2>2 DEF Mates
    <3> QED BY <3>1, <2>1, <2>3, <1>12 DEF Matched
  <2>5. WayBack'
    <3>1. Reduced(k, l)' = 0
      <4>1. Reduced(k, l)' = Reduced(r, m)'
        BY <2>1, <2>2 DEF Reduced
      <4> QED BY <4>1, <2>1, <2>2, <1>7
    <3>2. q + 1 \in DOMAIN unchosen_row' /\ unchosen_row'[q + 1] = r
      BY <1>5, <1>10 DEF Grown
    <3>3. \A y \in 1..(q + 1) : y \in DOMAIN unchosen_row'
      BY <1>5, <1>10 DEF Grown
    <3>4. \A y \in 1..(q + 1) : PathBack(y)'
      BY <3>3, <1>10 DEF Grown
    <3> QED BY <3>1, <3>2, <3>4, <2>1, <1>10 DEF WayBack, Grown
  <2> QED BY <2>1, <2>4, <2>5, <1>11, <1>12, <1>13
          DEF HungarianInv, ColumnsStage, RowsStage, Forest, Slack
<1> QED BY <1>14, <1>15

(* A row of the forest has its dual value changed once. *)
LEMMA RowCountedOnce ==
    ASSUME NEW T, NEW u \in Seq(T), IsInjective(u), NEW i
    PROVE  Cardinality({x \in DOMAIN u : u[x] = i}) = IF i \in ToSet(u) THEN 1 ELSE 0
<1>1. CASE i \in ToSet(u)
  <2>1. PICK y \in DOMAIN u : u[y] = i
    BY <1>1 DEF ToSet
  <2>2. {x \in DOMAIN u : u[x] = i} = {y}
    BY <2>1 DEF IsInjective
  <2> QED BY <2>2, <1>1, FS_Singleton
<1>2. CASE i \notin ToSet(u)
  <2>1. {x \in DOMAIN u : u[x] = i} = {}
    BY <1>2 DEF ToSet
  <2> QED BY <2>1, <1>2, FS_EmptySet
<1> QED BY <1>1, <1>2

(* With every row explored some column is open, and no open column has the *)
(* slack INF: a free column is open, and the slack of an open one is at    *)
(* most the reduced cost of the first row of the forest.                   *)
LEMMA LeastSlackFinite ==
    ASSUME HungarianTypeOK, Forest, Slack, Dual, Mates({}), Unmatched # {},
           section = "explore", q = Len(unchosen_row)
    PROVE  /\ LeastSlack \in Nat \ {0} /\ LeastSlack < INF
           /\ \A j \in Index : slack[j] # 0 =>
                 slack[j] \in Nat /\ slack[j] < INF /\ LeastSlack <= slack[j]
<1> DEFINE open == {j \in Index : slack[j] # 0}
           S == {slack[j] : j \in open}
<1>1. problem \in Problems /\ unchosen_row \in Seq(Index) /\ unchosen_row # << >>
  BY DEF HungarianTypeOK, Forest
<1>2. 1 \in 1..q /\ unchosen_row[1] \in Index
  BY <1>1
<1>3. ASSUME NEW j \in open
      PROVE  slack[j] \in Nat /\ slack[j] # 0 /\ slack[j] < INF
  <2>1. slack[j] \in 1..INF /\ Reduced(unchosen_row[1], j) >= slack[j]
    BY <1>2 DEF Slack
  <2>2. Reduced(unchosen_row[1], j) \in Nat /\ Reduced(unchosen_row[1], j) < INF
    BY <1>2, ReducedBelowINF
  <2> QED BY <2>1, <2>2, Limits
<1>4. S # {} /\ S \subseteq Nat
  <2>1. PICK j \in Index : row_mate[j] = None
    BY FreeColumn
  <2>2. j \in open
    BY <2>1 DEF Forest
  <2> QED BY <2>2, <1>3
<1>5. IsFiniteSet({INF} \cup S)
  <2>1. slack = [j \in Index |-> slack[j]]
    BY DEF HungarianTypeOK
  <2>2. IsFiniteSet({slack[j] : j \in Index})
    BY <1>1, <2>1, IndexShape, FiniteRange
  <2>3. S \in SUBSET {slack[j] : j \in Index}
    OBVIOUS
  <2> HIDE DEF S
  <2>4. IsFiniteSet(S)
    BY <2>2, <2>3, FS_Subset
  <2> QED BY <2>4, FS_Singleton, FS_Union
<1>6. LeastSlack = Min({INF} \cup S)
  BY DEF LeastSlack
<1>7. \A j \in Index : slack[j] # 0 => slack[j] \in S
  OBVIOUS
<1>8. \A v \in S : v \in Nat /\ v # 0 /\ v < INF
  BY <1>3
<1> HIDE DEF S
<1>9. LeastSlack \in {INF} \cup S /\ \A v \in {INF} \cup S : LeastSlack <= v
  <2>1. {INF} \cup S \subseteq Int /\ {INF} \cup S # {}
    BY <1>4, Limits
  <2> QED BY <2>1, <1>5, <1>6, MinIsLeast
<1>10. LeastSlack \in S
  <2>1. PICK v \in S : TRUE
    BY <1>4
  <2>2. LeastSlack <= v /\ v < INF /\ v \in Nat
    BY <1>8, <1>9
  <2> QED BY <2>2, <1>9, Limits
<1> QED BY <1>7, <1>8, <1>9, <1>10

(* What introduceZero does with the least slack s: open columns of seen    *)
(* come nearer by s, those of J are reached, and those of free are         *)
(* breakthroughs.                                                          *)
Introduced(s, seen, J, free) ==
    /\ s = LeastSlack /\ q = Len(unchosen_row)
    /\ seen \subseteq {j \in Index : slack[j] # 0}
    /\ free = {} => seen = {j \in Index : slack[j] # 0}
    /\ J = {j \in seen : slack[j] = s /\ row_mate[j] # None}
    /\ free = {} => \A j \in seen : slack[j] = s => row_mate[j] # None
    /\ row_dec' = [i \in Index |->
          row_dec[i] + s * Cardinality({x \in DOMAIN unchosen_row : unchosen_row[x] = i})]
    /\ col_inc' = [j \in Index |-> IF slack[j] = 0 THEN col_inc[j] + s ELSE col_inc[j]]
    /\ slack' = [j \in Index |-> IF j \in seen THEN slack[j] - s ELSE slack[j]]
    /\ parent_row' = [j \in Index |-> IF j \in J THEN slack_row[j] ELSE parent_row[j]]
    /\ unchosen_row' = Joined(unchosen_row, J, row_mate)
    /\ free = {} => UNCHANGED <<section, k, l>>
    /\ free # {} => /\ l' \in Index /\ slack[l'] # 0 /\ slack[l'] = s /\ row_mate[l'] = None
                    /\ section' = "augment" /\ k' = slack_row[l']
    /\ UNCHANGED <<problem, cost, col_mate, row_mate, slack_row, q, unmatched>>

(* introduceZero does that. *)
LEMMA introduceZeroShape ==
    ASSUME HungarianTypeOK, introduceZero
    PROVE  \E seen, J, free \in SUBSET Index : Introduced(LeastSlack, seen, J, free)
<1> DEFINE s == LeastSlack
           open == {j \in Index : slack[j] # 0}
           zeros == {j \in open : slack[j] = s}
           free == Free(zeros)
           seen == Until(open, free)
           J == (seen \cap zeros) \ free
<1>1. problem \in Problems /\ q = Len(unchosen_row)
  BY DEF HungarianTypeOK, introduceZero
<1>2. /\ free \subseteq zeros /\ zeros \subseteq Index
      /\ \A j \in zeros : slack[j] = s /\ slack[j] # 0 /\ (j \in free <=> row_mate[j] < 0)
  BY DEF Free
<1>3. seen \subseteq open /\ (free = {} => seen = open)
  BY DEF Until
<1>4. free # {} => Min(free) \in free
  <2>1. free \subseteq Index
    BY <1>2
  <2> HIDE DEF free
  <2> QED BY <2>1, <1>1, FirstColumn
<1>5. \A j \in Index : row_mate[j] < 0 <=> row_mate[j] = None
  <2>1. \A j \in Index : row_mate[j] \in Index \/ row_mate[j] = None
    BY DEF HungarianTypeOK
  <2>2. \A i \in Index : ~(i < 0)
    BY <1>1, IndexShape
  <2> QED BY <2>1, <2>2 DEF None
<1>6. J = {j \in seen : slack[j] = s /\ row_mate[j] # None}
  <2>1. \A j \in seen : j \in zeros <=> slack[j] = s
    BY <1>3
  <2>2. \A j \in zeros : j \in free <=> row_mate[j] = None
    BY <1>2, <1>5
  <2> HIDE DEF free, seen, zeros
  <2> QED BY <2>1, <2>2
<1>7. free = {} => \A j \in seen : slack[j] = s => row_mate[j] # None
  BY <1>2, <1>3, <1>5
<1>8. /\ row_dec' = [i \in Index |->
            row_dec[i] + s * Cardinality({x \in DOMAIN unchosen_row : unchosen_row[x] = i})]
      /\ col_inc' = [j \in Index |-> IF slack[j] = 0 THEN col_inc[j] + s ELSE col_inc[j]]
      /\ slack' = [j \in Index |-> IF j \in seen THEN slack[j] - s ELSE slack[j]]
      /\ parent_row' = [j \in Index |-> IF j \in J THEN slack_row[j] ELSE parent_row[j]]
      /\ free = {} => UNCHANGED <<section, k, l>>
      /\ free # {} => section' = "augment" /\ l' = Min(free) /\ k' = slack_row[Min(free)]
      /\ UNCHANGED <<problem, cost, col_mate, row_mate, slack_row, q, unmatched>>
  BY DEF introduceZero, Raised
<1>9. unchosen_row' = Joined(unchosen_row, J, row_mate)
  BY DEF introduceZero, Joined
<1>10. free # {} => /\ l' \in Index /\ slack[l'] # 0 /\ slack[l'] = s /\ row_mate[l'] = None
                    /\ section' = "augment" /\ k' = slack_row[l']
  <2> HIDE DEF free, zeros
  <2> QED BY <1>2, <1>4, <1>5, <1>8
<1>11. seen \subseteq {j \in Index : slack[j] # 0} /\ (free = {} => seen = {j \in Index : slack[j] # 0})
  BY <1>3
<1>12. seen \in SUBSET Index /\ J \in SUBSET Index /\ free \in SUBSET Index
  BY <1>2, <1>3
<1> HIDE DEF free, zeros, seen, J, open
<1>13. Introduced(s, seen, J, free)
  BY <1>1, <1>6, <1>7, <1>8, <1>9, <1>10, <1>11, Zenon DEF Introduced
<1> QED BY <1>12, <1>13

(* The dual values change so that a tight entry of the forest stays tight, *)
(* and the columns of least slack get one.                                 *)
LEMMA introduceZeroStep ==
    ASSUME HungarianInv, introduceZero
    PROVE  HungarianInv'
<1>1. /\ HungarianTypeOK /\ Dual /\ Mates({}) /\ Forest /\ Slack /\ Counted /\ section = "explore"
      /\ q = Len(unchosen_row) /\ problem \in Problems /\ Unmatched # {}
  <2>1. /\ HungarianTypeOK /\ Dual /\ Matched /\ Forest /\ Slack /\ Counted /\ section = "explore"
        /\ q = Len(unchosen_row) /\ problem \in Problems
    BY DEF HungarianInv, HungarianTypeOK, introduceZero
  <2>2. Unmatched # {}
    BY <2>1, FS_EmptySet DEF Counted
  <2> QED BY <2>1, <2>2 DEF Matched
<1>2. PICK seen \in SUBSET Index, J \in SUBSET Index, free \in SUBSET Index :
         Introduced(LeastSlack, seen, J, free)
  BY <1>1, introduceZeroShape
<1>3. PICK u : u = unchosen_row
  OBVIOUS
<1>4. PICK s : s = LeastSlack
  OBVIOUS
<1>5. Introduced(s, seen, J, free)
  BY <1>2, <1>4
<1>6. /\ s \in Nat /\ s # 0 /\ s < INF
      /\ \A j \in Index : slack[j] # 0 => slack[j] \in Nat /\ slack[j] < INF /\ s <= slack[j]
  BY <1>1, <1>4, LeastSlackFinite
<1>7. /\ Len(u) \in Nat /\ DOMAIN u = 1..Len(u) /\ q = Len(u) /\ u \in Seq(Index)
      /\ IsInjective(u) /\ \A i \in Index : i \in ToSet(u) <=> col_mate[i] = None \/ slack[col_mate[i]] = 0
      /\ \A x \in 1..Len(u) : u[x] \in Index /\ u[x] \in ToSet(u)
  <2>1. u \in Seq(Index) /\ q = Len(u)
    BY <1>1, <1>3 DEF HungarianTypeOK
  <2>2. Len(u) \in Nat /\ DOMAIN u = 1..Len(u)
    BY <2>1
  <2>3. IsInjective(u) /\ \A i \in Index : i \in ToSet(u) <=> col_mate[i] = None \/ slack[col_mate[i]] = 0
    BY <1>1, <1>3 DEF Forest
  <2>4. \A x \in 1..Len(u) : u[x] \in Index /\ u[x] \in ToSet(u)
    BY <2>1, <2>2 DEF ToSet
  <2> QED BY <2>1, <2>2, <2>3, <2>4
<1>8. /\ UNCHANGED <<problem, cost, col_mate, row_mate, slack_row, q, unmatched>>
      /\ Index' = Index /\ Size(problem)' = Size(problem)
  BY <1>5, IndexFixed DEF Introduced, Size
<1>9. \A i \in Index : row_dec'[i] = IF i \in ToSet(u) THEN row_dec[i] + s ELSE row_dec[i]
  <2> TAKE i \in Index
  <2>1. row_dec'[i] = row_dec[i] + s * Cardinality({x \in DOMAIN u : u[x] = i})
    BY <1>3, <1>5 DEF Introduced
  <2>2. Cardinality({x \in DOMAIN u : u[x] = i}) = IF i \in ToSet(u) THEN 1 ELSE 0
    BY <1>7, RowCountedOnce
  <2>3. row_dec[i] \in Int /\ s * 1 = s /\ s * 0 = 0
    BY <1>1, <1>6 DEF HungarianTypeOK
  <2> QED BY <2>1, <2>2, <2>3
<1>10. \A j \in Index : col_inc'[j] = IF slack[j] = 0 THEN col_inc[j] + s ELSE col_inc[j]
  BY <1>5 DEF Introduced
<1>11. \A i, j \in Index : /\ row_dec[i] \in Nat /\ col_inc[j] \in Nat /\ cost[i][j] \in Nat
                          /\ Reduced(i, j) \in Nat /\ Reduced(i, j) = cost[i][j] - row_dec[i] + col_inc[j]
  <2>1. \A i \in Index : row_dec[i] \in Nat /\ col_inc[i] \in Nat
    BY <1>1 DEF HungarianTypeOK, Dual
  <2>2. \A i, j \in Index : cost[i][j] \in Nat
    BY <1>1, Limits DEF Dual
  <2>3. \A i, j \in Index : Reduced(i, j) \in Nat
    BY <1>1, ReducedBelowINF
  <2> QED BY <2>1, <2>2, <2>3 DEF Reduced
<1>12. ASSUME NEW i \in Index, NEW j \in Index
       PROVE  Reduced(i, j)' = IF i \in ToSet(u) THEN IF slack[j] = 0 THEN Reduced(i, j) ELSE Reduced(i, j) - s
                               ELSE IF slack[j] = 0 THEN Reduced(i, j) + s ELSE Reduced(i, j)
  <2>1. Reduced(i, j)' = cost[i][j] - row_dec'[i] + col_inc'[j]
    BY <1>8 DEF Reduced
  <2> QED BY <2>1, <1>6, <1>9, <1>10, <1>11
<1>13. \A j \in Index, x \in 1..Len(u) : slack[j] # 0 => Reduced(u[x], j) >= slack[j]
  BY <1>1, <1>3, <1>7 DEF Slack
<1>14. ASSUME NEW j \in Index, slack[j] # 0
       PROVE  \E x \in 1..Len(u) : slack_row[j] = u[x] /\ Reduced(u[x], j) = slack[j]
  <2>1. slack[j] # INF
    BY <1>6, <1>14, Limits
  <2> QED BY <2>1, <1>1, <1>3, <1>7, <1>14 DEF Slack
<1>15. Dual'
  <2>1. \A i, j \in Index : Reduced(i, j)' >= 0
    <3> TAKE i, j \in Index
    <3>1. i \in ToSet(u) /\ slack[j] # 0 => Reduced(i, j) - s >= 0
      <4>1. i \in ToSet(u) => \E x \in 1..Len(u) : i = u[x]
        BY <1>7 DEF ToSet
      <4> QED BY <4>1, <1>6, <1>11, <1>13
    <3> QED BY <3>1, <1>6, <1>11, <1>12
  <2>2. \A i \in Index : row_dec'[i] >= 0
    BY <1>6, <1>9, <1>11
  <2>3. \A j \in Index : col_inc'[j] >= 0 /\ (row_mate[j] = None => col_inc'[j] = 0)
    <3> TAKE j \in Index
    <3>1. col_inc'[j] >= 0
      BY <1>6, <1>10, <1>11
    <3>2. row_mate[j] = None => slack[j] # 0 /\ col_inc[j] = 0
      BY <1>1 DEF Forest, Dual
    <3> QED BY <3>1, <3>2, <1>10
  <2>4. \A i, j \in Index : cost'[i][j] \in 0..Spread
    BY <1>1, <1>8 DEF Dual
  <2> QED BY <2>1, <2>2, <2>3, <2>4, <1>8 DEF Dual
<1>16. ASSUME NEW S, Mates(S) PROVE Mates(S)'
  <2>1. ASSUME NEW i \in Index, col_mate[i] # None
        PROVE  Reduced(i, col_mate[i])' = 0
    <3>1. PICK c \in Index : c = col_mate[i]
      BY <2>1, <1>1 DEF HungarianTypeOK
    <3>2. Reduced(i, c) = 0
      BY <2>1, <3>1, <1>16 DEF Mates
    <3>3. i \in ToSet(u) <=> slack[c] = 0
      BY <2>1, <3>1, <1>7
    <3>4. Reduced(i, c)' = 0
      BY <3>2, <3>3, <1>12
    <3> QED BY <3>1, <3>4, <1>8 DEF Reduced
  <2> QED BY <2>1, <1>8, <1>16 DEF Mates
<1>17. Counted'
  <2>1. section' \in {"explore", "augment"}
    BY <1>1, <1>5 DEF Introduced
  <2>2. Unmatched' = Unmatched
    BY <1>8 DEF Unmatched
  <2> QED BY <2>1, <2>2, <1>1, <1>8 DEF Counted
<1>18. /\ \A j \in J : slack[j] # 0 /\ slack[j] = s /\ row_mate[j] # None /\ parent_row'[j] = slack_row[j]
       /\ \A j \in Index \ J : parent_row'[j] = parent_row[j]
       /\ \A j \in seen : slack[j] # 0 /\ slack'[j] = slack[j] - s /\ (j \in J <=> slack[j] = s /\ row_mate[j] # None)
       /\ J \subseteq seen
  BY <1>5 DEF Introduced
<1>19. Grown(u, J)
  <2>1. unchosen_row' = Joined(u, J, row_mate)
    BY <1>3, <1>5 DEF Introduced
  <2>2. ASSUME NEW j \in J
        PROVE  \E y \in 1..Len(u) : u[y] = parent_row'[j] /\ Reduced(u[y], j)' = 0
    <3>1. PICK y \in 1..Len(u) : slack_row[j] = u[y] /\ Reduced(u[y], j) = slack[j]
      BY <1>14, <1>18
    <3>2. Reduced(u[y], j)' = Reduced(u[y], j) - s
      BY <1>7, <1>12, <1>18
    <3>3. Reduced(u[y], j)' = 0
      BY <3>1, <3>2, <1>6, <1>18
    <3> QED BY <3>1, <3>3, <1>18
  <2>3. ASSUME NEW y \in 1..Len(u), NEW j \in Index, slack[j] = 0, Reduced(u[y], j) = 0
        PROVE  Reduced(u[y], j)' = 0
    BY <2>3, <1>7, <1>12
  <2>4. \A j \in J : slack[j] # 0 /\ row_mate[j] # None
    BY <1>18
  <2> QED BY <2>1, <2>2, <2>3, <2>4, <1>1, <1>3, <1>8, <1>18, ForestGrows
<1>20. HungarianTypeOK'
  <2>1. /\ slack' = [j \in Index |-> IF j \in seen THEN slack[j] - s ELSE slack[j]]
        /\ row_dec' = [i \in Index |->
              row_dec[i] + s * Cardinality({x \in DOMAIN unchosen_row : unchosen_row[x] = i})]
        /\ col_inc' = [j \in Index |-> IF slack[j] = 0 THEN col_inc[j] + s ELSE col_inc[j]]
        /\ parent_row' = [j \in Index |-> IF j \in J THEN slack_row[j] ELSE parent_row[j]]
    BY <1>5 DEF Introduced
  <2>2. slack' \in [Index -> Int]
    <3>1. \A j \in Index : slack[j] \in Int
      BY <1>1 DEF HungarianTypeOK
    <3> QED BY <2>1, <3>1, <1>6
  <2>3. row_dec' \in [Index -> Int]
    <3>1. \A i \in Index : row_dec'[i] \in Int
      BY <1>6, <1>9, <1>11
    <3> QED BY <2>1, <3>1
  <2>4. col_inc' \in [Index -> Int]
    <3>1. \A i \in Index : col_inc'[i] \in Int
      BY <1>6, <1>10, <1>11
    <3> QED BY <2>1, <3>1
  <2>5. parent_row' \in [Index -> Index \cup {None}]
    <3>1. \A j \in Index : slack_row[j] \in Index /\ parent_row[j] \in Index \cup {None}
      BY <1>1 DEF HungarianTypeOK
    <3> QED BY <2>1, <3>1
  <2>6. section' \in {"explore", "augment"} /\ l' \in Index /\ k' \in Index
    <3>1. slack_row \in [Index -> Index] /\ l \in Index /\ k \in Index
      BY <1>1 DEF HungarianTypeOK
    <3> QED BY <3>1, <1>1, <1>5 DEF Introduced
  <2>7. unchosen_row' \in Seq(Index) /\ q' \in 0..Len(unchosen_row')
    BY <1>7, <1>8, <1>19 DEF Grown
  <2> QED BY <2>2, <2>3, <2>4, <2>5, <2>6, <2>7, <1>1, <1>8 DEF HungarianTypeOK
<1>21. CASE free = {}
  <2>1. section' = "explore" /\ seen = {j \in Index : slack[j] # 0} /\ \A j \in seen : slack[j] = s => j \in J
    BY <1>1, <1>5, <1>21 DEF Introduced
  <2>2. /\ \A j \in Index : j \in seen <=> slack[j] # 0
        /\ \A j \in Index \ seen : slack'[j] = 0
    BY <2>1, <1>5 DEF Introduced
  <2>3. \A j \in Index : slack'[j] = 0 <=> slack[j] = 0 \/ j \in J
    BY <2>1, <2>2, <1>6, <1>18
  <2>4. Forest'
    <3>1. unchosen_row' # << >>
      <4>1. Len(u) # 0
        BY <1>1, <1>3, <1>7 DEF Forest
      <4> QED BY <4>1, <1>7, <1>19 DEF Grown
    <3>2. \A j \in Index : slack'[j] = 0 => row_mate[j] # None
      BY <2>3, <1>1, <1>18 DEF Forest
    <3>3. ASSUME NEW i \in Index
          PROVE  i \in ToSet(unchosen_row') <=> col_mate[i] = None \/ slack'[col_mate[i]] = 0
      <4>1. col_mate[i] # None => col_mate[i] \in Index
        BY <1>1 DEF HungarianTypeOK
      <4>2. None \notin J
        BY <1>1, IndexShape
      <4> QED BY <4>1, <4>2, <2>3, <1>19 DEF Grown
    <3> QED BY <3>1, <3>2, <3>3, <1>8, <1>19 DEF Forest, Grown
  <2>5. Slack'
    <3> SUFFICES ASSUME NEW j \in Index, slack'[j] # 0
                 PROVE  /\ slack'[j] \in 1..INF
                        /\ \A x \in 1..q : Reduced(unchosen_row[x], j)' >= slack'[j]
                        /\ \E x \in 1..q :
                              slack_row'[j] = unchosen_row'[x] /\ Reduced(unchosen_row[x], j)' = slack'[j]
      BY <1>8 DEF Slack
    <3>1. slack[j] # 0 /\ slack'[j] = slack[j] - s /\ slack[j] \in Nat /\ slack[j] < INF /\ s <= slack[j]
      BY <2>2, <2>3, <1>6, <1>18
    <3>2. slack'[j] \in 1..INF
      BY <3>1, <1>6, Limits
    <3>3. ASSUME NEW x \in 1..q
          PROVE  /\ unchosen_row'[x] = u[x] /\ x \in 1..Len(u)
                 /\ Reduced(unchosen_row[x], j)' = Reduced(u[x], j) - s
      <4>1. x \in 1..Len(u) /\ unchosen_row'[x] = u[x]
        BY <1>7, <1>19 DEF Grown
      <4>2. Reduced(unchosen_row[x], j)' = Reduced(u[x], j)'
        BY <4>1 DEF Reduced
      <4> QED BY <4>1, <4>2, <3>1, <1>7, <1>12
    <3>4. \A x \in 1..q : Reduced(u[x], j) \in Nat /\ Reduced(u[x], j) >= slack[j]
      BY <3>1, <1>7, <1>11, <1>13
    <3>5. \A x \in 1..q : Reduced(unchosen_row[x], j)' >= slack'[j]
      BY <3>1, <3>3, <3>4, <1>6
    <3>6. PICK x \in 1..q : slack_row[j] = u[x] /\ Reduced(u[x], j) = slack[j]
      BY <3>1, <1>7, <1>14
    <3>7. slack_row'[j] = unchosen_row'[x] /\ Reduced(unchosen_row[x], j)' = slack'[j]
      BY <3>1, <3>3, <3>6, <1>8
    <3> QED BY <3>2, <3>5, <3>7
  <2> QED BY <2>1, <2>4, <2>5, <1>1, <1>15, <1>16, <1>17, <1>20
          DEF HungarianInv, ColumnsStage, RowsStage, Matched, WayBack
<1>22. CASE free # {}
  <2>1. /\ section' = "augment" /\ l' \in Index /\ slack[l'] # 0 /\ slack[l'] = s /\ row_mate[l'] = None
        /\ k' = slack_row[l']
    BY <1>5, <1>22 DEF Introduced
  <2>2. PICK m \in Index : m = l'
    BY <2>1
  <2>3. Mates({m})
    <3>1. \A i \in Index : col_mate[i] # None => col_mate[i] # m
      BY <2>1, <2>2, <1>1, IndexShape DEF Mates
    <3> QED BY <3>1, <1>1 DEF Mates
  <2>4. Matched'
    <3>1. Mates({m})'
      BY <2>3, <1>16
    <3>2. Mates({m})' <=> Mates({l})'
      BY <2>2 DEF Mates
    <3> QED BY <3>1, <3>2, <2>1 DEF Matched
  <2>5. WayBack'
    <3>1. PICK x \in 1..Len(u) : slack_row[m] = u[x] /\ Reduced(u[x], m) = slack[m]
      BY <2>1, <2>2, <1>14
    <3>2. Reduced(k, l)' = 0
      <4>1. Reduced(k, l)' = Reduced(u[x], m)'
        BY <3>1, <2>1, <2>2 DEF Reduced
      <4>2. Reduced(u[x], m)' = Reduced(u[x], m) - s
        BY <2>1, <2>2, <1>7, <1>12
      <4> QED BY <4>1, <4>2, <3>1, <2>1, <2>2, <1>6
    <3>3. x \in DOMAIN unchosen_row' /\ unchosen_row'[x] = u[x] /\ x \in Nat
      BY <1>7, <1>19 DEF Grown
    <3>4. \A y \in 1..x : y \in DOMAIN unchosen_row'
      BY <1>7, <1>19 DEF Grown
    <3>5. \A y \in 1..x : PathBack(y)'
      BY <3>4, <1>19 DEF Grown
    <3> QED BY <3>1, <3>2, <3>3, <3>5, <2>1, <2>2, <1>19 DEF WayBack, Grown
  <2> QED BY <2>1, <2>4, <2>5, <1>15, <1>17, <1>20
          DEF HungarianInv, ColumnsStage, RowsStage, Forest, Slack
<1> QED BY <1>21, <1>22

(* On the way back a row takes the column before it and gives up its own.  *)
LEMMA updateMatchingRow ==
    ASSUME HungarianInv, updateMatching, NEW r, r = k, NEW m, m = l, NEW j, j = col_mate[k]
    PROVE  /\ col_mate' \in [Index -> Index \cup {None}] /\ row_mate' \in [Index -> Index \cup {None}]
           /\ r \in Index /\ m \in Index /\ (j # None => j \in Index /\ row_mate[j] = r)
           /\ col_mate'[r] = m /\ \A i \in Index \ {r} : col_mate'[i] = col_mate[i]
           /\ row_mate'[m] = r /\ \A c \in Index \ {m} : row_mate'[c] = row_mate[c]
           /\ \A a, b \in Index : Reduced(a, b)' = Reduced(a, b)
           /\ UNCHANGED <<problem, cost, row_dec, col_inc, slack_row>> /\ Index' = Index
           /\ IF j = None THEN Mates({})' ELSE Mates({j})'
<1>1. /\ HungarianTypeOK /\ section = "augment" /\ Mates({m}) /\ r \in Index /\ m \in Index /\ problem \in Problems
      /\ Reduced(r, m) = 0
  <2>1. HungarianTypeOK /\ section = "augment" /\ Matched /\ WayBack
    BY DEF HungarianInv, updateMatching
  <2> QED BY <2>1 DEF HungarianTypeOK, Matched, WayBack, Mates
<1>2. /\ col_mate \in [Index -> Index \cup {None}] /\ row_mate \in [Index -> Index \cup {None}]
      /\ None \notin Index
  BY <1>1, IndexShape DEF HungarianTypeOK
<1>3. /\ col_mate' = [col_mate EXCEPT ![r] = m] /\ row_mate' = [row_mate EXCEPT ![m] = r]
      /\ UNCHANGED <<problem, cost, row_dec, col_inc, slack_row>> /\ Index' = Index
  BY IndexFixed DEF updateMatching
<1>4. /\ col_mate' \in [Index -> Index \cup {None}] /\ row_mate' \in [Index -> Index \cup {None}]
      /\ col_mate'[r] = m /\ \A i \in Index \ {r} : col_mate'[i] = col_mate[i]
      /\ row_mate'[m] = r /\ \A c \in Index \ {m} : row_mate'[c] = row_mate[c]
  BY <1>1, <1>2, <1>3
<1>5. \A a, b \in Index : Reduced(a, b)' = Reduced(a, b)
  BY <1>3 DEF Reduced
<1>6. j # None => j \in Index /\ row_mate[j] = r /\ j # m
  BY <1>1, <1>2 DEF Mates
<1>7. ASSUME NEW S, S = IF j = None THEN {} ELSE {j}
      PROVE  Mates(S)'
  <2>1. m \notin S
    BY <1>6, <1>7
  <2>2. ASSUME NEW i \in Index, col_mate'[i] # None
        PROVE  col_mate'[i] \notin S /\ row_mate'[col_mate'[i]] = i /\ Reduced(i, col_mate[i])' = 0
    <3>1. CASE i = r
      <4>1. Reduced(i, col_mate[i])' = Reduced(r, m)'
        BY <3>1, <1>4 DEF Reduced
      <4> QED BY <4>1, <3>1, <2>1, <1>1, <1>4, <1>5
    <3>2. CASE i # r
      <4>1. PICK c \in Index : c = col_mate[i]
        BY <3>2, <2>2, <1>2, <1>4
      <4>2. c # m /\ row_mate[c] = i /\ Reduced(i, c) = 0 /\ col_mate'[i] = c
        BY <4>1, <3>2, <2>2, <1>1, <1>2, <1>4 DEF Mates
      <4>3. c \notin S
        BY <4>2, <3>2, <1>6, <1>7
      <4>4. Reduced(i, col_mate[i])' = Reduced(i, c)'
        BY <4>2 DEF Reduced
      <4> QED BY <4>2, <4>3, <4>4, <1>4, <1>5
    <3> QED BY <3>1, <3>2
  <2>3. ASSUME NEW c \in Index \ S, row_mate'[c] # None
        PROVE  col_mate'[row_mate'[c]] = c
    <3>1. CASE c = m
      BY <3>1, <1>4
    <3>2. CASE c # m
      <4>1. PICK i \in Index : i = row_mate[c]
        BY <3>2, <2>3, <1>2, <1>4
      <4>2. row_mate'[c] = i /\ col_mate[i] = c
        BY <4>1, <3>2, <2>3, <1>1, <1>2, <1>4 DEF Mates
      <4>3. i # r
        BY <4>2, <1>2, <1>7, <2>3
      <4> QED BY <4>2, <4>3, <1>4
    <3> QED BY <3>1, <3>2
  <2>4. \A i \in Index : col_mate'[i] # None => Reduced(i, col_mate[i])' = 0
    BY <2>2
  <2>5. \A i \in Index : col_mate'[i] # None => col_mate'[i] \notin S /\ row_mate'[col_mate'[i]] = i
    BY <2>2
  <2> QED BY <2>3, <2>4, <2>5, <1>3 DEF Mates
<1>8. IF j = None THEN Mates({})' ELSE Mates({j})'
  <2>1. CASE j = None
    BY <2>1, <1>7
  <2>2. CASE j # None
    BY <2>2, <1>7
  <2> QED BY <2>1, <2>2
<1> QED BY <1>1, <1>3, <1>4, <1>5, <1>6, <1>8

(* The way back goes on to the parent, or ends at a root and with it the   *)
(* stage.                                                                  *)
LEMMA updateMatchingStep ==
    ASSUME HungarianInv, updateMatching
    PROVE  HungarianInv'
<1>1. PICK r : r = k
  OBVIOUS
<1>2. PICK m : m = l
  OBVIOUS
<1>3. PICK j : j = col_mate[k]
  OBVIOUS
<1>4. /\ col_mate' \in [Index -> Index \cup {None}] /\ row_mate' \in [Index -> Index \cup {None}]
      /\ r \in Index /\ m \in Index /\ (j # None => j \in Index /\ row_mate[j] = r)
      /\ col_mate'[r] = m /\ \A i \in Index \ {r} : col_mate'[i] = col_mate[i]
      /\ row_mate'[m] = r /\ \A c \in Index \ {m} : row_mate'[c] = row_mate[c]
      /\ \A a, b \in Index : Reduced(a, b)' = Reduced(a, b)
      /\ UNCHANGED <<problem, cost, row_dec, col_inc, slack_row>> /\ Index' = Index
      /\ IF j = None THEN Mates({})' ELSE Mates({j})'
  BY <1>1, <1>2, <1>3, updateMatchingRow
<1>5. /\ HungarianTypeOK /\ Dual /\ Counted /\ WayBack /\ section = "augment" /\ problem \in Problems
      /\ None \notin Index /\ \A i \in Index : i >= 0 /\ ~(i < 0)
  <2>1. HungarianTypeOK /\ Dual /\ Counted /\ WayBack /\ section = "augment" /\ problem \in Problems
    BY DEF HungarianInv, HungarianTypeOK, updateMatching
  <2> QED BY <2>1, IndexShape
<1>6. Size(problem)' = Size(problem) /\ Size(problem) \in Nat
  BY <1>4, <1>5, IndexShape DEF Size
<1>7. Dual' /\ section' # "columns" /\ section' # "rows"
  <2>1. section' \in {"augment", "explore", "check"}
    BY <1>5 DEF updateMatching
  <2>2. \A a, b \in Index : Reduced(a, b)' >= 0
    BY <1>4, <1>5 DEF Dual
  <2>3. \A c \in Index : row_mate'[c] = None => row_mate[c] = None
    BY <1>4, <1>5
  <2> QED BY <2>1, <2>2, <2>3, <1>4, <1>5 DEF Dual
<1>8. CASE j # None
  <2>1. /\ section' = "augment" /\ k' = parent_row[j] /\ l' = j
        /\ UNCHANGED <<unmatched, parent_row, slack, unchosen_row, q>>
    BY <1>1, <1>3, <1>4, <1>5, <1>8 DEF updateMatching, ParentOf
  <2>2. PICK u : u = unchosen_row
    OBVIOUS
  <2>3. PICK x \in DOMAIN u : u[x] = r /\ \A y \in 1..x : PathBack(y)
    BY <1>1, <1>5, <2>2 DEF WayBack
  <2>4. /\ u \in Seq(Index) /\ IsInjective(u) /\ DOMAIN u = 1..Len(u) /\ Len(u) \in Nat /\ x \in Nat
        /\ x \in 1..x
    <3>1. u \in Seq(Index) /\ IsInjective(u)
      BY <1>5, <2>2 DEF HungarianTypeOK, WayBack
    <3> QED BY <3>1, <2>3
  <2>5. PICK y \in 1..(x - 1) : u[y] = parent_row[j] /\ Reduced(parent_row[j], j) = 0
    <3>1. PathBack(x)
      BY <2>3, <2>4
    <3>2. j = col_mate[u[x]]
      BY <1>1, <1>3, <2>3
    <3> QED BY <3>1, <3>2, <1>8, <2>2 DEF PathBack
  <2>6. y \in DOMAIN u /\ u[y] \in Index
    BY <2>3, <2>4, <2>5
  <2>7. Reduced(k, l)' = 0
    <3>1. Reduced(u[y], j)' = 0
      BY <1>4, <1>8, <2>5, <2>6
    <3> QED BY <3>1, <2>1, <2>5 DEF Reduced
  <2>8. ASSUME NEW z \in 1..y PROVE PathBack(z)'
    <3>1. z \in 1..x /\ z \in DOMAIN u /\ z # x /\ z \in Nat
      BY <2>3, <2>4, <2>5
    <3>2. u[z] \in Index /\ u[z] # r
      BY <3>1, <2>3, <2>4 DEF IsInjective
    <3>3. PICK c : c = col_mate[u[z]]
      OBVIOUS
    <3>4. PICK p : p = parent_row[c]
      OBVIOUS
    <3>5. c # None => (\E v \in 1..(z - 1) : u[v] = p) /\ Reduced(p, c) = 0 /\ c \in Index
      <4>1. PathBack(z)
        BY <3>1, <2>3
      <4>2. c # None => c \in Index
        BY <3>2, <3>3, <1>5 DEF HungarianTypeOK
      <4> QED BY <4>1, <4>2, <3>3, <3>4, <2>2 DEF PathBack
    <3>6. col_mate'[unchosen_row'[z]] = c /\ parent_row'[c] = p
      BY <3>2, <3>3, <3>4, <2>1, <2>2, <1>4
    <3>7. c # None => Reduced(p, c)' = 0
      <4> SUFFICES ASSUME c # None PROVE Reduced(p, c)' = 0
        OBVIOUS
      <4>1. PICK v \in 1..(z - 1) : u[v] = p
        BY <3>5
      <4>2. p \in Index
        BY <4>1, <3>1, <2>4
      <4> QED BY <4>2, <3>5, <1>4
    <3> QED BY <3>5, <3>6, <3>7, <2>1, <2>2 DEF PathBack, Reduced
  <2>9. WayBack'
    BY <2>1, <2>2, <2>4, <2>5, <2>6, <2>7, <2>8 DEF WayBack
  <2>10. Counted'
    <3>1. Unmatched' = Unmatched
      BY <1>1, <1>3, <1>4, <1>5, <1>8 DEF Unmatched
    <3> QED BY <3>1, <2>1, <1>5 DEF Counted
  <2>11. Matched'
    <3>1. Mates({j})' <=> Mates({l})'
      BY <2>1 DEF Mates
    <3> QED BY <3>1, <2>1, <1>4, <1>8 DEF Matched
  <2>12. HungarianTypeOK'
    <3>1. k' \in Index /\ l' \in Index
      BY <2>1, <2>5, <2>6, <1>4, <1>8
    <3> QED BY <3>1, <2>1, <1>4, <1>5, <1>6 DEF HungarianTypeOK
  <2> QED BY <2>1, <2>9, <2>10, <2>11, <2>12, <1>7 DEF HungarianInv, ColumnsStage, RowsStage, Forest, Slack
<1>9. CASE j = None
  <2>1. /\ unmatched' = unmatched - 1 /\ UNCHANGED <<k, l>>
        /\ IF unmatched = 1
           THEN section' = "check" /\ UNCHANGED <<parent_row, slack, unchosen_row, q>>
           ELSE /\ section' = "explore" /\ q' = 0
                /\ parent_row' = [i \in Index |-> None] /\ slack' = [i \in Index |-> INF]
                /\ unchosen_row' = Ascending({i \in Index : col_mate'[i] < 0})
    <3>1. ~(j >= 0)
      BY <1>9 DEF None
    <3> QED BY <3>1, <1>3 DEF updateMatching
  <2>2. Unmatched' = {i \in Index : col_mate'[i] < 0}
    <3>1. \A i \in Index : col_mate'[i] \in Index \/ col_mate'[i] = None
      BY <1>4
    <3>2. \A i \in Index : col_mate'[i] < 0 <=> col_mate'[i] = None
      BY <3>1, <1>5 DEF None
    <3> QED BY <3>2, <1>4 DEF Unmatched
  <2>3. /\ IsFiniteSet(Unmatched') /\ Unmatched' \subseteq Index
        /\ Cardinality(Unmatched') = unmatched' /\ unmatched' \in 0..Size(problem)
    <3>1. Unmatched' = Unmatched \ {r}
      <4>1. Unmatched' = {i \in Index : col_mate'[i] = None}
        BY <1>4 DEF Unmatched
      <4>2. \A i \in Index : col_mate'[i] = None <=> col_mate[i] = None /\ i # r
        BY <1>4, <1>5
      <4> QED BY <4>1, <4>2 DEF Unmatched
    <3>2. r \in Unmatched
      BY <1>1, <1>3, <1>4, <1>9 DEF Unmatched
    <3>3. IsFiniteSet(Unmatched) /\ unmatched = Cardinality(Unmatched) /\ unmatched # 0
      <4>1. IsFiniteSet(Index) /\ Unmatched \in SUBSET Index
        BY <1>5, IndexShape DEF Unmatched
      <4> QED BY <4>1, <1>5, FS_Subset DEF Counted
    <3>4. IsFiniteSet(Unmatched') /\ Cardinality(Unmatched') = unmatched - 1
      BY <3>1, <3>2, <3>3, FS_RemoveElement
    <3>5. unmatched \in 0..Size(problem)
      BY <1>5 DEF HungarianTypeOK
    <3>6. Unmatched' \subseteq Index
      BY <3>1 DEF Unmatched
    <3> QED BY <3>3, <3>4, <3>5, <3>6, <2>1, <1>6
  <2>4. Matched'
    BY <2>1, <1>4, <1>9 DEF Matched
  <2>5. CASE unmatched = 1
    <3>1. section' = "check" /\ unmatched' = 0 /\ UNCHANGED <<parent_row, slack, unchosen_row, q, k, l>>
      BY <2>1, <2>5
    <3>2. Unmatched' = {}
      BY <3>1, <2>3, FS_EmptySet
    <3>3. Counted'
      BY <3>1, <3>2 DEF Counted
    <3>4. HungarianTypeOK'
      BY <3>1, <2>3, <1>4, <1>5, <1>6 DEF HungarianTypeOK
    <3> QED BY <3>1, <3>3, <3>4, <2>4, <1>7
            DEF HungarianInv, ColumnsStage, RowsStage, Forest, Slack, WayBack
  <2>6. CASE unmatched # 1
    <3>1. /\ section' = "explore" /\ q' = 0 /\ UNCHANGED <<k, l>>
          /\ parent_row' = [i \in Index |-> None] /\ slack' = [i \in Index |-> INF]
          /\ unchosen_row' = Ascending(Unmatched')
      BY <2>1, <2>2, <2>6
    <3>2. unmatched' # 0
      <4>1. unmatched \in Int
        BY <1>5 DEF HungarianTypeOK
      <4> QED BY <4>1, <2>1, <2>6
    <3>3. PICK S : S = Unmatched'
      OBVIOUS
    <3>4. S # {} /\ S \subseteq Index /\ \A i \in Index : i \in S <=> col_mate'[i] = None
      <4>1. S # {}
        BY <3>2, <3>3, <2>3, FS_EmptySet
      <4> QED BY <4>1, <3>3, <2>3, <1>4 DEF Unmatched
    <3>5. /\ Ascending(S) \in Seq(S) /\ IsInjective(Ascending(S))
          /\ \A i \in S : \E x \in DOMAIN Ascending(S) : Ascending(S)[x] = i
      BY <3>4, <1>5, AscendingLists
    <3>6. PICK w : w = Ascending(S)
      OBVIOUS
    <3>7. /\ w \in Seq(Index) /\ IsInjective(w) /\ w # << >> /\ Len(w) \in Nat
          /\ \A i \in Index : i \in ToSet(w) <=> i \in S
      <4>1. w \in Seq(S) /\ Len(w) \in Nat /\ DOMAIN w = 1..Len(w)
        BY <3>5, <3>6
      <4>2. w \in Seq(Index) /\ \A x \in DOMAIN w : w[x] \in S
        BY <4>1, <3>4
      <4>3. \A i \in S : \E x \in DOMAIN w : w[x] = i
        BY <3>5, <3>6
      <4>4. w # << >>
        BY <4>1, <4>3, <3>4
      <4>5. \A i \in Index : i \in ToSet(w) <=> i \in S
        BY <4>2, <4>3 DEF ToSet
      <4> QED BY <4>1, <4>2, <4>4, <4>5, <3>5, <3>6
    <3>8. unchosen_row' = w
      BY <3>1, <3>3, <3>6
    <3>9. Forest' /\ Slack'
      BY <3>1, <3>4, <3>7, <3>8, <1>4, <1>5, StageBegins
    <3>10. Counted'
      BY <3>1, <3>2, <2>3 DEF Counted
    <3>11. HungarianTypeOK'
      <4>1. slack' \in [Index -> Int] /\ parent_row' \in [Index -> Index \cup {None}]
        BY <3>1, Limits
      <4>2. q' \in 0..Len(unchosen_row') /\ unchosen_row' \in Seq(Index)
        BY <3>1, <3>7, <3>8
      <4> QED BY <4>1, <4>2, <3>1, <2>3, <1>4, <1>5, <1>6 DEF HungarianTypeOK
    <3> QED BY <3>1, <3>9, <3>10, <3>11, <2>4, <1>7
            DEF HungarianInv, ColumnsStage, RowsStage, WayBack
  <2> QED BY <2>5, <2>6
<1> QED BY <1>8, <1>9

(* The double check does not fail: the reduced costs are not negative, and *)
(* every row has a column to which it is tight.                            *)
LEMMA doubleCheckStep ==
    ASSUME HungarianInv, doubleCheck
    PROVE  HungarianInv'
<1>1. /\ HungarianTypeOK /\ Dual /\ Mates({}) /\ unmatched = 0 /\ Unmatched = {} /\ section = "check" /\ problem \in Problems
      /\ UNCHANGED <<problem, cost, row_dec, col_inc, col_mate, row_mate, parent_row,
                     slack, slack_row, unchosen_row, q, unmatched, k, l>>
  BY DEF HungarianInv, HungarianTypeOK, doubleCheck, Matched, Counted
<1>2. \A i, j \in Index : /\ cost[i][j] \in Int /\ row_dec[i] \in Int /\ col_inc[j] \in Int
                         /\ cost[i][j] - row_dec[i] + col_inc[j] >= 0
  BY <1>1 DEF HungarianTypeOK, Dual, Reduced
<1>3. ~ \E i, j \in Index : cost[i][j] < row_dec[i] - col_inc[j]
  BY <1>2
<1>4. ASSUME NEW i \in Index
      PROVE  ~(col_mate[i] < 0) /\ cost[i][col_mate[i]] = row_dec[i] - col_inc[col_mate[i]]
  <2>1. col_mate[i] # None
    BY <1>1 DEF Unmatched
  <2>2. PICK c \in Index : c = col_mate[i]
    BY <2>1, <1>1 DEF HungarianTypeOK
  <2>3. cost[i][c] - row_dec[i] + col_inc[c] = 0
    BY <2>1, <2>2, <1>1 DEF Mates, Reduced
  <2>4. ~(c < 0)
    BY <1>1, IndexShape
  <2>5. cost[i][c] = row_dec[i] - col_inc[c]
    BY <2>3, <1>2
  <2> QED BY <2>2, <2>4, <2>5
<1>5. ~(Cardinality({j \in Index : col_inc[j] # 0}) > Size(problem))
  <2> DEFINE S == {j \in Index : col_inc[j] # 0}
  <2>1. S \in SUBSET Index /\ IsFiniteSet(Index) /\ Cardinality(Index) = Size(problem) /\ Size(problem) \in Nat
    BY <1>1, IndexShape
  <2> HIDE DEF S
  <2>2. Cardinality(S) <= Size(problem) /\ Cardinality(S) \in Nat
    BY <2>1, FS_Subset, FS_CardinalityType
  <2>3. ~(Cardinality(S) > Size(problem))
    BY <2>1, <2>2
  <2> QED BY <2>3 DEF S
<1>6. section' = "done"
  BY <1>3, <1>4, <1>5 DEF doubleCheck
<1>7. Index' = Index /\ Size(problem)' = Size(problem)
  BY <1>1, IndexFixed DEF Size
<1>8. HungarianTypeOK' /\ Dual' /\ Mates({})' /\ Unmatched' = {}
  BY <1>1, <1>6, <1>7 DEF HungarianTypeOK, Dual, Mates, Reduced, Unmatched
<1> QED BY <1>1, <1>6, <1>8
        DEF HungarianInv, ColumnsStage, RowsStage, Matched, Counted, Forest, Slack, WayBack

-----------------------------------------------------------------------------
(* The theorems.                                                           *)

(* The inductive invariant holds in every state of hungarian_solve. *)
THEOREM HungarianInvariance == HungarianSpec => []HungarianInv
<1>1. ASSUME HungarianInv, [HungarianNext]_hungarianVars PROVE HungarianInv'
  <2>1. CASE UNCHANGED hungarianVars
    <3>1. /\ UNCHANGED <<problem, section, cost, row_dec, col_inc, col_mate, row_mate, parent_row>>
          /\ UNCHANGED <<slack, slack_row, unchosen_row, q, unmatched, k, l>>
      BY <2>1 DEF hungarianVars
    <3>2. Index' = Index /\ Size(problem)' = Size(problem)
      BY <3>1, IndexFixed DEF Size
    <3>3. HungarianTypeOK' /\ section' # "exit"
      BY <1>1, <3>1, <3>2 DEF HungarianInv, HungarianTypeOK
    <3>4. ColumnsStage' /\ Dual'
      BY <1>1, <3>1, <3>2 DEF HungarianInv, ColumnsStage, Dual, Reduced
    <3>5. RowsStage'
      BY <1>1, <3>1, <3>2 DEF HungarianInv, RowsStage, Served, Reduced
    <3>6. Matched'
      BY <1>1, <3>1, <3>2 DEF HungarianInv, Matched, Mates, Reduced
    <3>7. Counted'
      BY <1>1, <3>1, <3>2 DEF HungarianInv, Counted, Unmatched
    <3>8. Forest'
      BY <1>1, <3>1, <3>2 DEF HungarianInv, Forest, PathBack, Reduced
    <3>9. Slack'
      BY <1>1, <3>1, <3>2 DEF HungarianInv, Slack, Reduced
    <3>10. WayBack'
      BY <1>1, <3>1, <3>2 DEF HungarianInv, WayBack, PathBack, Reduced
    <3> QED BY <3>3, <3>4, <3>5, <3>6, <3>7, <3>8, <3>9, <3>10 DEF HungarianInv
  <2>2. CASE HungarianNext
    BY <2>1, <2>2, <1>1, subtractColumnMinimaStep, matchRowStep, exploreNodeStep, introduceZeroStep,
       updateMatchingStep, doubleCheckStep DEF HungarianNext, Ended
  <2> QED BY <2>1, <2>2, <1>1
<1> QED BY <1>1, HungarianInitInv, PTL DEF HungarianSpec

(* The solver's arrays keep their types: no index leaves the matrix. *)
THEOREM HungarianTypeCorrect == HungarianSpec => []HungarianTypeOK
<1>1. HungarianInv => HungarianTypeOK
  BY DEF HungarianInv
<1> QED BY <1>1, HungarianInvariance, PTL

(* The double check at the end of hungarian_solve never ends the process. *)
THEOREM DoubleCheckHolds == HungarianSpec => []NeverExits
<1>1. HungarianInv => NeverExits
  BY DEF HungarianInv, NeverExits
<1> QED BY <1>1, HungarianInvariance, PTL

(* Every reached column's parent joined the forest before its row, no row  *)
(* joins twice, and there is always a finite slack to lower.               *)
THEOREM WaysLeadBack == HungarianSpec => []ForestLeadsBack
<1>1. HungarianInv => ForestLeadsBack
  <2> SUFFICES ASSUME HungarianInv, section = "explore" PROVE ForestLeadsBack
    BY DEF ForestLeadsBack
  <2>1. /\ HungarianTypeOK /\ Dual /\ Mates({}) /\ Forest /\ Slack /\ problem \in Problems /\ Unmatched # {}
        /\ None \notin Index /\ \A i \in Index : ~(i < 0)
    <3>1. HungarianTypeOK /\ Dual /\ Matched /\ Forest /\ Slack /\ Counted /\ problem \in Problems
      BY DEF HungarianInv, HungarianTypeOK
    <3>2. Unmatched # {}
      BY <3>1, FS_EmptySet DEF Counted
    <3> QED BY <3>1, <3>2, IndexShape DEF Matched
  <2>2. IsInjective(unchosen_row) /\ unchosen_row \in Seq(Index)
    BY <2>1 DEF Forest, HungarianTypeOK
  <2>3. \A j \in Index : slack[j] = 0 => row_mate[j] \in Index /\ col_mate[row_mate[j]] = j
    BY <2>1 DEF Forest, Mates, HungarianTypeOK
  <2>4. ASSUME NEW i \in Index
        PROVE  i \in ToSet(unchosen_row) <=> col_mate[i] < 0 \/ \E j \in Index : slack[j] = 0 /\ i = row_mate[j]
    <3>0. col_mate[i] \in Index \/ col_mate[i] = None
      BY <2>1 DEF HungarianTypeOK
    <3>1. col_mate[i] < 0 <=> col_mate[i] = None
      BY <3>0, <2>1 DEF None
    <3>2. col_mate[i] # None => col_mate[i] \in Index /\ row_mate[col_mate[i]] = i
      BY <2>1 DEF HungarianTypeOK, Mates
    <3> QED BY <3>1, <3>2, <2>1, <2>3 DEF Forest
  <2>5. ToSet(unchosen_row) =
          {i \in Index : col_mate[i] < 0} \cup {row_mate[j] : j \in {m \in Index : slack[m] = 0}}
    <3>1. ToSet(unchosen_row) \subseteq Index
      BY <2>2 DEF ToSet
    <3> QED BY <3>1, <2>3, <2>4
  <2>6. ASSUME NEW j \in Index, slack[j] = 0
        PROVE  \E x, y \in DOMAIN unchosen_row :
                  x < y /\ unchosen_row[x] = parent_row[j] /\ unchosen_row[y] = row_mate[j]
    <3>1. row_mate[j] \in ToSet(unchosen_row)
      BY <2>1, <2>3, <2>6 DEF Forest
    <3>2. PICK y \in DOMAIN unchosen_row : unchosen_row[y] = row_mate[j]
      BY <3>1 DEF ToSet
    <3>3. PICK x \in 1..(y - 1) : unchosen_row[x] = parent_row[j]
      <4>1. PathBack(y) /\ col_mate[unchosen_row[y]] = j /\ j # None
        BY <3>2, <2>1, <2>3, <2>6 DEF Forest
      <4> QED BY <4>1 DEF PathBack
    <3>4. DOMAIN unchosen_row = 1..Len(unchosen_row) /\ Len(unchosen_row) \in Nat
      BY <2>2
    <3>5. x \in DOMAIN unchosen_row /\ x < y
      BY <3>3, <3>4
    <3> QED BY <3>2, <3>3, <3>5
  <2>7. q = Len(unchosen_row) => LeastSlack < INF
    BY <2>1, LeastSlackFinite
  <2> QED BY <2>2, <2>5, <2>6, <2>7 DEF ForestLeadsBack
<1> QED BY <1>1, HungarianInvariance, PTL

(* Between the stages the two arrays are one matching along entries of     *)
(* reduced cost zero, and the way back rematches along such entries.       *)
THEOREM MatchingStaysTight == HungarianSpec => []MatchingTight
<1>1. HungarianInv => MatchingTight
  <2> SUFFICES ASSUME HungarianInv PROVE MatchingTight
    OBVIOUS
  <2>1. HungarianTypeOK /\ Matched /\ Counted /\ WayBack /\ problem \in Problems
    BY DEF HungarianInv, HungarianTypeOK
  <2>2. /\ \A i \in Index : /\ col_mate[i] < 0 <=> col_mate[i] = None
                            /\ col_mate[i] >= 0 <=> col_mate[i] # None
        /\ None \notin Index
    <3>1. \A i \in Index : i \in Nat
      BY <2>1, IndexShape
    <3>2. \A i \in Index : col_mate[i] \in Index \/ col_mate[i] = None
      BY <2>1 DEF HungarianTypeOK
    <3> QED BY <3>1, <3>2, <2>1, IndexShape DEF None
  <2>3. ASSUME section \in {"explore", "check", "done"}
        PROVE  /\ \A i, j \in Index : col_mate[i] = j <=> row_mate[j] = i
               /\ \A i \in Index : col_mate[i] >= 0 => Reduced(i, col_mate[i]) = 0
               /\ unmatched = Cardinality({i \in Index : col_mate[i] < 0})
    <3>1. Mates({})
      BY <2>1, <2>3 DEF Matched
    <3>2. \A i, j \in Index : col_mate[i] = j <=> row_mate[j] = i
      BY <3>1, <2>2 DEF Mates
    <3>3. Unmatched = {i \in Index : col_mate[i] < 0}
      BY <2>2 DEF Unmatched
    <3>4. unmatched = Cardinality(Unmatched)
      BY <2>1, <2>3, FS_EmptySet DEF Counted
    <3> QED BY <3>1, <3>2, <3>3, <3>4, <2>2 DEF Mates
  <2>4. section = "augment" => Reduced(k, l) = 0
    BY <2>1 DEF WayBack
  <2> QED BY <2>3, <2>4 DEF MatchingTight
<1> QED BY <1>1, HungarianInvariance, PTL

-----------------------------------------------------------------------------
(* The assignment is the best there is.  The costs are those of the argument*)
(* but for a value of their column, the reduced costs are not negative and  *)
(* are zero along the matching, and the sum of the dual values is the same  *)
(* for every assignment because a rearranged sum is the same sum.           *)

(* The partial sums of the values of g. *)
ArePartial(s, n, g) ==
    /\ s \in [0..n -> Int] /\ s[0] = 0 /\ SumOf(n, g) = s[n]
    /\ \A i \in 0..(n - 1) : s[i + 1] = s[i] + g[i]

(* A sum is computed through partial sums. *)
LEMMA PartialSums ==
    ASSUME NEW n \in Nat, NEW g, \A i \in 0..(n - 1) : g[i] \in Int
    PROVE  \E s : ArePartial(s, n, g)
<1> DEFINE step == [i \in 1..n |-> [x \in Int |-> x + g[i - 1]]]
           upTo[i \in 0..n] == IF i = 0 THEN 0 ELSE upTo[i - 1] + g[i - 1]
<1>1. ASSUME NEW i \in 1..n, NEW x \in Int PROVE x + g[i - 1] \in Int
  <2>1. i - 1 \in 0..(n - 1)
    OBVIOUS
  <2> QED BY <2>1
<1>2. AreSteps(step, n, Int)
  BY <1>1 DEF AreSteps
<1>3. PICK f : IsIterated(f, step, n, Int, 0)
  <2> HIDE DEF step, upTo
  <2> QED BY <1>2, RecursionUpTo
<1>4. f = [i \in 0..n |-> IF i = 0 THEN 0 ELSE f[i - 1] + g[i - 1]]
  <2>1. ASSUME NEW i \in 0..n, i # 0
        PROVE  step[i][f[i - 1]] = f[i - 1] + g[i - 1]
    <3>1. i \in 1..n /\ i - 1 \in 0..n
      BY <2>1
    <3>2. f[i - 1] \in Int
      BY <3>1, <1>3 DEF IsIterated
    <3> QED BY <3>1, <3>2
  <2>2. ASSUME NEW i \in 0..n
        PROVE  f[i] = IF i = 0 THEN 0 ELSE f[i - 1] + g[i - 1]
    <3> HIDE DEF step
    <3>1. i # 0 => i \in 1..n
      OBVIOUS
    <3> QED BY <1>3, <2>1, <3>1 DEF IsIterated
  <2> HIDE DEF step
  <2> QED BY <1>3, <2>2 DEF IsIterated
<1>5. upTo = [i \in 0..n |-> IF i = 0 THEN 0 ELSE upTo[i - 1] + g[i - 1]]
  BY <1>4
<1>6. SumOf(n, g) = upTo[n]
  BY DEF SumOf, upTo
<1> HIDE DEF upTo, step
<1> DEFINE T == {i \in 0..n : upTo[i] \in Int}
<1>7. ASSUME NEW i \in 0..(n - 1) PROVE upTo[i + 1] = upTo[i] + g[i]
  <2>1. i + 1 \in 0..n /\ i + 1 # 0 /\ (i + 1) - 1 = i
    OBVIOUS
  <2> QED BY <2>1, <1>5
<1>8. 0 \in 0..n /\ upTo[0] = 0
  BY <1>5
<1>9. 0 \in T
  BY <1>8
<1>10. ASSUME NEW i \in 0..(n - 1), i \in T PROVE i + 1 \in T
  <2>1. i + 1 \in 0..n
    OBVIOUS
  <2> QED BY <2>1, <1>7, <1>10
<1>11. \A i \in 0..n : upTo[i] \in Int
  <2>1. 0..n \subseteq T
    <3> HIDE DEF T
    <3> QED BY <1>9, <1>10, InductionUpTo
  <2> QED BY <2>1
<1>12. upTo \in [0..n -> Int]
  BY <1>5, <1>11
<1> QED BY <1>6, <1>7, <1>8, <1>12 DEF ArePartial

(* A sum of numbers is a number. *)
LEMMA SumType ==
    ASSUME NEW n \in Nat, NEW g, \A i \in 0..(n - 1) : g[i] \in Int
    PROVE  SumOf(n, g) \in Int
<1>1. PICK s : ArePartial(s, n, g)
  BY PartialSums
<1>2. n \in 0..n
  OBVIOUS
<1> QED BY <1>1, <1>2 DEF ArePartial

(* Greater values have a greater sum. *)
LEMMA SumMonotone ==
    ASSUME NEW n \in Nat, NEW g, NEW h,
           \A i \in 0..(n - 1) : g[i] \in Int /\ h[i] \in Int /\ g[i] <= h[i]
    PROVE  SumOf(n, g) <= SumOf(n, h)
<1>1. PICK s : ArePartial(s, n, g)
  BY PartialSums
<1>2. PICK t : ArePartial(t, n, h)
  BY PartialSums
<1> DEFINE T == {i \in 0..n : s[i] <= t[i]}
<1>3. 0 \in T
  BY <1>1, <1>2 DEF ArePartial
<1>4. ASSUME NEW i \in 0..(n - 1), i \in T PROVE i + 1 \in T
  <2>1. i + 1 \in 0..n /\ i \in 0..n
    OBVIOUS
  <2>2. s[i + 1] = s[i] + g[i] /\ t[i + 1] = t[i] + h[i] /\ s[i] \in Int /\ t[i] \in Int
    BY <2>1, <1>1, <1>2 DEF ArePartial
  <2>3. s[i] <= t[i] /\ g[i] <= h[i] /\ g[i] \in Int /\ h[i] \in Int
    BY <1>4
  <2> QED BY <2>1, <2>2, <2>3
<1>5. 0..n \subseteq T
  <2> HIDE DEF T
  <2> QED BY <1>3, <1>4, InductionUpTo
<1>6. n \in T
  BY <1>5
<1> QED BY <1>1, <1>2, <1>6 DEF ArePartial

(* The values of f are those of g and of h together. *)
AddsUp(n, f, g, h) ==
    \A i \in 0..(n - 1) : g[i] \in Int /\ h[i] \in Int /\ f[i] = g[i] + h[i]

(* The sum of sums is the sum of both sums. *)
LEMMA SumAdds ==
    ASSUME NEW n \in Nat, NEW g, NEW h, NEW f, AddsUp(n, f, g, h)
    PROVE  SumOf(n, f) = SumOf(n, g) + SumOf(n, h)
<1>0. \A i \in 0..(n - 1) : g[i] \in Int /\ h[i] \in Int /\ f[i] = g[i] + h[i]
  BY DEF AddsUp
<1>1. PICK s : ArePartial(s, n, g)
  BY <1>0, PartialSums
<1>2. PICK t : ArePartial(t, n, h)
  BY <1>0, PartialSums
<1>3. PICK u : ArePartial(u, n, f)
  <2>1. \A i \in 0..(n - 1) : f[i] \in Int
    BY <1>0
  <2> QED BY <2>1, PartialSums
<1> DEFINE T == {i \in 0..n : u[i] = s[i] + t[i]}
<1>4. 0 \in T
  BY <1>1, <1>2, <1>3 DEF ArePartial
<1>5. ASSUME NEW i \in 0..(n - 1), i \in T PROVE i + 1 \in T
  <2>1. i + 1 \in 0..n /\ i \in 0..n
    OBVIOUS
  <2>2. /\ s[i + 1] = s[i] + g[i] /\ t[i + 1] = t[i] + h[i] /\ u[i + 1] = u[i] + f[i]
        /\ s[i] \in Int /\ t[i] \in Int
    BY <2>1, <1>1, <1>2, <1>3 DEF ArePartial
  <2>3. u[i] = s[i] + t[i] /\ g[i] \in Int /\ h[i] \in Int /\ f[i] = g[i] + h[i]
    BY <1>0, <1>5
  <2> QED BY <2>1, <2>2, <2>3
<1>6. 0..n \subseteq T
  <2> HIDE DEF T
  <2> QED BY <1>4, <1>5, InductionUpTo
<1>7. n \in T
  BY <1>6
<1> QED BY <1>1, <1>2, <1>3, <1>7 DEF ArePartial

(* The units of which the sum of the first m of some natural values counts. *)
Units(m, g) == {p \in (0..(m - 1)) \X Nat : p[2] < g[p[1]]}

(* A sum of natural numbers is the number of its units. *)
LEMMA SumCountsUnits ==
    ASSUME NEW n \in Nat, NEW g, \A i \in 0..(n - 1) : g[i] \in Nat
    PROVE  IsFiniteSet(Units(n, g)) /\ Cardinality(Units(n, g)) = SumOf(n, g)
<1>1. PICK s : ArePartial(s, n, g)
  BY PartialSums
<1> DEFINE T == {m \in 0..n : IsFiniteSet(Units(m, g)) /\ Cardinality(Units(m, g)) = s[m]}
<1>2. 0 \in T
  <2>1. Units(0, g) = {}
    BY DEF Units
  <2>2. s[0] = 0 /\ 0 \in 0..n
    BY <1>1 DEF ArePartial
  <2> QED BY <2>1, <2>2, FS_EmptySet
<1>3. ASSUME NEW m \in 0..(n - 1), m \in T PROVE m + 1 \in T
  <2> DEFINE U == Units(m, g)
             V == {p \in {m} \X Nat : p[2] < g[m]}
             f == [t \in 1..g[m] |-> <<m, t - 1>>]
  <2>1. m \in Nat /\ g[m] \in Nat /\ m + 1 \in 0..n /\ s[m + 1] = s[m] + g[m]
    BY <1>1 DEF ArePartial
  <2>2. Units(m + 1, g) = U \cup V
    <3>1. 0..((m + 1) - 1) = (0..(m - 1)) \cup {m}
      BY <2>1
    <3> QED BY <3>1 DEF Units
  <2>3. U \cap V = {}
    BY <2>1 DEF Units
  <2>4. f \in Bijection(1..g[m], V)
    <3>1. f \in [1..g[m] -> V]
      BY <2>1
    <3>2. \A a, b \in 1..g[m] : f[a] = f[b] => a = b
      BY <2>1
    <3>3. ASSUME NEW p \in V PROVE \E a \in 1..g[m] : f[a] = p
      <4>1. p[1] = m /\ p[2] \in Nat /\ p[2] < g[m] /\ p = <<m, p[2]>>
        OBVIOUS
      <4>2. p[2] + 1 \in 1..g[m] /\ (p[2] + 1) - 1 = p[2]
        BY <4>1, <2>1
      <4>3. f[p[2] + 1] = p
        BY <4>1, <4>2
      <4> QED BY <4>2, <4>3
    <3> HIDE DEF f, V
    <3> QED BY <3>1, <3>2, <3>3 DEF Bijection, Injection, Surjection, IsInjective
  <2>5. IsFiniteSet(V) /\ Cardinality(V) = g[m]
    <3>1. IsFiniteSet(1..g[m]) /\ Cardinality(1..g[m]) = g[m]
      <4>1. PICK c \in Nat : c = g[m]
        BY <2>1
      <4>2. IsFiniteSet(1..c) /\ Cardinality(1..c) = c
        BY FS_Interval
      <4> QED BY <4>1, <4>2
    <3>2. ExistsBijection(1..g[m], V)
      BY <2>4 DEF ExistsBijection
    <3> HIDE DEF f, V
    <3> QED BY <3>1, <3>2, FS_Bijection
  <2>6. IsFiniteSet(U) /\ Cardinality(U) = s[m]
    BY <1>3
  <2> HIDE DEF U, V
  <2>7. s[m] \in Int
    BY <1>1, <2>1 DEF ArePartial
  <2>8. IsFiniteSet(U \cup V) /\ Cardinality(U \cup V) = s[m] + g[m]
    <3>1. Cardinality(U \cap V) = 0
      BY <2>3, FS_EmptySet
    <3>2. /\ IsFiniteSet(U \cup V)
          /\ Cardinality(U \cup V) = Cardinality(U) + Cardinality(V) - Cardinality(U \cap V)
      BY <2>5, <2>6, FS_Union
    <3> QED BY <3>1, <3>2, <2>1, <2>5, <2>6, <2>7
  <2>9. IsFiniteSet(Units(m + 1, g)) /\ Cardinality(Units(m + 1, g)) = s[m + 1]
    BY <2>1, <2>2, <2>8
  <2> QED BY <2>1, <2>9
<1>4. 0..n \subseteq T
  <2> HIDE DEF T
  <2> QED BY <1>2, <1>3, InductionUpTo
<1>5. n \in T
  BY <1>4
<1> QED BY <1>1, <1>5 DEF ArePartial

(* A rearrangement of natural numbers has the same sum. *)
LEMMA SumOfRearranged ==
    ASSUME NEW n \in Nat, NEW g, \A i \in 0..(n - 1) : g[i] \in Nat,
           NEW f \in Bijection(0..(n - 1), 0..(n - 1)),
           NEW h, \A i \in 0..(n - 1) : h[i] = g[f[i]]
    PROVE  SumOf(n, h) = SumOf(n, g)
<1> DEFINE I == 0..(n - 1)
           U == Units(n, h)
           V == Units(n, g)
           b == [p \in U |-> <<f[p[1]], p[2]>>]
<1>1. /\ f \in [I -> I] /\ \A i, j \in I : f[i] = f[j] => i = j
      /\ \A j \in I : \E i \in I : f[i] = j
  BY DEF Bijection, Injection, Surjection, IsInjective
<1>2. \A i \in I : h[i] \in Nat
  BY <1>1
<1>3. IsFiniteSet(U) /\ Cardinality(U) = SumOf(n, h)
  BY <1>2, SumCountsUnits
<1>4. IsFiniteSet(V) /\ Cardinality(V) = SumOf(n, g)
  BY SumCountsUnits
<1>5. \A p \in U : p \in I \X Nat /\ p[2] < h[p[1]]
  BY DEF Units
<1>6. \A i \in I, t \in Nat : <<i, t>> \in U <=> t < h[i]
  BY DEF Units
<1>7. \A p \in V : p \in I \X Nat /\ p[2] < g[p[1]]
  BY DEF Units
<1>8. \A i \in I, t \in Nat : <<i, t>> \in V <=> t < g[i]
  BY DEF Units
<1> HIDE DEF I, U, V
<1>9. b \in [U -> V]
  <2> SUFFICES ASSUME NEW p \in U PROVE <<f[p[1]], p[2]>> \in V
    OBVIOUS
  <2>1. p[1] \in I /\ p[2] \in Nat /\ p[2] < h[p[1]]
    BY <1>5
  <2>2. f[p[1]] \in I /\ h[p[1]] = g[f[p[1]]]
    BY <2>1, <1>1 DEF I
  <2> QED BY <2>1, <2>2, <1>8
<1>10. ASSUME NEW p \in U, NEW r \in U, b[p] = b[r] PROVE p = r
  <2>1. p[1] \in I /\ r[1] \in I /\ p = <<p[1], p[2]>> /\ r = <<r[1], r[2]>>
    BY <1>5
  <2>2. f[p[1]] = f[r[1]] /\ p[2] = r[2]
    BY <1>10
  <2> QED BY <2>1, <2>2, <1>1
<1>11. ASSUME NEW v \in V PROVE \E p \in U : b[p] = v
  <2>1. v[1] \in I /\ v[2] \in Nat /\ v[2] < g[v[1]] /\ v = <<v[1], v[2]>>
    BY <1>7
  <2>2. PICK i \in I : f[i] = v[1]
    BY <2>1, <1>1
  <2>3. h[i] = g[v[1]]
    BY <2>2 DEF I
  <2>4. <<i, v[2]>> \in U
    BY <2>1, <2>3, <1>6
  <2> QED BY <2>1, <2>2, <2>4
<1> HIDE DEF b
<1>12. b \in Bijection(U, V)
  BY <1>9, <1>10, <1>11 DEF Bijection, Injection, Surjection, IsInjective
<1>13. Cardinality(V) = Cardinality(U)
  BY <1>3, <1>12, FS_Bijection DEF ExistsBijection
<1> QED BY <1>3, <1>4, <1>13

(* So have rearranged integers. *)
LEMMA SumOfPermuted ==
    ASSUME NEW n \in Nat \ {0}, NEW v \in [0..(n - 1) -> Int],
           NEW f \in Bijection(0..(n - 1), 0..(n - 1))
    PROVE  SumOf(n, [i \in 0..(n - 1) |-> v[f[i]]]) = SumOf(n, v)
<1> DEFINE I == 0..(n - 1)
           S == {v[i] : i \in I}
           h == [i \in I |-> v[f[i]]]
<1>1. f \in [I -> I]
  BY DEF Bijection, Injection
<1>2. IsFiniteSet(I) /\ 0 \in I
  BY FS_Interval
<1>3. v = [i \in I |-> v[i]] /\ \A i \in I : v[i] \in Int
  OBVIOUS
<1>4. IsFiniteSet(S) /\ S \subseteq Int /\ S # {}
  <2>1. S \subseteq Int /\ S # {}
    BY <1>2
  <2> HIDE DEF I
  <2> QED BY <2>1, <1>2, <1>3, FiniteRange
<1>5. PICK b \in Int : \A i \in I : b <= v[i]
  <2>1. Min(S) \in S /\ \A m \in S : Min(S) <= m
    <3> HIDE DEF S
    <3> QED BY <1>4, MinIsLeast
  <2>2. Min(S) \in Int
    BY <2>1, <1>4
  <2> QED BY <2>1, <2>2
<1> DEFINE lift == [i \in I |-> -b]
           g == [i \in I |-> v[i] + (-b)]
           gf == [i \in I |-> g[f[i]]]
<1>6. \A i \in I : g[i] \in Nat /\ lift[i] \in Int
  BY <1>3, <1>5
<1>7. \A i \in I : g[i] = v[i] + lift[i] /\ gf[i] = h[i] + lift[i] /\ h[i] \in Int /\ gf[i] = g[f[i]]
  BY <1>1, <1>3
<1> HIDE DEF g, gf, h, lift
<1>8. SumOf(n, g) = SumOf(n, v) + SumOf(n, lift)
  <2>1. AddsUp(n, g, v, lift)
    BY <1>3, <1>6, <1>7 DEF AddsUp
  <2> QED BY <2>1, SumAdds
<1>9. SumOf(n, gf) = SumOf(n, h) + SumOf(n, lift)
  <2>1. AddsUp(n, gf, h, lift)
    BY <1>6, <1>7 DEF AddsUp
  <2> QED BY <2>1, SumAdds
<1>10. SumOf(n, gf) = SumOf(n, g)
  BY <1>6, <1>7, SumOfRearranged
<1>11. SumOf(n, v) \in Int /\ SumOf(n, lift) \in Int /\ SumOf(n, h) \in Int
  BY <1>3, <1>6, <1>7, SumType
<1>12. SumOf(n, h) = SumOf(n, v)
  BY <1>8, <1>9, <1>10, <1>11
<1> QED BY <1>12 DEF h

(* The entries of matrix d are no less than the sum of a value of their row *)
(* and one of their column, and equal it along assignment a.                *)
TightAlong(n, a, d, u, v) ==
    /\ \A i, j \in 0..(n - 1) : d[i][j] \in Int /\ d[i][j] >= u[i] + v[j]
    /\ \A i \in 0..(n - 1) : d[i][a[i]] = u[i] + v[a[i]]

(* Such an assignment has the least total. *)
LEMMA TightIsLeast ==
    ASSUME NEW n \in Nat \ {0}, NEW a \in Bijection(0..(n - 1), 0..(n - 1)),
           NEW f \in Bijection(0..(n - 1), 0..(n - 1)),
           NEW u \in [0..(n - 1) -> Int], NEW v \in [0..(n - 1) -> Int],
           NEW d, TightAlong(n, a, d, u, v)
    PROVE  SumOf(n, [i \in 0..(n - 1) |-> d[i][a[i]]]) <= SumOf(n, [i \in 0..(n - 1) |-> d[i][f[i]]])
<1> DEFINE I == 0..(n - 1)
           va == [i \in I |-> v[a[i]]]
           vf == [i \in I |-> v[f[i]]]
           da == [i \in I |-> d[i][a[i]]]
           df == [i \in I |-> d[i][f[i]]]
           uf == [i \in I |-> u[i] + v[f[i]]]
<1>1. a \in [I -> I] /\ f \in [I -> I]
  BY DEF Bijection, Injection
<1>2. SumOf(n, va) = SumOf(n, v) /\ SumOf(n, vf) = SumOf(n, v)
  BY SumOfPermuted
<1>3. ASSUME NEW i \in I
      PROVE  /\ u[i] \in Int /\ va[i] \in Int /\ vf[i] \in Int /\ df[i] \in Int /\ uf[i] \in Int
             /\ da[i] = u[i] + va[i] /\ uf[i] = u[i] + vf[i] /\ uf[i] <= df[i]
  <2>1. a[i] \in I /\ f[i] \in I
    BY <1>1
  <2>2. u[i] \in Int /\ v[a[i]] \in Int /\ v[f[i]] \in Int
    BY <2>1
  <2>3. d[i][f[i]] \in Int /\ d[i][f[i]] >= u[i] + v[f[i]] /\ d[i][a[i]] = u[i] + v[a[i]]
    BY <2>1 DEF TightAlong
  <2>4. u[i] + v[f[i]] \in Int /\ u[i] + v[f[i]] <= d[i][f[i]]
    <3>1. PICK x \in Int, y \in Int, z \in Int : x = u[i] /\ y = v[f[i]] /\ z = d[i][f[i]]
      BY <2>2, <2>3
    <3>2. z >= x + y
      BY <2>3, <3>1
    <3>3. x + y \in Int /\ x + y <= z
      BY <3>2
    <3> QED BY <3>1, <3>3
  <2> QED BY <2>2, <2>3, <2>4
<1> HIDE DEF va, vf, da, df, uf
<1>4. SumOf(n, da) = SumOf(n, u) + SumOf(n, va)
  <2>1. AddsUp(n, da, u, va)
    BY <1>3 DEF AddsUp
  <2> QED BY <2>1, SumAdds
<1>5. SumOf(n, uf) = SumOf(n, u) + SumOf(n, vf)
  <2>1. AddsUp(n, uf, u, vf)
    BY <1>3 DEF AddsUp
  <2> QED BY <2>1, SumAdds
<1>6. SumOf(n, uf) <= SumOf(n, df)
  BY <1>3, SumMonotone
<1>7. SumOf(n, da) <= SumOf(n, df)
  BY <1>2, <1>4, <1>5, <1>6
<1> QED BY <1>7 DEF da, df

(* The costs the solver works with are those of hungarian_init but for a    *)
(* value of their column.                                                   *)
Lowered(m) ==
    /\ m \in [Index -> Int]
    /\ \A i, j \in Index : cost[i][j] = SquareCost(problem)[i][j] - m[j]

CostKept ==
    /\ section = "columns" => cost = SquareCost(problem)
    /\ section # "columns" => \E m : Lowered(m)

(* That stays so. *)
LEMMA CostStaysLowered == HungarianSpec => []CostKept
<1>1. HungarianInit => CostKept
  BY DEF HungarianInit, CostKept
<1>2. HungarianInv /\ CostKept /\ [HungarianNext]_hungarianVars => CostKept'
  <2> SUFFICES ASSUME HungarianInv, CostKept, [HungarianNext]_hungarianVars PROVE CostKept'
    OBVIOUS
  <2>1. CASE subtractColumnMinima
    <3> DEFINE m == [j \in Index |-> Min({cost[i][j] : i \in Index})]
    <3>1. problem \in Problems /\ cost \in [Index -> [Index -> Int]] /\ section = "columns"
      BY <2>1 DEF HungarianInv, HungarianTypeOK, subtractColumnMinima
    <3>2. cost = SquareCost(problem)
      BY <3>1 DEF CostKept
    <3>3. ASSUME NEW j \in Index PROVE m[j] \in Int
      <4> DEFINE f == [i \in Index |-> cost[i][j]]
      <4>1. f = [i \in Index |-> f[i]] /\ \A i \in Index : f[i] \in Int
        BY <3>1
      <4>2. {f[i] : i \in Index} = {cost[i][j] : i \in Index}
        OBVIOUS
      <4> HIDE DEF f
      <4>3. \E i \in Index : Min({f[x] : x \in Index}) = f[i]
        BY <3>1, <4>1, MinOverIndex
      <4>4. Min({f[x] : x \in Index}) \in Int
        BY <4>1, <4>3
      <4> QED BY <4>2, <4>4
    <3>4. /\ cost' = [i \in Index |-> [j \in Index |-> cost[i][j] - m[j]]]
          /\ problem' = problem /\ section' = "rows"
      BY <2>1 DEF subtractColumnMinima
    <3>5. m \in [Index -> Int]
      BY <3>3
    <3>6. PICK n : n = m
      OBVIOUS
    <3> HIDE DEF m
    <3>7. Index' = Index
      BY <3>4, IndexFixed
    <3>8. Lowered(n)'
      BY <3>2, <3>4, <3>5, <3>6, <3>7 DEF Lowered
    <3> QED BY <3>4, <3>8 DEF CostKept
  <2>2. CASE ~subtractColumnMinima
    <3>1. UNCHANGED <<problem, cost>> /\ (section' = "columns" <=> section = "columns")
      <4>1. CASE UNCHANGED hungarianVars
        BY <4>1 DEF hungarianVars
      <4>2. CASE matchRow
        BY <4>2 DEF matchRow
      <4>3. CASE exploreNode
        BY <4>3 DEF exploreNode
      <4>4. CASE introduceZero
        BY <4>4 DEF introduceZero
      <4>5. CASE updateMatching
        BY <4>5 DEF updateMatching
      <4>6. CASE doubleCheck
        BY <4>6 DEF doubleCheck
      <4>7. CASE Ended
        BY <4>7 DEF Ended, hungarianVars
      <4> QED BY <2>2, <4>1, <4>2, <4>3, <4>4, <4>5, <4>6, <4>7 DEF HungarianNext
    <3>2. Index' = Index
      BY <3>1, IndexFixed
    <3>3. \A m : Lowered(m) => Lowered(m)'
      BY <3>1, <3>2 DEF Lowered
    <3> QED BY <3>1, <3>3 DEF CostKept
  <2> QED BY <2>1, <2>2
<1> QED BY <1>1, <1>2, HungarianInvariance, PTL DEF HungarianSpec

(* An assignment is a bijection. *)
LEMMA AssignmentShape ==
    ASSUME problem \in Problems, NEW f \in Assignments
    PROVE  f \in Bijection(Index, Index)
<1>1. f \in Injection(Index, Index) /\ IsFiniteSet(Index)
  BY IndexShape DEF Assignments, Injection
<1>2. f \in Surjection(Index, Index)
  BY <1>1, FS_Injection
<1> QED BY <1>1, <1>2 DEF Bijection

(* The total of the costs orders the assignments as the mode says.          *)
LEMMA TotalsOrdered ==
    ASSUME problem \in Problems, NEW f \in Assignments, NEW g \in Assignments,
           Total(SquareCost(problem), f) <= Total(SquareCost(problem), g)
    PROVE  IF problem.mode = MINIMIZE_COST
           THEN Total(Padded(problem), f) <= Total(Padded(problem), g)
           ELSE Total(Padded(problem), f) >= Total(Padded(problem), g)
<1> DEFINE n == Size(problem)
           I == 0..(n - 1)
           K == MaxCost(problem)
           pf == [i \in Index |-> Padded(problem)[i][f[i]]]
           pg == [i \in Index |-> Padded(problem)[i][g[i]]]
           sf == [i \in Index |-> SquareCost(problem)[i][f[i]]]
           sg == [i \in Index |-> SquareCost(problem)[i][g[i]]]
           all == [i \in Index |-> K]
<1>1. n \in Nat /\ Index = I
  BY IndexShape
<1>2. f \in [Index -> Index] /\ g \in [Index -> Index]
  BY DEF Assignments
<1>3. K \in Int /\ \A i \in Index : pf[i] \in Int /\ pg[i] \in Int
  BY <1>2, PaddedShape, Limits
<1>4. SumOf(n, sf) <= SumOf(n, sg)
  BY DEF Total
<1>5. CASE problem.mode = MINIMIZE_COST
  BY <1>5 DEF SquareCost
<1>6. CASE problem.mode # MINIMIZE_COST
  <2>1. \A i, j \in Index : SquareCost(problem)[i][j] = K - Padded(problem)[i][j]
    BY <1>1, <1>6 DEF SquareCost
  <2>2. \A i \in Index : sf[i] = K - pf[i] /\ sg[i] = K - pg[i] /\ all[i] = K
    BY <1>2, <2>1
  <2> HIDE DEF n, K, pf, pg, sf, sg, all
  <2>3. \A i \in Index : /\ sf[i] \in Int /\ sg[i] \in Int
                         /\ all[i] = sf[i] + pf[i] /\ all[i] = sg[i] + pg[i]
    BY <1>3, <2>2
  <2>4. AddsUp(n, all, sf, pf) /\ AddsUp(n, all, sg, pg)
    BY <1>1, <1>3, <2>3 DEF AddsUp
  <2>5. SumOf(n, all) = SumOf(n, sf) + SumOf(n, pf) /\ SumOf(n, all) = SumOf(n, sg) + SumOf(n, pg)
    BY <1>1, <2>4, SumAdds
  <2>6. SumOf(n, sf) \in Int /\ SumOf(n, pf) \in Int /\ SumOf(n, sg) \in Int /\ SumOf(n, pg) \in Int
    BY <1>1, <1>3, <2>3, SumType
  <2>7. SumOf(n, pf) >= SumOf(n, pg)
    BY <1>4, <2>5, <2>6
  <2> QED BY <1>6, <2>7 DEF Total, n, pf, pg
<1> QED BY <1>5, <1>6

(* The assignment is the best there is: see Optimal. *)
THEOREM SolutionIsOptimal == HungarianSpec => []Optimal
<1>1. ASSUME HungarianInv, CostKept, section = "done"
      PROVE  /\ col_mate \in Assignments
             /\ \A f \in Assignments :
                   Total(SquareCost(problem), col_mate) <= Total(SquareCost(problem), f)
  <2> DEFINE n == Size(problem)
             D == SquareCost(problem)
  <2>1. /\ HungarianTypeOK /\ Dual /\ Mates({}) /\ Unmatched = {} /\ problem \in Problems
        /\ section # "columns"
    BY <1>1 DEF HungarianInv, Matched, Counted, HungarianTypeOK
  <2>2. \A i \in Index : /\ col_mate[i] \in Index /\ row_mate[col_mate[i]] = i
                         /\ Reduced(i, col_mate[i]) = 0
    BY <2>1 DEF HungarianTypeOK, Unmatched, Mates
  <2>3. col_mate \in Assignments
    <3>1. col_mate \in [Index -> Index]
      BY <2>1, <2>2 DEF HungarianTypeOK
    <3>2. \A i, j \in Index : col_mate[i] = col_mate[j] => i = j
      BY <2>2
    <3>3. DOMAIN col_mate = Index
      BY <3>1
    <3> QED BY <3>1, <3>2, <3>3 DEF Assignments, IsInjective
  <2>4. n \in Nat \ {0} /\ Index = 0..(n - 1)
    BY <2>1, IndexShape
  <2>5. PICK m : Lowered(m)
    BY <1>1, <2>1 DEF CostKept
  <2> DEFINE v == [j \in Index |-> m[j] - col_inc[j]]
  <2>6. /\ row_dec \in [Index -> Int] /\ m \in [Index -> Int] /\ col_inc \in [Index -> Int]
        /\ \A i, j \in Index : cost[i][j] \in Int /\ D[i][j] \in Int
    BY <2>1, <2>5, SquareCostShape DEF HungarianTypeOK, Lowered
  <2>7. v \in [Index -> Int]
    BY <2>6
  <2>8. ASSUME NEW i \in Index, NEW j \in Index
        PROVE  /\ D[i][j] \in Int /\ D[i][j] >= row_dec[i] + v[j]
               /\ Reduced(i, j) = 0 => D[i][j] = row_dec[i] + v[j]
    <3>1. cost[i][j] = D[i][j] - m[j]
      BY <2>5 DEF Lowered
    <3>2. PICK c \in Int, d \in Int, x \in Int, y \in Int, z \in Int :
             c = cost[i][j] /\ d = D[i][j] /\ x = row_dec[i] /\ y = m[j] /\ z = col_inc[j]
      BY <2>6
    <3>3. c - x + z >= 0 /\ Reduced(i, j) = c - x + z
      BY <2>1, <3>2 DEF Dual, Reduced
    <3>4. c = d - y /\ v[j] = y - z
      BY <3>1, <3>2
    <3>5. d >= x + (y - z) /\ (c - x + z = 0 => d = x + (y - z))
      BY <3>3, <3>4
    <3> QED BY <3>2, <3>3, <3>4, <3>5
  <2>9. ASSUME NEW f \in Assignments
        PROVE  Total(SquareCost(problem), col_mate) <= Total(SquareCost(problem), f)
    <3>1. col_mate \in Bijection(Index, Index) /\ f \in Bijection(Index, Index)
      BY <2>1, <2>3, AssignmentShape
    <3>2. \A i \in Index : D[i][col_mate[i]] = row_dec[i] + v[col_mate[i]]
      BY <2>2, <2>8
    <3>3. PICK a \in Bijection(Index, Index), u \in [Index -> Int] :
             a = col_mate /\ u = row_dec
      BY <3>1, <2>6
    <3>4. PICK d : d = D
      OBVIOUS
    <3>5. PICK w \in [Index -> Int] : w = v
      BY <2>7
    <3> HIDE DEF D, v, n
    <3>6. TightAlong(n, a, d, u, w)
      BY <2>4, <2>8, <3>2, <3>3, <3>4, <3>5 DEF TightAlong
    <3>7. SumOf(n, [i \in 0..(n - 1) |-> d[i][a[i]]]) <= SumOf(n, [i \in 0..(n - 1) |-> d[i][f[i]]])
      BY <2>4, <3>1, <3>6, TightIsLeast
    <3> QED BY <2>4, <3>3, <3>4, <3>7 DEF Total, n, D
  <2> QED BY <2>3, <2>9
<1>2. HungarianInv /\ CostKept => Optimal
  <2> SUFFICES ASSUME HungarianInv, CostKept, section = "done"
               PROVE  /\ col_mate \in Assignments
                      /\ \A f \in Assignments :
                           IF problem.mode = MINIMIZE_COST
                           THEN Total(Padded(problem), col_mate) <= Total(Padded(problem), f)
                           ELSE Total(Padded(problem), col_mate) >= Total(Padded(problem), f)
    BY DEF Optimal
  <2>1. problem \in Problems
    BY DEF HungarianInv, HungarianTypeOK
  <2> QED BY <1>1, <2>1, TotalsOrdered
<1> QED BY <1>2, HungarianInvariance, CostStaysLowered, PTL

=============================================================================
