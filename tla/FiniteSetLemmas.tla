--------------------------- MODULE FiniteSetLemmas ---------------------------
(***************************************************************************)
(* Facts about finite sets of numbers, and about Max, Min and SetToSeq of  *)
(* the community modules, that the proofs rest on.                         *)
(***************************************************************************)
EXTENDS Integers, Sequences, FiniteSets, FiniteSetsExt, SequencesExt,
        FiniteSetTheorems, WellFoundedInduction, TLAPS

(* A nonempty set of natural numbers has a least element. *)
LEMMA LeastNatural ==
    ASSUME NEW T, T \subseteq Nat, T # {}
    PROVE  \E m \in T : \A n \in T : m <= n
<1>1. IsWellFoundedOn(OpToRel(<, Nat), Nat)
  BY NatLessThanWellFounded
<1>2. PICK m \in T : \A n \in T : <<n, m>> \notin OpToRel(<, Nat)
  BY <1>1, WFMin
<1>3. \A n \in T : ~(n < m)
  BY <1>2 DEF OpToRel
<1> QED
  BY <1>3

(* A finite nonempty set of integers has a greatest element: a smallest    *)
(* counterexample would have one without any of its elements.              *)
LEMMA GreatestExists ==
    ASSUME NEW S, S \subseteq Int, IsFiniteSet(S), S # {}
    PROVE  \E m \in S : \A n \in S : m >= n
<1> DEFINE HasGreatest(U) == \E m \in U : \A n \in U : m >= n
           Bad == {n \in Nat : \E U \in SUBSET S :
                      U # {} /\ ~HasGreatest(U) /\ Cardinality(U) = n}
<1> SUFFICES ASSUME ~HasGreatest(S) PROVE FALSE
  OBVIOUS
<1>1. Bad # {}
  <2>1. Cardinality(S) \in Nat
    BY FS_CardinalityType
  <2> QED BY <2>1
<1>2. PICK k \in Bad : \A n \in Bad : k <= n
  <2>1. Bad \subseteq Nat
    OBVIOUS
  <2> HIDE DEF Bad
  <2> QED BY <1>1, <2>1, LeastNatural
<1>3. PICK U \in SUBSET S : U # {} /\ ~HasGreatest(U) /\ Cardinality(U) = k
  BY <1>2
<1>4. PICK e \in U : TRUE
  BY <1>3
<1> DEFINE V == U \ {e}
<1>5. IsFiniteSet(U)
  BY FS_Subset
<1>6. /\ IsFiniteSet(V)
      /\ Cardinality(V) = k - 1
      /\ Cardinality(V) \in Nat
  BY <1>3, <1>4, <1>5, FS_RemoveElement, FS_CardinalityType
<1>7. HasGreatest(V)
  <2>1. CASE V = {}
    <3>1. U = {e} /\ e \in Int
      BY <1>3, <1>4, <2>1
    <3>2. HasGreatest(U)
      BY <3>1
    <3> QED BY <3>2, <1>3
  <2>2. CASE V # {}
    <3>1. Cardinality(V) \notin Bad
      <4>1. k \in Nat
        BY <1>2
      <4> HIDE DEF Bad, V
      <4> QED BY <4>1, <1>2, <1>6
    <3>2. V \in SUBSET S
      OBVIOUS
    <3> HIDE DEF V, HasGreatest
    <3> QED BY <2>2, <3>1, <3>2, <1>6
  <2> QED BY <2>1, <2>2
<1>8. PICK m \in V : \A n \in V : m >= n
  BY <1>7
<1>9. m \in Int /\ e \in Int /\ m \in U /\ U \subseteq Int
  BY <1>4, <1>8
<1>10. CASE m >= e
  <2>1. \A n \in U : m >= n
    BY <1>8, <1>9, <1>10
  <2> QED BY <2>1, <1>9, <1>3
<1>11. CASE ~(m >= e)
  <2>1. \A n \in U : e >= n
    <3> SUFFICES ASSUME NEW n \in U PROVE e >= n
      OBVIOUS
    <3>1. n = e \/ m >= n
      BY <1>8
    <3> QED BY <3>1, <1>9, <1>11
  <2> QED BY <2>1, <1>4, <1>3
<1> QED BY <1>10, <1>11

(* Max returns the greatest element. *)
LEMMA MaxIsGreatest ==
    ASSUME NEW S, S \subseteq Int, IsFiniteSet(S), S # {}
    PROVE  Max(S) \in S /\ \A n \in S : Max(S) >= n
BY GreatestExists DEF Max

(* The image of a finite set under a function is finite. *)
LEMMA FiniteRange ==
    ASSUME NEW S, IsFiniteSet(S), NEW f, f = [x \in S |-> f[x]]
    PROVE  IsFiniteSet({f[x] : x \in S})
<1> DEFINE T == {f[x] : x \in S}
<1>1. f \in Surjection(S, T)
  BY DEF Surjection
<1> HIDE DEF T
<1>2. IsFiniteSet(T)
  BY <1>1, FS_Surjection
<1> QED BY <1>2 DEF T

(* SetToSeq enumerates a finite set. *)
LEMMA SetToSeqRange ==
    ASSUME NEW S, IsFiniteSet(S)
    PROVE  /\ SetToSeq(S) \in Seq(S)
           /\ \A x \in S : \E k \in DOMAIN SetToSeq(S) : SetToSeq(S)[k] = x
<1> DEFINE n == Cardinality(S)
           q == SetToSeq(S)
<1>1. n \in Nat /\ ExistsBijection(1..n, S)
  BY FS_CardinalityType
<1>2. PICK g : g \in Bijection(1..n, S)
  BY <1>1 DEF ExistsBijection
<1>3. g \in [1..n -> S] /\ IsInjective(g)
  BY <1>2 DEF Bijection, Injection, IsInjective
<1>4. q \in [1..n -> S] /\ IsInjective(q)
  BY <1>3 DEF SetToSeq
<1>5. q \in Injection(1..n, S)
  BY <1>4 DEF Injection, IsInjective
<1>6. IsFiniteSet(1..n) /\ Cardinality(1..n) = n
  BY <1>1, FS_Interval
<1>7. q \in Surjection(1..n, S)
  <2> HIDE DEF q
  <2>1. Cardinality(1..n) = Cardinality(S)
    BY <1>6
  <2> QED BY <1>5, <2>1, FS_Injection
<1>8. q \in Seq(S)
  BY <1>1, <1>4
<1>9. \A x \in S : \E k \in 1..n : q[k] = x
  BY <1>7 DEF Surjection
<1> QED BY <1>4, <1>8, <1>9

(* Min returns the least element. *)
LEMMA MinIsLeast ==
    ASSUME NEW S, S \subseteq Int, IsFiniteSet(S), S # {}
    PROVE  Min(S) \in S /\ \A n \in S : Min(S) <= n
<1> DEFINE f == [x \in S |-> -x]
           T == {f[x] : x \in S}
<1>1. f = [x \in S |-> f[x]] /\ \A x \in S : f[x] = -x /\ x \in Int
  OBVIOUS
<1> HIDE DEF f
<1>2. T \subseteq Int /\ T # {}
  BY <1>1
<1>3. IsFiniteSet(T)
  BY <1>1, FiniteRange
<1>4. PICK m \in T : \A n \in T : m >= n
  <2> HIDE DEF T
  <2> QED BY <1>2, <1>3, GreatestExists
<1>5. PICK x \in S : m = f[x]
  BY <1>4
<1>6. \A y \in S : x <= y
  <2> SUFFICES ASSUME NEW y \in S PROVE x <= y
    OBVIOUS
  <2>1. m >= f[y]
    BY <1>4
  <2>2. m = -x /\ f[y] = -y /\ x \in Int /\ y \in Int
    BY <1>1, <1>5
  <2> QED BY <2>1, <2>2
<1> QED BY <1>6 DEF Min

(* How many elements of S there are up to x. *)
CountUpTo(S, x) == Cardinality({m \in S : m <= x})

(* Each element of a finite set of integers is counted by those up to it,  *)
(* and every count up to the number of elements occurs.                    *)
LEMMA RanksAreBijective ==
    ASSUME NEW S, S \subseteq Int, IsFiniteSet(S)
    PROVE  /\ Cardinality(S) \in Nat
           /\ \A x \in S : CountUpTo(S, x) \in 1..Cardinality(S)
           /\ \A x, y \in S : x < y => CountUpTo(S, x) < CountUpTo(S, y)
           /\ \A k \in 1..Cardinality(S) : \E x \in S : CountUpTo(S, x) = k
<1> DEFINE n == Cardinality(S)
           UpTo(x) == {m \in S : m <= x}
           place == [x \in S |-> Cardinality(UpTo(x))]
<1>1. n \in Nat
  BY FS_CardinalityType
<1>2. ASSUME NEW x \in S
      PROVE  IsFiniteSet(UpTo(x)) /\ Cardinality(UpTo(x)) \in 1..n
  <2>1. UpTo(x) \in SUBSET S /\ x \in UpTo(x)
    OBVIOUS
  <2> HIDE DEF UpTo
  <2>2. IsFiniteSet(UpTo(x)) /\ Cardinality(UpTo(x)) <= n
    BY <2>1, FS_Subset
  <2>3. Cardinality(UpTo(x)) \in Nat /\ Cardinality(UpTo(x)) # 0
    BY <2>1, <2>2, FS_CardinalityType, FS_EmptySet
  <2> QED BY <2>2, <2>3, <1>1
<1>3. ASSUME NEW x \in S, NEW y \in S, x < y
      PROVE  place[x] < place[y]
  <2>1. UpTo(x) \in SUBSET UpTo(y) /\ y \in UpTo(y) /\ y \notin UpTo(x)
    <3>1. x \in Int /\ y \in Int /\ \A m \in S : m \in Int
      OBVIOUS
    <3>2. \A m \in S : m <= x => m <= y
      BY <3>1, <1>3
    <3>3. UpTo(x) \in SUBSET UpTo(y)
      BY <3>2
    <3>4. y <= y /\ ~(y <= x)
      BY <3>1, <1>3
    <3> QED BY <3>3, <3>4
  <2>2. Cardinality(UpTo(x)) \in Int /\ Cardinality(UpTo(y)) \in Int /\ IsFiniteSet(UpTo(y))
    BY <1>1, <1>2
  <2>3. place[x] = Cardinality(UpTo(x)) /\ place[y] = Cardinality(UpTo(y))
    OBVIOUS
  <2> HIDE DEF UpTo, place
  <2>4. Cardinality(UpTo(x)) <= Cardinality(UpTo(y)) /\ Cardinality(UpTo(x)) # Cardinality(UpTo(y))
    BY <2>1, <2>2, FS_Subset
  <2> QED BY <2>2, <2>3, <2>4
<1>4. place \in [S -> 1..n]
  BY <1>2
<1> HIDE DEF place, UpTo
<1>5. place \in Injection(S, 1..n)
  <2>1. \A x, y \in S : place[x] = place[y] => x = y
    <3> SUFFICES ASSUME NEW x \in S, NEW y \in S, place[x] = place[y], x # y PROVE FALSE
      OBVIOUS
    <3>1. x < y \/ y < x
      OBVIOUS
    <3>2. place[x] \in Int /\ place[y] \in Int
      BY <1>1, <1>4
    <3> QED BY <3>1, <3>2, <1>3
  <2> QED BY <2>1, <1>4 DEF Injection, IsInjective
<1>6. place \in Surjection(S, 1..n)
  <2>1. IsFiniteSet(1..n) /\ Cardinality(1..n) = n
    BY <1>1, FS_Interval
  <2> HIDE DEF n
  <2>2. Cardinality(S) = Cardinality(1..n)
    BY <2>1 DEF n
  <2> QED BY <2>1, <2>2, <1>5, FS_Injection
<1>7. \A m \in 1..n : \E x \in S : place[x] = m
  BY <1>6 DEF Surjection
<1>8. \A x \in S : place[x] = Cardinality(UpTo(x))
  BY DEF place
<1>9. \A x, y \in S : x < y => Cardinality(UpTo(x)) < Cardinality(UpTo(y))
  BY <1>3, <1>8
<1>10. \A m \in 1..n : \E x \in S : Cardinality(UpTo(x)) = m
  BY <1>7, <1>8
<1>11. \A x \in S : CountUpTo(S, x) = Cardinality(UpTo(x))
  BY DEF UpTo, CountUpTo
<1> QED BY <1>1, <1>2, <1>9, <1>10, <1>11

(* The elements of a finite set of integers in ascending order: each comes  *)
(* at the place that counts those up to it.                                 *)
InOrder(S) == [k \in 1..Cardinality(S) |-> CHOOSE x \in S : CountUpTo(S, x) = k]

LEMMA InOrderLists ==
    ASSUME NEW S, S \subseteq Int, IsFiniteSet(S)
    PROVE  /\ Cardinality(S) \in Nat
           /\ InOrder(S) \in [1..Cardinality(S) -> S]
           /\ \A k \in 1..Cardinality(S) : CountUpTo(S, InOrder(S)[k]) = k
           /\ \A x \in S : CountUpTo(S, x) \in 1..Cardinality(S) /\ InOrder(S)[CountUpTo(S, x)] = x
           /\ \A k, l \in 1..Cardinality(S) : k < l => InOrder(S)[k] < InOrder(S)[l]
           /\ \A x, y \in S : x < y => CountUpTo(S, x) < CountUpTo(S, y)
<1> DEFINE n == Cardinality(S)
           s == InOrder(S)
<1>1. /\ n \in Nat
      /\ \A x \in S : CountUpTo(S, x) \in 1..n
      /\ \A x, y \in S : x < y => CountUpTo(S, x) < CountUpTo(S, y)
      /\ \A m \in 1..n : \E x \in S : CountUpTo(S, x) = m
  BY RanksAreBijective
<1>2. s = [m \in 1..n |-> CHOOSE x \in S : CountUpTo(S, x) = m]
  BY DEF InOrder
<1>3. \A m \in 1..n : s[m] \in S /\ CountUpTo(S, s[m]) = m
  BY <1>1, <1>2
<1>4. s \in [1..n -> S]
  BY <1>2, <1>3
<1>5. \A x \in S : x \in Int
  OBVIOUS
<1> HIDE DEF s, n
<1>6. ASSUME NEW x \in S, NEW y \in S, CountUpTo(S, x) <= CountUpTo(S, y)
      PROVE  x <= y
  <2>1. y < x => CountUpTo(S, y) < CountUpTo(S, x)
    BY <1>1
  <2>2. CountUpTo(S, x) \in Int /\ CountUpTo(S, y) \in Int
    BY <1>1
  <2> QED BY <2>1, <2>2, <1>5, <1>6
<1>7. ASSUME NEW x \in S PROVE s[CountUpTo(S, x)] = x
  <2>1. PICK m \in 1..n : m = CountUpTo(S, x)
    BY <1>1
  <2>2. PICK z \in S : z = s[m] /\ CountUpTo(S, z) = m
    BY <1>3
  <2>3. m \in Int
    BY <1>1
  <2>4. CountUpTo(S, z) <= CountUpTo(S, x) /\ CountUpTo(S, x) <= CountUpTo(S, z)
    BY <2>1, <2>2, <2>3
  <2>5. z <= x /\ x <= z
    BY <2>4, <1>6
  <2> QED BY <2>1, <2>2, <2>5, <1>5
<1>8. ASSUME NEW x \in 1..n, NEW y \in 1..n, x < y PROVE s[x] < s[y]
  <2>1. PICK u \in S : u = s[x] /\ CountUpTo(S, u) = x
    BY <1>3
  <2>2. PICK v \in S : v = s[y] /\ CountUpTo(S, v) = y
    BY <1>3
  <2>3. x \in Int /\ y \in Int
    BY <1>1
  <2>4. CountUpTo(S, u) <= CountUpTo(S, v) /\ u # v
    BY <2>1, <2>2, <2>3, <1>8
  <2>5. u <= v
    BY <2>4, <1>6
  <2> QED BY <2>1, <2>2, <2>4, <2>5, <1>5
<1> QED BY <1>1, <1>3, <1>4, <1>7, <1>8 DEF s, n

(* A finite set of integers can be listed in ascending order. *)
LEMMA AscendingExists ==
    ASSUME NEW S, S \subseteq Int, IsFiniteSet(S)
    PROVE  \E s \in [1..Cardinality(S) -> S] : \A x, y \in DOMAIN s : x < y => s[x] < s[y]
BY InOrderLists

(* Induction from 0 up to n: T has what is to be shown of each number.      *)
LEMMA InductionUpTo ==
    ASSUME NEW n \in Nat, NEW T, 0 \in T, \A j \in 0..(n - 1) : j \in T => j + 1 \in T
    PROVE  0..n \subseteq T
<1> DEFINE Bad == {j \in Nat : j <= n /\ j \notin T}
<1> SUFFICES ASSUME Bad # {} PROVE FALSE
  OBVIOUS
<1>1. PICK m \in Bad : \A k \in Bad : m <= k
  <2>1. Bad \subseteq Nat
    OBVIOUS
  <2> HIDE DEF Bad
  <2> QED BY <2>1, LeastNatural
<1>2. m \in Nat /\ m <= n /\ m # 0 /\ m \notin T
  BY <1>1
<1>3. m - 1 \in Nat /\ m - 1 <= n /\ m - 1 \in 0..(n - 1) /\ (m - 1) + 1 = m
  BY <1>2
<1>4. m - 1 \notin Bad
  <2> HIDE DEF Bad
  <2> QED BY <1>1, <1>2
<1>5. m - 1 \in T
  BY <1>3, <1>4
<1> QED BY <1>2, <1>3, <1>5

(* f is defined by recursion from 0 up to n, from base by the functions     *)
(* step[1], step[2], ...                                                    *)
AreSteps(step, n, S) == step \in [1..n -> [S -> S]]

IsIterated(f, step, n, S, base) ==
    /\ f \in [0..n -> S]
    /\ f[0] = base /\ \A j \in 1..n : f[j] = step[j][f[j - 1]]

LEMMA RecursionUpTo ==
    ASSUME NEW n \in Nat, NEW S, NEW base \in S, NEW step, AreSteps(step, n, S)
    PROVE  \E f : IsIterated(f, step, n, S, base)
<1>0. step \in [1..n -> [S -> S]]
  BY DEF AreSteps
<1> DEFINE Defined(m, f) ==
              f = [j \in 0..m |-> IF j = 0 THEN base ELSE step[j][f[j - 1]]]
           T == {m \in 0..n : \E f \in [0..m -> S] : Defined(m, f)}
<1>1. 0 \in T
  <2> DEFINE f == [j \in 0..0 |-> base]
  <2>1. f \in [0..0 -> S] /\ Defined(0, f)
    OBVIOUS
  <2>2. 0 \in 0..n
    OBVIOUS
  <2> HIDE DEF f, Defined
  <2> QED BY <2>1, <2>2
<1>2. ASSUME NEW m \in 0..(n - 1), m \in T PROVE m + 1 \in T
  <2>1. PICK f \in [0..m -> S] : Defined(m, f)
    BY <1>2
  <2>2. m \in Nat /\ m + 1 \in 0..n /\ m + 1 \in 1..n /\ m + 1 # 0 /\ (m + 1) - 1 = m
    BY <1>2
  <2>3. 0..(m + 1) = 0..m \cup {m + 1} /\ m + 1 \notin 0..m
    BY <2>2
  <2> DEFINE last == step[m + 1][f[m]]
             g == [j \in 0..(m + 1) |-> IF j = m + 1 THEN last ELSE f[j]]
  <2>4. last \in S
    BY <2>1, <2>2, <1>0
  <2>5. g \in [0..(m + 1) -> S]
    BY <2>1, <2>3, <2>4
  <2>6. ASSUME NEW j \in 0..(m + 1)
        PROVE  g[j] = IF j = 0 THEN base ELSE step[j][g[j - 1]]
    <3>1. CASE j = m + 1
      <4>1. m \in 0..(m + 1) /\ m # m + 1
        BY <2>2
      <4>2. g[m] = f[m]
        BY <4>1
      <4> QED BY <3>1, <4>2, <2>2
    <3>2. CASE j # m + 1
      <4>1. j \in 0..m /\ g[j] = f[j]
        BY <3>2, <2>3
      <4>2. f[j] = IF j = 0 THEN base ELSE step[j][f[j - 1]]
        BY <4>1, <2>1
      <4>3. j # 0 => j - 1 \in 0..(m + 1) /\ j - 1 # m + 1
        BY <4>1, <2>2
      <4>4. j # 0 => g[j - 1] = f[j - 1]
        BY <4>3
      <4> QED BY <4>1, <4>2, <4>4
    <3> QED BY <3>1, <3>2
  <2> HIDE DEF g, last
  <2>7. Defined(m + 1, g)
    BY <2>5, <2>6
  <2> QED BY <2>2, <2>5, <2>7
<1>3. n \in T
  <2>1. n \in 0..n
    OBVIOUS
  <2> HIDE DEF T
  <2> QED BY <1>1, <1>2, <2>1, InductionUpTo
<1>4. PICK f \in [0..n -> S] : Defined(n, f)
  BY <1>3
<1>5. 0 \in 0..n /\ \A j \in 1..n : j \in 0..n /\ j # 0
  OBVIOUS
<1>6. IsIterated(f, step, n, S, base)
  BY <1>4, <1>5 DEF IsIterated
<1> QED BY <1>6

(* Pairs in lexicographic order, as numbers. *)
LEMMA PairOrder ==
    ASSUME NEW n \in Nat, NEW a \in Nat, NEW b \in Nat, NEW p \in 0..n, NEW q \in 0..n
    PROVE  /\ a * (n + 1) + p \in Nat
           /\ a < b => a * (n + 1) + p < b * (n + 1) + q
<1>1. a * (n + 1) \in Nat /\ b * (n + 1) \in Nat
  OBVIOUS
<1>2. ASSUME a < b PROVE a * (n + 1) + p < b * (n + 1) + q
  <2>1. PICK d \in Nat : b = a + 1 + d
    <3>1. b - a - 1 \in Nat /\ b = a + 1 + (b - a - 1)
      BY <1>2
    <3> QED BY <3>1
  <2>2. b * (n + 1) = a * (n + 1) + (n + 1) + d * (n + 1)
    BY <2>1
  <2>3. d * (n + 1) \in Nat
    OBVIOUS
  <2> QED BY <1>1, <2>2, <2>3
<1> QED BY <1>1, <1>2

=============================================================================
