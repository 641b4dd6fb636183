----------------------------- MODULE HintsProofs -----------------------------
(***************************************************************************)
(* Proofs about Hints, for any players, cards and decks: what the hint     *)
(* proposes, when it calls it acceptable, and what it says.                *)
(*                                                                         *)
(* A distance between a vote and a card is a number of cards stepped over, *)
(* so the sum of all distances is the size of the set of these steps (Gap, *)
(* SumIsGap).  Sets can be compared where sums of CHOOSE-ordered elements  *)
(* cannot: moving on by a card adds a step for each vote up to there and   *)
(* takes one away for each vote beyond (CostGrows).  Induction is over     *)
(* sets: a least number (MinOfNats), or a smallest counterexample, as      *)
(* finite subsets are well-founded.                                        *)
(***************************************************************************)
EXTENDS Hints, FiniteSetTheorems, WellFoundedInduction, TLAPS

-----------------------------------------------------------------------------
(* Least and greatest numbers *)

LEMMA MinOfNats ==
    ASSUME NEW S, S \subseteq Nat, S # {}
    PROVE  Min(S) \in S /\ \A y \in S : Min(S) <= y
<1> DEFINE F == {1..x : x \in S}
           R == StrictSubsetOrdering(Nat)
<1>1. F \subseteq FiniteSubsetsOf(Nat)
  <2>1. \A x \in S : IsFiniteSet(1..x) /\ 1..x \in SUBSET Nat
    BY FS_Interval
  <2>2. QED
    BY <2>1 DEF FiniteSubsetsOf
<1>2. F # {}
  OBVIOUS
<1>3. \A x, y \in S : y < x => <<1..y, 1..x>> \in R
  <2>1. ASSUME NEW x \in S, NEW y \in S, y < x
        PROVE  1..y \subseteq 1..x /\ x \in 1..x /\ x \notin 1..y /\ 1..x \subseteq Nat
    BY <2>1
  <2>2. QED
    BY <2>1 DEF StrictSubsetOrdering
<1>4. IsWellFoundedOn(R, FiniteSubsetsOf(Nat))
  BY FS_StrictSubsetOrderingWellFounded
<1>5. PICK U \in F : \A V \in F : ~(<<V, U>> \in R)
  <2> HIDE DEF F, R
  <2>1. QED
    BY <1>1, <1>2, <1>4, WFMin
<1>6. PICK x \in S : U = 1..x
  OBVIOUS
<1> HIDE DEF R
<1>7. \A y \in S : ~(y < x)
  BY <1>3, <1>5, <1>6
<1>8. \E z \in S : \A y \in S : z =< y
  BY <1>6, <1>7
<1>9. QED
  BY <1>8, Zenon DEF Min

LEMMA MaxOfNats ==
    ASSUME NEW S, NEW n \in Nat, S \subseteq 0..n, S # {}
    PROVE  Max(S) \in S /\ \A y \in S : y <= Max(S)
<1> DEFINE T == {n - x : x \in S}
<1>1. T \subseteq Nat /\ T # {}
  <2>1. \A x \in S : x \in 0..n
    OBVIOUS
  <2>2. \A x \in S : n - x \in Nat
    BY <2>1
  <2>3. QED
    BY <2>2
<1>2. PICK t \in T : \A y \in T : t <= y
  <2> HIDE DEF T
  <2>1. Min(T) \in T /\ \A y \in T : Min(T) <= y
    BY <1>1, MinOfNats
  <2>2. QED
    BY <2>1
<1>3. PICK x \in S : t = n - x
  OBVIOUS
<1>4. \A y \in S : x >= y
  BY <1>2, <1>3
<1>5. Max(S) \in S /\ \A y \in S : Max(S) >= y
  BY <1>3, <1>4, Zenon DEF Max
<1>6. QED
  BY <1>5

\* A cost that does not grow up to m and grows from there is least at m, and
\* nowhere beyond m as low.
LEMMA ValleyIsLeast ==
    ASSUME NEW n \in Nat, NEW m \in 0..n, NEW c \in [0..n -> Int],
           \A k \in 0..n : k < m => c[k + 1] <= c[k],
           \A k \in 0..n : m <= k /\ k < n => c[k] < c[k + 1]
    PROVE  /\ \A k \in 0..n : c[m] <= c[k]
           /\ \A k \in 0..n : m < k => c[m] < c[k]
<1>1. ASSUME NEW b \in 0..n, m < b, ~(c[m] < c[b]) PROVE FALSE
  <2> DEFINE S == {k \in 0..n : m < k /\ ~(c[m] < c[k])}
  <2>1. S \subseteq Nat /\ b \in S
    <3>1. b \in S
      BY <1>1, Zenon
    <3>2. QED
      BY <3>1
  <2>2. PICK k \in S : \A y \in S : k <= y
    <3> HIDE DEF S
    <3> QED
      BY <2>1, MinOfNats
  <2>3. k - 1 \in 0..n /\ m <= k - 1 /\ (k - 1) + 1 = k
    BY <2>2
  <2>4. c[k - 1] < c[k] /\ c[k - 1] \in Int /\ c[k] \in Int /\ c[m] \in Int
    BY <2>2, <2>3
  <2>5. k - 1 \notin S
    BY <2>2, <2>3
  <2>6. k - 1 = m \/ c[m] < c[k - 1]
    BY <2>3, <2>5
  <2>7. QED
    BY <2>4, <2>6
<1>2. ASSUME NEW b \in 0..n, b < m, ~(c[m] <= c[b]) PROVE FALSE
  <2> DEFINE S == {k \in 0..n : k < m /\ ~(c[m] <= c[k])}
  <2>1. S \subseteq 0..n /\ b \in S
    <3>1. b \in S
      BY <1>2, Zenon
    <3>2. QED
      BY <3>1
  <2>2. PICK k \in S : \A y \in S : y <= k
    <3> HIDE DEF S
    <3> QED
      BY <2>1, MaxOfNats
  <2>3. k + 1 \in 0..n /\ k + 1 <= m
    BY <2>2
  <2>4. c[k + 1] <= c[k] /\ c[k + 1] \in Int /\ c[k] \in Int /\ c[m] \in Int
    BY <2>2, <2>3
  <2>5. k + 1 \notin S
    BY <2>2, <2>3
  <2>6. QED
    BY <2>2, <2>3, <2>4, <2>5
<1>3. \A k \in 0..n : c[k] \in Int
  OBVIOUS
<1>4. ASSUME NEW k \in 0..n PROVE c[m] <= c[k] /\ (m < k => c[m] < c[k])
  <2>1. CASE k < m
    BY <1>2, <2>1
  <2>2. CASE k = m
    BY <1>3, <2>2
  <2>3. CASE m < k
    BY <1>1, <1>3, <2>3
  <2>4. QED
    BY <2>1, <2>2, <2>3
<1>5. QED
  BY <1>4

-----------------------------------------------------------------------------
(* Distances as steps *)

Between(j, a, b) == (a < j /\ j <= b) \/ (b < j /\ j <= a)

\* The steps between the positions ix[p], p \in T, and k, in a deck of n cards.
Gap(ix, T, k, n) == {q \in T \X (1..n) : Between(q[2], ix[q[1]], k)}

LEMMA DisjointSize ==
    ASSUME NEW A, NEW B, IsFiniteSet(A), IsFiniteSet(B), A \cap B = {}
    PROVE  /\ IsFiniteSet(A \cup B)
           /\ Cardinality(A \cup B) = Cardinality(A) + Cardinality(B)
           /\ Cardinality(A) \in Nat /\ Cardinality(B) \in Nat
<1>1. Cardinality(A) \in Nat /\ Cardinality(B) \in Nat
  BY FS_CardinalityType
<1>2. Cardinality(A \cup B) = Cardinality(A) + Cardinality(B) - 0
  BY FS_Union, FS_EmptySet
<1>3. IsFiniteSet(A \cup B)
  BY FS_Union
<1>4. Cardinality(A \cup B) = Cardinality(A) + Cardinality(B)
  BY <1>1, <1>2
<1>5. QED
  BY <1>1, <1>3, <1>4

LEMMA GapIsFinite ==
    ASSUME NEW ix, NEW T, IsFiniteSet(T), NEW k, NEW n \in Nat
    PROVE  IsFiniteSet(Gap(ix, T, k, n)) /\ Cardinality(Gap(ix, T, k, n)) \in Nat
<1>1. IsFiniteSet(T \X (1..n))
  <2>1. IsFiniteSet(1..n)
    BY FS_Interval
  <2>2. QED
    BY <2>1, FS_Product, Zenon
<1>2. Gap(ix, T, k, n) \in SUBSET (T \X (1..n))
  BY DEF Gap
<1>3. QED
  BY <1>1, <1>2, FS_Subset, FS_CardinalityType

\* Between two positions lie as many steps as their distance.
LEMMA StepsOfOne ==
    ASSUME NEW n \in Nat, NEW a \in 0..n, NEW b \in 0..n
    PROVE  /\ IsFiniteSet({j \in 1..n : Between(j, a, b)})
           /\ Cardinality({j \in 1..n : Between(j, a, b)}) = Distance(a, b)
<1> DEFINE W == {j \in 1..n : Between(j, a, b)}
<1>1. CASE a < b
  <2>1. W = (a + 1)..b
    BY <1>1 DEF Between
  <2>2. Distance(a, b) = b - a
    BY <1>1 DEF Distance
  <2>3. a + 1 \in Int /\ b \in Int /\ ~(a + 1 > b) /\ b - (a + 1) + 1 = b - a
    BY <1>1
  <2>4. QED
    BY <2>1, <2>2, <2>3, FS_Interval
<1>2. CASE ~(a < b)
  <2>1. W = (b + 1)..a
    BY <1>2 DEF Between
  <2>2. Distance(a, b) = a - b
    BY <1>2 DEF Distance
  <2>3. b + 1 \in Int /\ a \in Int /\ (b + 1 > a => a - b = 0)
        /\ a - (b + 1) + 1 = a - b
    BY <1>2
  <2>4. QED
    BY <2>1, <2>2, <2>3, FS_Interval
<1>3. QED
  BY <1>1, <1>2

LEMMA GapOfOne ==
    ASSUME NEW n \in Nat, NEW ix, NEW p, ix[p] \in 0..n, NEW k \in 0..n
    PROVE  Cardinality(Gap(ix, {p}, k, n)) = Distance(ix[p], k)
<1> DEFINE W == {j \in 1..n : Between(j, ix[p], k)}
<1>1. Gap(ix, {p}, k, n) = {p} \X W
  BY DEF Gap
<1>2. IsFiniteSet(W) /\ Cardinality(W) = Distance(ix[p], k)
  BY StepsOfOne
<1>3. Cardinality(W) \in Nat
  BY <1>2, FS_CardinalityType
<1>4. IsFiniteSet({p}) /\ Cardinality({p}) = 1
  BY FS_Singleton
<1> HIDE DEF W
<1>5. Cardinality({p} \X W) = 1 * Cardinality(W)
  BY <1>2, <1>4, FS_Product
<1>6. 1 * Cardinality(W) = Cardinality(W)
  BY <1>3
<1>7. QED
  BY <1>1, <1>2, <1>5, <1>6, Zenon

LEMMA GapOfUnion ==
    ASSUME NEW n \in Nat, NEW ix, NEW k, NEW T, NEW U,
           IsFiniteSet(T), IsFiniteSet(U), T \cap U = {}
    PROVE  Cardinality(Gap(ix, T \cup U, k, n))
             = Cardinality(Gap(ix, T, k, n)) + Cardinality(Gap(ix, U, k, n))
<1>1. Gap(ix, T \cup U, k, n) = Gap(ix, T, k, n) \cup Gap(ix, U, k, n)
  BY DEF Gap
<1>2. Gap(ix, T, k, n) \cap Gap(ix, U, k, n) = {}
  BY DEF Gap
<1>3. /\ IsFiniteSet(Gap(ix, T, k, n)) /\ Cardinality(Gap(ix, T, k, n)) \in Nat
      /\ IsFiniteSet(Gap(ix, U, k, n)) /\ Cardinality(Gap(ix, U, k, n)) \in Nat
  BY GapIsFinite
<1>4. QED
  BY <1>1, <1>2, <1>3, DisjointSize

\* The sum of the distances is the number of steps in the gap: both unfold by
\* one vote in the same way, and only one function on finite sets does so.
LEMMA SumIsGap ==
    ASSUME NEW n \in Nat, NEW S, IsFiniteSet(S), NEW ix \in [S -> 0..n], NEW k \in 0..n
    PROVE  TotalDistance(ix, k) = Cardinality(Gap(ix, S, k, n))
<1> DEFINE Pick(s) == CHOOSE x \in s : TRUE
           Unfold(f) == [s \in SUBSET S |->
               IF s = {} THEN 0 ELSE Distance(ix[Pick(s)], k) + f[s \ {Pick(s)}]]
           size == [s \in SUBSET S |-> Cardinality(Gap(ix, s, k, n))]
<1>1. ASSUME NEW s \in SUBSET S, s # {}
      PROVE  /\ Pick(s) \in s
             /\ size[s] = Distance(ix[Pick(s)], k) + size[s \ {Pick(s)}]
  <2>1. Pick(s) \in s
    BY <1>1, Zenon
  <2> HIDE DEF Pick
  <2>2. s = {Pick(s)} \cup (s \ {Pick(s)}) /\ {Pick(s)} \cap (s \ {Pick(s)}) = {}
    BY <2>1
  <2>3. IsFiniteSet({Pick(s)}) /\ IsFiniteSet(s \ {Pick(s)})
    BY FS_Singleton, FS_Subset
  <2>4. Cardinality(Gap(ix, {Pick(s)} \cup (s \ {Pick(s)}), k, n))
          = Cardinality(Gap(ix, {Pick(s)}, k, n)) + Cardinality(Gap(ix, s \ {Pick(s)}, k, n))
    BY <2>2, <2>3, GapOfUnion
  <2>5. Cardinality(Gap(ix, {Pick(s)}, k, n)) = Distance(ix[Pick(s)], k)
    BY <2>1, GapOfOne
  <2>6. size[s] = Cardinality(Gap(ix, s, k, n))
        /\ size[s \ {Pick(s)}] = Cardinality(Gap(ix, s \ {Pick(s)}, k, n))
    BY Zenon
  <2>7. QED
    BY <2>1, <2>2, <2>4, <2>5, <2>6, Zenon
<1>2. size[{}] = 0
  <2>1. Gap(ix, {}, k, n) = {}
    BY DEF Gap
  <2>2. QED
    BY <2>1, FS_EmptySet
<1> HIDE DEF Pick
<1>3. size = Unfold(size)
  <2>1. \A s \in SUBSET S : size[s]
          = IF s = {} THEN 0 ELSE Distance(ix[Pick(s)], k) + size[s \ {Pick(s)}]
    <3> HIDE DEF size
    <3> QED
      BY <1>1, <1>2, Zenon
  <2>2. QED
    BY <2>1, Zenon
<1>4. ASSUME NEW f, f = Unfold(f) PROVE f[S] = size[S]
  <2> DEFINE R == StrictSubsetOrdering(S)
             Wrong == {s \in SUBSET S : f[s] # size[s]}
  <2>1. \A s \in SUBSET S : f[s]
          = IF s = {} THEN 0 ELSE Distance(ix[Pick(s)], k) + f[s \ {Pick(s)}]
    BY <1>4
  <2> HIDE DEF size, Unfold
  <2>2. SUFFICES ASSUME Wrong # {} PROVE FALSE
    OBVIOUS
  <2>3. Wrong \subseteq FiniteSubsetsOf(S)
    BY FS_FiniteSubsetsOfFinite
  <2>4. IsWellFoundedOn(R, FiniteSubsetsOf(S))
    BY FS_StrictSubsetOrderingWellFounded
  <2>5. PICK s \in Wrong : \A u \in Wrong : ~(<<u, s>> \in R)
    <3> HIDE DEF Wrong, R
    <3> QED
      BY <2>2, <2>3, <2>4, WFMin
  <2>6. s # {}
    BY <1>2, <2>1, <2>5
  <2>7. Pick(s) \in s
    BY <1>1, <2>5, <2>6
  <2>8. s \ {Pick(s)} \in SUBSET S /\ <<s \ {Pick(s)}, s>> \in R
    BY <2>5, <2>7 DEF StrictSubsetOrdering
  <2>9. f[s \ {Pick(s)}] = size[s \ {Pick(s)}]
    <3> HIDE DEF R
    <3> QED
      BY <2>5, <2>8
  <2>10. f[s] = size[s]
    BY <1>1, <2>1, <2>5, <2>6, <2>9, Zenon
  <2>11. QED
    BY <2>5, <2>10
<1>5. (CHOOSE f : f = Unfold(f)) = Unfold(CHOOSE f : f = Unfold(f))
  <2> HIDE DEF Unfold, size
  <2> QED
    BY <1>3, Zenon
<1>6. TotalDistance(ix, k) = (CHOOSE f : f = Unfold(f))[S]
  <2>1. DOMAIN ix = S
    OBVIOUS
  <2>2. QED
    BY <2>1, Zenon DEF TotalDistance, MapThenSumSet, MapThenFoldSet, Pick
<1>7. (CHOOSE f : f = Unfold(f))[S] = size[S]
  <2> HIDE DEF Unfold, size
  <2> QED
    BY <1>4, <1>5
<1>8. size[S] = Cardinality(Gap(ix, S, k, n))
  BY Zenon
<1>9. QED
  BY <1>6, <1>7, <1>8, Zenon

-----------------------------------------------------------------------------
(* The cost of a card *)

UpTo(ix, v) == {p \in DOMAIN ix : ix[p] <= v}
Beyond(ix, v) == {p \in DOMAIN ix : ix[p] > v}

\* Moving on by a card takes a step more to each vote up to there, and a step
\* less to each vote beyond.
LEMMA CostGrows ==
    ASSUME NEW n \in Nat, NEW S, IsFiniteSet(S), NEW ix \in [S -> 0..n], NEW k \in 0..n, k < n
    PROVE  TotalDistance(ix, k + 1) + Cardinality(Beyond(ix, k))
             = TotalDistance(ix, k) + Cardinality(UpTo(ix, k))
<1> DEFINE near == UpTo(ix, k) \X {k + 1}
           far == Beyond(ix, k) \X {k + 1}
           before == Gap(ix, S, k, n)
           after == Gap(ix, S, k + 1, n)
<1>1. k + 1 \in 0..n /\ k + 1 \in 1..n /\ DOMAIN ix = S /\ k \in Int
  OBVIOUS
<1>2. IsFiniteSet(UpTo(ix, k)) /\ IsFiniteSet(Beyond(ix, k)) /\ IsFiniteSet({k + 1})
      /\ Cardinality({k + 1}) = 1
  BY <1>1, FS_Subset, FS_Singleton DEF UpTo, Beyond
<1>3. Cardinality(UpTo(ix, k)) \in Nat /\ Cardinality(Beyond(ix, k)) \in Nat
  BY <1>2, FS_CardinalityType
<1>4. /\ IsFiniteSet(near) /\ Cardinality(near) = Cardinality(UpTo(ix, k)) * 1
      /\ IsFiniteSet(far) /\ Cardinality(far) = Cardinality(Beyond(ix, k)) * 1
  BY <1>2, FS_Product, Zenon
<1>5. /\ Cardinality(near) = Cardinality(UpTo(ix, k))
      /\ Cardinality(far) = Cardinality(Beyond(ix, k))
  BY <1>3, <1>4
<1>6. /\ IsFiniteSet(before) /\ IsFiniteSet(after)
      /\ TotalDistance(ix, k) = Cardinality(before)
      /\ TotalDistance(ix, k + 1) = Cardinality(after)
  BY <1>1, GapIsFinite, SumIsGap
<1>7. /\ \A p \in S, j \in 1..n :
           <<p, j>> \in after \cup far <=> <<p, j>> \in before \cup near
      /\ \A p \in S, j \in 1..n : ~(<<p, j>> \in after /\ <<p, j>> \in far)
      /\ \A p \in S, j \in 1..n : ~(<<p, j>> \in before /\ <<p, j>> \in near)
  <2>1. ASSUME NEW p \in S, NEW j \in 1..n
        PROVE  /\ <<p, j>> \in after <=> Between(j, ix[p], k + 1)
               /\ <<p, j>> \in before <=> Between(j, ix[p], k)
               /\ <<p, j>> \in far <=> ix[p] > k /\ j = k + 1
               /\ <<p, j>> \in near <=> ix[p] <= k /\ j = k + 1
    BY <1>1 DEF Gap, UpTo, Beyond
  <2>2. ASSUME NEW a \in 0..n, NEW j \in 1..n
        PROVE  /\ (Between(j, a, k + 1) \/ (a > k /\ j = k + 1))
                    <=> (Between(j, a, k) \/ (a <= k /\ j = k + 1))
               /\ ~(Between(j, a, k + 1) /\ a > k /\ j = k + 1)
               /\ ~(Between(j, a, k) /\ a <= k /\ j = k + 1)
    BY DEF Between
  <2>3. \A p \in S : ix[p] \in 0..n
    OBVIOUS
  <2> HIDE DEF after, before, far, near
  <2>4. QED
    BY <2>1, <2>2, <2>3
<1>8. /\ after \cup far \subseteq S \X (1..n)
      /\ before \cup near \subseteq S \X (1..n)
  BY <1>1 DEF Gap, UpTo, Beyond
<1> HIDE DEF after, before, far, near
<1>9. after \cup far = before \cup near /\ after \cap far = {} /\ before \cap near = {}
  BY <1>7, <1>8
<1>10. /\ Cardinality(after \cup far) = Cardinality(after) + Cardinality(far)
       /\ Cardinality(before \cup near) = Cardinality(before) + Cardinality(near)
  BY <1>4, <1>6, <1>9, DisjointSize
<1>11. QED
  BY <1>5, <1>6, <1>9, <1>10, Zenon

\* Every vote lies up to a position or beyond it.
LEMMA UpToOrBeyond ==
    ASSUME NEW n \in Nat, NEW S, IsFiniteSet(S), NEW ix \in [S -> 0..n], NEW v \in 0..n
    PROVE  /\ Cardinality(UpTo(ix, v)) + Cardinality(Beyond(ix, v)) = Cardinality(S)
           /\ Cardinality(UpTo(ix, v)) \in Nat
           /\ Cardinality(Beyond(ix, v)) \in Nat
<1>1. DOMAIN ix = S /\ v \in Int
  OBVIOUS
<1>2. IsFiniteSet(UpTo(ix, v)) /\ IsFiniteSet(Beyond(ix, v))
  BY <1>1, FS_Subset DEF UpTo, Beyond
<1>3. UpTo(ix, v) \cup Beyond(ix, v) = S
  BY <1>1 DEF UpTo, Beyond
<1>4. UpTo(ix, v) \cap Beyond(ix, v) = {}
  BY <1>1 DEF UpTo, Beyond
<1>5. QED
  BY <1>2, <1>3, <1>4, DisjointSize

\* The median is one of the positions; more than half of them lie up to it,
\* and at most half of them up to any lower place.
LEMMA MedianIsInTheMiddle ==
    ASSUME NEW n \in Nat, NEW S, IsFiniteSet(S), S # {}, NEW ix \in [S -> 0..n]
    PROVE  /\ \E p \in S : median(ix) = ix[p]
           /\ Cardinality(UpTo(ix, median(ix))) > Cardinality(S) \div 2
           /\ \A v \in 0..n : v < median(ix) =>
                Cardinality(UpTo(ix, v)) <= Cardinality(S) \div 2
<1> DEFINE half == Cardinality(S) \div 2
           Places == {ix[p] : p \in {q \in S : Cardinality(UpTo(ix, ix[q])) > half}}
<1>1. DOMAIN ix = S /\ Cardinality(S) \in Nat /\ Cardinality(S) # 0
  BY FS_CardinalityType, FS_EmptySet
<1>2. median(ix) = Min(Places)
  BY <1>1, Zenon DEF median, UpTo
<1>3. half \in Nat /\ half < Cardinality(S)
  BY <1>1
<1>4. Places \subseteq 0..n
  OBVIOUS
<1>5. Places # {}
  <2> DEFINE All == {ix[p] : p \in S}
  <2>1. All \subseteq 0..n /\ All # {}
    OBVIOUS
  <2>2. Max(All) \in All /\ \A y \in All : y <= Max(All)
    <3> HIDE DEF All
    <3> QED
      BY <2>1, MaxOfNats
  <2>3. PICK p \in S : Max(All) = ix[p]
    BY <2>2
  <2>4. UpTo(ix, ix[p]) = S
    BY <1>1, <2>2, <2>3 DEF UpTo
  <2>5. ix[p] \in Places
    BY <1>3, <2>4
  <2>6. QED
    BY <2>5
<1>6. median(ix) \in Places /\ \A y \in Places : median(ix) <= y
  <2> HIDE DEF Places
  <2>1. Places \subseteq Nat
    BY <1>4
  <2>2. QED
    BY <1>2, <1>5, <2>1, MinOfNats
<1>7. PICK m \in S : median(ix) = ix[m] /\ Cardinality(UpTo(ix, ix[m])) > half
  BY <1>6
<1>8. ASSUME NEW v \in 0..n, v < median(ix), ~(Cardinality(UpTo(ix, v)) <= half)
      PROVE  FALSE
  <2> DEFINE Low == {ix[p] : p \in UpTo(ix, v)}
  <2>1. UpTo(ix, v) # {}
    BY <1>3, <1>8, FS_EmptySet
  <2>2. Low \subseteq 0..n /\ Low # {} /\ \A y \in Low : y <= v
    BY <1>1, <2>1 DEF UpTo
  <2>3. Max(Low) \in Low /\ \A y \in Low : y <= Max(Low)
    <3> HIDE DEF Low
    <3> QED
      BY <2>2, MaxOfNats
  <2>4. PICK p \in UpTo(ix, v) : Max(Low) = ix[p]
    BY <2>3
  <2>5. p \in S /\ ix[p] \in 0..n /\ ix[p] <= v
    BY <1>1, <2>4 DEF UpTo
  <2>6. UpTo(ix, ix[p]) = UpTo(ix, v)
    <3>1. ASSUME NEW q \in S PROVE ix[q] <= ix[p] <=> ix[q] <= v
      <4>1. CASE ix[q] <= v
        BY <1>1, <2>3, <2>4, <4>1 DEF UpTo
      <4>2. CASE ix[q] <= ix[p]
        <5>1. ix[q] \in 0..n
          OBVIOUS
        <5>2. QED
          BY <2>5, <4>2, <5>1
      <4>3. QED
        BY <4>1, <4>2
    <3>2. QED
      BY <1>1, <3>1, Zenon DEF UpTo
  <2>7. Cardinality(UpTo(ix, v)) \in Nat
    BY UpToOrBeyond
  <2>8. ix[p] \in Places
    BY <1>3, <1>8, <2>5, <2>6, <2>7
  <2>9. ix[m] <= ix[p] /\ v < ix[m] /\ ix[m] \in 0..n
    BY <1>6, <1>7, <1>8, <2>8
  <2>10. QED
    BY <2>5, <2>9
<1>9. \A v \in 0..n : v < median(ix) => Cardinality(UpTo(ix, v)) <= half
  BY <1>8
<1>10. QED
  BY <1>7, <1>9

\* No card is nearer to the votes than the one at the median, and those beyond
\* it are farther away.
LEMMA MedianIsNearest ==
    ASSUME NEW n \in Nat, NEW S, IsFiniteSet(S), S # {}, NEW ix \in [S -> 0..n]
    PROVE  /\ \A k \in 0..n : TotalDistance(ix, median(ix)) <= TotalDistance(ix, k)
           /\ \A k \in 0..n : median(ix) < k =>
                TotalDistance(ix, median(ix)) < TotalDistance(ix, k)
<1> DEFINE cost == [k \in 0..n |-> TotalDistance(ix, k)]
           m == median(ix)
           half == Cardinality(S) \div 2
<1>1. m \in 0..n /\ Cardinality(UpTo(ix, m)) > half
      /\ \A v \in 0..n : v < m => Cardinality(UpTo(ix, v)) <= half
  BY MedianIsInTheMiddle
<1>2. Cardinality(S) \in Nat
  BY FS_CardinalityType
<1>3. \A k \in 0..n : TotalDistance(ix, k) \in Int
  BY SumIsGap, GapIsFinite
<1>4. cost \in [0..n -> Int] /\ \A k \in 0..n : cost[k] = TotalDistance(ix, k)
  BY <1>3
<1> HIDE DEF m, cost
<1>5. ASSUME NEW k \in 0..n, k < n
      PROVE  /\ k + 1 \in 0..n
             /\ cost[k + 1] + Cardinality(Beyond(ix, k)) = cost[k] + Cardinality(UpTo(ix, k))
             /\ Cardinality(UpTo(ix, k)) + Cardinality(Beyond(ix, k)) = Cardinality(S)
             /\ Cardinality(UpTo(ix, k)) \in Nat /\ Cardinality(Beyond(ix, k)) \in Nat
             /\ cost[k] \in Int /\ cost[k + 1] \in Int
  <2>1. k + 1 \in 0..n
    BY <1>5
  <2>2. cost[k] = TotalDistance(ix, k) /\ cost[k + 1] = TotalDistance(ix, k + 1)
        /\ cost[k] \in Int /\ cost[k + 1] \in Int
    BY <1>3, <1>4, <2>1
  <2>3. QED
    BY <1>5, <2>1, <2>2, CostGrows, UpToOrBeyond
<1>6. ASSUME NEW k \in 0..n, k < m PROVE cost[k + 1] <= cost[k]
  <2>1. k < n
    BY <1>1, <1>6
  <2>2. Cardinality(UpTo(ix, k)) <= half
    BY <1>1, <1>6
  <2>3. Cardinality(UpTo(ix, k)) <= Cardinality(Beyond(ix, k))
    BY <1>2, <1>5, <2>1, <2>2
  <2>4. QED
    BY <1>5, <2>1, <2>3
<1>7. ASSUME NEW k \in 0..n, m <= k, k < n PROVE cost[k] < cost[k + 1]
  <2>1. UpTo(ix, m) \in SUBSET UpTo(ix, k)
    BY <1>1, <1>7 DEF UpTo
  <2>2. IsFiniteSet(UpTo(ix, k))
    BY FS_Subset DEF UpTo
  <2>3. Cardinality(UpTo(ix, m)) <= Cardinality(UpTo(ix, k))
    BY <2>1, <2>2, FS_Subset
  <2>4. Cardinality(UpTo(ix, m)) \in Nat
    BY <1>1, UpToOrBeyond
  <2>5. Cardinality(UpTo(ix, k)) > Cardinality(Beyond(ix, k))
    BY <1>1, <1>2, <1>5, <1>7, <2>3, <2>4
  <2>6. QED
    BY <1>5, <1>7, <2>5
<1>8. /\ \A k \in 0..n : cost[m] <= cost[k]
      /\ \A k \in 0..n : m < k => cost[m] < cost[k]
  BY <1>1, <1>4, <1>6, <1>7, ValleyIsLeast
<1>9. QED
  BY <1>1, <1>4, <1>8 DEF m

-----------------------------------------------------------------------------
(* Small gaps *)

\* Votes at most a card away cost one each, unless they are for that very card.
LEMMA CloseVotesCostOne ==
    ASSUME NEW n \in Nat, NEW S, IsFiniteSet(S), NEW ix \in [S -> 0..n], NEW k \in 0..n,
           \A p \in S : Distance(ix[p], k) <= 1
    PROVE  TotalDistance(ix, k) = Cardinality({p \in S : ix[p] # k})
<1> DEFINE Off == {p \in S : ix[p] # k}
           Steps == Gap(ix, S, k, n)
           step == [p \in Off |-> <<p, IF ix[p] < k THEN k ELSE ix[p]>>]
<1>1. ASSUME NEW p \in S
      PROVE  /\ ix[p] \in 0..n
             /\ ix[p] # k => (ix[p] < k /\ ix[p] + 1 = k) \/ (k < ix[p] /\ k + 1 = ix[p])
  <2>1. ix[p] \in 0..n /\ Distance(ix[p], k) <= 1
    OBVIOUS
  <2>2. QED
    BY <2>1 DEF Distance
<1>2. ASSUME NEW p \in S, NEW j \in 1..n
      PROVE  <<p, j>> \in Steps
               <=> (ix[p] # k /\ j = IF ix[p] < k THEN k ELSE ix[p])
  <2>1. <<p, j>> \in Steps <=> Between(j, ix[p], k)
    BY DEF Gap
  <2>2. Between(j, ix[p], k) <=> (ix[p] # k /\ j = IF ix[p] < k THEN k ELSE ix[p])
    BY <1>1 DEF Between
  <2>3. QED
    BY <2>1, <2>2
<1>3. Steps \subseteq S \X (1..n)
  BY DEF Gap
<1> HIDE DEF Steps
<1>4. step \in [Off -> Steps]
  <2>1. ASSUME NEW p \in Off PROVE (IF ix[p] < k THEN k ELSE ix[p]) \in 1..n
    BY <1>1
  <2>2. \A p \in Off : <<p, IF ix[p] < k THEN k ELSE ix[p]>> \in Steps
    BY <1>2, <2>1
  <2>3. QED
    BY <2>2
<1>5. \A p, q \in Off : step[p] = step[q] => p = q
  OBVIOUS
<1>6. ASSUME NEW s \in Steps PROVE \E p \in Off : step[p] = s
  <2>1. PICK p \in S, j \in 1..n : s = <<p, j>>
    BY <1>3
  <2>2. p \in Off /\ j = IF ix[p] < k THEN k ELSE ix[p]
    BY <1>2, <2>1
  <2>3. QED
    BY <2>1, <2>2
<1>7. ExistsBijection(Off, Steps)
  <2> HIDE DEF Off, step
  <2>1. step \in Bijection(Off, Steps)
    BY <1>4, <1>5, <1>6 DEF Bijection, Injection, Surjection, IsInjective
  <2>2. QED
    BY <2>1 DEF ExistsBijection
<1>8. IsFiniteSet(Off)
  BY FS_Subset
<1>9. Cardinality(Steps) = Cardinality(Off)
  <2> HIDE DEF Off
  <2> QED
    BY <1>7, <1>8, FS_Bijection
<1>10. QED
  BY <1>9, SumIsGap DEF Steps

\* Nothing is spent exactly when every vote is for that card.
LEMMA NoCostMeansAgreement ==
    ASSUME NEW n \in Nat, NEW S, IsFiniteSet(S), NEW ix \in [S -> 0..n], NEW k \in 0..n
    PROVE  TotalDistance(ix, k) = 0 <=> \A p \in S : ix[p] = k
<1>1. IsFiniteSet(Gap(ix, S, k, n)) /\ TotalDistance(ix, k) = Cardinality(Gap(ix, S, k, n))
  BY GapIsFinite, SumIsGap
<1>2. TotalDistance(ix, k) = 0 <=> Gap(ix, S, k, n) = {}
  BY <1>1, FS_EmptySet
<1>3. ASSUME \A p \in S : ix[p] = k PROVE Gap(ix, S, k, n) = {}
  BY <1>3 DEF Gap, Between
<1>4. ASSUME NEW p \in S, ix[p] # k PROVE Gap(ix, S, k, n) # {}
  <2>1. ix[p] \in 0..n
    OBVIOUS
  <2>2. CASE ix[p] < k
    <3>1. k \in 1..n /\ Between(k, ix[p], k)
      BY <2>1, <2>2 DEF Between
    <3>2. <<p, k>> \in Gap(ix, S, k, n)
      BY <3>1 DEF Gap
    <3>3. QED
      BY <3>2
  <2>3. CASE k < ix[p]
    <3>1. ix[p] \in 1..n /\ Between(ix[p], ix[p], k)
      BY <2>1, <2>3 DEF Between
    <3>2. <<p, ix[p]>> \in Gap(ix, S, k, n)
      BY <3>1 DEF Gap
    <3>3. QED
      BY <3>2
  <2>4. QED
    BY <1>4, <2>1, <2>2, <2>3
<1>5. QED
  BY <1>2, <1>3, <1>4

-----------------------------------------------------------------------------
(* What is measured *)

\* The place of a card of the deck is the first that holds it.
LEMMA IndexIsFirst ==
    ASSUME NEW d \in Seq(Cards), NEW card \in ToSet(d)
    PROVE  /\ Index(d, card) \in 1..Len(d)
           /\ d[Index(d, card)] = card
<1> DEFINE Places == {k \in 1..Len(d) : d[k] = card}
<1>1. DOMAIN d = 1..Len(d) /\ Len(d) \in Nat
  OBVIOUS
<1>2. Places \subseteq Nat /\ Places # {}
  BY <1>1 DEF ToSet
<1>3. PICK k \in Places : \A j \in Places : k <= j
  <2> HIDE DEF Places
  <2>1. Min(Places) \in Places /\ \A y \in Places : Min(Places) <= y
    BY <1>2, MinOfNats
  <2>2. QED
    BY <2>1
<1>4. k \in DOMAIN d /\ d[k] = card
  BY <1>1, <1>3
<1>5. \A j \in 1..(k - 1) : d[j] # card
  <2>1. \A j \in 1..(k - 1) : j \in 1..Len(d) /\ ~(k <= j)
    BY <1>1, <1>4
  <2>2. QED
    BY <1>3, <2>1 DEF Verdicts
<1>6. \E z \in DOMAIN d : d[z] = card /\ \A j \in 1..(z - 1) : d[j] # card
  BY <1>4, <1>5
<1>7. Index(d, card) \in DOMAIN d /\ d[Index(d, card)] = card
  BY <1>6, Zenon DEF Index
<1>8. QED
  BY <1>1, <1>7

\* What a hint says of measures that can be taken.
LEMMA EveryHintSpeaks ==
    ASSUME NEW m, m.sum \in Nat, m.max \in Nat, m.count \in Nat, m.count > 0,
           m.sum = 0 => m.max = 0
    PROVE  /\ Description(m) \in Verdicts /\ Description(m) # ""
           /\ Acceptable(m) <=>
                Description(m) \in {"bingo", "good job", "not bad", "you can do better"}
           /\ Description(m) = "bingo" <=> m.sum = 0
<1>1. CASE 2 * m.sum > m.count
  <2>1. Description(m) = "no strong consensus" /\ ~Acceptable(m) /\ m.sum # 0
    BY <1>1 DEF Description, Acceptable
  <2>2. QED
    BY <2>1 DEF Verdicts
<1>2. CASE 2 * m.sum <= m.count /\ m.max > 1
  <2>1. Description(m) = "maximum deviation exceeded" /\ ~Acceptable(m) /\ m.sum # 0
    BY <1>2 DEF Description, Acceptable
  <2>2. QED
    BY <2>1 DEF Verdicts
<1>3. CASE Acceptable(m) /\ m.sum = 0
  <2>1. Description(m) = "bingo"
    BY <1>3 DEF Description, Acceptable
  <2>2. QED
    BY <1>3, <2>1 DEF Verdicts
<1>4. CASE Acceptable(m) /\ m.sum # 0 /\ 4 * m.sum < m.count
  <2>1. Description(m) = "good job"
    BY <1>4 DEF Description, Acceptable
  <2>2. QED
    BY <1>4, <2>1 DEF Verdicts
<1>5. CASE Acceptable(m) /\ 4 * m.sum >= m.count /\ 2 * m.sum < m.count
  <2>1. Description(m) = "not bad" /\ m.sum # 0
    BY <1>5 DEF Description, Acceptable
  <2>2. QED
    BY <1>5, <2>1 DEF Verdicts
<1>6. CASE Acceptable(m) /\ m.sum # 0 /\ 2 * m.sum = m.count
  <2>1. Description(m) = "you can do better"
    BY <1>6 DEF Description, Acceptable
  <2>2. QED
    BY <1>6, <2>1 DEF Verdicts
<1>7. \/ 2 * m.sum > m.count
      \/ 2 * m.sum <= m.count /\ m.max > 1
      \/ Acceptable(m) /\ m.sum = 0
      \/ Acceptable(m) /\ m.sum # 0 /\ 4 * m.sum < m.count
      \/ Acceptable(m) /\ 4 * m.sum >= m.count /\ 2 * m.sum < m.count
      \/ Acceptable(m) /\ m.sum # 0 /\ 2 * m.sum = m.count
  BY DEF Acceptable
<1>8. QED
  BY <1>1, <1>2, <1>3, <1>4, <1>5, <1>6, <1>7, Zenon

-----------------------------------------------------------------------------
(* The votes that come in *)

\* Votes are cards of players, and the deck is one of the decks.
Typing == deck \in Decks /\ \E S \in SUBSET Players : votes \in [S -> Cards]

LEMMA TypingHolds == Spec => []Typing
<1>1. Init => Typing
  <2>1. << >> \in [{} -> Cards]
    OBVIOUS
  <2>2. QED
    BY <2>1, Zenon DEF Init, Typing
<1>2. Typing /\ [Next]_vars => Typing'
  <2> SUFFICES ASSUME Typing, [Next]_vars PROVE Typing'
    OBVIOUS
  <2>1. PICK S \in SUBSET Players : votes \in [S -> Cards]
    BY DEF Typing
  <2>2. DOMAIN votes = S
    BY <2>1
  <2>3. ASSUME NEW p \in Players, NEW card \in Cards, CastVote(p, card) PROVE Typing'
    <3>1. votes' \in [S \cup {p} -> Cards] /\ S \cup {p} \in SUBSET Players
      BY <2>1, <2>2, <2>3 DEF CastVote
    <3>2. deck' \in Decks
      BY <2>3 DEF CastVote, Typing
    <3>3. QED
      BY <3>1, <3>2, Zenon DEF Typing
  <2>4. ASSUME NEW p \in Players, RetractVote(p) PROVE Typing'
    <3>1. votes' \in [S \ {p} -> Cards] /\ S \ {p} \in SUBSET Players
      BY <2>1, <2>2, <2>4 DEF RetractVote
    <3>2. deck' \in Decks
      BY <2>4 DEF RetractVote, Typing
    <3>3. QED
      BY <3>1, <3>2, Zenon DEF Typing
  <2>5. CASE UNCHANGED vars
    BY <2>5 DEF Typing, vars
  <2>6. QED
    BY <2>3, <2>4, <2>5 DEF Next
<1>3. QED
  BY <1>1, <1>2, PTL DEF Spec

\* The votes as positions: what is computed from them when none is unknown.
indexes == getVotesAsDeckIndexes(deck, votes)

LEMMA Positions ==
    ASSUME Typing
    PROVE  /\ deck \in Seq(Cards)
           /\ Len(deck) \in Nat
           /\ DOMAIN deck = 1..Len(deck)
           /\ IsFiniteSet(Counted) /\ Counted \in SUBSET Players
           /\ \A p \in Counted : votes[p] \in Cards
           /\ ~InDeck => indexes = Failed
           /\ InDeck =>
                /\ indexes # Failed
                /\ indexes \in [Counted -> 0..Len(deck)]
                /\ \A p \in Counted :
                     /\ indexes[p] = Index(deck, votes[p])
                     /\ indexes[p] \in 1..Len(deck)
                     /\ deck[indexes[p]] = votes[p]
<1>1. PICK S \in SUBSET Players : votes \in [S -> Cards]
  BY DEF Typing
<1>2. DOMAIN votes = S /\ Counted \in SUBSET S
  BY <1>1 DEF Counted
<1>3. deck \in Seq(Cards) /\ Len(deck) \in Nat /\ DOMAIN deck = 1..Len(deck)
  <2>1. deck \in Seq(Cards)
    BY DecksAreSequences DEF Typing
  <2>2. QED
    BY <2>1
<1>4. IsFiniteSet(Counted) /\ Counted \in SUBSET Players
  BY <1>2, PlayersFinite, FS_Subset
<1>5. \A p \in Counted : votes[p] \in Cards
  BY <1>1, <1>2
<1>6. ~InDeck => indexes = Failed
  BY Zenon DEF InDeck, indexes, getVotesAsDeckIndexes, Counted
<1>7. ASSUME InDeck
      PROVE  /\ indexes # Failed
             /\ indexes \in [Counted -> 0..Len(deck)]
             /\ \A p \in Counted :
                  /\ indexes[p] = Index(deck, votes[p])
                  /\ indexes[p] \in 1..Len(deck)
                  /\ deck[indexes[p]] = votes[p]
  <2>1. indexes = [p \in Counted |-> Index(deck, votes[p])]
    BY <1>7, Zenon DEF InDeck, indexes, getVotesAsDeckIndexes, Counted
  <2>2. ASSUME NEW p \in Counted
        PROVE  /\ indexes[p] = Index(deck, votes[p])
               /\ Index(deck, votes[p]) \in 1..Len(deck)
               /\ deck[Index(deck, votes[p])] = votes[p]
    <3>1. votes[p] \in ToSet(deck)
      BY <1>7 DEF InDeck
    <3>2. QED
      BY <1>3, <2>1, <3>1, IndexIsFirst
  <2>3. indexes \in [Counted -> 0..Len(deck)] /\ indexes \in [Counted -> Nat]
    <3>1. \A p \in Counted : Index(deck, votes[p]) \in 0..Len(deck)
      BY <1>3, <2>2
    <3>2. \A p \in Counted : Index(deck, votes[p]) \in Nat
      BY <1>3, <3>1
    <3>3. QED
      BY <2>1, <3>1, <3>2
  <2>4. indexes # Failed
    BY <1>4, <2>3, FailedIsNew
  <2>5. QED
    BY <2>2, <2>3, <2>4
<1>8. QED
  BY <1>3, <1>4, <1>5, <1>6, <1>7

\* What is measured of votes that can be placed, and the hint made of it.
LEMMA Measured ==
    ASSUME Typing, InDeck, Counted # {}
    PROVE  LET m == getMeasures(indexes)
           IN  /\ hint = [value |-> deck[m.median], acceptable |-> Acceptable(m),
                          description |-> Description(m)]
               /\ m.median = median(indexes)
               /\ \E p \in Counted : m.median = indexes[p]
               /\ m.median \in 1..Len(deck)
               /\ Index(deck, deck[m.median]) = m.median
               /\ m.sum = TotalDistance(indexes, m.median)
               /\ m.sum \in Nat
               /\ m.sum = 0 <=> \A p \in Counted : indexes[p] = m.median
               /\ m.count = Cardinality(Counted) /\ m.count \in Nat /\ m.count > 0
               /\ m.max \in Nat
               /\ \A d \in Nat : m.max <= d <=>
                    \A p \in Counted : Distance(indexes[p], m.median) <= d
<1> DEFINE n == Len(deck)
           m == getMeasures(indexes)
           mid == median(indexes)
           Apart == {Distance(indexes[p], mid) : p \in Counted}
<1>1. /\ n \in Nat /\ IsFiniteSet(Counted) /\ indexes # Failed
      /\ indexes \in [Counted -> 0..n]
      /\ \A p \in Counted : /\ indexes[p] = Index(deck, votes[p])
                            /\ indexes[p] \in 1..n
                            /\ deck[indexes[p]] = votes[p]
  BY Positions
<1>2. DOMAIN indexes = Counted /\ indexes # << >>
  BY <1>1
<1>3. /\ m.median = mid /\ m.sum = TotalDistance(indexes, mid)
      /\ m.count = Cardinality(Counted) /\ m.max = Max(Apart)
  BY <1>2 DEF getMeasures
<1>4. hint = [value |-> deck[m.median], acceptable |-> Acceptable(m),
              description |-> Description(m)]
  BY <1>1, <1>2, Zenon DEF hint, GetResultHint, indexes
<1>5. PICK p \in Counted : mid = indexes[p]
  BY <1>1, MedianIsInTheMiddle
<1>6. mid \in 1..n /\ mid \in 0..n /\ Index(deck, deck[mid]) = mid
  BY <1>1, <1>5
<1>7. TotalDistance(indexes, mid) \in Nat
      /\ (TotalDistance(indexes, mid) = 0 <=> \A q \in Counted : indexes[q] = mid)
  <2> HIDE DEF mid
  <2>1. TotalDistance(indexes, mid) = Cardinality(Gap(indexes, Counted, mid, n))
    BY <1>1, <1>6, SumIsGap
  <2>2. Cardinality(Gap(indexes, Counted, mid, n)) \in Nat
    BY <1>1, GapIsFinite
  <2>3. TotalDistance(indexes, mid) = 0 <=> \A q \in Counted : indexes[q] = mid
    BY <1>1, <1>6, NoCostMeansAgreement
  <2>4. QED
    BY <2>1, <2>2, <2>3
<1>8. Cardinality(Counted) \in Nat /\ Cardinality(Counted) > 0
  BY <1>1, FS_CardinalityType, FS_EmptySet
<1>9. \A q \in Counted : Distance(indexes[q], mid) \in 0..n
  <2>1. ASSUME NEW q \in Counted PROVE Distance(indexes[q], mid) \in 0..n
    <3>1. indexes[q] \in 1..n
      BY <1>1
    <3>2. QED
      BY <1>1, <1>6, <3>1 DEF Distance
  <2>2. QED
    BY <2>1
<1>10. Max(Apart) \in Apart /\ Apart \subseteq 0..n /\ \A y \in Apart : y <= Max(Apart)
  <2>1. Apart \subseteq 0..n /\ Apart # {}
    BY <1>9
  <2> HIDE DEF Apart
  <2>2. QED
    BY <1>1, <2>1, MaxOfNats
<1>11. ASSUME NEW d \in Nat
       PROVE  Max(Apart) <= d <=> \A q \in Counted : Distance(indexes[q], mid) <= d
  <2>1. PICK q \in Counted : Max(Apart) = Distance(indexes[q], mid)
    BY <1>10
  <2>2. \A r \in Counted : Distance(indexes[r], mid) <= Max(Apart)
        /\ Distance(indexes[r], mid) \in Nat
    BY <1>9, <1>10
  <2>3. Max(Apart) \in Nat
    BY <2>1, <2>2
  <2> HIDE DEF Apart, mid
  <2>4. QED
    BY <2>1, <2>2, <2>3
<1>12. Max(Apart) \in Nat
  BY <1>10
<1> HIDE DEF m, mid, Apart
<1>13. \A d \in Nat : m.max <= d <=>
         \A q \in Counted : Distance(indexes[q], m.median) <= d
  BY <1>3, <1>11, Zenon
<1>14. m.sum = 0 <=> \A q \in Counted : indexes[q] = m.median
  BY <1>3, <1>7, Zenon
<1>15. QED
  BY <1>3, <1>4, <1>5, <1>6, <1>7, <1>8, <1>12, <1>13, <1>14, Zenon DEF m, mid

-----------------------------------------------------------------------------
(* The hint *)

LEMMA VotedCard == Typing => ProposesAVotedCard
<1> SUFFICES ASSUME Typing PROVE ProposesAVotedCard
  OBVIOUS
<1>1. CASE ~InDeck
  <2>1. hint = Failed
    BY <1>1, Positions, Zenon DEF hint, GetResultHint, indexes
  <2>2. QED
    BY <1>1, <2>1, Zenon DEF ProposesAVotedCard
<1>2. CASE InDeck /\ Counted = {}
  <2>1. indexes = << >> /\ indexes # Failed
    <3>1. indexes \in [{} -> 0..Len(deck)] /\ indexes # Failed
      BY <1>2, Positions
    <3>2. QED
      BY <3>1
  <2>2. hint = [value |-> NoCard, acceptable |-> FALSE, description |-> "nobody voted"]
    BY <2>1, Zenon DEF hint, GetResultHint, indexes
  <2>3. hint \in Hint
    BY <2>2 DEF Hint, Verdicts
  <2>4. hint # Failed
    BY <2>3, FailedIsNew
  <2>5. QED
    BY <1>2, <2>4, Zenon DEF ProposesAVotedCard
<1>3. CASE InDeck /\ Counted # {}
  <2> DEFINE m == getMeasures(indexes)
  <2>1. /\ hint = [value |-> deck[m.median], acceptable |-> Acceptable(m),
                   description |-> Description(m)]
        /\ m.sum \in Nat /\ m.max \in Nat /\ m.count \in Nat /\ m.count > 0
        /\ m.sum = 0 => m.max = 0
    <3>1. m.sum = 0 => \A p \in Counted : Distance(indexes[p], m.median) <= 0
      BY <1>3, Measured, Positions DEF Distance
    <3>2. QED
      BY <1>3, <3>1, Measured
  <2>2. PICK p \in Counted : m.median = indexes[p]
    BY <1>3, Measured
  <2>3. deck[m.median] = votes[p] /\ votes[p] \in Cards
    BY <1>3, <2>2, Positions
  <2> HIDE DEF m
  <2>4. hint.value = votes[p]
    BY <2>1, <2>3
  <2>5. Description(m) \in Verdicts /\ Acceptable(m) \in BOOLEAN
    <3>1. Description(m) \in Verdicts
      BY <2>1, EveryHintSpeaks
    <3>2. Acceptable(m) \in BOOLEAN
      BY Zenon DEF Acceptable
    <3>3. QED
      BY <3>1, <3>2
  <2>6. hint \in Hint
    BY <2>1, <2>3, <2>5 DEF Hint
  <2>7. hint # Failed
    BY <2>6, FailedIsNew
  <2>8. QED
    BY <1>3, <2>4, <2>7, Zenon DEF ProposesAVotedCard
<1>4. QED
  BY <1>1, <1>2, <1>3

LEMMA NearestCard == Typing => ProposesTheNearestCard
<1> SUFFICES ASSUME Typing, InDeck, Counted # {} PROVE ProposesTheNearestCard
  BY DEF ProposesTheNearestCard
<1> DEFINE m == getMeasures(indexes)
           at == Index(deck, hint.value)
           cost(k) == TotalDistance(indexes, k)
<1>1. /\ at = median(indexes) /\ m.median = median(indexes)
  BY Measured
<1>2. /\ \A k \in 0..Len(deck) : cost(median(indexes)) <= cost(k)
      /\ \A k \in 0..Len(deck) : median(indexes) < k => cost(median(indexes)) < cost(k)
  BY Positions, MedianIsNearest
<1>3. \A k \in 0..Len(deck) : cost(k) \in Nat
  <2>1. ASSUME NEW k \in 0..Len(deck) PROVE cost(k) \in Nat
    <3>1. cost(k) = Cardinality(Gap(indexes, Counted, k, Len(deck)))
      BY Positions, SumIsGap
    <3>2. Cardinality(Gap(indexes, Counted, k, Len(deck))) \in Nat
      BY Positions, GapIsFinite
    <3>3. QED
      BY <3>1, <3>2
  <2>2. QED
    BY <2>1
<1>4. at \in 1..Len(deck) /\ at \in 0..Len(deck)
  <2>1. at \in 1..Len(deck)
    BY <1>1, Measured
  <2>2. QED
    BY <2>1, Positions
<1> HIDE DEF at, cost, m
<1>5. \A k \in DOMAIN deck : cost(at) <= cost(k)
  BY <1>1, <1>2, Positions
<1>6. ASSUME NEW p \in Counted, cost(Index(deck, votes[p])) = cost(at)
      PROVE  Index(deck, votes[p]) <= at
  <2>1. Index(deck, votes[p]) \in 0..Len(deck)
    BY Positions
  <2>2. ~(at < Index(deck, votes[p]))
    BY <1>1, <1>2, <1>3, <1>4, <1>6, <2>1
  <2>3. QED
    BY <1>4, <2>1, <2>2
<1>7. QED
  BY <1>5, <1>6, Zenon DEF ProposesTheNearestCard, at, cost, indexes

LEMMA Agreement == Typing => AcceptableMeansAgreement
<1> SUFFICES ASSUME Typing, InDeck, Counted # {} PROVE AcceptableMeansAgreement
  BY DEF AcceptableMeansAgreement
<1> DEFINE m == getMeasures(indexes)
           at == Index(deck, hint.value)
           agreeing == {p \in Counted : votes[p] = hint.value}
           other == {p \in Counted : indexes[p] # at}
           near == \A p \in Counted : Distance(Index(deck, votes[p]), at) <= 1
<1>1. /\ at = m.median /\ at \in 1..Len(deck) /\ at \in 0..Len(deck)
      /\ hint.value = deck[at] /\ hint.acceptable = Acceptable(m)
      /\ m.sum = TotalDistance(indexes, at)
      /\ m.count = Cardinality(Counted) /\ m.count \in Nat /\ m.max \in Nat /\ m.sum \in Nat
  <2>1. /\ at = m.median /\ at \in 1..Len(deck)
        /\ hint.value = deck[at] /\ hint.acceptable = Acceptable(m)
        /\ m.sum = TotalDistance(indexes, at)
        /\ m.count = Cardinality(Counted) /\ m.count \in Nat /\ m.max \in Nat /\ m.sum \in Nat
    BY Measured
  <2>2. at \in 0..Len(deck)
    BY <2>1, Positions
  <2>3. QED
    BY <2>1, <2>2
<1>2. m.max <= 1 <=> \A p \in Counted : Distance(indexes[p], at) <= 1
  BY <1>1, Measured
<1>3. \A p \in Counted : indexes[p] = Index(deck, votes[p]) /\ deck[indexes[p]] = votes[p]
  BY Positions
<1> HIDE DEF m, at
<1>4. m.max <= 1 <=> near
  BY <1>2, <1>3, Zenon
<1>5. \A p \in Counted : indexes[p] = at <=> votes[p] = hint.value
  <2>1. Index(deck, deck[at]) = at
    BY Measured DEF at
  <2>2. QED
    BY <1>1, <1>3, <2>1, Zenon
<1>6. Cardinality(agreeing) + Cardinality(other) = Cardinality(Counted)
      /\ Cardinality(agreeing) \in Nat /\ Cardinality(other) \in Nat
  <2>1. agreeing \cup other = Counted /\ agreeing \cap other = {}
    BY <1>5
  <2>2. IsFiniteSet(agreeing) /\ IsFiniteSet(other)
    BY Positions, FS_Subset
  <2> HIDE DEF agreeing, other
  <2>3. QED
    BY <2>1, <2>2, DisjointSize
<1>7. ASSUME near PROVE m.sum = Cardinality(other)
  <2>1. \A p \in Counted : Distance(indexes[p], at) <= 1
    BY <1>2, <1>4, <1>7
  <2>2. IsFiniteSet(Counted) /\ indexes \in [Counted -> 0..Len(deck)] /\ Len(deck) \in Nat
    BY Positions
  <2>3. QED
    BY <1>1, <2>1, <2>2, CloseVotesCostOne
<1> HIDE DEF near, agreeing, other
<1>8. Acceptable(m) <=> near /\ 2 * Cardinality(agreeing) >= Cardinality(Counted)
  <2>1. CASE near
    BY <1>1, <1>4, <1>6, <1>7, <2>1 DEF Acceptable
  <2>2. CASE ~near
    BY <1>4, <2>2 DEF Acceptable
  <2>3. QED
    BY <2>1, <2>2
<1>9. QED
  BY <1>1, <1>8, Zenon DEF AcceptableMeansAgreement, near, agreeing, at

LEMMA Speaks == Typing => DescriptionFits
<1> SUFFICES ASSUME Typing, InDeck, Counted # {} PROVE DescriptionFits
  BY DEF DescriptionFits
<1> DEFINE m == getMeasures(indexes)
<1>1. /\ m.sum \in Nat /\ m.max \in Nat /\ m.count \in Nat /\ m.count > 0
      /\ m.sum = 0 <=> \A p \in Counted : indexes[p] = m.median
      /\ hint.acceptable = Acceptable(m) /\ hint.description = Description(m)
  BY Measured
<1>2. m.sum = 0 => m.max = 0
  <2>1. m.sum = 0 => \A p \in Counted : Distance(indexes[p], m.median) <= 0
    BY Measured, Positions DEF Distance
  <2>2. QED
    BY <2>1, Measured
<1>3. PICK q \in Counted : m.median = indexes[q]
  BY Measured
<1>4. \A p, r \in Counted : indexes[p] = indexes[r] <=> votes[p] = votes[r]
  BY Positions, Zenon
<1> HIDE DEF m
<1>5. m.sum = 0 <=> \A p, r \in Counted : votes[p] = votes[r]
  BY <1>1, <1>3, <1>4, Zenon
<1>6. /\ Description(m) # ""
      /\ Acceptable(m) <=>
           Description(m) \in {"bingo", "good job", "not bad", "you can do better"}
      /\ Description(m) = "bingo" <=> m.sum = 0
  BY <1>1, <1>2, EveryHintSpeaks
<1>7. QED
  BY <1>1, <1>5, <1>6, Zenon DEF DescriptionFits

\* A hint is computed exactly when every counted vote is a card of the deck, and
\* proposes a card someone voted for (hints.go: GetResultHint, median).
THEOREM HintsAreVoted == Spec => []ProposesAVotedCard
BY TypingHolds, VotedCard, PTL

\* No card of the deck is nearer to the votes than the proposed one, and it is
\* the highest such card voted for (hints.go: median).
THEOREM HintsAreNearest == Spec => []ProposesTheNearestCard
BY TypingHolds, NearestCard, PTL

\* A hint is acceptable exactly when no vote is more than a card away from it
\* and half of them at least are for it (hints.go: the two thresholds).
THEOREM AcceptedHintsAreAgreed == Spec => []AcceptableMeansAgreement
BY TypingHolds, Agreement, PTL

\* Every hint says something, of acceptance only if it is acceptable, and
\* "bingo" exactly when all agree (hints.go: the description).
THEOREM HintsSpeak == Spec => []DescriptionFits
BY TypingHolds, Speaks, PTL

=============================================================================
