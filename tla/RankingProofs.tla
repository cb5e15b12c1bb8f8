---------------------------- MODULE RankingProofs ----------------------------
(***************************************************************************)
(* What sorting promises, for every finite set and every strict total      *)
(* order of it.  The argument is by counting: as many ranks as elements.   *)
(***************************************************************************)
EXTENDS Ranking, SequenceTheorems, FiniteSetTheorems, TLAPS

\* R orders S, and no two of S are equal in it.
StrictTotalOrder(S, R) ==
    /\ \A x \in S : <<x, x>> \notin R
    /\ \A x, y, z \in S : <<x, y>> \in R /\ <<y, z>> \in R => <<x, z>> \in R
    /\ \A x, y \in S : x # y => <<x, y>> \in R \/ <<y, x>> \in R

Below(S, R, x) == {y \in S : <<y, x>> \in R}

\* An element has a rank below the number of elements, and one below the
\* rank of every element that comes after it.
LEMMA RanksGrow ==
  ASSUME NEW S, NEW R, IsFiniteSet(S), StrictTotalOrder(S, R), NEW x \in S
  PROVE  /\ Cardinality(Below(S, R, x)) \in 0..(Cardinality(S) - 1)
         /\ \A y \in S : <<x, y>> \in R =>
               Cardinality(Below(S, R, x)) < Cardinality(Below(S, R, y))
<1> DEFINE B(z) == Below(S, R, z)
<1>1. ASSUME NEW T, IsFiniteSet(T), B(x) \subseteq T, x \in T
      PROVE  /\ Cardinality(B(x)) \in Nat /\ Cardinality(T) \in Nat
             /\ Cardinality(B(x)) < Cardinality(T)
  <2>1. IsFiniteSet(B(x)) /\ Cardinality(B(x)) <= Cardinality(T)
    BY <1>1, FS_Subset
  <2>2. x \notin B(x)
    BY DEF StrictTotalOrder, Below
  <2>3. Cardinality(B(x)) # Cardinality(T)
    BY <1>1, <2>2, FS_Subset
  <2>4. Cardinality(B(x)) \in Nat /\ Cardinality(T) \in Nat
    BY <1>1, <2>1, FS_CardinalityType
  <2>5. QED
    BY <2>1, <2>3, <2>4
<1>2. Cardinality(B(x)) \in 0..(Cardinality(S) - 1)
  <2>1. B(x) \subseteq S
    BY DEF Below
  <2>2. QED
    BY <1>1, <2>1
<1>3. ASSUME NEW y \in S, <<x, y>> \in R
      PROVE  Cardinality(B(x)) < Cardinality(B(y))
  <2>1. B(x) \subseteq B(y) /\ x \in B(y)
    BY <1>3 DEF StrictTotalOrder, Below
  <2>2. IsFiniteSet(B(y))
    BY FS_Subset DEF Below
  <2>3. QED
    BY <1>1, <2>1, <2>2
<1>4. QED
  BY <1>2, <1>3

\* Every rank is that of exactly one element.
LEMMA RanksAreOneToOne ==
  ASSUME NEW S, NEW R, IsFiniteSet(S), StrictTotalOrder(S, R)
  PROVE  /\ \A i \in 0..(Cardinality(S) - 1) :
               \E x \in S : Cardinality(Below(S, R, x)) = i
         /\ \A x, y \in S :
               Cardinality(Below(S, R, x)) = Cardinality(Below(S, R, y)) => x = y
<1> DEFINE n == Cardinality(S)
           rank == [x \in S |-> Cardinality(Below(S, R, x))]
<1>1. n \in Nat
  BY FS_CardinalityType
<1>2. rank \in [S -> 0..(n - 1)]
  BY RanksGrow
<1>3. \A x, y \in S : <<x, y>> \in R => rank[x] < rank[y]
  BY RanksGrow
<1>4. ASSUME NEW x \in S, NEW y \in S, rank[x] = rank[y] PROVE x = y
  <2>1. rank[x] \in Int /\ ~(rank[x] < rank[y]) /\ ~(rank[y] < rank[x])
    BY <1>1, <1>2, <1>4
  <2>2. QED
    BY <1>3, <2>1 DEF StrictTotalOrder
<1>5. IsFiniteSet(0..(n - 1)) /\ Cardinality(0..(n - 1)) = n
  BY <1>1, FS_Interval
<1> HIDE DEF rank
<1>6. rank \in Injection(S, 0..(n - 1))
  BY <1>2, <1>4 DEF Injection, IsInjective
<1>7. rank \in Surjection(S, 0..(n - 1))
  BY <1>5, <1>6, FS_Injection
<1>8. \A i \in 0..(n - 1) : \E x \in S : rank[x] = i
  BY <1>7 DEF Surjection
<1>9. QED
  BY <1>4, <1>8 DEF rank

\* Sorting a set gives every element of it once, in order.
THEOREM SortsInOrder ==
  ASSUME NEW S, NEW R, IsFiniteSet(S), StrictTotalOrder(S, R)
  PROVE  LET q == InOrder(S, R)
         IN  /\ q \in Seq(S)
             /\ Len(q) = Cardinality(S)
             /\ \A x \in S : \E k \in 1..Cardinality(S) : q[k] = x
             /\ \A j, k \in 1..Cardinality(S) : j < k => <<q[j], q[k]>> \in R
<1> DEFINE n == Cardinality(S)
           q == InOrder(S, R)
<1>1. n \in Nat
  BY FS_CardinalityType
<1>2. ASSUME NEW k \in 1..n
      PROVE  q[k] \in S /\ Cardinality(Below(S, R, q[k])) = k - 1
  <2>1. k - 1 \in 0..(n - 1)
    BY <1>1
  <2>2. \E x \in S : Cardinality(Below(S, R, x)) = k - 1
    BY <2>1, RanksAreOneToOne
  <2>3. q[k] = CHOOSE x \in S : Cardinality(Below(S, R, x)) = k - 1
    BY DEF InOrder, Below
  <2>4. QED
    BY <2>2, <2>3
<1>3. q \in Seq(S) /\ Len(q) = n
  <2>1. \A k \in 1..n :
          (CHOOSE x \in S : Cardinality({y \in S : <<y, x>> \in R}) = k - 1) \in S
    BY <1>2 DEF InOrder
  <2>2. q \in [1..n -> S]
    BY <2>1 DEF InOrder
  <2> HIDE DEF q
  <2>3. QED
    BY <1>1, <2>2
<1> HIDE DEF q
<1>4. ASSUME NEW x \in S PROVE \E k \in 1..n : q[k] = x
  <2>1. Cardinality(Below(S, R, x)) \in 0..(n - 1)
    BY RanksGrow
  <2> DEFINE k == Cardinality(Below(S, R, x)) + 1
  <2>2. k \in 1..n /\ k - 1 = Cardinality(Below(S, R, x))
    BY <1>1, <2>1
  <2>3. q[k] = x
    BY <1>2, <2>2, RanksAreOneToOne
  <2>4. QED
    BY <2>2, <2>3
<1>5. ASSUME NEW j \in 1..n, NEW k \in 1..n, j < k
      PROVE  <<q[j], q[k]>> \in R
  <2>1. q[j] # q[k]
    BY <1>1, <1>2, <1>5
  <2>2. <<q[k], q[j]>> \notin R
    <3>1. <<q[k], q[j]>> \in R => k - 1 < j - 1
      BY <1>2, RanksGrow
    <3>2. QED
      BY <1>1, <1>5, <3>1
  <2>3. QED
    BY <1>2, <2>1, <2>2 DEF StrictTotalOrder
<1>6. QED
  BY <1>3, <1>4, <1>5 DEF q

\* The first m of a sorted set are m elements, and every one of them comes
\* before every element that is cut off.
THEOREM CutIsBest ==
  ASSUME NEW S, NEW R, IsFiniteSet(S), StrictTotalOrder(S, R),
         NEW m \in 0..Cardinality(S)
  PROVE  LET best == Range(SubSeq(InOrder(S, R), 1, m))
         IN  /\ best \subseteq S
             /\ IsFiniteSet(best)
             /\ Cardinality(best) = m
             /\ \A x \in best, y \in S \ best : <<x, y>> \in R
<1> DEFINE n == Cardinality(S)
           q == InOrder(S, R)
           s == SubSeq(q, 1, m)
           best == Range(s)
<1>1. n \in Nat /\ m \in Nat /\ m <= n
  BY FS_CardinalityType
<1>2. /\ q \in Seq(S) /\ Len(q) = n
      /\ \A x \in S : \E k \in 1..n : q[k] = x
      /\ \A j, k \in 1..n : j < k => <<q[j], q[k]>> \in R
  BY SortsInOrder
<1> HIDE DEF q, s
<1>3. \A k \in 1..n : q[k] \in S
  BY <1>2
<1>4. /\ DOMAIN s = 1..m
      /\ \A k \in 1..m : s[k] = q[k]
  <2>1. \A k \in 1..m : q[k] \in S
    BY <1>1, <1>3
  <2>2. /\ s \in Seq(S)
        /\ Len(s) = IF 1 <= m THEN m - 1 + 1 ELSE 0
        /\ \A k \in 1..(m - 1 + 1) : s[k] = q[1 + k - 1]
    BY <1>1, <2>1, SubSeqProperties DEF s
  <2>3. QED
    BY <1>1, <2>2
<1>5. best = {q[k] : k \in 1..m}
  BY <1>4 DEF Range
<1> HIDE DEF best
<1>6. best \subseteq S
  BY <1>1, <1>3, <1>5
<1>7. IsFiniteSet(best) /\ Cardinality(best) = m
  <2> DEFINE f == [k \in 1..m |-> q[k]]
  <2>1. \A j, k \in 1..m : q[j] = q[k] => j = k
    <3> SUFFICES ASSUME NEW j \in 1..m, NEW k \in 1..m, j < k PROVE q[j] # q[k]
        BY <1>1
    <3>1. <<q[j], q[k]>> \in R /\ q[j] \in S
      BY <1>1, <1>2, <1>3
    <3>2. QED
      BY <3>1 DEF StrictTotalOrder
  <2>2. f \in Bijection(1..m, best)
    BY <1>5, <2>1 DEF Bijection, Injection, Surjection, IsInjective
  <2>3. ExistsBijection(1..m, best)
    BY <2>2 DEF ExistsBijection
  <2>4. QED
    BY <1>1, <2>3, FS_NatBijection, FS_CountingElements
<1>8. ASSUME NEW x \in best, NEW y \in S \ best PROVE <<x, y>> \in R
  <2>1. PICK j \in 1..m : x = q[j]
    BY <1>5
  <2>2. PICK k \in 1..n : q[k] = y
    BY <1>2
  <2>3. j \in 1..n /\ j < k
    BY <1>1, <1>5, <2>2
  <2>4. QED
    BY <1>2, <2>1, <2>2, <2>3
<1>9. QED
  BY <1>6, <1>7, <1>8 DEF best, s, q

=============================================================================
