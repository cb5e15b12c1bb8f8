-------------------------- MODULE MemoryTiersProofs --------------------------
(***************************************************************************)
(* Proofs about the memory tiers, for any texts, scores and number of      *)
(* calls: the window, the store and the store's recent list agree, recall  *)
(* finds the best, and between two calls the window keeps its limits.      *)
(* That the loop of add() gets smaller with each round depends on the      *)
(* limits, and is proved under a condition on them.                        *)
(***************************************************************************)
EXTENDS MemoryTiers, RankingProofs

Places == {"add", "store", "returned", "failed", "cancelled"}

\* The calls enter the window one after the other, and only the newest can
\* still be in add(); what is written is a call that left it.
CallsInv ==
    /\ adding \in BOOLEAN
    /\ store \in Stores
    /\ texts \in Seq(Texts) /\ at \in Seq(Places) /\ Len(at) = Len(texts)
    /\ index \in Seq(Nat)
    /\ adding => at # <<>> /\ at[Len(at)] = "add"
    /\ \A c \in 1..Len(at) :
          /\ at[c] = "add" => adding /\ c = Len(at)
          /\ at[c] = "add" => \A k \in 1..Len(index) : index[k] # c
          /\ at[c] = "returned" => \E k \in 1..Len(index) : index[k] = c
    /\ \A k \in 1..Len(index) : index[k] \in 1..Len(at)
    /\ \A j, k \in 1..Len(index) : index[j] = index[k] => j = k

\* The in-memory store is written in the order of the calls, and its recent
\* list ends where its index ends.
InMemoryInv ==
    store = "in_memory" =>
        /\ \A c \in 1..Len(at) : at[c] \in {"add", "returned"}
        /\ Len(index) = IF adding THEN Len(at) - 1 ELSE Len(at)
        /\ \A k \in 1..Len(index) : index[k] = k
        /\ cleared \in 0..Len(index)
        /\ recent \in Seq(Nat)
        /\ Len(recent) = Smaller(Len(index) - cleared, ShortTermLimit)
        /\ \A i \in 1..Len(recent) : recent[i] = Len(index) - Len(recent) + i

TiersInv == CallsInv /\ InMemoryInv

-----------------------------------------------------------------------------
\* Trim keeps the newest end, of at most ShortTermLimit records.
LEMMA TrimKeepsEnd ==
  ASSUME NEW s \in Seq(Nat)
  PROVE  /\ Smaller(Len(s), ShortTermLimit) \in 0..Len(s)
         /\ Trim(s) \in Seq(Nat)
         /\ Len(Trim(s)) = Smaller(Len(s), ShortTermLimit)
         /\ \A i \in 1..Smaller(Len(s), ShortTermLimit) :
               Trim(s)[i] = s[Len(s) - Smaller(Len(s), ShortTermLimit) + i]
<1> DEFINE k == Smaller(Len(s), ShortTermLimit)
<1>1. k \in 0..Len(s) /\ Len(s) \in Nat
  <2>1. Len(s) \in Nat /\ ShortTermLimit \in Nat
    BY TiersAssumption
  <2>2. QED
    BY <2>1 DEF Smaller
<1> DEFINE f == Len(s) - k + 1
<1>2. f \in Int /\ Len(s) \in Int /\ f >= 1
  BY <1>1
<1>3. \A i \in f..Len(s) : s[i] \in Nat
  BY <1>1, <1>2
<1>4. Trim(s) = SubSeq(s, f, Len(s))
  BY DEF Trim
<1> HIDE DEF f
<1>5. /\ SubSeq(s, f, Len(s)) \in Seq(Nat)
      /\ Len(SubSeq(s, f, Len(s))) = IF f <= Len(s) THEN Len(s) - f + 1 ELSE 0
      /\ \A i \in 1..(Len(s) - f + 1) : SubSeq(s, f, Len(s))[i] = s[f + i - 1]
  BY <1>2, <1>3, SubSeqProperties
<1>6. f = Len(s) - k + 1
  BY DEF f
<1> HIDE DEF k
<1>7. Len(Trim(s)) = k
  BY <1>1, <1>4, <1>5, <1>6
<1>8. ASSUME NEW i \in 1..k PROVE Trim(s)[i] = s[Len(s) - k + i]
  <2>1. i \in 1..(Len(s) - f + 1) /\ f + i - 1 = Len(s) - k + i
    BY <1>1, <1>6
  <2>2. QED
    BY <1>4, <1>5, <2>1
<1>9. QED
  BY <1>1, <1>4, <1>5, <1>7, <1>8 DEF k

-----------------------------------------------------------------------------
LEMMA TiersInitEstablishes == TiersInit => TiersInv
<1> SUFFICES ASSUME TiersInit PROVE TiersInv
    OBVIOUS
<1>1. /\ texts = <<>> /\ at = <<>> /\ index = <<>> /\ recent = <<>>
      /\ cleared = 0 /\ adding = FALSE /\ store \in Stores
      /\ Len(texts) = 0 /\ Len(at) = 0 /\ Len(index) = 0 /\ Len(recent) = 0
  BY DEF TiersInit, Init
<1>2. CallsInv
  <2>1. <<>> \in Seq(Texts) /\ <<>> \in Seq(Places) /\ <<>> \in Seq(Nat)
    OBVIOUS
  <2>2. 1..0 = {}
    OBVIOUS
  <2>3. QED
    BY <1>1, <2>1, <2>2 DEF CallsInv
<1>3. Smaller(0 - 0, ShortTermLimit) = 0
  BY TiersAssumption DEF Smaller
<1>4. InMemoryInv
  BY <1>1, <1>3 DEF InMemoryInv
<1>5. QED
  BY <1>2, <1>4 DEF TiersInv

\* A text enters the window.
LEMMA RememberPreserves ==
  ASSUME TiersInv, NEW n \in Texts, Remember(n)
  PROVE  TiersInv'
<1>1. /\ texts' = Append(texts, n) /\ at' = Append(at, "add")
      /\ adding = FALSE /\ adding' = TRUE
      /\ UNCHANGED <<store, index, recent, cleared>>
  BY DEF Remember, Add, TiersInv, CallsInv
<1>2. /\ texts' \in Seq(Texts) /\ Len(texts') = Len(texts) + 1
      /\ at' \in Seq(Places) /\ Len(at') = Len(at) + 1 /\ at' # <<>>
      /\ at'[Len(at) + 1] = "add"
      /\ \A c \in 1..Len(at) : at'[c] = at[c]
      /\ Len(at) \in Nat /\ Len(index) \in Nat
  BY <1>1, AppendProperties DEF TiersInv, CallsInv, Places
<1>3. CallsInv'
  BY <1>1, <1>2 DEF TiersInv, CallsInv
<1>4. InMemoryInv'
  BY <1>1, <1>2 DEF TiersInv, InMemoryInv
<1>5. QED
  BY <1>3, <1>4 DEF TiersInv

\* The record is appended, and the recent list keeps its newest end.
LEMMA AddedPreserves ==
  ASSUME TiersInv, Added
  PROVE  TiersInv'
<1> DEFINE n == Len(at)
           m == Len(index)
<1> USE DEF Places
<1>1. /\ adding = TRUE /\ adding' = FALSE /\ at # <<>> /\ at[n] = "add"
      /\ UNCHANGED <<store, texts, cleared>>
      /\ n \in Nat \ {0} /\ m \in Nat
  BY DEF Added, Return, TiersInv, CallsInv
<1>2. CASE store = "external"
  <2>1. at' = [at EXCEPT ![n] = "store"] /\ index' = index
    BY <1>2 DEF Added
  <2>2. /\ at' \in Seq(Places) /\ Len(at') = n /\ at'[n] = "store"
        /\ \A c \in 1..n : c # n => at'[c] = at[c]
    BY <1>1, <2>1, ExceptSeq DEF TiersInv, CallsInv
  <2>3. \A c \in 1..n : /\ at'[c] # "add"
                        /\ at'[c] = "returned" => at[c] = "returned"
    BY <1>1, <2>2 DEF TiersInv, CallsInv
  <2>4. CallsInv'
    BY <1>1, <2>1, <2>2, <2>3 DEF TiersInv, CallsInv
  <2>5. QED
    BY <1>1, <1>2, <2>4 DEF TiersInv, InMemoryInv
<1>3. CASE store = "in_memory"
  <2>1. /\ at' = [at EXCEPT ![n] = "returned"]
        /\ index' = Append(index, n)
        /\ recent' = Trim(Append(recent, n))
    BY <1>3 DEF Added, Stores
  <2>2. /\ at' \in Seq(Places) /\ Len(at') = n /\ at'[n] = "returned"
        /\ \A c \in 1..n : c # n => at'[c] = at[c]
    BY <1>1, <2>1, ExceptSeq DEF TiersInv, CallsInv
  <2>3. /\ index' \in Seq(Nat) /\ Len(index') = m + 1 /\ index'[m + 1] = n
        /\ \A k \in 1..m : index'[k] = index[k]
    BY <1>1, <2>1, AppendProperties DEF TiersInv, CallsInv
  <2>4. n = m + 1 /\ \A k \in 1..m : index[k] = k
    BY <1>1, <1>3 DEF TiersInv, InMemoryInv
  <2>5. CallsInv'
    <3>1. \A k \in 1..(m + 1) : index'[k] = k
      BY <1>1, <2>3, <2>4
    <3>2. \A c \in 1..n : at'[c] # "add"
      BY <1>1, <2>2 DEF TiersInv, CallsInv
    <3>3. /\ \A k \in 1..Len(index') : index'[k] \in 1..Len(at')
          /\ \A j, k \in 1..Len(index') : index'[j] = index'[k] => j = k
          /\ \A c \in 1..Len(at') : \E k \in 1..Len(index') : index'[k] = c
      BY <1>1, <2>2, <2>3, <2>4, <3>1
    <3>4. texts' \in Seq(Texts) /\ Len(at') = Len(texts') /\ store' \in Stores
      BY <1>1, <2>2 DEF TiersInv, CallsInv
    <3>5. QED
      BY <1>1, <2>2, <2>3, <3>2, <3>3, <3>4 DEF CallsInv
  <2>6. InMemoryInv'
    <3> DEFINE l == Len(recent)
               s == Append(recent, n)
               k == Smaller(l + 1, ShortTermLimit)
    <3>1. /\ recent \in Seq(Nat) /\ l \in Nat
          /\ l = Smaller(m - cleared, ShortTermLimit)
          /\ cleared \in 0..m
          /\ \A i \in 1..l : recent[i] = m - l + i
      BY <1>3 DEF TiersInv, InMemoryInv
    <3>2. s \in Seq(Nat) /\ Len(s) = l + 1 /\ \A i \in 1..l : s[i] = recent[i]
      BY <1>1, <3>1, AppendProperties
    <3>3. s[l + 1] = n
      BY <1>1, <3>1, AppendProperties
    <3>4. \A i \in 1..(l + 1) : s[i] = m - l + i
      BY <1>1, <2>4, <3>1, <3>2, <3>3
    <3>5. k = Smaller(Len(s), ShortTermLimit) /\ recent' = Trim(s)
      BY <2>1, <3>2
    <3>6. k = Smaller(m + 1 - cleared, ShortTermLimit)
      BY <1>1, <3>1, TiersAssumption DEF Smaller
    <3> HIDE DEF s, k, l, m
    <3>7. /\ k \in 0..(l + 1)
          /\ recent' \in Seq(Nat) /\ Len(recent') = k
          /\ \A i \in 1..k : recent'[i] = m + 1 - k + i
      <4>1. /\ k \in 0..Len(s)
            /\ Trim(s) \in Seq(Nat) /\ Len(Trim(s)) = k
            /\ \A i \in 1..k : Trim(s)[i] = s[Len(s) - k + i]
        <5>1. s \in Seq(Nat)
          BY <3>2
        <5>2. /\ Smaller(Len(s), ShortTermLimit) \in 0..Len(s)
              /\ Trim(s) \in Seq(Nat)
              /\ Len(Trim(s)) = Smaller(Len(s), ShortTermLimit)
              /\ \A i \in 1..Smaller(Len(s), ShortTermLimit) :
                    Trim(s)[i] = s[Len(s) - Smaller(Len(s), ShortTermLimit) + i]
          BY <5>1, TrimKeepsEnd, Zenon
        <5>3. QED
          BY <3>5, <5>2
      <4>2. ASSUME NEW i \in 1..k PROVE Trim(s)[i] = m + 1 - k + i
        <5>1. Len(s) - k + i \in 1..(l + 1)
          BY <3>1, <3>2, <4>1
        <5>2. s[Len(s) - k + i] = m - l + (Len(s) - k + i)
          BY <3>4, <5>1
        <5>3. Trim(s)[i] = s[Len(s) - k + i]
          BY <4>1
        <5>4. m - l + (Len(s) - k + i) = m + 1 - k + i
          BY <1>1, <3>1, <3>2, <4>1
        <5>5. QED
          BY <5>2, <5>3, <5>4
      <4>3. QED
        BY <3>2, <3>5, <4>1, <4>2
    <3>8. \A c \in 1..n : at'[c] \in {"add", "returned"}
      BY <1>1, <1>3, <2>2 DEF TiersInv, InMemoryInv
    <3>9. \A j \in 1..(m + 1) : index'[j] = j
      BY <1>1, <2>3, <2>4
    <3>10. cleared' \in 0..(m + 1)
      BY <1>1, <3>1
    <3>11. Len(recent') = Smaller(Len(index') - cleared', ShortTermLimit)
      <4>1. Len(index') - cleared' = m + 1 - cleared
        BY <1>1, <2>3, <3>1
      <4>2. QED
        BY <3>6, <3>7, <4>1
    <3>12. \A i \in 1..Len(recent') : recent'[i] = Len(index') - Len(recent') + i
      BY <1>1, <2>3, <3>7 DEF m
    <3>13. Len(index') = IF adding' THEN Len(at') - 1 ELSE Len(at')
      BY <1>1, <2>2, <2>3, <2>4 DEF m
    <3>14. QED
      BY <2>2, <2>3, <3>7, <3>8, <3>9, <3>10, <3>11, <3>12, <3>13 DEF InMemoryInv, m
  <2>7. QED
    BY <2>5, <2>6 DEF TiersInv
<1>4. QED
  BY <1>2, <1>3 DEF TiersInv, CallsInv, Stores

\* The external store writes late, answers, fails or is given up.
LEMMA ExternalPreserves ==
  ASSUME TiersInv, NEW c \in Calls,
         \/ Write(c)
         \/ \E how \in {"returned", "failed", "cancelled"} : Leave(c, how)
  PROVE  TiersInv'
<1>1. /\ c \in 1..Len(at) /\ Len(index) \in Nat /\ adding = FALSE
      /\ UNCHANGED <<vars, store, texts>> /\ adding' = adding
  BY DEF TiersInv, CallsInv, Calls, Write, Leave, vars
<1>2. CASE Write(c)
  <2>1. /\ index' = Append(index, c) /\ at' = at /\ store = "external"
        /\ \A k \in 1..Len(index) : index[k] # c
        /\ at[c] # "add"
    BY <1>2 DEF Write, Written, Range, TiersInv, CallsInv
  <2>2. /\ index' \in Seq(Nat) /\ Len(index') = Len(index) + 1
        /\ index'[Len(index) + 1] = c
        /\ \A k \in 1..Len(index) : index'[k] = index[k]
    BY <1>1, <2>1, AppendProperties DEF TiersInv, CallsInv
  <2>3. CallsInv'
    BY <1>1, <2>1, <2>2 DEF TiersInv, CallsInv
  <2>4. QED
    BY <1>1, <2>1, <2>3 DEF TiersInv, InMemoryInv
<1>3. ASSUME NEW how \in {"returned", "failed", "cancelled"}, Leave(c, how)
      PROVE  TiersInv'
  <2>1. /\ at' = [at EXCEPT ![c] = how] /\ index' = index /\ at[c] = "store"
        /\ how = "returned" => \E k \in 1..Len(index) : index[k] = c
    BY <1>3 DEF Leave, Written, Range, TiersInv, CallsInv
  <2>2. /\ at' \in Seq(Places) /\ Len(at') = Len(at) /\ at'[c] = how
        /\ \A d \in 1..Len(at) : d # c => at'[d] = at[d]
    BY <1>1, <2>1, ExceptSeq DEF TiersInv, CallsInv, Places
  <2>3. CallsInv'
    BY <1>1, <2>1, <2>2 DEF TiersInv, CallsInv
  <2>4. store # "in_memory"
    BY <1>1, <2>1 DEF TiersInv, InMemoryInv
  <2>5. QED
    BY <1>1, <2>3, <2>4 DEF TiersInv, InMemoryInv
<1>4. QED
  BY <1>2, <1>3

LEMMA TiersStep == TiersInv /\ [TiersNext]_tierVars => TiersInv'
<1> SUFFICES ASSUME TiersInv, [TiersNext]_tierVars PROVE TiersInv'
    OBVIOUS
<1>1. CASE CompressRound
  BY <1>1 DEF CompressRound, Compress, TiersInv, CallsInv, InMemoryInv
<1>2. CASE ClearShortTerm
  <2>1. /\ recent' = <<>> /\ cleared' = Len(index) /\ adding' = adding
        /\ UNCHANGED <<store, texts, at, index>>
    BY <1>2 DEF ClearShortTerm, vars
  <2>2. recent' \in Seq(Nat) /\ Len(recent') = 0 /\ Len(index) \in Nat
    BY <2>1 DEF TiersInv, CallsInv
  <2>3. QED
    BY <2>1, <2>2, TiersAssumption DEF TiersInv, CallsInv, InMemoryInv, Smaller
<1>3. CASE UNCHANGED tierVars
  BY <1>3 DEF tierVars, vars, TiersInv, CallsInv, InMemoryInv
<1>4. QED
  BY <1>1, <1>2, <1>3, RememberPreserves, AddedPreserves, ExternalPreserves DEF TiersNext

-----------------------------------------------------------------------------
\* Every text that remember() returned for is in the window's history and in
\* the store, once; the in-memory store has them all, in order, and its
\* recent list is the newest end of its index.
THEOREM TiersStayTogether == TiersSpec => []StoresAgree
<1>1. TiersInv => TiersAgree
  <2> SUFFICES ASSUME TiersInv PROVE TiersAgree
      OBVIOUS
  <2>1. /\ Calls = 1..Len(at) /\ DOMAIN index = 1..Len(index) /\ Len(index) \in Nat
        /\ index = [k \in 1..Len(index) |-> index[k]]
    BY DEF TiersInv, CallsInv, Calls
  <2>2. Written \subseteq Calls /\ IsInjective(index)
    BY <2>1 DEF TiersInv, CallsInv, Written, Range, IsInjective
  <2>3. \A c \in Calls : at[c] = "returned" => c \in Written
    BY <2>1 DEF TiersInv, CallsInv, Written, Range
  <2>4. store = "in_memory" /\ ~adding => index = [c \in Calls |-> c]
    BY <2>1 DEF TiersInv, InMemoryInv
  <2>5. QED
    BY <2>2, <2>3, <2>4 DEF TiersAgree
<1>2. TiersInv => RecentIsTail
  <2> SUFFICES ASSUME TiersInv, store = "in_memory"
               PROVE  recent = SubSeq(index, Len(index) - Len(recent) + 1, Len(index))
      BY DEF TiersInv, InMemoryInv, RecentIsTail
  <2> DEFINE m == Len(index)
             l == Len(recent)
  <2>1. /\ m \in Nat /\ l \in 0..m /\ index \in Seq(Nat) /\ recent \in Seq(Nat)
        /\ \A k \in 1..m : index[k] = k
        /\ \A i \in 1..l : recent[i] = m - l + i
    BY TiersAssumption DEF TiersInv, CallsInv, InMemoryInv, Smaller
  <2>2. /\ m \in Int /\ m - l + 1 \in Int
        /\ \A k \in (m - l + 1)..m : index[k] \in Nat
    BY <2>1
  <2>3. /\ SubSeq(index, m - l + 1, m) \in Seq(Nat)
        /\ Len(SubSeq(index, m - l + 1, m)) = IF m - l + 1 <= m THEN m - (m - l + 1) + 1 ELSE 0
        /\ \A i \in 1..(m - (m - l + 1) + 1) :
              SubSeq(index, m - l + 1, m)[i] = index[m - l + 1 + i - 1]
    BY <2>2, SubSeqProperties
  <2>4. /\ Len(SubSeq(index, m - l + 1, m)) = l
        /\ \A i \in 1..l : SubSeq(index, m - l + 1, m)[i] = recent[i]
    BY <2>1, <2>3
  <2>5. QED
    BY <2>1, <2>3, <2>4, SeqEqual
<1>3. QED
  BY <1>1, <1>2, TiersInitEstablishes, TiersStep, PTL DEF TiersSpec, StoresAgree

-----------------------------------------------------------------------------
(* What recall() gives.                                                    *)

\* What was written is finite, and the scores put it in a strict order.
LEMMA ScoresOrder ==
  ASSUME TiersInv, NEW K \in SUBSET Written
  PROVE  IsFiniteSet(K) /\ StrictTotalOrder(K, ByScore)
<1>1. /\ Written \subseteq 1..Len(texts)
      /\ Len(texts) \in Nat
      /\ \A c \in 1..Len(texts) : texts[c] \in Texts
  BY DEF TiersInv, CallsInv, Written, Range
<1>2. IsFiniteSet(K)
  <2>1. IsFiniteSet(1..Len(texts))
    BY <1>1, FS_Interval
  <2>2. QED
    BY <1>1, <2>1, FS_Subset
<1>3. \A c \in K : c \in Int /\ Score[texts[c]] \in Int
  <2>1. ASSUME NEW c \in K PROVE c \in Int /\ Score[texts[c]] \in Int
    <3>1. c \in 1..Len(texts) /\ texts[c] \in Texts
      BY <1>1
    <3>2. QED
      BY <3>1, TiersAssumption
  <2>2. QED
    BY <2>1
<1>4. \A c, d \in K : <<c, d>> \in ByScore <=> Before(c, d)
  BY DEF ByScore
<1>5. StrictTotalOrder(K, ByScore)
  BY <1>3, <1>4 DEF StrictTotalOrder, Before
<1>6. QED
  BY <1>2, <1>5

\* The best are cut off before the others are dropped, and still nothing
\* similar is lost to something worse.
LEMMA RecallGivesBest ==
  ASSUME TiersInv, NEW limit \in Nat
  PROVE  LET got == Recall(limit) IN
         /\ Len(got) <= limit
         /\ \A i, j \in DOMAIN got : i < j => Before(got[i], got[j])
         /\ \A c \in Range(got) : Similar(c)
         /\ \A c \in Written \ Range(got) :
               Similar(c) => Len(got) = limit /\ \A d \in Range(got) : Before(d, c)
<1> DEFINE n == Cardinality(Written)
           m == Smaller(limit, n)
           best == Range(SubSeq(InOrder(Written, ByScore), 1, m))
           K == {c \in best : Similar(c)}
           got == Recall(limit)
<1>1. IsFiniteSet(Written) /\ StrictTotalOrder(Written, ByScore)
  BY ScoresOrder
<1>2. n \in Nat
  BY <1>1, FS_CardinalityType
<1>3. m \in 0..n /\ m <= limit /\ (m < n => m = limit)
  BY <1>2 DEF Smaller
<1>4. got = InOrder(K, ByScore)
  BY DEF Recall
<1> HIDE DEF got
<1> HIDE DEF m
<1>5. /\ best \subseteq Written
      /\ IsFiniteSet(best) /\ Cardinality(best) = m
      /\ \A x \in best, y \in Written \ best : <<x, y>> \in ByScore
  BY <1>1, <1>3, CutIsBest
<1> HIDE DEF best
<1>6. /\ K \subseteq best
      /\ IsFiniteSet(K) /\ StrictTotalOrder(K, ByScore)
      /\ Cardinality(K) \in Nat /\ Cardinality(K) <= m
  <2>1. K \subseteq best /\ K \subseteq Written
    BY <1>5
  <2>2. IsFiniteSet(K) /\ StrictTotalOrder(K, ByScore)
    BY <2>1, ScoresOrder
  <2>3. Cardinality(K) \in Nat /\ Cardinality(K) <= m
    BY <1>5, <2>1, <2>2, FS_CardinalityType, FS_Subset
  <2>4. QED
    BY <2>1, <2>2, <2>3
<1> HIDE DEF K
<1>7. /\ got \in Seq(K) /\ Len(got) = Cardinality(K)
      /\ \A x \in K : \E k \in 1..Cardinality(K) : got[k] = x
      /\ \A i, j \in 1..Cardinality(K) : i < j => <<got[i], got[j]>> \in ByScore
  BY <1>4, <1>6, SortsInOrder
<1>8. DOMAIN got = 1..Cardinality(K) /\ Range(got) = K
  <2>1. \A k \in 1..Cardinality(K) : got[k] \in K
    BY <1>7
  <2>2. DOMAIN got = 1..Cardinality(K)
    BY <1>7
  <2>3. QED
    BY <1>7, <2>1, <2>2 DEF Range
<1>9. Len(got) <= limit
  BY <1>3, <1>6, <1>7
<1>10. \A i, j \in DOMAIN got : i < j => Before(got[i], got[j])
  BY <1>7, <1>8 DEF ByScore
<1>11. \A c \in Range(got) : Similar(c)
  BY <1>8 DEF K
<1>12. ASSUME NEW c \in Written \ Range(got), Similar(c)
       PROVE  Len(got) = limit /\ \A d \in Range(got) : Before(d, c)
  <2>1. c \in Written \ best
    BY <1>8, <1>12 DEF K
  <2>2. \A d \in best : Before(d, c)
    BY <1>5, <2>1 DEF ByScore
  <2>3. m = limit
    <3>1. m # n
      BY <1>1, <1>5, <2>1, FS_Subset
    <3>2. QED
      BY <1>2, <1>3, <3>1
  <2>4. K = best
    <3>1. ASSUME NEW d \in best PROVE Similar(d)
      <4>1. /\ c \in 1..Len(texts) /\ d \in 1..Len(texts)
            /\ \A k \in 1..Len(texts) : texts[k] \in Texts
        BY <1>5, <1>12 DEF TiersInv, CallsInv, Written, Range
      <4>2. Score[texts[c]] \in Int /\ Score[texts[d]] \in Int
        BY <4>1, TiersAssumption
      <4>3. QED
        BY <1>12, <2>2, <4>2 DEF Similar, Before
    <3>2. QED
      BY <3>1 DEF K
  <2>5. QED
    BY <1>5, <1>6, <1>7, <1>8, <2>2, <2>3, <2>4
<1>13. QED
  BY <1>9, <1>10, <1>11, <1>12 DEF got

\* recall() gives the best of all that was ever written, whatever the recent
\* list has lost, for every similarity, limit and number of records.
THEOREM RecallFindsBest == TiersSpec => []RecallIsBest
<1>1. TiersInv => RecallIsBest
  BY RecallGivesBest, TiersAssumption DEF RecallIsBest
<1>2. QED
  BY <1>1, TiersInitEstablishes, TiersStep, PTL DEF TiersSpec

-----------------------------------------------------------------------------
(* How the characters of the window are counted.  Chars is recursive, and  *)
(* what is said of it for every window is by induction: over a least       *)
(* number of entries for which it would be wrong.                          *)

\* A set of numbers that has an element has a least one.
LEMMA Least ==
  ASSUME NEW S \in SUBSET Nat, S # {}
  PROVE  \E m \in S : \A n \in S : m <= n
<1> DEFINE T == {0..n : n \in S}
<1>1. T \subseteq FiniteSubsetsOf(Nat)
  <2>1. ASSUME NEW n \in S PROVE 0..n \in SUBSET Nat /\ IsFiniteSet(0..n)
    BY FS_Interval
  <2>2. QED
    BY <2>1 DEF FiniteSubsetsOf
<1>2. IsWellFoundedOn(StrictSubsetOrdering(Nat), FiniteSubsetsOf(Nat)) /\ T # {}
  BY FS_StrictSubsetOrderingWellFounded
<1> HIDE DEF T
<1>3. PICK t \in T : \A u \in T : ~(<<u, t>> \in StrictSubsetOrdering(Nat))
  BY <1>1, <1>2, WFMin
<1> USE DEF T
<1>4. PICK m \in S : t = 0..m
  BY <1>3
<1>5. ASSUME NEW n \in S, n < m PROVE FALSE
  <2>1. 0..n \in T /\ 0..n \in SUBSET Nat /\ t \in SUBSET Nat
    BY <1>4
  <2>2. 0..n \subseteq t /\ 0..n # t
    BY <1>4, <1>5
  <2> HIDE DEF T
  <2>3. <<0..n, t>> \in StrictSubsetOrdering(Nat)
    BY <2>1, <2>2 DEF StrictSubsetOrdering
  <2>4. QED
    BY <1>3, <2>1, <2>3
<1>6. QED
  BY <1>5

\* f sums up s, entry by entry.
Sums(s, f) ==
    f = [k \in 0..Len(s) |-> IF k = 0 THEN 0 ELSE f[k - 1] + s[k]]

\* There are such sums of every sequence, numbers all of them.
LEMMA SumsExist ==
  ASSUME NEW s \in Seq(Nat)
  PROVE  \E f \in [0..Len(s) -> Nat] : Sums(s, f)
<1> DEFINE n == Len(s)
           Part(m, f) == /\ f \in [0..m -> Nat]
                         /\ f[0] = 0
                         /\ \A k \in 1..m : f[k] = f[k - 1] + s[k]
           Has(m) == \E f : Part(m, f)
           Without == {m \in 0..n : ~Has(m)}
<1>1. n \in Nat /\ \A k \in 1..n : s[k] \in Nat
  OBVIOUS
<1>2. Without = {}
  <2> SUFFICES ASSUME Without # {} PROVE FALSE
      OBVIOUS
  <2>1. PICK m \in Without : \A k \in Without : m <= k
    <3>1. Without \in SUBSET Nat
      BY <1>1
    <3> HIDE DEF Without
    <3>2. QED
      BY <3>1, Least
  <2>2. m # 0
    <3>1. Part(0, [k \in {0} |-> 0])
      OBVIOUS
    <3> HIDE DEF Part
    <3>2. Has(0)
      BY <3>1
    <3> HIDE DEF Has
    <3>3. QED
      BY <3>2
  <2>3. m - 1 \in 0..n /\ m \in 1..n
    BY <1>1, <2>2
  <2>4. PICK f : Part(m - 1, f)
    <3> HIDE DEF Part
    <3>1. Has(m - 1)
      <4> HIDE DEF Has
      <4>1. QED
        BY <2>1, <2>3
    <3>2. QED
      BY <3>1
  <2> DEFINE g == [k \in 0..m |-> IF k = m THEN f[m - 1] + s[m] ELSE f[k]]
  <2>5. Part(m, g)
    <3>1. /\ m \in Nat /\ m - 1 \in Nat /\ 0..m = 0..(m - 1) \union {m}
          /\ 1..m = 1..(m - 1) \union {m}
      BY <2>3
    <3>2. /\ f \in [0..(m - 1) -> Nat] /\ f[m - 1] + s[m] \in Nat
          /\ f[0] = 0 /\ \A k \in 1..(m - 1) : f[k] = f[k - 1] + s[k]
      BY <1>1, <2>3, <2>4, <3>1
    <3>3. g \in [0..m -> Nat]
      BY <3>1, <3>2
    <3>4. g[m] = f[m - 1] + s[m] /\ \A k \in 0..(m - 1) : g[k] = f[k]
      BY <3>1
    <3> HIDE DEF g
    <3>5. ASSUME NEW k \in 1..m PROVE g[k] = g[k - 1] + s[k]
      <4>1. k - 1 \in 0..(m - 1) /\ (k # m => k \in 1..(m - 1) /\ k \in 0..(m - 1))
        BY <3>1
      <4>2. g[k - 1] = f[k - 1]
        BY <3>4, <4>1
      <4>3. QED
        BY <3>2, <3>4, <4>1, <4>2
    <3>6. QED
      BY <3>1, <3>2, <3>3, <3>4, <3>5
  <2> HIDE DEF g
  <2>6. Has(m)
    BY <2>5
  <2> HIDE DEF Has
  <2>7. QED
    BY <2>1, <2>6
<1>3. PICK f : Part(n, f)
  <2> HIDE DEF Part
  <2>1. Has(n)
    <3> HIDE DEF Has
    <3>1. QED
      BY <1>1, <1>2
  <2>2. QED
    BY <2>1
<1>4. Sums(s, f)
  BY <1>1, <1>3 DEF Sums
<1>5. QED
  BY <1>3, <1>4

\* Such sums are numbers.
LEMMA SumsAreNumbers ==
  ASSUME NEW s \in Seq(Nat), NEW f, Sums(s, f)
  PROVE  \A k \in 0..Len(s) : f[k] \in Nat
<1> DEFINE Odd == {k \in 0..Len(s) : f[k] \notin Nat}
<1>1. Len(s) \in Nat /\ \A k \in 1..Len(s) : s[k] \in Nat
  OBVIOUS
<1>2. \A k \in 0..Len(s) : f[k] = IF k = 0 THEN 0 ELSE f[k - 1] + s[k]
  BY DEF Sums
<1>3. Odd = {}
  <2> SUFFICES ASSUME Odd # {} PROVE FALSE
      OBVIOUS
  <2>1. PICK m \in Odd : \A k \in Odd : m <= k
    <3>1. Odd \in SUBSET Nat
      BY <1>1
    <3> HIDE DEF Odd
    <3>2. QED
      BY <3>1, Least
  <2>2. m # 0
    BY <1>1, <1>2
  <2>3. m - 1 \in 0..Len(s) /\ m - 1 < m /\ m \in 1..Len(s)
    BY <1>1, <2>2
  <2>4. f[m - 1] \in Nat /\ s[m] \in Nat
    BY <1>1, <2>1, <2>3
  <2>5. f[m] = f[m - 1] + s[m]
    BY <1>2, <2>2
  <2>6. f[m] \in Nat
    BY <2>4, <2>5
  <2>7. QED
    BY <2>1, <2>6
<1>4. QED
  BY <1>3

\* The characters of a window are a number, and of a short one their sum.
LEMMA CharsCount ==
  ASSUME NEW s \in Seq(Nat)
  PROVE  /\ Chars(s) \in Nat
         /\ Len(s) = 0 => Chars(s) = 0
         /\ Len(s) = 1 => Chars(s) = s[1]
         /\ Len(s) = 2 => Chars(s) = s[1] + s[2]
         /\ Len(s) = 3 => Chars(s) = s[1] + s[2] + s[3]
<1> DEFINE n == Len(s)
           f == CHOOSE f : Sums(s, f)
<1>1. Chars(s) = f[n]
  BY DEF Chars, Sums
<1>2. Sums(s, f)
  BY SumsExist
<1> HIDE DEF f
<1>3. /\ n \in Nat
      /\ \A k \in 1..n : s[k] \in Nat
      /\ \A k \in 0..n : f[k] = IF k = 0 THEN 0 ELSE f[k - 1] + s[k]
  <2>1. n \in Nat /\ \A k \in 1..n : s[k] \in Nat
    OBVIOUS
  <2>2. f = [k \in 0..n |-> IF k = 0 THEN 0 ELSE f[k - 1] + s[k]]
    BY <1>2 DEF Sums
  <2> HIDE DEF n
  <2>3. QED
    BY <2>1, <2>2
<1>4. f[n] \in Nat
  BY <1>2, <1>3, SumsAreNumbers
<1> HIDE DEF n
<1>5. f[0] = 0 /\ \A k \in 1..n : f[k] = f[k - 1] + s[k]
  BY <1>3
<1>6. n \in 1..3 => f[1] = s[1]
  <2>1. n \in 1..3 => f[1] = f[0] + s[1] /\ s[1] \in Nat
    BY <1>3, <1>5
  <2>2. QED
    BY <1>5, <2>1
<1>7. n \in 2..3 => f[2] = s[1] + s[2]
  <2>1. n \in 2..3 => f[2] = f[1] + s[2]
    BY <1>5
  <2>2. QED
    BY <1>6, <2>1
<1>8. n = 3 => f[3] = s[1] + s[2] + s[3]
  <2>1. n = 3 => f[3] = f[2] + s[3]
    BY <1>5
  <2>2. QED
    BY <1>7, <2>1
<1>9. /\ n = 0 => f[n] = 0
      /\ n = 1 => f[n] = s[1]
      /\ n = 2 => f[n] = s[1] + s[2]
      /\ n = 3 => f[n] = s[1] + s[2] + s[3]
  BY <1>5, <1>6, <1>7, <1>8
<1>10. QED
  BY <1>1, <1>4, <1>9 DEF n

-----------------------------------------------------------------------------
(* The conversation window.                                                *)

\* What the window holds when n texts, all of them texts, have gone into it.
WindowInv ==
    /\ items \in Seq(Nat)
    /\ Len(items) <= Len(texts)
    /\ items = <<>> => texts = <<>>
    /\ Len(items) = 1 =>
          Len(texts) = 1 /\ (items[1] = texts[1] \/ texts[1] > MaxChars)
    /\ \A k \in 2..Len(items) : items[k] = texts[Len(texts) - Len(items) + k]
    /\ ~adding => ~Over(items)

\* The marker and the cut-off are what bounds a compressed entry.
LEMMA EntryIsBounded ==
  /\ \A c, l \in Nat : l >= 1 => Smaller(c + l - 1, Cutoff) \in 0..Cutoff
  /\ \A e \in 0..Cutoff : Marker + e \in Nat /\ Marker + e <= Marker + Cutoff
  BY DEF Smaller, Marker, Cutoff

\* An empty window fits.
LEMMA EmptyFits == ~Over(<<>>)
<1>1. <<>> \in Seq(Nat) /\ Len(<<>>) = 0
  OBVIOUS
<1>2. Chars(<<>>) = 0
  BY <1>1, CharsCount
<1>3. QED
  BY <1>1, <1>2, LimitsAssumption DEF Over

\* What a round makes of a window: one entry of its older half.
LEMMA RoundHalves ==
  ASSUME NEW s \in Seq(Nat), s # <<>>
  PROVE  LET k == HeadLength(s)
             head == SubSeq(s, 1, k)
             t == Round(s)
         IN  /\ k \in 1..Len(s)
             /\ Len(s) >= 2 => 2 * k <= Len(s) /\ Len(s) <= 2 * k + 1
             /\ Summary(head) \in 0..Cutoff
             /\ t \in Seq(Nat)
             /\ Len(t) = Len(s) - k + 1
             /\ t[1] = Marker + Summary(head)
             /\ \A j \in 2..Len(t) : t[j] = s[k + j - 1]
<1> DEFINE n == Len(s)
           k == HeadLength(s)
           head == SubSeq(s, 1, k)
           tail == SubSeq(s, k + 1, n)
<1>1. n \in Nat /\ n >= 1 /\ \A i \in 1..n : s[i] \in Nat
  OBVIOUS
<1>2. k \in 1..n /\ (n >= 2 => 2 * k <= n /\ n <= 2 * k + 1)
  BY <1>1 DEF HeadLength
<1> HIDE DEF k
<1>3. head \in Seq(Nat) /\ Len(head) = k
  <2>1. /\ \A i \in 1..k : s[i] \in Nat
        /\ k \in Int
    BY <1>1, <1>2
  <2>2. head \in Seq(Nat) /\ Len(head) = IF 1 <= k THEN k - 1 + 1 ELSE 0
    BY <2>1, SubSeqProperties
  <2>3. QED
    BY <1>1, <1>2, <2>2
<1>4. /\ tail \in Seq(Nat) /\ Len(tail) = n - k
      /\ \A j \in 1..(n - k) : tail[j] = s[k + j]
  <2>1. /\ \A i \in (k + 1)..n : s[i] \in Nat
        /\ k + 1 \in Int /\ n \in Int
    BY <1>1, <1>2
  <2>2. /\ tail \in Seq(Nat)
        /\ Len(tail) = IF k + 1 <= n THEN n - (k + 1) + 1 ELSE 0
        /\ \A j \in 1..(n - (k + 1) + 1) : tail[j] = s[k + 1 + j - 1]
    BY <2>1, SubSeqProperties
  <2>3. QED
    BY <1>1, <1>2, <2>2
<1> HIDE DEF head, tail
<1>5. Summary(head) \in 0..Cutoff
  <2>1. Chars(head) \in Nat /\ Len(head) \in Nat /\ Len(head) >= 1
    BY <1>1, <1>2, <1>3, CharsCount
  <2>2. QED
    BY <2>1, EntryIsBounded DEF Summary
<1> DEFINE e == Marker + Summary(head)
<1>6. e \in Nat
  BY <1>5, EntryIsBounded
<1> HIDE DEF e
<1>7. /\ <<e>> \o tail \in Seq(Nat)
      /\ Len(<<e>> \o tail) = n - k + 1
      /\ (<<e>> \o tail)[1] = e
      /\ \A j \in 2..(n - k + 1) : (<<e>> \o tail)[j] = tail[j - 1]
  BY <1>1, <1>2, <1>4, <1>6
<1>8. \A j \in 2..(n - k + 1) : (<<e>> \o tail)[j] = s[k + j - 1]
  <2>1. ASSUME NEW j \in 2..(n - k + 1) PROVE (<<e>> \o tail)[j] = s[k + j - 1]
    <3>1. j - 1 \in 1..(n - k) /\ k + (j - 1) = k + j - 1
      BY <1>1, <1>2
    <3>2. QED
      BY <1>4, <1>7, <3>1
  <2>2. QED
    BY <2>1
<1>9. Round(s) = <<e>> \o tail
  BY DEF Round, e, k, head, tail
<1>10. QED
  BY <1>1, <1>2, <1>5, <1>7, <1>8, <1>9 DEF e, k, head

LEMMA CompressKeepsWindow ==
  ASSUME TiersInv, WindowInv, CompressRound
  PROVE  WindowInv'
<1> DEFINE n == Len(items)
           k == HeadLength(items)
           m == Len(texts)
<1>1. /\ items \in Seq(Nat) /\ n \in Nat /\ m \in Nat /\ n <= m
      /\ adding /\ adding' = adding /\ Over(items) /\ texts' = texts
      /\ items' = Round(items)
  BY DEF CompressRound, Compress, WindowInv, TiersInv, CallsInv
<1>2. items # <<>>
  BY <1>1, EmptyFits
<1>3. /\ k \in 1..n
      /\ n >= 2 => 2 * k <= n
      /\ items' \in Seq(Nat) /\ Len(items') = n - k + 1
      /\ \A j \in 2..Len(items') : items'[j] = items[k + j - 1]
  BY <1>1, <1>2, RoundHalves
<1> HIDE DEF k
<1>4. Len(items') <= m /\ items' # <<>>
  BY <1>1, <1>3
<1>5. Len(items') = 1 => m = 1 /\ texts[1] > MaxChars
  <2> SUFFICES ASSUME Len(items') = 1 PROVE m = 1 /\ texts[1] > MaxChars
      OBVIOUS
  <2>1. n = 1
    <3>1. n \in Nat /\ k \in 1..n /\ (n >= 2 => 2 * k <= n) /\ n - k + 1 = 1
      BY <1>1, <1>3
    <3> HIDE DEF n
    <3>2. QED
      BY <3>1
  <2>2. Chars(items) = items[1]
    BY <1>1, <2>1, CharsCount
  <2>3. items[1] > MaxChars
    BY <1>1, <2>1, <2>2, LimitsAssumption DEF Over
  <2>4. QED
    BY <2>1, <2>3 DEF WindowInv
<1>6. ASSUME NEW j \in 2..Len(items')
      PROVE  items'[j] = texts[m - Len(items') + j]
  <2>1. k + j - 1 \in 2..n /\ m - n + (k + j - 1) = m - Len(items') + j
    <3>1. n \in Nat /\ m \in Nat /\ k \in 1..n /\ Len(items') = n - k + 1
      BY <1>1, <1>3
    <3> HIDE DEF n, m
    <3>2. QED
      BY <3>1
  <2>2. QED
    BY <1>3, <2>1 DEF WindowInv
<1>7. QED
  BY <1>1, <1>3, <1>4, <1>5, <1>6 DEF WindowInv

LEMMA RememberKeepsWindow ==
  ASSUME TiersInv, WindowInv, NEW x \in Texts, Remember(x)
  PROVE  WindowInv'
<1> DEFINE n == Len(items)
           m == Len(texts)
<1>1. /\ items \in Seq(Nat) /\ n \in Nat /\ texts \in Seq(Texts) /\ m \in Nat
      /\ x \in Nat /\ adding' = TRUE /\ n <= m
      /\ items' = Append(items, x) /\ texts' = Append(texts, x)
  BY LimitsAssumption DEF Remember, Add, WindowInv, TiersInv, CallsInv
<1>2. /\ items' \in Seq(Nat) /\ Len(items') = n + 1 /\ items'[n + 1] = x
      /\ \A k \in 1..n : items'[k] = items[k]
      /\ Len(texts') = m + 1 /\ texts'[m + 1] = x
      /\ \A k \in 1..m : texts'[k] = texts[k]
  BY <1>1
<1>3. Len(items') = 1 => Len(texts') = 1 /\ items'[1] = texts'[1]
  BY <1>1, <1>2 DEF WindowInv
<1>4. ASSUME NEW k \in 2..(n + 1)
      PROVE  items'[k] = texts'[Len(texts') - Len(items') + k]
  <2>1. Len(texts') - Len(items') + k = m - n + k
    BY <1>1, <1>2
  <2>2. CASE k = n + 1
    BY <1>1, <1>2, <2>1, <2>2
  <2>3. CASE k # n + 1
    <3>1. k \in 2..n /\ k \in 1..n /\ m - n + k \in 1..m
      BY <1>1, <2>3
    <3>2. items[k] = texts[m - n + k]
      BY <3>1 DEF WindowInv
    <3>3. QED
      BY <1>2, <2>1, <3>1, <3>2
  <2>4. QED
    BY <2>2, <2>3
<1>5. QED
  BY <1>1, <1>2, <1>3, <1>4 DEF WindowInv

LEMMA WindowStep == TiersInv /\ WindowInv /\ [TiersNext]_tierVars => WindowInv'
<1> SUFFICES ASSUME TiersInv, WindowInv, [TiersNext]_tierVars PROVE WindowInv'
    OBVIOUS
<1>1. ASSUME UNCHANGED <<items, adding, texts>> PROVE WindowInv'
  BY <1>1 DEF WindowInv, Over
<1>2. CASE Added
  BY <1>2 DEF Added, Return, WindowInv, Over
<1>3. QED
  BY <1>1, <1>2, CompressKeepsWindow, RememberKeepsWindow
  DEF TiersNext, Write, Leave, ClearShortTerm, tierVars, vars

LEMMA WindowInvariance == TiersSpec => [](TiersInv /\ WindowInv)
<1>1. TiersInit => WindowInv
  <2> SUFFICES ASSUME TiersInit PROVE WindowInv
      OBVIOUS
  <2>1. items = <<>> /\ texts = <<>> /\ Len(items) = 0 /\ Len(texts) = 0
    BY DEF TiersInit, Init
  <2>2. ~Over(items)
    BY <2>1, EmptyFits
  <2>3. QED
    BY <2>1, <2>2 DEF WindowInv
<1>2. QED
  BY <1>1, TiersInitEstablishes, TiersStep, WindowStep, PTL DEF TiersSpec

\* No entry of the window is empty, a compressed one least of all.
THEOREM TypeCorrect == TiersSpec => []TypeOK
<1> DEFINE Filled == items # <<>> => items[1] >= 1
<1>1. TiersInit => Filled
  BY DEF TiersInit, Init
<1>2. TiersInv /\ WindowInv /\ Filled /\ [TiersNext]_tierVars => Filled'
  <2> SUFFICES ASSUME TiersInv, WindowInv, Filled, [TiersNext]_tierVars PROVE Filled'
      OBVIOUS
  <2>1. ASSUME NEW x \in Texts, Remember(x) PROVE Filled'
    <3>1. items \in Seq(Nat) /\ items' = Append(items, x) /\ x \in Nat /\ x >= 1
      BY <2>1, LimitsAssumption DEF Remember, Add, WindowInv
    <3>2. QED
      BY <3>1
  <2>2. ASSUME CompressRound PROVE Filled'
    <3> DEFINE e == Summary(SubSeq(items, 1, HeadLength(items)))
    <3>1. /\ items \in Seq(Nat) /\ Over(items)
          /\ items' = Round(items)
      BY <2>2 DEF CompressRound, Compress, WindowInv
    <3>2. items # <<>>
      BY <3>1, EmptyFits
    <3>3. items'[1] = Marker + e /\ e \in 0..Cutoff
      BY <3>1, <3>2, RoundHalves
    <3> HIDE DEF e
    <3>4. QED
      BY <3>3 DEF Marker, Cutoff
  <2>3. ASSUME UNCHANGED items PROVE Filled'
    BY <2>3
  <2>4. QED
    BY <2>1, <2>2, <2>3
    DEF TiersNext, Added, Return, Write, Leave, ClearShortTerm, tierVars, vars
<1>3. TiersInv /\ WindowInv /\ Filled => TypeOK
  <2> SUFFICES ASSUME TiersInv, WindowInv, Filled PROVE TypeOK
      OBVIOUS
  <2>1. /\ items \in Seq(Nat) /\ texts \in Seq(Texts) /\ adding \in BOOLEAN
        /\ Len(items) \in Nat /\ Len(texts) \in Nat /\ Len(items) <= Len(texts)
    BY DEF WindowInv, TiersInv, CallsInv
  <2>2. ASSUME NEW k \in 1..Len(items) PROVE items[k] \in Nat \ {0}
    <3>1. CASE k = 1
      BY <2>1, <3>1
    <3>2. CASE k # 1
      <4>1. k \in 2..Len(items) /\ Len(texts) - Len(items) + k \in 1..Len(texts)
        BY <2>1, <3>2
      <4>2. items[k] = texts[Len(texts) - Len(items) + k]
        BY <4>1 DEF WindowInv
      <4>3. \A j \in 1..Len(texts) : texts[j] \in Texts
        BY <2>1
      <4>4. items[k] \in Texts
        BY <4>1, <4>2, <4>3
      <4>5. QED
        BY <4>4, LimitsAssumption
    <3>3. QED
      BY <3>1, <3>2
  <2>3. QED
    BY <2>1, <2>2 DEF TypeOK
<1>4. QED
  BY <1>1, <1>2, <1>3, WindowInvariance, PTL DEF TiersSpec

\* Whatever texts go into the window, between two calls both of its limits
\* are kept; and behind its oldest entry are always the latest texts, all of
\* them, in their order and word for word.
THEOREM WindowIsKept == TiersSpec => []WindowKept
<1>1. TiersInv /\ WindowInv => WindowKept
  <2> SUFFICES ASSUME TiersInv, WindowInv PROVE WindowKept
      OBVIOUS
  <2> DEFINE n == Len(items)
             m == Len(texts)
  <2>1. /\ n \in Nat /\ m \in Nat /\ Chars(items) \in Nat
        /\ items \in Seq(Nat) /\ texts \in Seq(Texts)
    BY CharsCount DEF WindowInv, TiersInv, CallsInv
  <2>2. WindowBounded
    BY <2>1, LimitsAssumption DEF WindowInv, WindowBounded, Over
  <2>3. ASSUME texts # <<>>, Last(texts) <= MaxChars
        PROVE  items # <<>> /\ Last(items) = Last(texts)
    <3>1. items # <<>> /\ n >= 1 /\ Last(items) = items[n] /\ Last(texts) = texts[m]
      BY <2>1, <2>3 DEF WindowInv, Last
    <3>2. CASE n = 1
      <4>1. m = 1 /\ (items[1] = texts[1] \/ texts[1] > MaxChars)
        BY <3>2 DEF WindowInv
      <4>2. texts[1] \in Nat
        <5>1. \A j \in 1..m : texts[j] \in Texts
          BY <2>1
        <5>2. m = 1
          BY <4>1
        <5> HIDE DEF m
        <5>3. 1 \in 1..m
          BY <5>2
        <5>4. texts[1] \in Texts
          BY <5>1, <5>3
        <5>5. QED
          BY <5>4, LimitsAssumption
      <4>3. texts[1] <= MaxChars
        BY <2>3, <3>1, <4>1
      <4>4. ~(texts[1] > MaxChars)
        BY ONLY <4>2, <4>3, LimitsAssumption DEF LimitsAssumption
      <4>5. QED
        BY <3>1, <3>2, <4>1, <4>4
    <3>3. CASE n >= 2
      <4>1. \A k \in 2..n : items[k] = texts[m - n + k]
        BY DEF WindowInv
      <4>2. n \in Nat /\ m \in Nat
        BY <2>1
      <4> HIDE DEF n, m
      <4>3. n \in 2..n /\ m - n + n = m
        BY <3>3, <4>2
      <4>4. QED
        BY <3>1, <4>1, <4>3
    <3>4. n \in Nat
      BY <2>1
    <3> HIDE DEF n
    <3>5. n = 1 \/ n >= 2
      BY <3>1, <3>4
    <3>6. QED
      BY <3>2, <3>3, <3>5
  <2>4. QED
    BY <2>2, <2>3 DEF WindowInv, WindowKept
<1>2. QED
  BY <1>1, WindowInvariance, PTL

\* Where a compressed entry and two texts fit.
LEMMA TwoTextsFit ==
  ASSUME NEW e \in Nat, e <= Marker + Cutoff,
         NEW x \in Nat, Marker + Cutoff + 2 * x <= MaxChars,
         NEW y \in Nat, Marker + Cutoff + 2 * y <= MaxChars
  PROVE  e <= MaxChars /\ e + x <= MaxChars /\ e + x + y <= MaxChars
  BY LimitsAssumption DEF Marker, Cutoff

\* A round that leaves as many entries as it found leaves them fitting.
LEMMA LastRoundFits ==
  ASSUME MaxItems >= 3,
         \A x \in Texts : Marker + Cutoff + 2 * x <= MaxChars,
         TiersInv, WindowInv, Over(items), ~(Len(Round(items)) < Len(items))
  PROVE  ~Over(Round(items))
<1> DEFINE t == Round(items)
           n == Len(items)
           k == HeadLength(items)
           m == Len(texts)
           e == Marker + Summary(SubSeq(items, 1, k))
<1>1. /\ items \in Seq(Nat) /\ n \in Nat /\ Over(items)
      /\ texts \in Seq(Texts) /\ m \in Nat /\ n <= m
      /\ \A j \in 2..n : items[j] = texts[m - n + j]
  BY DEF WindowInv, TiersInv, CallsInv
<1>2. items # <<>>
  BY <1>1, EmptyFits
<1>3. /\ k \in 1..n
      /\ n >= 2 => n <= 2 * k + 1
      /\ Summary(SubSeq(items, 1, k)) \in 0..Cutoff
      /\ t \in Seq(Nat) /\ Len(t) = n - k + 1
      /\ t[1] = e
      /\ \A j \in 2..Len(t) : t[j] = items[k + j - 1]
  BY <1>1, <1>2, RoundHalves
<1>4. e \in Nat /\ e <= Marker + Cutoff
  BY <1>3, EntryIsBounded
<1>5. \A j \in 1..m : texts[j] \in Texts
  BY <1>1
<1>6. ~(n - k + 1 < n)
  BY <1>3
<1>7. \A s \in Seq(Nat) : /\ Chars(s) \in Nat
                          /\ Len(s) = 1 => Chars(s) = s[1]
                          /\ Len(s) = 2 => Chars(s) = s[1] + s[2]
                          /\ Len(s) = 3 => Chars(s) = s[1] + s[2] + s[3]
  BY CharsCount
<1> HIDE DEF n, k, m, e, t
<1>8. k = 1 /\ n \in 1..3
  <2>1. k = 1
    BY <1>1, <1>3, <1>6
  <2>2. QED
    BY <1>1, <1>3, <2>1
<1>9. Len(t) = n
  BY <1>1, <1>3, <1>8
<1>10. ASSUME NEW j \in 2..n
       PROVE  t[j] \in Nat /\ Marker + Cutoff + 2 * t[j] <= MaxChars
  <2>1. k + j - 1 = j
    BY <1>8
  <2>2. t[j] = texts[m - n + j]
    BY <1>1, <1>3, <1>9, <2>1
  <2>3. m - n + j \in 1..m
    BY <1>1
  <2>4. t[j] \in Texts
    BY <1>5, <2>2, <2>3
  <2>5. QED
    BY <2>4, LimitsAssumption
<1>11. PICK x \in Texts : x \in Nat /\ Marker + Cutoff + 2 * x <= MaxChars
  <2>1. 1 \in 1..m
    BY <1>1, <1>8
  <2>2. texts[1] \in Texts
    BY <1>5, <2>1
  <2>3. QED
    BY <2>2, LimitsAssumption
<1>12. Chars(t) <= MaxChars
  <2>1. CASE n = 1
    <3>1. Chars(t) = e
      BY <1>3, <1>7, <1>9, <2>1
    <3>2. QED
      BY <1>4, <1>11, <3>1, TwoTextsFit
  <2>2. CASE n = 2
    <3>1. Chars(t) = e + t[2]
      BY <1>3, <1>7, <1>9, <2>2
    <3>2. t[2] \in Nat /\ Marker + Cutoff + 2 * t[2] <= MaxChars
      BY <1>10, <2>2
    <3>3. QED
      BY <1>4, <3>1, <3>2, TwoTextsFit
  <2>3. CASE n = 3
    <3>1. Chars(t) = e + t[2] + t[3]
      BY <1>3, <1>7, <1>9, <2>3
    <3>2. /\ t[2] \in Nat /\ Marker + Cutoff + 2 * t[2] <= MaxChars
          /\ t[3] \in Nat /\ Marker + Cutoff + 2 * t[3] <= MaxChars
      BY <1>10, <2>3
    <3>3. QED
      BY <1>4, <3>1, <3>2, TwoTextsFit
  <2>4. QED
    BY <1>8, <2>1, <2>2, <2>3
<1>13. Chars(t) \in Nat
  BY <1>3, <1>7
<1>14. ~(Len(t) > MaxItems) /\ ~(Chars(t) > MaxChars)
  BY <1>8, <1>9, <1>12, <1>13, LimitsAssumption
<1>15. QED
  BY <1>14 DEF Over, t

\* With room for three entries, and for two of the longest texts beside a
\* compressed one, every round of the loop leaves fewer entries or is the
\* last, and none leaves the window as it was: add() cannot go round for ever.
THEOREM LoopIsBounded ==
  ASSUME MaxItems >= 3,
         \A x \in Texts : Marker + Cutoff + 2 * x <= MaxChars
  PROVE  TiersSpec => []RoundsShrink
<1>1. TiersInv /\ WindowInv => RoundsShrink
  BY LastRoundFits DEF RoundsShrink
<1>2. QED
  BY <1>1, WindowInvariance, PTL

=============================================================================
