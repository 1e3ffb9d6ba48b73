----------------------------- MODULE TableProofs ----------------------------
(***************************************************************************)
(* The table and the connections to it, for any number of threads, keys,   *)
(* operations, queries and losses and any size of a page.  Every step of a *)
(* thread keeps what Count, Clean and the Scan of s3 rely on while they    *)
(* page through a table that changes.  A thread of mysql or pg never holds *)
(* more than the connection it works with, its connection is nil only      *)
(* after one was lost, and a loss costs each of its queries one failure at *)
(* most.  The creators of two processes leave the table a load asks for.   *)
(***************************************************************************)
EXTENDS BindingsInvariant, FiniteSetTheorems, SequenceTheorems, TLAPS

\* Leaves are left to Zenon; those with arithmetic or functions cite SMT.
USE Zenon

-----------------------------------------------------------------------------
(* Batches of keys. *)

(* A set of numbers has a least one. *)
LEMMA LeastNumber ==
    ASSUME NEW T, T \subseteq Nat, T # {}
    PROVE  \E n \in T : \A m \in T : n <= m
<1>1. \E n \in T : \A m \in T : ~(<<m, n>> \in OpToRel(<, Nat))
  BY NatLessThanWellFounded, WFMin
<1>2. \A m, n \in Nat : m < n => <<m, n>> \in OpToRel(<, Nat)
  BY DEF OpToRel
<1>3. \A m, n \in T : ~(m < n) => n <= m
  BY SMT
<1> HIDE DEF OpToRel
<1> QED
  BY <1>1, <1>2, <1>3

(* There are finitely many keys. *)
LEMMA KeysFinite ==
    ASSUME NEW S \in SUBSET Keys
    PROVE  IsFiniteSet(S) /\ Cardinality(S) \in Nat /\ S \subseteq Nat
<1>1. IsFiniteSet(Keys) /\ Keys \subseteq Nat
  BY RowStoreAssumption, FS_Interval, SMT DEF Keys
<1>2. IsFiniteSet(S)
  BY <1>1, FS_Subset
<1> QED
  BY <1>1, <1>2, FS_CardinalityType

(* A set of keys has a greatest one. *)
LEMMA GreatestKey ==
    ASSUME NEW S \in SUBSET Keys, S # {}
    PROVE  Max(S) \in S /\ \A k \in S : k <= Max(S)
<1> DEFINE above == {n \in Nat : \A k \in S : k <= n}
<1>1. MaxKey \in above
  BY RowStoreAssumption, SMT DEF Keys
<1>2. PICK n \in above : \A m \in above : n <= m
  BY <1>1, LeastNumber
<1>3. n \in S
  <2> SUFFICES ASSUME n \notin S PROVE FALSE
    OBVIOUS
  <2>1. \A k \in S : k \in Nat /\ k # n /\ k <= n /\ 1 <= k
    BY <1>2, KeysFinite, SMT DEF Keys
  <2>2. n - 1 \in above /\ ~(n <= n - 1)
    BY <2>1, <1>2, SMT
  <2> QED
    BY <1>2, <2>2
<1>4. \E x \in S : \A y \in S : x >= y
  <2>1. \A y \in S : n >= y
    BY <1>2, KeysFinite, SMT
  <2> QED
    BY <1>3, <2>1
<1>5. Max(S) \in S /\ \A y \in S : Max(S) >= y
  BY <1>4 DEF Max
<1> QED
  BY <1>5, KeysFinite, SMT

(* A batch has the keys from the cursor up to where the next one begins,   *)
(* and one that is not full has all that there are.                        *)
IsBatch(S, cursor, batch, next) ==
    /\ batch \subseteq S /\ next \in Nat /\ cursor <= next
    /\ \A k \in batch : cursor <= k /\ k < next
    /\ \A k \in S : cursor <= k /\ k < next => k \in batch
    /\ Cardinality(batch) < BatchSize => \A k \in S : k < next

(* So it is of any set of keys, wherever the cursor stands. *)
LEMMA BatchIs ==
    ASSUME NEW S \in SUBSET Keys, NEW cursor \in Nat
    PROVE  IsBatch(S, cursor, Batch(S, cursor), After(Batch(S, cursor), cursor))
<1> DEFINE before(k) == {j \in S : cursor <= j /\ j < k}
           batch == Batch(S, cursor)
           next == After(batch, cursor)
           rest == {k \in S : k >= cursor} \ batch
<1>1. \A k \in S : k \in batch <=> k >= cursor /\ Cardinality(before(k)) < BatchSize
  BY DEF Batch
<1>2. batch \in SUBSET S /\ batch \in SUBSET Keys /\ S \subseteq Nat /\ batch \subseteq Nat
  BY KeysFinite DEF Batch
<1>3. \A k \in S : k >= cursor <=> cursor <= k
  BY <1>2, SMT
<1>4. \A k \in S : before(k) \in SUBSET Keys /\ IsFiniteSet(before(k))
                   /\ Cardinality(before(k)) \in Nat
  BY KeysFinite
<1>5. BatchSize \in Nat
  BY TikvAssumption
<1>6. IsFiniteSet(batch) /\ Cardinality(batch) \in Nat
  BY <1>2, KeysFinite
<1> HIDE DEF batch, before
<1>7. ASSUME Cardinality(batch) < BatchSize PROVE rest = {}
  <2> SUFFICES ASSUME rest # {} PROVE FALSE
    OBVIOUS
  <2>1. PICK m \in rest : \A k \in rest : m <= k
    BY <1>2, LeastNumber
  <2>2. ~(Cardinality(before(m)) < BatchSize) /\ m \in S
    BY <1>1, <2>1
  <2>3. before(m) \subseteq batch
    <3> SUFFICES ASSUME NEW j \in S, cursor <= j, j < m, j \notin batch PROVE FALSE
      BY DEF before
    <3>1. j \in rest /\ ~(m <= j)
      BY <1>2, <1>3, <2>2, SMT
    <3> QED
      BY <2>1, <3>1
  <2>4. Cardinality(before(m)) <= Cardinality(batch)
    BY <1>6, <2>3, FS_Subset
  <2> QED
    BY <1>4, <1>5, <1>6, <1>7, <2>2, <2>4, SMT
<1>8. CASE batch = {}
  <2>1. next = cursor /\ Cardinality(batch) = 0
    BY <1>8, FS_EmptySet DEF After
  <2>2. Cardinality(batch) < BatchSize
    BY <2>1, TikvAssumption, SMT
  <2>3. \A k \in S : k < cursor /\ ~(cursor <= k)
    BY <1>2, <1>7, <1>8, <2>2, SMT
  <2>4. IsBatch(S, cursor, batch, next)
    BY <1>8, <2>1, <2>3, SMT DEF IsBatch
  <2> QED
    BY <2>4 DEF batch
<1>9. CASE batch # {}
  <2>1. PICK m \in batch : m = Max(batch) /\ \A k \in batch : k <= m
    BY <1>2, <1>9, GreatestKey
  <2>2. next = m + 1
    BY <1>9, <2>1 DEF After
  <2>3. m \in S /\ m \in Nat /\ cursor <= m
    BY <1>1, <1>2, <1>3, <2>1
  <2>4. ASSUME NEW k \in S, cursor <= k, k < next PROVE k \in batch
    <3>1. k <= m /\ k \in Nat
      BY <1>2, <2>2, <2>3, <2>4, SMT
    <3>2. before(k) \in SUBSET before(m)
      <4>1. \A j \in S : j < k => j < m
        BY <1>2, <2>3, <3>1, SMT
      <4> QED
        BY <4>1 DEF before
    <3>3. Cardinality(before(k)) <= Cardinality(before(m))
      BY <1>4, <2>3, <3>2, FS_Subset
    <3>4. Cardinality(before(m)) < BatchSize
      BY <1>1, <2>1, <2>3
    <3>5. Cardinality(before(k)) < BatchSize
      BY <1>4, <1>5, <2>3, <2>4, <3>3, <3>4, SMT
    <3> QED
      BY <1>1, <1>3, <2>4, <3>5
  <2>5. ASSUME NEW k \in batch PROVE cursor <= k /\ k < next
    BY <1>1, <1>2, <1>3, <2>1, <2>2, <2>3, SMT
  <2>6. ASSUME Cardinality(batch) < BatchSize, NEW k \in S PROVE k < next
    <3>1. k < cursor \/ k \in batch
      BY <1>2, <1>7, <2>6, SMT
    <3> QED
      BY <1>2, <2>2, <2>3, <2>5, <3>1, SMT
  <2>7. next \in Nat /\ cursor <= next
    BY <2>2, <2>3, SMT
  <2>8. IsBatch(S, cursor, batch, next)
    BY <1>2, <2>4, <2>5, <2>6, <2>7 DEF IsBatch
  <2> QED
    BY <2>8 DEF batch
<1> QED
  BY <1>8, <1>9

-----------------------------------------------------------------------------
(* Sequences of keys in order. *)

(* Each comes before the greater ones, and so none comes twice. *)
Increasing(s) == \A i, j \in 1..Len(s) : i < j => s[i] < s[j]

(* The last index of a sequence that is not empty. *)
LEMMA LastIndex ==
    ASSUME NEW n \in Nat \ {0}
    PROVE  n \in 1..n /\ \A i \in 1..n : i = n \/ i < n
  BY SMT

(* A sequence of keys has keys only. *)
LEMMA RangeIn ==
    ASSUME NEW s \in Seq(Keys)
    PROVE  Range(s) \subseteq Keys
<1>1. DOMAIN s = 1..Len(s) /\ s \in [1..Len(s) -> Keys]
  BY LenProperties
<1> QED
  BY <1>1 DEF Range

(* A sequence of keys with one more at its end, ... *)
LEMMA AppendKey ==
    ASSUME NEW s \in Seq(Keys), NEW k \in Keys, Increasing(s), \A x \in Range(s) : x < k
    PROVE  LET r == Append(s, k)
           IN /\ r \in Seq(Keys) /\ Len(r) = Len(s) + 1
              /\ Increasing(r) /\ Range(r) = Range(s) \cup {k}
<1> DEFINE r == Append(s, k)
<1>1. Len(s) \in Nat /\ DOMAIN s = 1..Len(s)
  BY LenProperties
<1>2. /\ r \in Seq(Keys) /\ Len(r) = Len(s) + 1 /\ r[Len(s) + 1] = k
      /\ \A i \in 1..Len(s) : r[i] = s[i]
  BY SMT
<1>3. DOMAIN r = 1..Len(s) + 1
  BY <1>2, LenProperties
<1> HIDE DEF r
<1>4. \A i \in 1..Len(s) + 1 : i \in 1..Len(s) \/ i = Len(s) + 1
  BY <1>1, SMT
<1>5. \A i \in 1..Len(s) : i \in 1..Len(s) + 1
  BY <1>1, SMT
<1>6. Len(s) + 1 \in 1..Len(s) + 1
  BY <1>1, SMT
<1>7. Range(r) = Range(s) \cup {k}
  BY <1>1, <1>2, <1>3, <1>4, <1>5, <1>6 DEF Range
<1>8. ASSUME NEW i \in 1..Len(r), NEW j \in 1..Len(r), i < j PROVE r[i] < r[j]
  <2>1. i \in 1..Len(s) /\ (j \in 1..Len(s) \/ j = Len(s) + 1)
    BY <1>1, <1>2, <1>8, SMT
  <2>2. s[i] \in Range(s)
    BY <1>1, <2>1 DEF Range
  <2> QED
    BY <1>2, <1>8, <2>1, <2>2 DEF Increasing
<1>9. Increasing(r)
  BY <1>8 DEF Increasing
<1> QED
  BY <1>2, <1>7, <1>9 DEF r

(* ... and without its first. *)
LEMMA WithoutHead ==
    ASSUME NEW s \in Seq(Keys), s # << >>, Increasing(s)
    PROVE  /\ Head(s) \in Keys /\ Tail(s) \in Seq(Keys) /\ Len(Tail(s)) = Len(s) - 1
           /\ Len(s) \in Nat \ {0}
           /\ Increasing(Tail(s)) /\ Range(s) = {Head(s)} \cup Range(Tail(s))
           /\ \A x \in Range(Tail(s)) : Head(s) < x
<1> DEFINE r == Tail(s)
<1>1. Len(s) \in Nat \ {0} /\ DOMAIN s = 1..Len(s)
  BY LenProperties, EmptySeq
<1>2. /\ Head(s) \in Keys /\ r \in Seq(Keys) /\ Len(r) = Len(s) - 1
      /\ \A i \in 1..Len(r) : r[i] = s[i + 1]
  BY HeadTailProperties
<1>3. Head(s) = s[1]
  BY SMT
<1>4. DOMAIN r = 1..Len(r)
  BY <1>2, LenProperties
<1> HIDE DEF r
<1>5. \A i \in 1..Len(r) : i + 1 \in 1..Len(s) /\ 1 < i + 1
  BY <1>1, <1>2, SMT
<1>6. 1 \in 1..Len(s) /\ \A i \in 1..Len(s) : i = 1 \/ \E j \in 1..Len(r) : i = j + 1
  <2>1. \A i \in 1..Len(s) : i = 1 \/ (i - 1 \in 1..Len(r) /\ i = (i - 1) + 1)
    BY <1>1, <1>2, SMT
  <2>2. 1 \in 1..Len(s)
    BY <1>1, SMT
  <2> QED
    BY <2>1, <2>2
<1>7. Range(s) = {Head(s)} \cup Range(r)
  <2>1. ASSUME NEW i \in 1..Len(s) PROVE s[i] \in {Head(s)} \cup Range(r)
    BY <1>2, <1>3, <1>4, <1>6 DEF Range
  <2>2. ASSUME NEW i \in 1..Len(r) PROVE r[i] \in Range(s)
    BY <1>1, <1>2, <1>5 DEF Range
  <2>3. Head(s) \in Range(s)
    BY <1>1, <1>3, <1>6 DEF Range
  <2> QED
    BY <1>1, <1>4, <2>1, <2>2, <2>3 DEF Range
<1>8. \A i, j \in 1..Len(r) : i < j => i + 1 < j + 1
  BY <1>1, <1>2, SMT
<1>9. Increasing(r)
  BY <1>2, <1>5, <1>8 DEF Increasing
<1>10. \A x \in Range(r) : Head(s) < x
  BY <1>2, <1>3, <1>4, <1>5, <1>6 DEF Range, Increasing
<1> QED
  BY <1>1, <1>2, <1>7, <1>9, <1>10 DEF r

(* A set of keys can be put in order: each key at the place that the       *)
(* number of those up to it gives.                                         *)
LEMMA OrderExists ==
    ASSUME NEW S \in SUBSET Keys
    PROVE  \E s \in [1..Cardinality(S) -> S] : \A i, j \in DOMAIN s : i < j => s[i] < s[j]
<1> DEFINE n == Cardinality(S)
           upto(k) == {j \in S : j <= k}
           rank == [k \in S |-> Cardinality(upto(k))]
<1>1. IsFiniteSet(S) /\ n \in Nat /\ S \subseteq Nat
  BY KeysFinite
<1>2. ASSUME NEW k \in S PROVE rank[k] \in 1..n
  <2>1. upto(k) \in SUBSET S /\ k \in upto(k)
    BY <1>1, SMT
  <2>2. IsFiniteSet(upto(k)) /\ Cardinality(upto(k)) <= n /\ Cardinality(upto(k)) \in Nat
    BY <1>1, <2>1, FS_Subset, FS_CardinalityType
  <2>3. Cardinality(upto(k)) # 0
    BY <2>1, <2>2, FS_EmptySet
  <2> QED
    BY <1>1, <2>2, <2>3, SMT
<1>3. ASSUME NEW j \in S, NEW k \in S, j < k PROVE rank[j] < rank[k]
  <2>1. upto(k) \in SUBSET S /\ IsFiniteSet(upto(k))
    BY <1>1, FS_Subset
  <2>2. upto(j) \in SUBSET upto(k) /\ k \in upto(k) /\ k \notin upto(j)
    <3>1. k <= k /\ ~(k <= j) /\ \A i \in S : i <= j => i <= k
      BY <1>1, <1>3, SMT
    <3> QED
      BY <3>1
  <2>3. Cardinality(upto(j)) <= Cardinality(upto(k)) /\ Cardinality(upto(j)) # Cardinality(upto(k))
    BY <2>1, <2>2, FS_Subset
  <2>4. rank[j] \in Nat /\ rank[k] \in Nat
    BY <1>2, SMT
  <2> QED
    BY <2>3, <2>4, SMT
<1> HIDE DEF rank
<1>4. rank \in [S -> 1..n]
  BY <1>2 DEF rank
<1>5. \A j, k \in S : j # k => j < k \/ k < j
  BY <1>1, SMT
<1>6. \A i \in 1..n : ~(i < i)
  BY <1>1, SMT
<1>7. rank \in Injection(S, 1..n)
  BY <1>3, <1>4, <1>5, <1>6 DEF Injection, IsInjective
<1>8. IsFiniteSet(1..n) /\ Cardinality(1..n) = n
  BY <1>1, FS_Interval, SMT
<1>9. rank \in Surjection(S, 1..n)
  BY <1>7, <1>8, FS_Injection
<1>10. \A i \in 1..n : \E k \in S : rank[k] = i
  BY <1>9 DEF Surjection
<1> DEFINE s == [i \in 1..n |-> CHOOSE k \in S : rank[k] = i]
<1>11. \A i \in 1..n : s[i] \in S /\ rank[s[i]] = i
  BY <1>10
<1>12. s \in [1..n -> S]
  BY <1>11
<1> HIDE DEF s
<1>13. ASSUME NEW i \in 1..n, NEW j \in 1..n, i < j PROVE s[i] < s[j]
  <2>1. s[i] # s[j]
    BY <1>6, <1>11, <1>13
  <2>2. ~(s[j] < s[i])
    <3>1. ~(j < i)
      BY <1>1, <1>13, SMT
    <3> QED
      BY <1>3, <1>11, <3>1
  <2> QED
    BY <1>5, <1>11, <2>1, <2>2
<1> QED
  BY <1>12, <1>13

(* Listing a set of keys in order gives each of them. *)
LEMMA InOrderIs ==
    ASSUME NEW S \in SUBSET Keys
    PROVE  LET s == InOrder(S)
           IN /\ s \in Seq(S) /\ s \in Seq(Keys) /\ Len(s) = Cardinality(S)
              /\ Increasing(s) /\ \A k \in S : \E i \in 1..Len(s) : s[i] = k
<1> DEFINE n == Cardinality(S)
           s == InOrder(S)
<1>1. IsFiniteSet(S) /\ n \in Nat /\ S \subseteq Nat
  BY KeysFinite
<1>2. s \in [1..n -> S] /\ \A i, j \in DOMAIN s : i < j => s[i] < s[j]
  BY OrderExists DEF InOrder
<1> HIDE DEF s
<1>3. s \in Seq(S) /\ Len(s) = n
  BY <1>1, <1>2, SMT
<1>4. s \in Seq(Keys)
  BY <1>3, SeqMonotonic
<1>5. Increasing(s)
  BY <1>2, <1>3 DEF Increasing
<1>6. \A i, j \in 1..n : i # j => i < j \/ j < i
  BY <1>1, SMT
<1>7. \A k \in S : ~(k < k)
  BY <1>1, SMT
<1>8. s \in Injection(1..n, S)
  BY <1>2, <1>6, <1>7 DEF Injection, IsInjective
<1>9. Cardinality(1..n) = n
  BY <1>1, FS_Interval, SMT
<1>10. s \in Surjection(1..n, S)
  BY <1>1, <1>8, <1>9, FS_Injection
<1>11. \A k \in S : \E i \in 1..n : s[i] = k
  BY <1>10 DEF Surjection
<1> QED
  BY <1>3, <1>4, <1>5, <1>11 DEF s

(* The smaller of two numbers. *)
LEMMA MinOfTwo ==
    ASSUME NEW a \in Nat, NEW b \in Nat
    PROVE  /\ Min({a, b}) \in {a, b} /\ Min({a, b}) \in Nat
           /\ Min({a, b}) <= a /\ Min({a, b}) <= b
<1>1. \E x \in {a, b} : \A y \in {a, b} : x <= y
  <2>1. (a <= a /\ a <= b) \/ (b <= a /\ b <= b)
    BY SMT
  <2> QED
    BY <2>1
<1>2. Min({a, b}) \in {a, b} /\ \A y \in {a, b} : Min({a, b}) <= y
  BY <1>1 DEF Min
<1> QED
  BY <1>2

(* The beginning of a sequence. *)
LEMMA PrefixIs ==
    ASSUME NEW s \in Seq(Keys), NEW m \in 0..Len(s)
    PROVE  /\ SubSeq(s, 1, m) \in Seq(Keys) /\ Len(SubSeq(s, 1, m)) = m
           /\ \A i \in 1..m : SubSeq(s, 1, m)[i] = s[i]
  BY SMT

(* The first keys of a set: what is left out comes after them, and nothing *)
(* is if there are fewer than were asked for.                              *)
IsPage(S, n, page) ==
    /\ page \in Seq(Keys) /\ Len(page) <= n /\ Increasing(page) /\ Range(page) \subseteq S
    /\ page = << >> => S = {}
    /\ \A k \in S : page # << >> => k \in Range(page) \/ page[Len(page)] < k
    /\ ~(Cardinality(S) > Len(page)) => S \subseteq Range(page)

(* FirstOf gives such a page. *)
LEMMA PageIs ==
    ASSUME NEW S \in SUBSET Keys, NEW n \in Nat \ {0}
    PROVE  IsPage(S, n, FirstOf(n, S))
<1> DEFINE all == InOrder(S)
           size == Cardinality(S)
           m == Min({n, Len(all)})
           page == SubSeq(all, 1, m)
<1>1. /\ all \in Seq(S) /\ all \in Seq(Keys) /\ Len(all) = size /\ Increasing(all)
      /\ \A k \in S : \E i \in 1..size : all[i] = k
  BY InOrderIs
<1>2. size \in Nat /\ IsFiniteSet(S) /\ n \in Nat
  BY KeysFinite
<1>3. m \in {n, size} /\ m \in Nat /\ m <= n /\ m <= size
  BY <1>1, <1>2, MinOfTwo
<1> HIDE DEF all, m
<1>4. \A i \in 1..m : all[i] \in S /\ all[i] \in Keys /\ i \in 1..size
  BY <1>1, <1>2, <1>3, SMT
<1>5. m \in 0..Len(all)
  BY <1>1, <1>2, <1>3, SMT
<1>6. page \in Seq(Keys) /\ Len(page) = m /\ \A i \in 1..m : page[i] = all[i]
  BY <1>1, <1>5, PrefixIs
<1> HIDE DEF page
<1>7. DOMAIN page = 1..m
  BY <1>6, LenProperties
<1>8. Increasing(page)
  BY <1>1, <1>4, <1>6 DEF Increasing
<1>9. Range(page) \subseteq S
  BY <1>4, <1>6, <1>7 DEF Range
<1>10. ASSUME page = << >> PROVE S = {}
  <2>1. m = 0
    BY <1>6, <1>10, SMT
  <2>2. size = 0
    BY <1>3, <2>1
  <2> QED
    BY <1>2, <2>2, FS_EmptySet
<1>11. ASSUME NEW k \in S, page # << >> PROVE k \in Range(page) \/ page[Len(page)] < k
  <2>1. PICK i \in 1..size : all[i] = k
    BY <1>1
  <2>2. m # 0
    BY <1>6, <1>11, EmptySeq
  <2>3. m \in 1..m /\ m \in 1..size /\ (i \in 1..m \/ m < i)
    BY <1>2, <1>3, <2>1, <2>2, SMT
  <2>4. CASE i \in 1..m
    BY <1>6, <1>7, <2>1, <2>4 DEF Range
  <2>5. CASE m < i
    BY <1>1, <1>6, <2>1, <2>3, <2>5 DEF Increasing
  <2> QED
    BY <2>3, <2>4, <2>5
<1>12. ASSUME ~(size > Len(page)) PROVE S \subseteq Range(page)
  <2>1. m = size
    BY <1>2, <1>3, <1>6, <1>12, SMT
  <2> QED
    BY <1>1, <1>6, <1>7, <2>1 DEF Range
<1>13. Len(page) <= n
  BY <1>3, <1>6
<1>14. IsPage(S, n, page)
  BY <1>6, <1>8, <1>9, <1>10, <1>11, <1>12, <1>13 DEF IsPage
<1> QED
  BY <1>14 DEF FirstOf, page, m, all

-----------------------------------------------------------------------------
(* Operations that page through the table. *)

(* What an operation that pages may still find: the keys there when it     *)
(* began, except those others have written since.                          *)
Drift(o) ==
    /\ o.began \subseteq Keys /\ o.since \subseteq Keys
    /\ o.began \ o.since \subseteq Present
    /\ Present \subseteq o.began \cup o.since

(* Count has counted each key of a set once: it is below the cursor, has   *)
(* the keys that were left alone, and no key that was never there.         *)
Counted(o, keys) ==
    /\ o.count = Cardinality(keys)
    /\ keys \subseteq o.began \cup o.since
    /\ \A k \in keys : k < o.cursor
    /\ \A k \in o.began \ o.since : k < o.cursor => k \in keys
    /\ Txn => \A k \in Keys : k \in keys <=> k \in o.began /\ k < o.cursor

CountPages(t) ==
    /\ op[t].kind = "count" /\ op[t].cursor \in Nat /\ Drift(op[t])
    /\ \E keys \in SUBSET Keys : Counted(op[t], keys)
    /\ pc[t] = "counted" =>
         \A k \in op[t].began : k \notin op[t].since \/ Txn => k < op[t].cursor

(* Clean has left no key behind the cursor but those written since; a      *)
(* batch that is not full is the last one.                                 *)
CleanPages(t) ==
    /\ op[t].kind = "clean"
    /\ pc[t] = "cleaned" => Present \subseteq op[t].since
    /\ pc[t] # "cleaned" => op[t].cursor \in Nat
    /\ pc[t] = "clean" => \A k \in Present : k < op[t].cursor => k \in op[t].since
    /\ pc[t] = "cleanCommit" =>
         LET batch == DOMAIN op[t].writes
             next == After(batch, op[t].cursor)
         IN /\ batch \subseteq Keys /\ next \in Nat
            /\ \A k \in batch : op[t].writes[k] = NoRow
            /\ \A k \in Present : k < next => k \in op[t].since \cup batch
            /\ Cardinality(batch) < BatchSize =>
                 \A k \in Present : k < next \/ k \in op[t].since

(* So has DeleteRange, but for the regions it has yet to delete. *)
RangePages(t) ==
    /\ Present \subseteq op[t].since \cup DOMAIN op[t].writes
    /\ \A k \in DOMAIN op[t].writes : op[t].writes[k] = NoRow

(* The Scan of s3 has read, in order, each key up to the cursor that was   *)
(* left alone and could be read, or still has it on its page.  Without     *)
(* more pages to come, the cursor is past all of them.                     *)
Stable(o) == o.began \ o.since

(* What it has read, in any phase, ... *)
ScanSeen(o) ==
    /\ o.kind = "scan" /\ o.count \in Nat \ {0} /\ o.cursor \in Nat
    /\ o.began \subseteq Keys /\ Stable(o) \subseteq Present
    /\ \A k \in Present : k > o.cursor => k \in o.began \cup o.since
    /\ o.out \in Seq(Keys) /\ Increasing(o.out) /\ Len(o.out) <= o.count
    /\ Range(o.out) \subseteq o.began \cup o.since

(* ... when it is to list a page, ... *)
ScanLists(o) ==
    /\ Len(o.out) < o.count
    /\ \A x \in Range(o.out) : x <= o.cursor
    /\ \A k \in Stable(o) : k <= o.cursor => k \in Range(o.out)

(* ... while it reads one, ... *)
ScanFetches(o) ==
    /\ o.page \in Seq(Keys) /\ o.page # << >> /\ Increasing(o.page)
    /\ Len(o.out) + Len(o.page) <= o.count
    /\ Range(o.page) \subseteq o.began \cup o.since
    /\ \A x \in Range(o.out), y \in Range(o.page) : x < y
    /\ \A y \in Range(o.page) : y <= o.cursor
    /\ \A k \in Stable(o) : k <= o.cursor => k \in Range(o.out) \cup Range(o.page)
    /\ ~o.more => \A k \in Stable(o) : k <= o.cursor

(* ... and at the end. *)
Scanned(o) ==
    \A k \in Stable(o) : \/ k \in Range(o.out)
                         \/ Len(o.out) = o.count /\ o.out[Len(o.out)] < k

ScanPages(t) ==
    /\ ScanSeen(op[t])
    /\ pc[t] = "list" => ScanLists(op[t])
    /\ pc[t] = "page" => ScanFetches(op[t])
    /\ pc[t] = "scanned" => Scanned(op[t])

(* All that a thread which pages relies on. *)
PagesInv(t) ==
    /\ pc[t] \in {"count", "counted"} => CountPages(t)
    /\ pc[t] \in {"clean", "cleanCommit", "cleaned"} => CleanPages(t)
    /\ pc[t] = "apply" /\ op[t].kind = "clean" => RangePages(t)
    /\ pc[t] \in {"list", "page", "scanned"} => ScanPages(t)

(* A step of one thread tells those that page what it has written. *)
SamePages(a, b) ==
    /\ a.kind = b.kind /\ a.writes = b.writes /\ a.cursor = b.cursor /\ a.count = b.count
    /\ a.page = b.page /\ a.more = b.more /\ a.out = b.out /\ a.began = b.began

(* The step of t does so. *)
Told(t) ==
    \A u \in Threads : u # t =>
        /\ pc'[u] = pc[u] /\ SamePages(op'[u], op[u])
        /\ op[u].kind \in {"count", "clean", "scan"} =>
             /\ op[u].since \subseteq op'[u].since /\ op'[u].since \subseteq op[u].since \cup Keys
             /\ \A k \in Keys : store'[k] = store[k] \/ k \in op'[u].since

(* What a write leaves in the store. *)
Stored(changed) ==
    \A k \in Keys : store'[k] = IF k \in DOMAIN changed THEN changed[k] ELSE store[k]

(* A step that writes and tells, ... *)
LEMMA WriteTold ==
    ASSUME NEW t \in Threads, Inv, NEW to, pc' = [pc EXCEPT ![t] = to], NEW mine,
           NEW changed, NEW lossy, Write(t, changed, lossy), DOMAIN changed \subseteq Keys,
           Tell(t, mine, DOMAIN changed)
    PROVE  Told(t) /\ pc'[t] = to /\ op'[t] = mine /\ Stored(changed)
<1>1. DOMAIN pc = Threads /\ DOMAIN op = Threads /\ \A u \in Threads : DOMAIN op[u] = Parts
  BY DEF Inv, ShapeInv
<1>2. \A k \in Keys : store'[k] = IF k \in DOMAIN changed THEN changed[k] ELSE store[k]
  BY DEF Write
<1>3. pc'[t] = to /\ op'[t] = mine /\ \A u \in Threads : u # t => pc'[u] = pc[u]
  BY <1>1 DEF Tell
<1>4. ASSUME NEW u \in Threads, u # t
      PROVE  /\ SamePages(op'[u], op[u])
             /\ op[u].kind \in {"count", "clean", "scan"} =>
                  op'[u].since = op[u].since \cup DOMAIN changed
  <2>1. \/ op'[u] = op[u] /\ op[u].kind \notin {"count", "clean", "scan"}
        \/ op'[u] = [op[u] EXCEPT !.since = @ \cup DOMAIN changed]
    BY <1>4 DEF Tell
  <2>2. CASE op'[u] = [op[u] EXCEPT !.since = @ \cup DOMAIN changed]
    BY <1>1, <2>2, SMT DEF SamePages, Parts
  <2> QED
    BY <2>1, <2>2 DEF SamePages
<1>5. Told(t)
  BY <1>2, <1>3, <1>4 DEF Told
<1> QED
  BY <1>2, <1>3, <1>5 DEF Stored

(* ... and one that changes no row and no other thread. *)
LEMMA QuietTold ==
    ASSUME NEW t \in Threads, store' = store,
           \A u \in Threads : u # t => pc'[u] = pc[u] /\ op'[u] = op[u]
    PROVE  Told(t)
  BY DEF Told, SamePages

(* An operation that begins is one, ... *)
LEMMA BeginTold ==
    ASSUME NEW t \in Threads, Inv, NEW where, NEW locals, Begin(t, where, locals), NoWrite
    PROVE  Told(t) /\ pc'[t] = where /\ op'[t] = locals
<1>1. DOMAIN pc = Threads /\ DOMAIN op = Threads
  BY DEF Inv, ShapeInv
<1>2. /\ pc'[t] = where /\ op'[t] = locals
      /\ \A u \in Threads : u # t => pc'[u] = pc[u] /\ op'[u] = op[u]
  BY <1>1 DEF Begin
<1> QED
  BY <1>2, QuietTold DEF NoWrite

(* ... and so is one that ends. *)
LEMMA FinishTold ==
    ASSUME NEW t \in Threads, Inv, Finish(t)
    PROVE  Told(t) /\ pc'[t] = "idle"
<1>1. DOMAIN pc = Threads /\ DOMAIN op = Threads
  BY DEF Inv, ShapeInv
<1>2. pc'[t] = "idle" /\ \A u \in Threads : u # t => pc'[u] = pc[u] /\ op'[u] = op[u]
  BY <1>1 DEF Finish
<1> QED
  BY <1>2, QuietTold DEF Finish, NoWrite

(* What was so of an operation that pages stays so in the steps of others. *)
LEMMA PagesStay ==
    ASSUME NEW t \in Threads, Told(t), binding' = binding,
           NEW u \in Threads, u # t, Inv, PagesInv(u)
    PROVE  PagesInv(u)'
<1>1. pc'[u] = pc[u] /\ SamePages(op'[u], op[u])
  BY DEF Told
<1>2. ASSUME op[u].kind \in {"count", "clean", "scan"}
      PROVE  /\ op[u].since \subseteq op'[u].since
             /\ op'[u].since \subseteq op[u].since \cup Keys
             /\ \A k \in Keys : store'[k] = store[k] \/ k \in op'[u].since
  BY <1>2 DEF Told
<1>3. ASSUME op[u].kind \in {"count", "clean", "scan"}
      PROVE  \A k \in Keys : k \in Present' => k \in Present \/ k \in op'[u].since
  BY <1>2, <1>3 DEF Present
<1>4. Present \subseteq Keys /\ Present' \subseteq Keys
  BY DEF Present
<1>5. ASSUME op[u].kind = "count", Drift(op[u]) PROVE Drift(op[u])'
  <2>1. op'[u].began \ op'[u].since \subseteq Present'
    BY <1>1, <1>2, <1>4, <1>5 DEF SamePages, Drift, Present
  <2> QED
    BY <1>1, <1>2, <1>3, <1>4, <1>5, <2>1 DEF SamePages, Drift
<1>6. ASSUME pc[u] \in {"count", "counted"} PROVE CountPages(u)'
  <2>1. CountPages(u)
    BY <1>6 DEF PagesInv
  <2>2. PICK keys \in SUBSET Keys : Counted(op[u], keys)
    BY <2>1 DEF CountPages
  <2>3. op[u].since \subseteq op'[u].since /\ op'[u].cursor = op[u].cursor
        /\ op'[u].began = op[u].began /\ op'[u].count = op[u].count /\ op'[u].kind = op[u].kind
    BY <1>1, <1>2, <2>1 DEF CountPages, SamePages
  <2>4. Txn' <=> Txn
    BY DEF Txn
  <2>5. Counted(op[u], keys)'
    BY <2>2, <2>3, <2>4 DEF Counted
  <2> QED
    BY <1>1, <1>5, <2>1, <2>3, <2>4, <2>5 DEF CountPages
<1>7. ASSUME pc[u] \in {"clean", "cleanCommit", "cleaned"} PROVE CleanPages(u)'
  <2>1. CleanPages(u)
    BY <1>7 DEF PagesInv
  <2>2. op[u].since \subseteq op'[u].since /\ op'[u].cursor = op[u].cursor
        /\ op'[u].writes = op[u].writes /\ op'[u].kind = "clean"
    BY <1>1, <1>2, <2>1 DEF CleanPages, SamePages
  <2>3. \A k \in Present' : k \in Present \/ k \in op'[u].since
    BY <1>3, <1>4, <2>1 DEF CleanPages
  <2>4. CASE pc[u] = "cleanCommit"
    BY <1>1, <2>1, <2>2, <2>3, <2>4 DEF CleanPages
  <2>5. CASE pc[u] # "cleanCommit"
    BY <1>1, <2>1, <2>2, <2>3, <2>5 DEF CleanPages
  <2> QED
    BY <2>4, <2>5
<1>8. ASSUME pc[u] = "apply", op[u].kind = "clean" PROVE RangePages(u)'
  <2>1. RangePages(u)
    BY <1>8 DEF PagesInv
  <2>2. op[u].since \subseteq op'[u].since /\ op'[u].writes = op[u].writes
    BY <1>1, <1>2, <1>8 DEF SamePages
  <2>3. \A k \in Present' : k \in Present \/ k \in op'[u].since
    BY <1>3, <1>4, <1>8
  <2> QED
    BY <2>1, <2>2, <2>3 DEF RangePages
<1>9. op'[u].kind = op[u].kind
  BY <1>1 DEF SamePages
<1>10. ASSUME pc[u] \in {"list", "page", "scanned"} PROVE ScanPages(u)'
  <2>1. ScanPages(u)
    BY <1>10 DEF PagesInv
  <2>2. /\ op'[u].kind = "scan" /\ op'[u].count = op[u].count
        /\ op'[u].cursor = op[u].cursor /\ op'[u].began = op[u].began
        /\ op'[u].out = op[u].out /\ op'[u].page = op[u].page /\ op'[u].more = op[u].more
    BY <1>1, <2>1 DEF SamePages, ScanPages, ScanSeen
  <2>3. op[u].kind \in {"count", "clean", "scan"}
    BY <2>1 DEF ScanPages, ScanSeen
  <2>4. op[u].since \subseteq op'[u].since /\ Stable(op'[u]) \subseteq Stable(op[u])
    BY <1>2, <2>2, <2>3 DEF Stable
  <2>5. ScanSeen(op[u])'
    <3>1. Stable(op'[u]) \subseteq Present'
      BY <1>2, <2>1, <2>3, <2>4 DEF ScanPages, ScanSeen, Stable, Present
    <3>2. \A k \in Present' : k > op[u].cursor => k \in op[u].began \cup op'[u].since
      BY <1>3, <1>4, <2>1, <2>3, <2>4 DEF ScanPages, ScanSeen
    <3> QED
      BY <2>1, <2>2, <2>4, <3>1, <3>2 DEF ScanPages, ScanSeen
  <2>6. ScanLists(op[u]) => ScanLists(op[u])'
    BY <2>2, <2>4 DEF ScanLists
  <2>7. ScanFetches(op[u]) => ScanFetches(op[u])'
    BY <2>2, <2>4 DEF ScanFetches
  <2>8. Scanned(op[u]) => Scanned(op[u])'
    BY <2>2, <2>4 DEF Scanned
  <2> QED
    BY <1>1, <2>1, <2>5, <2>6, <2>7, <2>8 DEF ScanPages
<1> QED
  BY <1>1, <1>6, <1>7, <1>8, <1>9, <1>10 DEF PagesInv

-----------------------------------------------------------------------------
(* The steps of a binding that can page. *)

(* The loop of an operation has a current key until it is done. *)
LEMMA LoopKey ==
    ASSUME NEW t, op[t].values \in Batches
    PROVE  /\ CurrentKey(t) \in DOMAIN op[t].values /\ CurrentKey(t) \in Keys
           /\ DOMAIN op[t].values \subseteq Keys
           /\ \A k \in DOMAIN op[t].values : op[t].values[k] \in Rows
<1>1. PICK keys \in (SUBSET Keys) \ {{}} : op[t].values \in [keys -> Rows]
  BY DEF Batches
<1>2. \E n \in keys : \A m \in keys : n <= m
  BY <1>1, KeysFinite, LeastNumber
<1> QED
  BY <1>1, <1>2 DEF CurrentKey, Min

(* A step of t that tells the others and keeps what t itself relies on. *)
PageStep(t) == Told(t) /\ PagesInv(t)'

(* A thread that does not page has nothing to say. *)
LEMMA NoPages ==
    ASSUME NEW t \in Threads, Told(t),
           pc'[t] \in {"idle", "call", "callAll", "get", "put", "cas", "commit"}
    PROVE  PageStep(t)
  BY DEF PageStep, PagesInv

(* An operation that ends pages no more. *)
LEMMA FinishPages ==
    ASSUME NEW t \in Threads, Inv, Finish(t)
    PROVE  PageStep(t)
  BY FinishTold, NoPages

(* Only the thread itself goes on. *)
LEMMA AlonePages ==
    ASSUME NEW t \in Threads, Inv, NEW from, NEW to, Goto(t, from, to), NoWrite,
           \A u \in Threads : u # t => op'[u] = op[u]
    PROVE  Told(t) /\ pc'[t] = to
<1>1. pc'[t] = to /\ \A u \in Threads : u # t => pc'[u] = pc[u]
  BY DEF Goto, Inv, ShapeInv
<1> QED
  BY <1>1, QuietTold DEF NoWrite

(* One turn of the loop over the keys of an operation. *)
LEMMA AdvancePages ==
    ASSUME NEW t \in Threads, Inv, op[t].values \in Batches, NEW from,
           NEW again \in {"call", "get"}, Advance(t, from, again),
           NEW row, NEW lossy, Write(t, For({CurrentKey(t)}, row), lossy)
    PROVE  PageStep(t)
<1> DEFINE to == IF Done(t) THEN "idle" ELSE again
           mine == IF Done(t) THEN Blank
                   ELSE [op[t] EXCEPT !.values = Remaining(t), !.row = NoRow, !.start = << >>]
           changed == For({CurrentKey(t)}, row)
<1>0. CurrentKey(t) \in Keys
  BY LoopKey
<1>1. DOMAIN changed = {CurrentKey(t)} /\ DOMAIN changed \subseteq Keys
  BY <1>0 DEF For
<1>2. pc' = [pc EXCEPT ![t] = to] /\ Tell(t, mine, DOMAIN changed)
  BY <1>1 DEF Advance, Goto
<1>3. Write(t, changed, lossy)
  OBVIOUS
<1>4. to \in {"idle", "call", "get"}
  OBVIOUS
<1> HIDE DEF to, mine, changed
<1>5. Told(t) /\ pc'[t] = to
  BY <1>1, <1>2, <1>3, WriteTold
<1> QED
  BY <1>4, <1>5, NoPages

(* The steps the bindings share write a key at a time. *)
LEMMA CommonPages ==
    ASSUME NEW t \in Threads, Inv, CommonStep(t)
    PROVE  PageStep(t)
<1>0. pc[t] \in Writing => op[t].values \in Batches
  BY DEF Inv, ThreadInv
<1>1. CASE Exec(t)
  <2>1. pc[t] = "call" /\ Advance(t, "call", "call")
    BY <1>1 DEF Exec
  <2>2. PICK row, lossy : Write(t, For({CurrentKey(t)}, row), lossy)
    BY <1>1 DEF Exec
  <2>3. op[t].values \in Batches
    BY <1>0, <2>1 DEF Writing
  <2> QED
    BY <2>1, <2>2, <2>3, AdvancePages
<1>2. CASE PutRow(t)
  <2>1. pc[t] = "put" /\ Advance(t, "put", "get")
    BY <1>2 DEF PutRow
  <2>2. PICK row, lossy : Write(t, For({CurrentKey(t)}, row), lossy)
    BY <1>2 DEF PutRow
  <2>3. op[t].values \in Batches
    BY <1>0, <2>1 DEF Writing
  <2> QED
    BY <2>1, <2>2, <2>3, AdvancePages
<1>3. CASE ExecAll(t)
  <2> DEFINE changed == [k \in DOMAIN op[t].values |->
                            Effect(op[t].how, store[k], op[t].values[k])]
  <2>1. /\ pc[t] = "callAll" /\ pc' = [pc EXCEPT ![t] = "idle"]
        /\ Write(t, changed, {}) /\ Tell(t, Blank, DOMAIN changed)
    BY <1>3 DEF ExecAll, Goto
  <2>2. op[t].values \in Batches
    BY <1>0, <2>1 DEF Writing
  <2>3. DOMAIN changed \subseteq Keys
    BY <2>2, LoopKey
  <2> HIDE DEF changed
  <2>4. Told(t) /\ pc'[t] = "idle"
    BY <2>1, <2>3, WriteTold
  <2> QED
    BY <2>4, NoPages
<1>4. CASE GetRow(t)
  <2>1. Goto(t, "get", "put") /\ NoWrite
    BY <1>4 DEF GetRow
  <2>2. \A u \in Threads : u # t => op'[u] = op[u]
    BY <1>4 DEF GetRow, Inv, ShapeInv
  <2>3. Told(t) /\ pc'[t] = "put"
    BY <2>1, <2>2, AlonePages
  <2> QED
    BY <2>3, NoPages
<1>5. CASE CallFails(t)
  BY <1>5, FinishPages DEF CallFails
<1> QED
  BY <1>1, <1>2, <1>3, <1>4, <1>5 DEF CommonStep

(* The Scan of s3 begins with the start key, ... *)
LEMMA S3ScanPages ==
    ASSUME NEW t \in Threads, Inv, NEW start \in 0..MaxKey, NEW count \in Keys,
           S3Scan(t, start, count)
    PROVE  PageStep(t)
<1>1. PICK unread \in SUBSET {start} :
        LET first == IF start \in Present \ unread THEN <<start>> ELSE << >>
        IN /\ Begin(t, IF Len(first) < count THEN "list" ELSE "scanned",
                    [Blank EXCEPT !.kind = "scan", !.cursor = start, !.count = count,
                                  !.out = first, !.began = From(start), !.since = unread])
           /\ NoWrite
  BY DEF S3Scan
<1> DEFINE first == IF start \in Present \ unread THEN <<start>> ELSE << >>
           where == IF Len(first) < count THEN "list" ELSE "scanned"
           locals == [Blank EXCEPT !.kind = "scan", !.cursor = start, !.count = count,
                                   !.out = first, !.began = From(start), !.since = unread]
<1>2. Begin(t, where, locals) /\ NoWrite
  BY <1>1
<1> HIDE DEF first
<1>3. /\ locals.kind = "scan" /\ locals.cursor = start /\ locals.count = count
      /\ locals.out = first /\ locals.began = From(start) /\ locals.since = unread
  BY SMT DEF Blank
<1> HIDE DEF where, locals
<1>4. Told(t) /\ pc'[t] = where /\ op'[t] = locals
  BY <1>2, BeginTold
<1>5. Present' = Present /\ Present \subseteq Keys
  BY <1>2 DEF Present, NoWrite
<1>6. start \in Nat /\ count \in Nat \ {0} /\ 1 <= count
  BY RowStoreAssumption, SMT DEF Keys
<1>7. \A k \in Present : /\ k >= start <=> start <= k
                         /\ k > start => start <= k
                         /\ start <= k => k = start \/ start < k
                         /\ start <= k /\ k <= start => k = start
  BY <1>5, <1>6, KeysFinite, SMT
<1>8. From(start) = {k \in Present : start <= k}
  BY <1>7 DEF From
<1>9. /\ Stable(op'[t]) = From(start) \ unread /\ From(start) \subseteq Keys
       /\ Stable(op'[t]) \subseteq Present'
       /\ \A k \in Present' : k > start => k \in From(start) \cup unread
  BY <1>3, <1>4, <1>5, <1>7, <1>8 DEF Stable
<1>10. CASE start \in Present \ unread
  <2>1. first = <<start>> /\ start \in Keys
    BY <1>5, <1>10 DEF first
  <2>2. /\ first \in Seq(Keys) /\ Len(first) = 1 /\ first[1] = start
        /\ 1..Len(first) = {1} /\ DOMAIN first = {1}
    BY <2>1, SMT
  <2>3. Range(first) = {start} /\ start <= start
    <3>1. start <= start
      BY <1>6, SMT
    <3> QED
      BY <2>2, <3>1 DEF Range
  <2>4. Increasing(first)
    <3>1. ~(1 < 1)
      BY SMT
    <3> QED
      BY <2>2, <3>1 DEF Increasing
  <2>5. ScanSeen(op[t])'
    <3>1. start \in From(start)
      BY <1>8, <1>10, <2>3
    <3> QED
      BY <1>3, <1>4, <1>6, <1>9, <2>2, <2>3, <2>4, <3>1 DEF ScanSeen
  <2>6. CASE Len(first) < count
    <3>1. ScanLists(op[t])'
      BY <1>3, <1>4, <1>7, <1>8, <2>3, <2>6 DEF ScanLists, Stable
    <3>2. pc'[t] = "list"
      BY <1>4, <2>6 DEF where
    <3> QED
      BY <1>4, <2>5, <3>1, <3>2 DEF PageStep, PagesInv, ScanPages
  <2>7. CASE ~(Len(first) < count)
    <3>1. Len(first) = count
      BY <1>6, <2>2, <2>7, SMT
    <3>2. first[Len(first)] = start
      BY <2>2
    <3>3. \A k \in Stable(op'[t]) : k = start \/ start < k
      BY <1>7, <1>8, <1>9
    <3>4. Scanned(op[t])'
      BY <1>3, <1>4, <2>3, <3>1, <3>2, <3>3 DEF Scanned
    <3>5. pc'[t] = "scanned"
      BY <1>4, <2>7 DEF where
    <3> QED
      BY <1>4, <2>5, <3>4, <3>5 DEF PageStep, PagesInv, ScanPages
  <2> QED
    BY <2>6, <2>7
<1>11. CASE start \notin Present \ unread
  <2>1. first = << >>
    BY <1>11 DEF first
  <2>2. first \in Seq(Keys) /\ Len(first) = 0 /\ DOMAIN first = {} /\ 1..Len(first) = {}
    BY <2>1, SMT
  <2>3. Range(first) = {} /\ Increasing(first)
    BY <2>2 DEF Range, Increasing
  <2>4. Len(first) < count /\ Len(first) <= count
    BY <1>6, <2>2, SMT
  <2>5. ScanSeen(op[t])'
    BY <1>3, <1>4, <1>6, <1>9, <2>2, <2>3, <2>4 DEF ScanSeen
  <2>6. ScanLists(op[t])'
    BY <1>3, <1>4, <1>7, <1>8, <1>11, <2>3, <2>4 DEF ScanLists, Stable
  <2>7. pc'[t] = "list"
    BY <1>4, <2>4 DEF where
  <2> QED
    BY <1>4, <2>5, <2>6, <2>7 DEF PageStep, PagesInv, ScanPages
<1> QED
  BY <1>10, <1>11

(* ... lists a page, ... *)
LEMMA S3ListPages ==
    ASSUME NEW t \in Threads, Inv, PagesInv(t), S3List(t)
    PROVE  PageStep(t)
<1> DEFINE o == op[t]
           keys == {k \in Present : k > o.cursor}
           n == Min({PageSize, Wanted(t)})
           listed == FirstOf(n, keys)
           further == Cardinality(keys) > Len(listed)
           at == IF listed = << >> THEN o.cursor ELSE listed[Len(listed)]
           to == IF listed = << >> THEN "scanned" ELSE "page"
<1>1. DOMAIN op = Threads /\ DOMAIN op[t] = Parts
  BY DEF Inv, ShapeInv
<1>2. /\ Goto(t, "list", to) /\ NoWrite
      /\ op' = [op EXCEPT ![t].page = listed, ![t].more = further, ![t].cursor = at]
  BY <1>1 DEF S3List
<1>3. ScanSeen(o) /\ ScanLists(o)
  BY <1>2 DEF PagesInv, ScanPages, Goto
<1>4. n \in Nat \ {0} /\ n <= o.count - Len(o.out)
  <2>1. Len(o.out) \in Nat /\ o.count \in Nat /\ Len(o.out) < o.count
    BY <1>3, LenProperties DEF ScanSeen, ScanLists
  <2>2. Wanted(t) \in Nat \ {0} /\ Wanted(t) = o.count - Len(o.out)
    BY <2>1, SMT DEF Wanted
  <2>3. PageSize \in Nat /\ PageSize # 0
    BY PageAssumption
  <2>4. n \in {PageSize, Wanted(t)} /\ n \in Nat /\ n <= Wanted(t)
    BY <2>2, <2>3, MinOfTwo
  <2> QED
    BY <2>2, <2>3, <2>4
<1>5. keys \in SUBSET Keys /\ Present \subseteq Keys /\ Present' = Present
  BY <1>2 DEF Present, NoWrite
<1> HIDE DEF n, keys
<1>6. IsPage(keys, n, listed)
  BY <1>4, <1>5, PageIs
<1>7. \A k \in Keys : k \in keys <=> k \in Present /\ k > o.cursor
  BY <1>5 DEF keys
<1> HIDE DEF listed, further, at, to
<1>8. /\ op'[t].kind = o.kind /\ op'[t].count = o.count /\ op'[t].out = o.out
      /\ op'[t].began = o.began /\ op'[t].since = o.since
      /\ op'[t].page = listed /\ op'[t].more = further /\ op'[t].cursor = at
  BY <1>1, <1>2, SMT DEF Parts
<1>9. \A u \in Threads : u # t => op'[u] = op[u]
  BY <1>1, <1>2
<1>10. Told(t) /\ pc'[t] = to
  BY <1>2, <1>9, AlonePages
<1>11. Stable(op'[t]) = Stable(o) /\ Stable(o) \subseteq Present
  BY <1>3, <1>8 DEF Stable, ScanSeen
<1>12. \A k \in Keys : k > o.cursor \/ k <= o.cursor
  <2>1. o.cursor \in Nat /\ \A k \in Keys : k \in Nat
    BY <1>3, KeysFinite DEF ScanSeen
  <2> QED
    BY <2>1, SMT
<1>13. CASE listed = << >>
  <2>1. keys = {} /\ at = o.cursor /\ pc'[t] = "scanned"
    BY <1>6, <1>10, <1>13 DEF IsPage, at, to
  <2>2. ScanSeen(op[t])'
    BY <1>3, <1>5, <1>8, <1>11, <2>1 DEF ScanSeen
  <2>3. Scanned(op[t])'
    BY <1>3, <1>5, <1>7, <1>8, <1>11, <1>12, <2>1 DEF Scanned, ScanLists
  <2> QED
    BY <1>10, <2>1, <2>2, <2>3 DEF PageStep, PagesInv, ScanPages
<1>14. CASE listed # << >>
  <2>1. /\ listed \in Seq(Keys) /\ Len(listed) <= n
        /\ Increasing(listed) /\ Range(listed) \subseteq keys
        /\ \A k \in keys : k \in Range(listed) \/ listed[Len(listed)] < k
        /\ ~further => keys \subseteq Range(listed)
    BY <1>6, <1>14 DEF IsPage, further
  <2>2. at = listed[Len(listed)] /\ pc'[t] = "page"
    BY <1>10, <1>14 DEF at, to
  <2>3. Len(listed) \in Nat \ {0} /\ DOMAIN listed = 1..Len(listed)
    BY <1>14, <2>1, EmptySeq, LenProperties
  <2>4. /\ Len(listed) \in 1..Len(listed)
        /\ \A i \in 1..Len(listed) : i = Len(listed) \/ i < Len(listed)
    BY <2>3, LastIndex
  <2>5. at \in Range(listed) /\ at \in keys
    BY <2>1, <2>2, <2>3, <2>4 DEF Range
  <2>6. at \in Keys /\ at \in Nat /\ at > o.cursor
    BY <1>5, <1>7, <2>5, KeysFinite
  <2>7. \A y \in Range(listed) : y = at \/ y < at
    BY <2>1, <2>2, <2>3, <2>4 DEF Range, Increasing
  <2>8. o.cursor \in Nat /\ \A k \in Keys : k \in Nat
    BY <1>3, KeysFinite DEF ScanSeen
  <2>9. \A k \in Keys : /\ k = at \/ k < at => k <= at
                        /\ k <= o.cursor => k <= at
                        /\ k > at => k > o.cursor
                        /\ ~(k <= at /\ at < k)
    BY <2>6, <2>8, SMT
  <2>10. \A x, y \in Keys : x <= o.cursor /\ y > o.cursor => x < y
    BY <2>8, SMT
  <2>11. Range(o.out) \subseteq Keys /\ Range(listed) \subseteq Keys
    <3>1. Range(o.out) \subseteq Keys
      BY <1>3, RangeIn DEF ScanSeen
    <3> QED
      BY <1>5, <2>1, <3>1
  <2>12. ScanSeen(op[t])'
    BY <1>3, <1>5, <1>8, <1>11, <2>6, <2>9 DEF ScanSeen
  <2>13. ScanFetches(op[t])'
    <3>1. Len(o.out) + Len(listed) <= o.count
      <4>1. Len(o.out) \in Nat /\ o.count \in Nat
        BY <1>3, LenProperties DEF ScanSeen
      <4> QED
        BY <1>4, <2>1, <2>3, <4>1, SMT
    <3>2. Range(listed) \subseteq o.began \cup o.since
      BY <1>3, <1>5, <1>7, <2>1 DEF ScanSeen
    <3>3. \A x \in Range(o.out), y \in Range(listed) : x < y
      BY <1>3, <1>7, <2>1, <2>10, <2>11 DEF ScanLists
    <3>4. \A y \in Range(listed) : y <= at
      BY <2>7, <2>9, <2>11
    <3>5. \A k \in Stable(o) : k <= at => k \in Range(o.out) \cup Range(listed)
      BY <1>3, <1>5, <1>7, <1>11, <1>12, <2>1, <2>2, <2>9 DEF ScanLists
    <3>6. ~further => \A k \in Stable(o) : k <= at
      BY <1>5, <1>7, <1>11, <1>12, <2>1, <2>9, <3>4
    <3> QED
      BY <1>8, <1>11, <1>14, <2>1, <3>1, <3>2, <3>3, <3>4, <3>5, <3>6 DEF ScanFetches
  <2> QED
    BY <1>10, <2>2, <2>12, <2>13 DEF PageStep, PagesInv, ScanPages
<1> QED
  BY <1>13, <1>14

(* ... and reads the objects on it. *)
LEMMA S3FetchPages ==
    ASSUME NEW t \in Threads, Inv, PagesInv(t), pc[t] = "page", S3Fetch(t)
    PROVE  PageStep(t)
<1> DEFINE o == op[t]
           k == Head(o.page)
           rest == Tail(o.page)
<1>1. DOMAIN op = Threads /\ DOMAIN op[t] = Parts
  BY DEF Inv, ShapeInv
<1>2. PICK unread \in SUBSET {k} :
        LET got == IF k \in Present \ unread THEN Append(o.out, k) ELSE o.out
            further == o.more /\ Len(got) < o.count
        IN /\ op' = [op EXCEPT ![t].out = got, ![t].page = rest, ![t].since = @ \cup unread]
           /\ Goto(t, "page", IF Len(o.page) > 1 THEN "page"
                              ELSE IF further THEN "list" ELSE "scanned")
           /\ NoWrite
  BY <1>1 DEF S3Fetch
<1> DEFINE got == IF k \in Present \ unread THEN Append(o.out, k) ELSE o.out
           later == o.since \cup unread
           to == IF Len(o.page) > 1 THEN "page"
                 ELSE IF o.more /\ Len(got) < o.count THEN "list" ELSE "scanned"
<1> HIDE DEF k, rest, got
<1>3. /\ op' = [op EXCEPT ![t].out = got, ![t].page = rest, ![t].since = @ \cup unread]
      /\ Goto(t, "page", to) /\ NoWrite
  BY <1>2 DEF got
<1> HIDE DEF to
<1>4. /\ op'[t].kind = o.kind /\ op'[t].count = o.count /\ op'[t].out = got
      /\ op'[t].began = o.began /\ op'[t].since = later
      /\ op'[t].page = rest /\ op'[t].more = o.more /\ op'[t].cursor = o.cursor
  BY <1>1, <1>3, SMT DEF Parts
<1> HIDE DEF later
<1>5. \A u \in Threads : u # t => op'[u] = op[u]
  BY <1>1, <1>3
<1>6. Told(t) /\ pc'[t] = to
  BY <1>3, <1>5, AlonePages
<1>7. ScanSeen(o) /\ ScanFetches(o)
  BY DEF PagesInv, ScanPages
<1>8. /\ k \in Keys /\ rest \in Seq(Keys) /\ Len(rest) = Len(o.page) - 1
      /\ Len(o.page) \in Nat \ {0}
      /\ Increasing(rest) /\ Range(o.page) = {k} \cup Range(rest)
      /\ \A x \in Range(rest) : k < x
  BY <1>7, WithoutHead DEF ScanFetches, k, rest
<1>9. Len(o.out) \in Nat /\ o.count \in Nat \ {0} /\ Len(o.out) + Len(o.page) <= o.count
  BY <1>7, LenProperties DEF ScanSeen, ScanFetches
<1>10. /\ got \in Seq(Keys) /\ Increasing(got)
       /\ Len(got) \in Nat /\ Len(got) <= Len(o.out) + 1
       /\ Range(o.out) \subseteq Range(got) /\ Range(got) \subseteq Range(o.out) \cup {k}
       /\ k \in Present \ unread => k \in Range(got)
  <2>1. CASE k \in Present \ unread
    <3>1. o.out \in Seq(Keys) /\ Increasing(o.out) /\ \A x \in Range(o.out) : x < k
      BY <1>7, <1>8 DEF ScanSeen, ScanFetches
    <3>2. /\ got \in Seq(Keys) /\ Len(got) = Len(o.out) + 1
          /\ Increasing(got) /\ Range(got) = Range(o.out) \cup {k}
      BY <1>8, <2>1, <3>1, AppendKey DEF got
    <3>3. Len(got) \in Nat /\ Len(got) <= Len(o.out) + 1
      BY <1>9, <3>2, SMT
    <3> QED
      BY <3>2, <3>3
  <2>2. CASE k \notin Present \ unread
    <3>1. got = o.out
      BY <2>2 DEF got
    <3>2. Len(o.out) <= Len(o.out) + 1
      BY <1>9, SMT
    <3> QED
      BY <1>7, <1>9, <2>2, <3>1, <3>2 DEF ScanSeen
  <2> QED
    BY <2>1, <2>2
<1>11. Present' = Present /\ o.since \subseteq later /\ unread \subseteq later
  BY <1>3 DEF Present, NoWrite, later
<1>12. /\ Stable(op'[t]) \subseteq Stable(o) /\ Stable(o) \subseteq Present
       /\ Stable(op'[t]) \cap unread = {}
  BY <1>4, <1>7, <1>11 DEF Stable, ScanSeen
<1>13. /\ Len(got) <= o.count /\ Len(got) + Len(rest) <= o.count
       /\ Len(o.page) > 1 \/ Len(rest) = 0
       /\ Len(o.page) > 1 => Len(rest) # 0
  <2>1. ASSUME NEW a \in Nat \ {0}, NEW c \in Nat, NEW d \in Nat, NEW e \in Nat,
               d <= c + 1, c + a <= e
        PROVE  d <= e /\ d + (a - 1) <= e /\ (a > 1 \/ a - 1 = 0) /\ (a > 1 => a - 1 # 0)
    BY <2>1, SMT
  <2>2. PICK a \in Nat \ {0}, c \in Nat, d \in Nat, e \in Nat :
          /\ a = Len(o.page) /\ c = Len(o.out) /\ d = Len(got) /\ e = o.count
          /\ d <= c + 1 /\ c + a <= e
    BY <1>8, <1>9, <1>10
  <2>3. d <= e /\ d + (a - 1) <= e /\ (a > 1 \/ a - 1 = 0) /\ (a > 1 => a - 1 # 0)
    BY <2>1, <2>2
  <2> QED
    BY <1>8, <2>2, <2>3
<1>14. ScanSeen(op[t])'
  <2>1. Range(got) \subseteq o.began \cup later
    BY <1>7, <1>8, <1>10, <1>11 DEF ScanSeen, ScanFetches
  <2> QED
    BY <1>4, <1>7, <1>10, <1>11, <1>12, <1>13, <2>1 DEF ScanSeen
<1>15. \A x \in Range(got) : x <= o.cursor
  <2>1. \A x \in Range(o.out) : x < k
    BY <1>7, <1>8 DEF ScanFetches
  <2>2. k <= o.cursor /\ o.cursor \in Nat /\ \A x \in Keys : x \in Nat
    BY <1>7, <1>8, KeysFinite DEF ScanFetches, ScanSeen
  <2>3. \A x \in Keys : x < k => x <= o.cursor
    BY <1>8, <2>2, SMT
  <2>4. Range(o.out) \subseteq Keys
    BY <1>7, RangeIn DEF ScanSeen
  <2> QED
    BY <1>10, <2>1, <2>2, <2>3, <2>4
<1>16. \A x \in Stable(op'[t]) : x <= o.cursor => x \in Range(got) \cup Range(rest)
  BY <1>7, <1>8, <1>10, <1>12 DEF ScanFetches
<1>17. ~o.more => \A x \in Stable(op'[t]) : x <= o.cursor
  BY <1>7, <1>12 DEF ScanFetches
<1>18. CASE Len(o.page) > 1
  <2>1. rest # << >>
    BY <1>13, <1>18, SMT
  <2>2. \A x \in Range(got), y \in Range(rest) : x < y
    BY <1>7, <1>8, <1>10 DEF ScanFetches
  <2>3. Range(rest) \subseteq o.began \cup later /\ \A y \in Range(rest) : y <= o.cursor
    BY <1>7, <1>8, <1>11 DEF ScanFetches
  <2>4. ScanFetches(op[t])'
    BY <1>4, <1>8, <1>13, <1>16, <1>17, <2>1, <2>2, <2>3 DEF ScanFetches
  <2>5. pc'[t] = "page"
    BY <1>6, <1>18 DEF to
  <2> QED
    BY <1>6, <1>14, <2>4, <2>5 DEF PageStep, PagesInv, ScanPages
<1>19. CASE ~(Len(o.page) > 1)
  <2>1. Range(rest) = {}
    <3>1. DOMAIN rest = 1..Len(rest) /\ Len(rest) = 0
      BY <1>8, <1>13, <1>19, LenProperties
    <3>2. DOMAIN rest = {}
      BY <3>1, SMT
    <3> QED
      BY <3>2 DEF Range
  <2>2. \A x \in Stable(op'[t]) : x <= o.cursor => x \in Range(got)
    BY <1>16, <2>1
  <2>3. CASE o.more /\ Len(got) < o.count
    <3>1. ScanLists(op[t])'
      BY <1>4, <1>15, <2>2, <2>3 DEF ScanLists
    <3>2. pc'[t] = "list"
      BY <1>6, <1>19, <2>3 DEF to
    <3> QED
      BY <1>6, <1>14, <3>1, <3>2 DEF PageStep, PagesInv, ScanPages
  <2>4. CASE ~(o.more /\ Len(got) < o.count)
    <3>1. ASSUME ~(Len(got) < o.count), NEW x \in Stable(op'[t]), ~(x <= o.cursor)
          PROVE  Len(got) = o.count /\ got[Len(got)] < x
      <4>1. Len(got) = o.count /\ Len(got) \in 1..Len(got)
        BY <1>9, <1>10, <1>13, <3>1, SMT
      <4>2. got[Len(got)] \in Range(got) /\ got[Len(got)] \in Keys
        BY <1>10, <4>1, LenProperties DEF Range
      <4>3. got[Len(got)] <= o.cursor
        BY <1>15, <4>2
      <4>4. x \in Keys /\ o.cursor \in Nat
        BY <1>7, <1>12 DEF ScanSeen, Present
      <4>5. x \in Nat /\ got[Len(got)] \in Nat
        BY <4>2, <4>4, KeysFinite
      <4> QED
        BY <3>1, <4>1, <4>3, <4>4, <4>5, SMT
    <3>2. Scanned(op[t])'
      BY <1>4, <1>17, <2>2, <2>4, <3>1 DEF Scanned
    <3>3. pc'[t] = "scanned"
      BY <1>6, <1>19, <2>4 DEF to
    <3> QED
      BY <1>6, <1>14, <3>2, <3>3 DEF PageStep, PagesInv, ScanPages
  <2> QED
    BY <2>3, <2>4
<1> QED
  BY <1>18, <1>19

(* A step of the s3 binding. *)
LEMMA ObjectPages ==
    ASSUME NEW t \in Threads, Inv, PagesInv(t), ObjectStep(t), S3
    PROVE  PageStep(t)
<1>0. pc[t] # "object" /\ binding # "minio"
  BY DEF Inv, ThreadInv, LabelOf, S3
<1>1. ASSUME NEW where \in {"call", "get"}, NEW kind, NEW how, NEW values,
             Call(t, where, kind, how, values)
      PROVE  PageStep(t)
  <2>1. PICK locals : Begin(t, where, locals) /\ NoWrite
    BY <1>1 DEF Call
  <2>2. Told(t) /\ pc'[t] = where
    BY <2>1, BeginTold
  <2> QED
    BY <2>2, NoPages
<1>2. ASSUME NEW keys \in KeySets, S3Insert(t, keys) \/ S3Delete(t, keys) PROVE PageStep(t)
  BY <1>1, <1>2 DEF S3Insert, S3Delete
<1>3. ASSUME NEW keys \in KeySets, NEW f \in SomeFields, S3Update(t, keys, f) PROVE PageStep(t)
  BY <1>1, <1>3 DEF S3Update
<1>4. ASSUME NEW start \in 0..MaxKey, NEW count \in Keys, S3Scan(t, start, count)
      PROVE  PageStep(t)
  BY <1>4, S3ScanPages
<1>5. CASE S3ReadFails(t)
  <2>1. Goto(t, "get", "put") /\ NoWrite
    BY <1>5 DEF S3ReadFails
  <2>2. \A u \in Threads : u # t => op'[u] = op[u]
    BY <1>5 DEF S3ReadFails, Inv, ShapeInv
  <2>3. Told(t) /\ pc'[t] = "put"
    BY <2>1, <2>2, AlonePages
  <2> QED
    BY <2>3, NoPages
<1>6. CASE S3List(t)
  BY <1>6, S3ListPages
<1>7. CASE pc[t] = "page" /\ S3Fetch(t)
  BY <1>7, S3FetchPages
<1>8. CASE S3ScanReturns(t)
  BY <1>8, FinishPages DEF S3ScanReturns
<1>9. ~PutObjectFails(t) /\ \A f \in Fields : ~PutObject(t, f)
  BY <1>0 DEF PutObject, PutObjectFails
<1>10. \A keys \in KeySets : /\ ~MinioInsert(t, keys) /\ ~MinioDelete(t, keys)
                             /\ \A f \in SomeFields : ~MinioUpdate(t, keys, f)
  BY <1>0 DEF MinioInsert, MinioDelete, MinioUpdate
<1> QED
  BY <1>2, <1>3, <1>4, <1>5, <1>6, <1>7, <1>8, <1>9, <1>10 DEF ObjectStep

-----------------------------------------------------------------------------
(* TiKV *)

(* The operations that write begin. *)
LEMMA WriteBeginsPages ==
    ASSUME NEW t \in Threads, Inv, NEW where \in {"idle", "cas", "get", "apply", "commit"},
           NEW locals, Begin(t, where, locals), NoWrite, locals.kind # "clean"
    PROVE  PageStep(t)
<1>1. Told(t) /\ pc'[t] = where /\ op'[t] = locals
  BY BeginTold
<1> QED
  BY <1>1 DEF PageStep, PagesInv

(* An insert, a delete or a batch of the raw client, ... *)
LEMMA RawWritePages ==
    ASSUME NEW t \in Threads, Inv, NEW kind \in {"replace", "merge"}, NEW values,
           RawWrite(t, kind, values)
    PROVE  PageStep(t)
<1> DEFINE locals == [Blank EXCEPT !.kind = kind, !.values = values, !.writes = values]
<1>1. Begin(t, "apply", locals) /\ NoWrite
  BY DEF RawWrite
<1>2. locals.kind = kind
  BY SMT DEF Blank
<1>3. locals.kind # "clean"
  BY <1>2
<1> HIDE DEF locals
<1> QED
  BY <1>1, <1>3, WriteBeginsPages

(* ... one in a transaction, ... *)
LEMMA TxnWritePages ==
    ASSUME NEW t \in Threads, Inv, NEW kind \in {"replace", "merge"}, NEW values, NEW writes,
           TxnWrite(t, kind, values, writes)
    PROVE  PageStep(t)
<1> DEFINE locals == [Blank EXCEPT !.kind = kind, !.values = values,
                                   !.writes = writes, !.start = version]
<1>1. Begin(t, "commit", locals) /\ NoWrite
  BY DEF TxnWrite
<1>2. locals.kind = kind
  BY SMT DEF Blank
<1>3. locals.kind # "clean"
  BY <1>2
<1> HIDE DEF locals
<1> QED
  BY <1>1, <1>3, WriteBeginsPages

(* ... a read, ... *)
LEMMA RawReadPages ==
    ASSUME NEW t \in Threads, Inv, NEW k, RawRead(t, k)
    PROVE  PageStep(t)
<1>1. Begin(t, "idle", Blank) /\ NoWrite
  BY DEF RawRead
<1>2. Blank.kind # "clean"
  BY SMT DEF Blank, Parts
<1> QED
  BY <1>1, <1>2, WriteBeginsPages

(* ... and an update of the raw client. *)
LEMMA RawUpdatePages ==
    ASSUME NEW t \in Threads, Inv, NEW k, NEW fields, RawUpdate(t, k, fields)
    PROVE  PageStep(t)
<1> DEFINE locals == [Blank EXCEPT !.kind = "merge", !.how = "replace",
                                   !.values = For({k}, Row(ops + 1, fields))]
           hit == binding = "cas" /\ cache[t].key = k
           mine == IF hit THEN [locals EXCEPT !.row = cache[t].row] ELSE locals
           where == IF hit THEN "cas" ELSE "get"
<1>1. Begin(t, where, mine) /\ NoWrite
  BY DEF RawUpdate
<1>2. locals.kind = "merge" /\ [locals EXCEPT !.row = cache[t].row].kind = "merge"
  BY SMT DEF Blank
<1> HIDE DEF locals
<1>3. mine.kind # "clean" /\ where \in {"cas", "get"}
  BY <1>2
<1> HIDE DEF mine, where
<1> QED
  BY <1>1, <1>3, WriteBeginsPages

(* A compare-and-swap writes its key, or reads it again. *)
LEMMA CompareAndSwapPages ==
    ASSUME NEW t \in Threads, Inv, CompareAndSwap(t)
    PROVE  PageStep(t)
<1> DEFINE changed == For({CurrentKey(t)}, Merge(op[t].row, op[t].values[CurrentKey(t)]))
<1>1. \/ Goto(t, "cas", "idle") /\ Write(t, changed, {}) /\ Tell(t, Blank, {CurrentKey(t)})
      \/ Goto(t, "cas", "get") /\ NoWrite /\ op' = op
  BY DEF CompareAndSwap
<1>2. pc[t] = "cas"
  BY <1>1 DEF Goto
<1>3. op[t].values \in Batches
  BY <1>2 DEF Inv, ThreadInv, Writing
<1>4. CurrentKey(t) \in Keys
  BY <1>3, LoopKey
<1>5. DOMAIN changed = {CurrentKey(t)} /\ DOMAIN changed \subseteq Keys
  BY <1>4 DEF For
<1> HIDE DEF changed
<1>6. CASE Goto(t, "cas", "idle") /\ Write(t, changed, {}) /\ Tell(t, Blank, {CurrentKey(t)})
  <2>1. pc' = [pc EXCEPT ![t] = "idle"] /\ Tell(t, Blank, DOMAIN changed)
    BY <1>5, <1>6 DEF Goto
  <2>2. Told(t) /\ pc'[t] = "idle"
    BY <1>5, <1>6, <2>1, WriteTold
  <2> QED
    BY <2>2, NoPages
<1>7. CASE Goto(t, "cas", "get") /\ NoWrite /\ op' = op
  <2>1. Told(t) /\ pc'[t] = "get"
    BY <1>7, AlonePages
  <2> QED
    BY <2>1, NoPages
<1> QED
  BY <1>1, <1>6, <1>7

(* A commit writes the keys of its transaction, or none. *)
LEMMA CommitPages ==
    ASSUME NEW t \in Threads, Inv, Commit(t)
    PROVE  PageStep(t)
<1>1. pc[t] = "commit" /\ pc' = [pc EXCEPT ![t] = "idle"] /\ binding = "txn"
  BY DEF Commit, Goto, Txn
<1>2. DOMAIN op[t].writes \subseteq Keys
  <2>0. ThreadInv(t)
    BY DEF Inv
  <2>1. TxnInv(op[t]) /\ op[t].values \in Batches
    BY <1>1, <2>0 DEF ThreadInv, Writing
  <2>2. DOMAIN op[t].values \subseteq Keys
    BY <2>1, LoopKey
  <2> QED
    BY <2>1, <2>2 DEF TxnInv
<1>3. CASE /\ Write(t, op[t].writes, Truncated(t, op[t].writes))
           /\ Tell(t, Blank, DOMAIN op[t].writes)
  <2>1. PICK changed, lossy : /\ DOMAIN changed \subseteq Keys /\ Write(t, changed, lossy)
                              /\ Tell(t, Blank, DOMAIN changed)
    BY <1>2, <1>3
  <2>2. Told(t) /\ pc'[t] = "idle"
    BY <1>1, <2>1, WriteTold
  <2> QED
    BY <2>2, NoPages
<1>4. CASE NoWrite /\ op' = [op EXCEPT ![t] = Blank]
  <2>1. Goto(t, "commit", "idle") /\ \A u \in Threads : u # t => op'[u] = op[u]
    BY <1>4 DEF Commit, Inv, ShapeInv
  <2>2. Told(t) /\ pc'[t] = "idle"
    BY <1>4, <2>1, AlonePages
  <2> QED
    BY <2>2, NoPages
<1> QED
  BY <1>3, <1>4 DEF Commit

(* DeleteRange begins with the whole table. *)
LEMMA RawCleanPages ==
    ASSUME NEW t \in Threads, Inv, RawClean(t)
    PROVE  PageStep(t)
<1> DEFINE gone == For(Keys, NoRow)
           locals == [Blank EXCEPT !.kind = "clean", !.began = Present,
                                   !.values = gone, !.writes = gone]
<1>1. Begin(t, "apply", locals) /\ NoWrite
  BY DEF RawClean
<1>2. locals.writes = gone
  BY SMT DEF Blank
<1>3. DOMAIN gone = Keys /\ \A k \in Keys : gone[k] = NoRow
  BY DEF For
<1> HIDE DEF locals, gone
<1>4. Told(t) /\ pc'[t] = "apply" /\ op'[t] = locals
  BY <1>1, BeginTold
<1>5. Present' \subseteq Keys
  BY DEF Present
<1>6. RangePages(t)'
  BY <1>2, <1>3, <1>4, <1>5 DEF RangePages
<1> QED
  BY <1>4, <1>6 DEF PageStep, PagesInv

(* A region is written. *)
LEMMA ApplyPages ==
    ASSUME NEW t \in Threads, Inv, PagesInv(t), NEW k \in Keys, Apply(t, k)
    PROVE  PageStep(t)
<1> DEFINE left == DOMAIN op[t].writes \ {k}
           rest == [j \in left |-> op[t].writes[j]]
           done == left = {}
           clean == op[t].kind = "clean"
           next == [op[t] EXCEPT !.writes = rest]
           mine == IF done /\ ~clean THEN Blank ELSE next
           to == IF ~done THEN "apply" ELSE IF clean THEN "cleaned" ELSE "idle"
           changed == For({k}, op[t].writes[k])
<1>1. DOMAIN changed = {k} /\ changed[k] = op[t].writes[k] /\ DOMAIN rest = left
  BY DEF For
<1>2. PICK lossy :
        /\ pc[t] = "apply" /\ k \in DOMAIN op[t].writes /\ pc' = [pc EXCEPT ![t] = to]
        /\ Write(t, changed, lossy) /\ Tell(t, mine, DOMAIN changed)
  BY <1>1 DEF Apply, Goto
<1>3. DOMAIN op[t] = Parts
  BY DEF Inv, ShapeInv
<1>4. /\ next.kind = op[t].kind /\ next.since = op[t].since /\ next.writes = rest
      /\ next.cursor = op[t].cursor
  BY <1>3, SMT DEF Parts
<1>5. \A j \in left : rest[j] = op[t].writes[j]
  OBVIOUS
<1>0. DOMAIN changed \subseteq Keys
  BY <1>1
<1> HIDE DEF changed, mine, to, next, rest
<1>6. Told(t) /\ pc'[t] = to /\ op'[t] = mine /\ Stored(changed)
  BY <1>0, <1>2, WriteTold
<1>7. CASE ~clean
  <2>1. op'[t].kind # "clean" \/ pc'[t] = "idle"
    BY <1>4, <1>6, <1>7 DEF mine, to
  <2>2. pc'[t] \in {"apply", "idle"}
    BY <1>6, <1>7 DEF to
  <2> QED
    BY <1>6, <2>1, <2>2 DEF PageStep, PagesInv
<1>8. CASE clean
  <2>1. /\ Present \subseteq op[t].since \cup DOMAIN op[t].writes
        /\ \A j \in DOMAIN op[t].writes : op[t].writes[j] = NoRow
    BY <1>2, <1>8 DEF PagesInv, RangePages
  <2>2. Present' \subseteq op[t].since \cup left
    BY <1>1, <1>2, <1>6, <2>1 DEF Present, Stored
  <2>3. op'[t] = next
    BY <1>6, <1>8 DEF mine
  <2>4. CASE done
    <3>1. pc'[t] = "cleaned"
      BY <1>6, <1>8, <2>4 DEF to
    <3>2. CleanPages(t)'
      BY <1>4, <1>8, <2>2, <2>3, <2>4, <3>1 DEF CleanPages
    <3> QED
      BY <1>6, <3>1, <3>2 DEF PageStep, PagesInv
  <2>5. CASE ~done
    <3>1. pc'[t] = "apply"
      BY <1>6, <2>5 DEF to
    <3>2. RangePages(t)'
      BY <1>1, <1>4, <1>5, <2>1, <2>2, <2>3 DEF RangePages
    <3> QED
      BY <1>6, <3>1, <3>2 DEF PageStep, PagesInv
  <2> QED
    BY <2>4, <2>5
<1> QED
  BY <1>7, <1>8

(* A transactional Clean begins, ... *)
LEMMA TxnCleanPages ==
    ASSUME NEW t \in Threads, Inv, TxnClean(t)
    PROVE  PageStep(t)
<1> DEFINE locals == [Blank EXCEPT !.kind = "clean", !.began = Present]
<1>1. Begin(t, "clean", locals) /\ NoWrite
  BY DEF TxnClean
<1>2. locals.kind = "clean" /\ locals.cursor = 1
  BY SMT DEF Blank
<1> HIDE DEF locals
<1>3. Told(t) /\ pc'[t] = "clean" /\ op'[t] = locals
  BY <1>1, BeginTold
<1>4. \A k \in Keys : ~(k < 1)
  BY RowStoreAssumption, SMT DEF Keys
<1>5. Present' \subseteq Keys /\ 1 \in Nat
  BY SMT DEF Present
<1>6. CleanPages(t)'
  BY <1>2, <1>3, <1>4, <1>5 DEF CleanPages
<1> QED
  BY <1>3, <1>6 DEF PageStep, PagesInv

(* ... reads a batch, ... *)
LEMMA CleanBatchPages ==
    ASSUME NEW t \in Threads, Inv, PagesInv(t), CleanBatch(t)
    PROVE  PageStep(t)
<1> DEFINE batch == Batch(Present, op[t].cursor)
           gone == For(batch, NoRow)
           to == IF batch = {} THEN "cleaned" ELSE "cleanCommit"
           mine == [op[t] EXCEPT !.values = gone, !.writes = gone, !.start = version]
<1>1. /\ Goto(t, "clean", to) /\ NoWrite
      /\ op' = [op EXCEPT ![t].values = gone, ![t].writes = gone, ![t].start = version]
  BY DEF CleanBatch
<1>2. DOMAIN op = Threads /\ DOMAIN op[t] = Parts
  BY DEF Inv, ShapeInv
<1>3. DOMAIN gone = batch /\ \A k \in batch : gone[k] = NoRow
  BY DEF For
<1> HIDE DEF gone, to, batch
<1>4. op'[t] = mine /\ \A u \in Threads : u # t => op'[u] = op[u]
  BY <1>1, <1>2, SMT DEF Parts
<1>5. /\ mine.kind = op[t].kind /\ mine.since = op[t].since /\ mine.writes = gone
      /\ mine.cursor = op[t].cursor
  BY <1>2, SMT DEF Parts
<1> HIDE DEF mine
<1>6. Told(t) /\ pc'[t] = to
  BY <1>1, <1>4, AlonePages
<1>7. /\ op[t].kind = "clean" /\ op[t].cursor \in Nat
      /\ \A k \in Present : k < op[t].cursor => k \in op[t].since
  BY <1>1 DEF Goto, PagesInv, CleanPages
<1>8. Present \in SUBSET Keys /\ Present' = Present
  BY <1>1 DEF Present, NoWrite
<1>9. PICK next : /\ next = After(batch, op[t].cursor)
                  /\ IsBatch(Present, op[t].cursor, batch, next)
  BY <1>7, <1>8, BatchIs DEF batch
<1>10. /\ \A k \in Present : k < op[t].cursor \/ op[t].cursor <= k
       /\ \A k \in Present : k < next => k \in op[t].since \cup batch
  <2>1. \A k \in Present : k < op[t].cursor \/ op[t].cursor <= k
    BY <1>7, <1>8, KeysFinite, SMT
  <2> QED
    BY <1>7, <1>9, <2>1 DEF IsBatch
<1>11. CASE batch = {}
  <2>1. Cardinality(batch) < BatchSize
    BY <1>11, FS_EmptySet, TikvAssumption, SMT
  <2>2. Present \subseteq op[t].since
    BY <1>9, <1>10, <1>11, <2>1 DEF IsBatch
  <2>3. pc'[t] = "cleaned"
    BY <1>6, <1>11 DEF to
  <2>4. CleanPages(t)'
    BY <1>4, <1>5, <1>7, <1>8, <2>2, <2>3 DEF CleanPages
  <2> QED
    BY <1>6, <2>3, <2>4 DEF PageStep, PagesInv
<1>12. CASE batch # {}
  <2>1. pc'[t] = "cleanCommit"
    BY <1>6, <1>12 DEF to
  <2>2. /\ batch \subseteq Keys /\ next \in Nat
        /\ Cardinality(batch) < BatchSize => \A k \in Present : k < next
    BY <1>8, <1>9 DEF IsBatch
  <2>3. CleanPages(t)'
    BY <1>3, <1>4, <1>5, <1>7, <1>8, <1>9, <1>10, <2>1, <2>2 DEF CleanPages
  <2> QED
    BY <1>6, <2>1, <2>3 DEF PageStep, PagesInv
<1> QED
  BY <1>11, <1>12

(* ... and deletes it. *)
LEMMA CleanCommitPages ==
    ASSUME NEW t \in Threads, Inv, PagesInv(t), CleanCommit(t)
    PROVE  PageStep(t)
<1> DEFINE changed == op[t].writes
           batch == DOMAIN op[t].writes
           next == After(batch, op[t].cursor)
           to == IF Cardinality(batch) < BatchSize THEN "cleaned" ELSE "clean"
           mine == [op[t] EXCEPT !.cursor = next, !.writes = << >>]
<1>1. DOMAIN op = Threads /\ DOMAIN op[t] = Parts
  BY DEF Inv, ShapeInv
<1>2. /\ pc[t] = "cleanCommit"
      /\ \/ Goto(t, "cleanCommit", to) /\ Write(t, changed, {}) /\ Tell(t, mine, batch)
         \/ Goto(t, "cleanCommit", "idle") /\ NoWrite /\ op' = [op EXCEPT ![t] = Blank]
  <2>1. [op[t] EXCEPT !.cursor = After(batch, @), !.writes = << >>] = mine
    OBVIOUS
  <2> QED
    BY <2>1 DEF CleanCommit
<1>3. mine.kind = op[t].kind /\ mine.since = op[t].since /\ mine.cursor = next
  BY <1>1, SMT DEF Parts
<1>4. /\ op[t].kind = "clean" /\ op[t].cursor \in Nat
      /\ batch \subseteq Keys /\ next \in Nat
      /\ \A k \in batch : op[t].writes[k] = NoRow
      /\ \A k \in Present : k < next => k \in op[t].since \cup batch
      /\ Cardinality(batch) < BatchSize => \A k \in Present : k < next \/ k \in op[t].since
  BY <1>2 DEF PagesInv, CleanPages
<1>5. CASE Goto(t, "cleanCommit", "idle") /\ NoWrite /\ op' = [op EXCEPT ![t] = Blank]
  <2>1. \A u \in Threads : u # t => op'[u] = op[u]
    BY <1>1, <1>5
  <2>2. Told(t) /\ pc'[t] = "idle"
    BY <1>5, <2>1, AlonePages
  <2> QED
    BY <2>2, NoPages
<1>6. CASE Goto(t, "cleanCommit", to) /\ Write(t, changed, {}) /\ Tell(t, mine, batch)
  <2> HIDE DEF mine, to, next
  <2>1. PICK lossy : /\ pc' = [pc EXCEPT ![t] = to] /\ DOMAIN changed \subseteq Keys
                     /\ Write(t, changed, lossy) /\ Tell(t, mine, DOMAIN changed)
    BY <1>4, <1>6 DEF Goto
  <2> HIDE DEF changed
  <2>2. Told(t) /\ pc'[t] = to /\ op'[t] = mine /\ Stored(changed)
    BY <2>1, WriteTold
  <2>3. Present' \subseteq Keys /\ \A k \in Present' : k \in Present /\ k \notin batch
    BY <1>4, <2>2 DEF Present, Stored, changed
  <2>4. CASE Cardinality(batch) < BatchSize
    <3>1. pc'[t] = "cleaned"
      BY <2>2, <2>4 DEF to
    <3>2. Present' \subseteq op[t].since
      BY <1>4, <2>3, <2>4
    <3>3. CleanPages(t)'
      BY <1>3, <1>4, <2>2, <3>1, <3>2 DEF CleanPages
    <3> QED
      BY <2>2, <3>1, <3>3 DEF PageStep, PagesInv
  <2>5. CASE ~(Cardinality(batch) < BatchSize)
    <3>1. pc'[t] = "clean"
      BY <2>2, <2>5 DEF to
    <3>2. CleanPages(t)'
      BY <1>3, <1>4, <2>2, <2>3, <3>1 DEF CleanPages
    <3> QED
      BY <2>2, <3>1, <3>2 DEF PageStep, PagesInv
  <2> QED
    BY <2>4, <2>5
<1> QED
  BY <1>2, <1>5, <1>6

(* Count begins with no key counted. *)
LEMMA CountBeginPages ==
    ASSUME NEW t \in Threads, Inv, CountBegin(t)
    PROVE  PageStep(t)
<1> DEFINE locals == [Blank EXCEPT !.kind = "count", !.began = Present]
<1>1. Begin(t, "count", locals) /\ NoWrite
  BY DEF CountBegin
<1>2. /\ locals.kind = "count" /\ locals.cursor = 1 /\ locals.count = 0
      /\ locals.began = Present /\ locals.since = {}
  BY SMT DEF Blank
<1> HIDE DEF locals
<1>3. Told(t) /\ pc'[t] = "count" /\ op'[t] = locals
  BY <1>1, BeginTold
<1>4. 1 \in Nat /\ \A k \in Keys : ~(k < 1)
  BY RowStoreAssumption, SMT DEF Keys
<1>5. Present' = Present /\ Present \subseteq Keys
  BY <1>1 DEF Present, NoWrite
<1>6. Cardinality({}) = 0
  BY FS_EmptySet
<1>7. Drift(op[t])'
  BY <1>2, <1>3, <1>5 DEF Drift
<1>8. Counted(op[t], {})'
  BY <1>2, <1>3, <1>4, <1>5, <1>6 DEF Counted
<1>9. CountPages(t)'
  BY <1>2, <1>3, <1>4, <1>7, <1>8 DEF CountPages
<1> QED
  BY <1>3, <1>9 DEF PageStep, PagesInv

(* A batch adds keys that no earlier one had, and passes over none. *)
LEMMA CountBatchPages ==
    ASSUME NEW t \in Threads, Inv, PagesInv(t), CountBatch(t)
    PROVE  PageStep(t)
<1> DEFINE S == IF Txn THEN op[t].began ELSE Present
           batch == Batch(S, op[t].cursor)
           next == After(batch, op[t].cursor)
           size == Cardinality(batch)
           to == IF size < BatchSize THEN "counted" ELSE "count"
<1>1. /\ Goto(t, "count", to) /\ NoWrite /\ binding' = binding
      /\ op' = [op EXCEPT ![t].count = op[t].count + size, ![t].cursor = next]
  <2>1. DOMAIN op = Threads /\ DOMAIN op[t] = Parts
    BY DEF Inv, ShapeInv
  <2> HIDE DEF S
  <2>2. [op EXCEPT ![t].count = @ + size, ![t].cursor = After(batch, @)]
          = [op EXCEPT ![t].count = op[t].count + size, ![t].cursor = next]
    BY <2>1, SMT DEF Parts
  <2> QED
    BY <2>2 DEF CountBatch, S
<1>2. DOMAIN op = Threads /\ DOMAIN op[t] = Parts
  BY DEF Inv, ShapeInv
<1>3. CountPages(t)
  BY <1>1 DEF PagesInv, Goto
<1>4. PICK keys \in SUBSET Keys : Counted(op[t], keys)
  BY <1>3 DEF CountPages
<1>5. /\ op[t].kind = "count" /\ op[t].cursor \in Nat
      /\ op[t].began \subseteq Keys /\ op[t].since \subseteq Keys
      /\ op[t].began \ op[t].since \subseteq Present
      /\ Present \subseteq op[t].began \cup op[t].since
  BY <1>3 DEF CountPages, Drift
<1>6. /\ S \in SUBSET Keys /\ S \subseteq op[t].began \cup op[t].since
      /\ op[t].began \ op[t].since \subseteq S /\ (Txn => S = op[t].began)
  BY <1>5 DEF Present
<1> HIDE DEF S
<1>7. IsBatch(S, op[t].cursor, batch, next)
  BY <1>5, <1>6, BatchIs
<1> HIDE DEF batch, next
<1>8. /\ batch \in SUBSET S /\ batch \in SUBSET Keys /\ next \in Nat
      /\ op[t].cursor <= next
      /\ \A k \in batch : op[t].cursor <= k /\ k < next
      /\ \A k \in S : op[t].cursor <= k /\ k < next => k \in batch
      /\ size < BatchSize => \A k \in S : k < next
  BY <1>6, <1>7 DEF IsBatch
<1>9. \A k \in Keys : /\ k < op[t].cursor => k < next
                      /\ k < op[t].cursor \/ op[t].cursor <= k
                      /\ ~(k < op[t].cursor /\ op[t].cursor <= k)
  BY <1>5, <1>8, KeysFinite, SMT
<1>10. Cardinality(keys \cup batch) = op[t].count + size
  <2>1. keys \cap batch = {}
    BY <1>4, <1>8, <1>9 DEF Counted
  <2>2. IsFiniteSet(keys) /\ IsFiniteSet(batch) /\ Cardinality(keys) \in Nat /\ size \in Nat
    BY <1>8, KeysFinite
  <2>3. Cardinality(keys \cup batch) = Cardinality(keys) + size - Cardinality(keys \cap batch)
    BY <2>2, FS_Union
  <2>4. Cardinality(keys \cap batch) = 0 /\ Cardinality(keys) = op[t].count
    BY <1>4, <2>1, FS_EmptySet DEF Counted
  <2> QED
    BY <2>2, <2>3, <2>4, SMT
<1> HIDE DEF size, to
<1>11. /\ op'[t].kind = op[t].kind /\ op'[t].cursor = next /\ op'[t].count = op[t].count + size
       /\ op'[t].began = op[t].began /\ op'[t].since = op[t].since
  BY <1>1, <1>2, SMT DEF Parts
<1>12. \A u \in Threads : u # t => op'[u] = op[u]
  BY <1>1, <1>2
<1>13. Told(t) /\ pc'[t] = to
  BY <1>1, <1>12, AlonePages
<1>14. Present' = Present /\ (Txn' <=> Txn)
  BY <1>1 DEF Present, NoWrite, Txn
<1>15. Drift(op[t])'
  BY <1>5, <1>11, <1>14 DEF Drift
<1>16. PICK all \in SUBSET Keys : Counted(op[t], all)'
  <2>1. PICK all \in SUBSET Keys : all = keys \cup batch
    BY <1>8
  <2>2. all \subseteq op[t].began \cup op[t].since
    BY <1>4, <1>6, <1>8, <2>1 DEF Counted
  <2>3. \A k \in all : k < next
    BY <1>4, <1>8, <1>9, <2>1 DEF Counted
  <2>4. \A k \in op[t].began \ op[t].since : k < next => k \in all
    BY <1>4, <1>5, <1>6, <1>8, <1>9, <2>1 DEF Counted
  <2>5. ASSUME Txn, NEW k \in Keys PROVE k \in all <=> k \in op[t].began /\ k < next
    BY <1>4, <1>6, <1>8, <1>9, <2>1, <2>5 DEF Counted
  <2>6. op[t].count + size = Cardinality(all)
    BY <1>10, <2>1
  <2>7. Counted(op[t], all)'
    BY <1>11, <1>14, <2>2, <2>3, <2>4, <2>5, <2>6 DEF Counted
  <2> QED
    BY <2>7
<1>17. ASSUME pc'[t] = "counted", NEW k \in op[t].began, k \notin op[t].since \/ Txn
       PROVE  k < next
  <2>1. size < BatchSize
    BY <1>13, <1>17 DEF to
  <2> QED
    BY <1>6, <1>8, <1>17, <2>1
<1>18. CountPages(t)'
  <2>1. op'[t].kind = "count" /\ op'[t].cursor \in Nat
    BY <1>5, <1>8, <1>11
  <2>2. pc'[t] = "counted" =>
          \A k \in op'[t].began : k \notin op'[t].since \/ Txn' => k < op'[t].cursor
    BY <1>11, <1>14, <1>17
  <2> QED
    BY <1>15, <1>16, <2>1, <2>2 DEF CountPages
<1>19. pc'[t] \in {"count", "counted"}
  BY <1>13 DEF to
<1> QED
  BY <1>13, <1>18, <1>19 DEF PageStep, PagesInv

(* A step of the TiKV binding. *)
LEMMA TikvPages ==
    ASSUME NEW t \in Threads, Inv, PagesInv(t), TikvStep(t)
    PROVE  PageStep(t)
<1>1. ASSUME NEW k \in Keys, RawRead(t, k) PROVE PageStep(t)
  BY <1>1, RawReadPages
<1>2. ASSUME NEW k \in Keys, NEW f \in SomeFields, RawUpdate(t, k, f) PROVE PageStep(t)
  BY <1>2, RawUpdatePages
<1>3. CASE RawStep(t)
  <2>1. ASSUME NEW k \in Keys, RawInsert(t, k) \/ RawDelete(t, k) PROVE PageStep(t)
    BY <2>1, RawWritePages DEF RawInsert, RawDelete
  <2>2. ASSUME NEW k \in Keys, Apply(t, k) PROVE PageStep(t)
    BY <2>2, ApplyPages
  <2>3. CASE RawBatchInsert(t) \/ RawBatchDelete(t)
    BY <2>3, RawWritePages DEF RawBatchInsert, RawBatchDelete
  <2>4. ASSUME NEW f \in SomeFields, RawBatchUpdate(t, f) PROVE PageStep(t)
    BY <2>4, RawWritePages DEF RawBatchUpdate
  <2> QED
    BY <1>3, <2>1, <2>2, <2>3, <2>4, CompareAndSwapPages, RawCleanPages DEF RawStep
<1>4. CASE TxnStep(t)
  <2>1. ASSUME NEW k \in Keys, TxnInsert(t, k) \/ TxnDelete(t, k) PROVE PageStep(t)
    BY <2>1, TxnWritePages DEF TxnInsert, TxnDelete, TxnPut
  <2>2. CASE TxnBatchInsert(t) \/ TxnBatchDelete(t)
    BY <2>2, TxnWritePages DEF TxnBatchInsert, TxnBatchDelete, TxnPut
  <2>3. ASSUME NEW f \in SomeFields, TxnBatchUpdate(t, f) PROVE PageStep(t)
    BY <2>3, TxnWritePages DEF TxnBatchUpdate, TxnPut
  <2>4. ASSUME NEW k \in Keys, NEW f \in SomeFields, TxnUpdate(t, k, f) PROVE PageStep(t)
    BY <2>4, TxnWritePages DEF TxnUpdate
  <2> QED
    BY <1>4, <2>1, <2>2, <2>3, <2>4, CommitPages, TxnCleanPages, CleanBatchPages,
       CleanCommitPages DEF TxnStep
<1>5. CASE Return(t) \/ TikvCallFails(t)
  BY <1>5, FinishPages DEF Return, TikvCallFails
<1> QED
  BY <1>1, <1>2, <1>3, <1>4, <1>5, CountBeginPages, CountBatchPages DEF TikvStep

-----------------------------------------------------------------------------
(* All bindings. *)

(* The bindings whose operations page; the others have none that do. *)
Paging == TikvModes \cup {"s3", "s3Rmw"}

(* The steps of the other bindings are not theirs. *)
LEMMA OthersSteps ==
    ASSUME Inv, binding \in Paging, NEW t \in Threads
    PROVE  /\ ~SqlStep(t) /\ ~DocumentStep(t) /\ ~RedisStep(t) /\ ~EmbeddedStep(t)
           /\ ~ElasticStep(t) /\ ~SessionStep(t)
           /\ ~S3 => ~ObjectStep(t)
<1>1. binding \in {"getput", "cas", "txn", "s3", "s3Rmw"} /\ LabelOf(binding, pc[t])
  BY DEF Inv, ThreadInv, Paging, TikvModes
<1>2. ~SqlStep(t)
  BY <1>1 DEF SqlStep, MysqlInsert, MysqlDelete, MysqlBatchInsert, MysqlBatchDelete, PgInsert,
     PgDelete, CassandraInsert, CassandraDelete, SpannerInsert, SpannerDelete, MysqlUpdate,
     PgUpdate, CassandraUpdate, SpannerUpdate
<1>3. ~DocumentStep(t)
  BY <1>1 DEF DocumentStep, MongoInsert, MongoDelete, DynamoInsert, DynamoDelete, EtcdInsert,
     EtcdDelete, PegasusInsert, PegasusDelete, AerospikeInsert, AerospikeDelete, MongoUpdate,
     DynamoUpdate, EtcdUpdate, PegasusUpdate, AerospikeUpdate
<1>4. ~RedisStep(t)
  BY <1>1 DEF RedisStep, RedisHashInsert, RedisJsonInsert, RedisStringInsert, RedisDelete,
     RedisHashUpdate, RedisJsonUpdate, RedisStringUpdate, JsonSet, PipelineFails, LabelOf
<1>5. ~EmbeddedStep(t)
  <2>1. \A keys \in KeySets :
          /\ ~BadgerInsert(t, keys) /\ ~BadgerDelete(t, keys)
          /\ ~BoltInsert(t, keys) /\ ~BoltDelete(t, keys)
          /\ ~FdbInsert(t, keys) /\ ~FdbDelete(t, keys)
          /\ ~RocksInsert(t, keys) /\ ~RocksDelete(t, keys)
          /\ ~SqliteInsert(t, keys) /\ ~SqliteDelete(t, keys)
          /\ \A f \in SomeFields : /\ ~BadgerUpdate(t, keys, f) /\ ~BoltUpdate(t, keys, f)
                                   /\ ~FdbUpdate(t, keys, f) /\ ~RocksUpdate(t, keys, f)
                                   /\ ~SqliteUpdate(t, keys, f)
    BY <1>1 DEF BadgerInsert, BadgerDelete, BadgerUpdate, BoltInsert, BoltDelete, BoltUpdate,
       FdbInsert, FdbDelete, FdbUpdate, RocksInsert, RocksDelete, RocksUpdate, SqliteInsert,
       SqliteDelete, SqliteUpdate
  <2>2. /\ ~BadgerRun(t) /\ ~BadgerCommit(t) /\ ~BoltRun(t) /\ ~BoltCommit(t) /\ ~FdbRun(t)
        /\ ~FdbCommit(t) /\ ~SqliteRun(t) /\ ~SqliteCommit(t) /\ ~SqliteBusy(t)
        /\ ~TransactionFails(t)
    BY <1>1 DEF BadgerRun, BadgerCommit, BoltRun, BoltCommit, FdbRun, FdbCommit, SqliteRun,
       SqliteCommit, SqliteBusy, TransactionFails
  <2> QED
    BY <2>1, <2>2 DEF EmbeddedStep
<1>6. ~ElasticStep(t)
  BY <1>1 DEF ElasticStep, ElasticInsert, ElasticDelete, ElasticUpdate, Add,
     ElasticCleanupThread, CloseReturns, Goto, LabelOf
<1>7. ~SessionStep(t)
  BY <1>1 DEF SessionStep, SessionInitThread, BeginQuery, GetAndCacheStmt, ExecStmt,
     ServerError, Break, SessionCleanupThread, Running
<1>8. ASSUME ~S3 PROVE ~ObjectStep(t)
  BY <1>1, <1>8 DEF S3, ObjectStep, S3Insert, S3Delete, MinioInsert, MinioDelete, S3Update,
     MinioUpdate, S3Scan, S3ReadFails, S3List, S3ScanReturns, PutObject, PutObjectFails,
     Goto, LabelOf
<1> QED
  BY <1>2, <1>3, <1>4, <1>5, <1>6, <1>7, <1>8

(* No step changes the binding that main was started with. *)
LEMMA BindingStays == [Next]_vars => binding' = binding
<1> SUFFICES ASSUME [Next]_vars PROVE binding' = binding
  OBVIOUS
<1> USE DEF Goto, Begin, Call, Advance, Finish, RowsAside
<1>1. ASSUME NEW t, CommonStep(t) PROVE binding' = binding
  BY <1>1 DEF CommonStep, Exec, ExecAll, GetRow, PutRow, CallFails
<1>2. ASSUME NEW t, SqlStep(t) \/ DocumentStep(t) PROVE binding' = binding
  BY <1>2
  DEF SqlStep, MysqlInsert, MysqlDelete, MysqlBatchInsert, MysqlBatchDelete,
      PgInsert, PgDelete, CassandraInsert, CassandraDelete, SpannerInsert,
      SpannerDelete, MysqlUpdate, PgUpdate, CassandraUpdate, SpannerUpdate,
      DocumentStep, MongoInsert, MongoDelete, DynamoInsert, DynamoDelete,
      EtcdInsert, EtcdDelete, PegasusInsert, PegasusDelete, AerospikeInsert,
      AerospikeDelete, MongoUpdate, DynamoUpdate, EtcdUpdate, PegasusUpdate,
      AerospikeUpdate
<1>3. ASSUME NEW t, RedisStep(t) PROVE binding' = binding
  BY <1>3
  DEF RedisStep, RedisHashInsert, RedisJsonInsert, RedisStringInsert, RedisDelete,
      RedisHashUpdate, RedisJsonUpdate, RedisStringUpdate, JsonSet, PipelineFails
<1>4. ASSUME NEW t, ObjectStep(t) PROVE binding' = binding
  BY <1>4
  DEF ObjectStep, S3Insert, S3Delete, MinioInsert, MinioDelete, S3Update, MinioUpdate,
      S3Scan, S3ReadFails, S3List, S3Fetch, S3ScanReturns, PutObject, PutObjectFails
<1>5. ASSUME NEW t, TikvStep(t) PROVE binding' = binding
  <2>1. CASE RawStep(t)
    BY <2>1
    DEF RawStep, CompareAndSwap, RawInsert, RawDelete, Apply, RawBatchInsert,
        RawBatchDelete, RawClean, RawBatchUpdate, RawWrite
  <2>2. CASE TxnStep(t)
    BY <2>2
    DEF TxnStep, TxnInsert, TxnDelete, TxnBatchInsert, TxnBatchDelete, TxnBatchUpdate,
        TxnUpdate, TxnPut, TxnWrite, Commit, TxnClean, CleanBatch, CleanCommit
  <2>3. CASE CountBegin(t) \/ CountBatch(t) \/ Return(t) \/ TikvCallFails(t)
    BY <2>3 DEF CountBegin, CountBatch, Return, TikvCallFails
  <2>4. CASE \E k, f : RawRead(t, k) \/ RawUpdate(t, k, f)
    BY <2>4 DEF RawRead, RawUpdate
  <2> QED
    BY <1>5, <2>1, <2>2, <2>3, <2>4 DEF TikvStep
<1>6. ASSUME NEW t, EmbeddedStep(t) PROVE binding' = binding
  BY <1>6
  DEF EmbeddedStep, BadgerInsert, BadgerDelete, BoltInsert, BoltDelete, FdbInsert,
      FdbDelete, RocksInsert, RocksDelete, SqliteInsert, SqliteDelete, BadgerUpdate,
      BoltUpdate, FdbUpdate, RocksUpdate, SqliteUpdate, BadgerRun, BadgerCommit,
      BoltRun, BoltCommit, FdbRun, FdbCommit, SqliteRun, SqliteCommit, SqliteBusy,
      TransactionFails, RunClosure, StoreReferred
<1>7. ASSUME NEW t, ElasticStep(t) PROVE binding' = binding
  BY <1>7
  DEF ElasticStep, ElasticInsert, ElasticDelete, ElasticUpdate, Add,
      ElasticCleanupThread, CloseReturns
<1>8. ASSUME NEW t, SessionStep(t) PROVE binding' = binding
  BY <1>8
  DEF SessionStep, SessionInitThread, BeginQuery, GetAndCacheStmt, ExecStmt, ServerError,
      Break, SessionCleanupThread
<1>9. ASSUME NEW item, NEW success, Flush(item, success) PROVE binding' = binding
  BY <1>9 DEF Flush
<1>10. CASE SetupStep
  BY <1>10 DEF SetupStep
<1> QED
  BY <1>1, <1>2, <1>3, <1>4, <1>5, <1>6, <1>7, <1>8, <1>9, <1>10
  DEF Next, RemoteStep, vars, rowVars

(* The inductive invariant, with Inv. *)
AllPages == \A t \in Threads : PagesInv(t)

(* No thread pages at first. *)
LEMMA PagesInit == Init => AllPages
  BY DEF Init, RowInit, AllPages, PagesInv

(* Nothing changes for a thread while nothing happens. *)
LEMMA SamePage ==
    ASSUME NEW t \in Threads, pc' = pc, op' = op, store' = store, binding' = binding,
           PagesInv(t)
    PROVE  PagesInv(t)'
<1>1. Present' = Present /\ (Txn' <=> Txn)
  BY DEF Present, Txn
<1>2. CountPages(t) => CountPages(t)'
  BY <1>1 DEF CountPages, Drift, Counted
<1>3. CleanPages(t) => CleanPages(t)'
  BY <1>1 DEF CleanPages
<1>4. RangePages(t) => RangePages(t)'
  BY <1>1 DEF RangePages
<1>5. ScanPages(t) => ScanPages(t)'
  BY <1>1 DEF ScanPages, ScanSeen, ScanLists, ScanFetches, Scanned, Stable
<1> QED
  BY <1>2, <1>3, <1>4, <1>5 DEF PagesInv

(* Each step of a thread keeps what holds of it, and tells the others. *)
LEMMA PagesNext == Inv /\ Inv' /\ AllPages /\ [Next]_vars => AllPages'
<1> SUFFICES ASSUME Inv, Inv', AllPages, [Next]_vars PROVE AllPages'
  OBVIOUS
<1>0. binding' = binding
  BY BindingStays
<1>1. ASSUME binding \notin Paging PROVE AllPages'
  <2>1. ASSUME NEW t \in Threads PROVE PagesInv(t)'
    <3>1. LabelOf(binding, pc[t])'
      BY DEF Inv, ThreadInv
    <3> QED
      BY <1>0, <1>1, <3>1 DEF LabelOf, PagesInv, Paging, TikvModes
  <2> QED
    BY <2>1 DEF AllPages
<1>2. ASSUME NEW t \in Threads, CommonStep(t) \/ ObjectStep(t) \/ TikvStep(t),
             binding \in Paging
      PROVE  AllPages'
  <2>2. PagesInv(t)
    BY DEF AllPages
  <2>3. PageStep(t)
    BY <1>2, <2>2, CommonPages, ObjectPages, TikvPages, OthersSteps
  <2>4. ASSUME NEW u \in Threads, u # t PROVE PagesInv(u)'
    <3>1. PagesInv(u) /\ Told(t)
      BY <2>3 DEF AllPages, PageStep
    <3> QED
      BY <1>0, <2>4, <3>1, PagesStay
  <2> QED
    BY <2>3, <2>4 DEF AllPages, PageStep
<1>3. CASE SetupStep
  <2>1. pc' = pc /\ ~Started
    BY <1>3 DEF SetupStep, StartThreads, Inv, SetupInv, Created
  <2>2. \A t \in Threads : pc'[t] = "idle"
    BY <2>1 DEF Inv, SetupInv
  <2> QED
    BY <2>2 DEF AllPages, PagesInv
<1>4. CASE UNCHANGED vars
  <2>1. pc' = pc /\ op' = op /\ store' = store /\ binding' = binding
    BY <1>4 DEF vars, rowVars
  <2> QED
    BY <1>0, <2>1, SamePage DEF AllPages
<1>5. ASSUME binding \in Paging, Next, ~SetupStep PROVE AllPages'
  <2>1. \A t \in Threads : RemoteStep(t) => ObjectStep(t)
    BY <1>5, OthersSteps DEF RemoteStep
  <2>2. queue = {}
    BY <1>5 DEF Inv, ElasticInv, Paging, TikvModes
  <2>3. PICK t \in Threads :
          \/ CommonStep(t) \/ RemoteStep(t) \/ TikvStep(t)
          \/ EmbeddedStep(t) \/ ElasticStep(t) \/ SessionStep(t)
    BY <1>5, <2>2 DEF Next
  <2> QED
    BY <1>2, <1>5, <2>1, <2>3, OthersSteps
<1> QED
  BY <1>1, <1>3, <1>4, <1>5

-----------------------------------------------------------------------------
(* The sessions of mysql and pg. *)

States == {"absent", "works", "broke", "done", "nil", "closed"}

(* The inductive invariant: held counts what conn says, and the states     *)
(* that lead to a nil connection need a loss.                              *)
SessionInv ==
    /\ conn \in [Threads -> [number : Nat, status : States]]
    /\ held \in [Threads -> Int]
    /\ losses \in Nat
    /\ OneConnectionEach
    /\ \A t \in Threads : conn[t].status \in {"broke", "done", "nil"} => losses > 0
    /\ NilConnNeedsLoss

(* Initially no thread has a connection: InitThread has not run. *)
LEMMA SessionInitInv == Init => SessionInv
  BY SMT DEF Init, SessionInit, SessionInv, OneConnectionEach, NilConnNeedsLoss, States

(* A thread's connection changes together with the count of those it       *)
(* holds, and stays what it was for the other threads.                     *)
LEMMA SetConnInv ==
    ASSUME NEW t \in Threads, SessionInv,
           NEW n \in Nat, NEW s \in States, SetConn(t, n, s),
           held' \in [Threads -> Int],
           \A u \in Threads \ {t} : held'[u] = held[u],
           held'[t] = (IF s \in {"works", "broke"} THEN 1 ELSE 0),
           losses' \in Nat, losses' >= losses,
           s \in {"broke", "done", "nil"} => losses' > 0,
           fault' = "nilConn" => losses' > 0
    PROVE  SessionInv'
<1>1. conn' \in [Threads -> [number : Nat, status : States]]
  BY DEF SessionInv, SetConn
<1>2. conn'[t].status = s /\ \A u \in Threads \ {t} : conn'[u] = conn[u]
  BY DEF SessionInv, SetConn
<1>3. OneConnectionEach'
  BY <1>2 DEF SessionInv, OneConnectionEach
<1>4. \A u \in Threads : conn'[u].status \in {"broke", "done", "nil"} => losses' > 0
  BY <1>2, SMT DEF SessionInv
<1> QED
  BY <1>1, <1>3, <1>4 DEF SessionInv, NilConnNeedsLoss

(* A step that leaves the connections alone. *)
LEMMA SameConnInv ==
    ASSUME SessionInv, UNCHANGED <<conn, held, losses>>,
           fault' = "nilConn" => losses' > 0
    PROVE  SessionInv'
  BY DEF SessionInv, OneConnectionEach, NilConnNeedsLoss, States

(* getAndCacheStmt, with the connection it may have to replace. *)
LEMMA GetAndCacheStmtInv ==
    ASSUME NEW t \in Threads, SessionInv, GetAndCacheStmt(t)
    PROVE  SessionInv'
<1>0. /\ conn[t] \in [number : Nat, status : States] /\ held[t] \in Int
      /\ held \in [Threads -> Int]
      /\ held[t] = IF conn[t].status \in {"works", "broke"} THEN 1 ELSE 0
      /\ conn[t].status \in {"broke", "done", "nil"} => losses > 0
      /\ losses' = losses /\ losses \in Nat
      /\ fault = "nilConn" => losses > 0
  BY DEF SessionInv, OneConnectionEach, NilConnNeedsLoss, GetAndCacheStmt
<1>1. CASE UseCached(t)
  BY <1>0, <1>1, SameConnInv DEF UseCached
<1>2. CASE PrepareHere(t)
  <2>1. CASE UNCHANGED <<conn, held>>
    BY <1>0, <1>2, <2>1, SameConnInv DEF PrepareHere
  <2>2. CASE /\ conn[t].status = "broke"
             /\ SetConn(t, conn[t].number, "done")
             /\ held' = [held EXCEPT ![t] = @ - 1]
    <3>1. /\ held' \in [Threads -> Int] /\ held'[t] = 0
          /\ \A u \in Threads \ {t} : held'[u] = held[u]
      BY <1>0, <2>2, SMT
    <3> QED
      BY <1>0, <1>2, <2>2, <3>1, SetConnInv, SMT DEF PrepareHere, States
  <2> QED
    BY <1>2, <2>1, <2>2 DEF PrepareHere
<1>3. CASE Rebuild(t)
  <2>1. CASE /\ SetConn(t, conn[t].number + 1, "works")
             /\ held' = [held EXCEPT ![t] = @ + 1]
    <3>1. /\ held' \in [Threads -> Int] /\ held'[t] = 1
          /\ \A u \in Threads \ {t} : held'[u] = held[u]
      BY <1>0, <1>3, <2>1, SMT DEF Rebuild
    <3> QED
      BY <1>0, <1>3, <2>1, <3>1, SetConnInv, SMT DEF Rebuild, States
  <2>2. CASE SetConn(t, 0, "nil") /\ UNCHANGED held
    <3>1. /\ held' \in [Threads -> Int] /\ held'[t] = 0
          /\ \A u \in Threads \ {t} : held'[u] = held[u]
      BY <1>0, <1>3, <2>2 DEF Rebuild, SessionInv
    <3> QED
      BY <1>0, <1>3, <2>2, <3>1, SetConnInv, SMT DEF Rebuild, States
  <2> QED
    BY <1>3, <2>1, <2>2 DEF Rebuild
<1>4. CASE NilConn(t)
  BY <1>0, <1>4, SameConnInv DEF NilConn
<1> QED
  BY <1>1, <1>2, <1>3, <1>4 DEF GetAndCacheStmt

(* InitThread, a query's run, the loss of a connection and CleanupThread. *)
LEMMA ConnectionStepInv ==
    ASSUME NEW t \in Threads, SessionInv, SessionStep(t)
    PROVE  SessionInv'
<1>0. /\ conn[t] \in [number : Nat, status : States] /\ held[t] \in Int
      /\ held \in [Threads -> Int]
      /\ held[t] = IF conn[t].status \in {"works", "broke"} THEN 1 ELSE 0
      /\ conn[t].status \in {"broke", "done", "nil"} => losses > 0
      /\ losses \in Nat
      /\ fault = "nilConn" => losses > 0
  BY DEF SessionInv, OneConnectionEach, NilConnNeedsLoss
<1>1. CASE SessionInitThread(t)
  <2>1. CASE SetConn(t, 1, "works") /\ held' = [held EXCEPT ![t] = @ + 1] /\ UNCHANGED fault
    <3>1. /\ held' \in [Threads -> Int] /\ held'[t] = 1
          /\ \A u \in Threads \ {t} : held'[u] = held[u]
      BY <1>0, <1>1, <2>1, SMT DEF SessionInitThread
    <3> QED
      BY <1>0, <1>1, <2>1, <3>1, SetConnInv, SMT DEF SessionInitThread, States
  <2>2. CASE fault' = "noConn" /\ UNCHANGED <<conn, held>>
    BY <1>1, <2>2, SameConnInv DEF SessionInitThread
  <2> QED
    BY <1>1, <2>1, <2>2 DEF SessionInitThread
<1>2. CASE \E q \in Queries : BeginQuery(t, q)
  BY <1>0, <1>2, SameConnInv DEF BeginQuery
<1>3. CASE GetAndCacheStmt(t)
  BY <1>3, GetAndCacheStmtInv
<1>4. CASE ExecStmt(t)
  <2>1. CASE UNCHANGED <<conn, held>>
    BY <1>0, <1>4, <2>1, SameConnInv DEF ExecStmt
  <2>2. CASE /\ conn[t].status = "broke"
             /\ SetConn(t, conn[t].number, "done")
             /\ held' = [held EXCEPT ![t] = @ - 1]
    <3>1. /\ held' \in [Threads -> Int] /\ held'[t] = 0
          /\ \A u \in Threads \ {t} : held'[u] = held[u]
      BY <1>0, <2>2, SMT
    <3> QED
      BY <1>0, <1>4, <2>2, <3>1, SetConnInv, SMT DEF ExecStmt, States
  <2> QED
    BY <1>4, <2>1, <2>2 DEF ExecStmt
<1>5. CASE ServerError(t)
  BY <1>0, <1>5, SameConnInv DEF ServerError
<1>6. CASE Break(t)
  <2>1. /\ held' \in [Threads -> Int] /\ held'[t] = 1
        /\ \A u \in Threads \ {t} : held'[u] = held[u]
    BY <1>0, <1>6 DEF Break, SessionInv
  <2> QED
    BY <1>0, <1>6, <2>1, SetConnInv, SMT DEF Break, States
<1>7. CASE SessionCleanupThread(t)
  <2>1. CASE conn[t].status = "nil"
    BY <1>0, <1>7, <2>1, SameConnInv DEF SessionCleanupThread
  <2>2. CASE conn[t].status # "nil"
    <3>1. /\ held' \in [Threads -> Int] /\ held'[t] = 0
          /\ \A u \in Threads \ {t} : held'[u] = held[u]
      BY <1>0, <1>7, <2>2, SMT DEF SessionCleanupThread, States
    <3> QED
      BY <1>0, <1>7, <2>2, <3>1, SetConnInv, SMT DEF SessionCleanupThread, States
  <2> QED
    BY <2>1, <2>2
<1> QED
  BY <1>1, <1>2, <1>3, <1>4, <1>5, <1>6, <1>7 DEF SessionStep

(* Only the steps of the sessions change connections. *)
LEMMA NextSessionInv == SessionInv /\ [Next]_vars => SessionInv'
<1> SUFFICES ASSUME SessionInv, [Next]_vars PROVE SessionInv'
  OBVIOUS
<1>1. CASE UNCHANGED sessionVars
  BY <1>1, SameConnInv DEF sessionVars, SessionInv, NilConnNeedsLoss
<1>2. CASE \E t \in Threads : SessionStep(t)
  BY <1>2, ConnectionStepInv
<1> QED
  BY <1>1, <1>2 DEF Next, vars

(* A thread of mysql or pg holds one connection at most, however often it  *)
(* loses one and getAndCacheStmt takes another.                            *)
THEOREM ConnectionsDoNotLeak == Spec => []OneConnectionEach
<1>1. SessionInv => OneConnectionEach
  BY DEF SessionInv
<1> QED
  BY <1>1, SessionInitInv, NextSessionInv, PTL DEF Spec

(* A nil connection is never used, by getAndCacheStmt or by CleanupThread, *)
(* before a connection was lost.                                           *)
THEOREM NilConnectionNeedsLoss == Spec => []NilConnNeedsLoss
<1>1. SessionInv => NilConnNeedsLoss
  BY DEF SessionInv
<1> QED
  BY <1>1, SessionInitInv, NextSessionInv, PTL DEF Spec

-----------------------------------------------------------------------------
(* How often a query may yet fail without another loss: through the        *)
(* statement cached for it on a connection that is no longer there, and    *)
(* by finding out that the connection broke.                               *)
Credit(stmt, number, status) ==
    (IF stmt \notin {0, number} \/ (status = "done" /\ stmt = number) THEN 1 ELSE 0)
    + (IF status = "broke" THEN 1 ELSE 0)

SessionLabels == {"idle", "prepare", "exec", "ended"}

(* What a thread runs is prepared, and before its first and after its last *)
(* query it has no statements.                                             *)
RunOf(t) ==
    /\ pc[t] \in {"prepare", "exec"} => query[t] \in Queries
    /\ pc[t] = "exec" => stmts[t][query[t]] # 0
    /\ conn[t].status \in {"works", "broke", "done"} => conn[t].number # 0
    /\ conn[t].status \in {"absent", "closed"} => \A q \in Queries : stmts[t][q] = 0

(* No query has failed more often than its thread lost a connection, less  *)
(* the failures still to come.                                             *)
CreditOf(t) ==
    conn[t].status # "nil" => \A q \in Queries :
        failures[t][q] + Credit(stmts[t][q], conn[t].number, conn[t].status) <= 0

(* The inductive invariant. *)
FailInv ==
    /\ stmts \in [Threads -> [Queries -> Nat]]
    /\ failures \in [Threads -> [Queries -> Int]]
    /\ query \in [Threads -> Queries \cup {"none"}]
    /\ IF binding = "sessions"
       THEN pc \in [Threads -> SessionLabels] /\ \A t \in Threads : RunOf(t) /\ CreditOf(t)
       ELSE FailsOncePerLoss

(* In a session no step of another binding can be taken. *)
LEMMA OtherStepsOff ==
    ASSUME NEW t \in Threads, binding = "sessions", pc[t] \in SessionLabels
    PROVE  /\ ~CommonStep(t) /\ ~RemoteStep(t) /\ ~TikvStep(t)
           /\ ~EmbeddedStep(t) /\ ~ElasticStep(t)
<1> USE DEF SessionLabels, Goto
<1>1. ~CommonStep(t)
  BY DEF CommonStep, Exec, ExecAll, GetRow, PutRow, CallFails
<1>2. ~SqlStep(t)
  BY DEF SqlStep, MysqlInsert, MysqlDelete, MysqlBatchInsert, MysqlBatchDelete,
         PgInsert, PgDelete, CassandraInsert, CassandraDelete, SpannerInsert,
         SpannerDelete, MysqlUpdate, PgUpdate, CassandraUpdate, SpannerUpdate
<1>3. ~DocumentStep(t)
  BY DEF DocumentStep, MongoInsert, MongoDelete, DynamoInsert, DynamoDelete,
         EtcdInsert, EtcdDelete, PegasusInsert, PegasusDelete, AerospikeInsert,
         AerospikeDelete, MongoUpdate, DynamoUpdate, EtcdUpdate, PegasusUpdate,
         AerospikeUpdate
<1>4. ~RedisStep(t)
  BY DEF RedisStep, RedisHashInsert, RedisJsonInsert, RedisStringInsert, RedisDelete,
         RedisHashUpdate, RedisJsonUpdate, RedisStringUpdate, JsonSet, PipelineFails
<1>5. ~ObjectStep(t)
  BY DEF ObjectStep, S3, S3Insert, S3Delete, MinioInsert, MinioDelete, S3Update,
         MinioUpdate, S3Scan, S3ReadFails, S3List, S3ScanReturns, PutObject,
         PutObjectFails
<1>6. ~TikvStep(t)
  <2>1. ~RawStep(t)
    BY DEF RawStep, CompareAndSwap, RawInsert, RawDelete, Apply, RawBatchInsert,
           RawBatchDelete, RawClean, RawBatchUpdate, RawWrite, Raw
  <2>2. ~TxnStep(t)
    BY DEF TxnStep, TxnInsert, TxnDelete, TxnBatchInsert, TxnBatchDelete,
           TxnBatchUpdate, TxnUpdate, TxnPut, TxnWrite, Commit, TxnClean, CleanBatch,
           CleanCommit, Txn
  <2>3. ~CountBegin(t) /\ ~CountBatch(t) /\ ~Return(t) /\ ~TikvCallFails(t)
    BY DEF CountBegin, CountBatch, Return, TikvCallFails, TikvModes
  <2>4. \A k, f : ~RawRead(t, k) /\ ~RawUpdate(t, k, f)
    BY DEF RawRead, RawUpdate, Raw
  <2> QED
    BY <2>1, <2>2, <2>3, <2>4 DEF TikvStep
<1>7. ~EmbeddedStep(t)
  BY DEF EmbeddedStep, BadgerInsert, BadgerDelete, BoltInsert, BoltDelete, FdbInsert,
         FdbDelete, RocksInsert, RocksDelete, SqliteInsert, SqliteDelete, BadgerUpdate,
         BoltUpdate, FdbUpdate, RocksUpdate, SqliteUpdate, BadgerRun, BadgerCommit,
         BoltRun, BoltCommit, FdbRun, FdbCommit, SqliteRun, SqliteCommit, SqliteBusy,
         TransactionFails
<1>8. ~ElasticStep(t)
  BY DEF ElasticStep, ElasticInsert, ElasticDelete, ElasticUpdate, Add,
         ElasticCleanupThread, CloseReturns
<1> QED
  BY <1>1, <1>2, <1>3, <1>4, <1>5, <1>6, <1>7, <1>8 DEF RemoteStep

(* At first no query has failed. *)
LEMMA FailInit == Init => FailInv
<1> SUFFICES ASSUME Init PROVE FailInv
  OBVIOUS
<1>1. /\ stmts = [t \in Threads |-> [q \in Queries |-> 0]]
      /\ failures = [t \in Threads |-> [q \in Queries |-> 0]]
      /\ query = [t \in Threads |-> "none"]
      /\ conn = [t \in Threads |-> [number |-> 0, status |-> "absent"]]
      /\ pc = [t \in Threads |-> "idle"]
  BY DEF Init, SessionInit, RowInit
<1>2. /\ stmts \in [Threads -> [Queries -> Nat]]
      /\ failures \in [Threads -> [Queries -> Int]]
      /\ query \in [Threads -> Queries \cup {"none"}]
      /\ pc \in [Threads -> SessionLabels]
  BY <1>1, SMT DEF SessionLabels
<1>3. \A t \in Threads : RunOf(t)
  BY <1>1, SMT DEF RunOf
<1>4. \A t \in Threads : CreditOf(t) /\ \A q \in Queries : failures[t][q] <= 0
  BY <1>1, SMT DEF CreditOf, Credit
<1> QED
  BY <1>2, <1>3, <1>4 DEF FailInv, FailsOncePerLoss

(* A step of one thread of a session leaves the others as they were. *)
LEMMA OneThread ==
    ASSUME FailInv, binding = "sessions", NEW t \in Threads,
           stmts' \in [Threads -> [Queries -> Nat]],
           failures' \in [Threads -> [Queries -> Int]],
           query' \in [Threads -> Queries \cup {"none"}],
           pc' \in [Threads -> SessionLabels],
           binding' = binding,
           \A u \in Threads \ {t} :
             /\ stmts'[u] = stmts[u] /\ failures'[u] = failures[u] /\ query'[u] = query[u]
             /\ pc'[u] = pc[u] /\ conn'[u] = conn[u],
           RunOf(t)', CreditOf(t)'
    PROVE  FailInv'
<1>1. ASSUME NEW u \in Threads \ {t} PROVE RunOf(u)' /\ CreditOf(u)'
  <2>1. RunOf(u) /\ CreditOf(u)
    BY DEF FailInv
  <2>2. /\ stmts'[u] = stmts[u] /\ failures'[u] = failures[u] /\ query'[u] = query[u]
        /\ pc'[u] = pc[u] /\ conn'[u] = conn[u]
    OBVIOUS
  <2>3. RunOf(u)'
    BY <2>1, <2>2 DEF RunOf
  <2>4. CreditOf(u)'
    BY <2>1, <2>2 DEF CreditOf
  <2> QED
    BY <2>3, <2>4
<1> QED
  BY <1>1 DEF FailInv

(* Outside of the sessions nothing that counts changes. *)
LEMMA SameFailures ==
    ASSUME FailInv, UNCHANGED sessionVars, binding' = binding,
           binding = "sessions" => pc' = pc
    PROVE  FailInv'
<1>1. UNCHANGED <<stmts, failures, query, conn>>
  BY DEF sessionVars
<1> QED
  BY <1>1 DEF FailInv, FailsOncePerLoss, RunOf, CreditOf, Credit

(* InitThread and BeginQuery change no statement and no count of failures. *)
LEMMA BeginFailInv ==
    ASSUME NEW t \in Threads, SessionInv, FailInv,
           SessionInitThread(t) \/ (\E q \in Queries : BeginQuery(t, q))
    PROVE  FailInv'
<1>0. /\ binding = "sessions" /\ binding' = binding
      /\ stmts' = stmts /\ failures' = failures
      /\ stmts \in [Threads -> [Queries -> Nat]]
      /\ failures \in [Threads -> [Queries -> Int]]
      /\ query \in [Threads -> Queries \cup {"none"}]
      /\ pc \in [Threads -> SessionLabels]
      /\ conn \in [Threads -> [number : Nat, status : States]]
      /\ RunOf(t) /\ CreditOf(t)
  BY DEF FailInv, SessionInv, SessionInitThread, BeginQuery, Running, RowsAside
<1>1. CASE SessionInitThread(t)
  <2>1. /\ pc' = pc /\ query' = query
        /\ conn[t].status = "absent"
        /\ conn'[t] = conn[t] \/ conn'[t] = [number |-> 1, status |-> "works"]
        /\ \A u \in Threads \ {t} : conn'[u] = conn[u]
    BY <1>0, <1>1, SMT DEF SessionInitThread, SetConn
  <2>2. RunOf(t)'
    BY <1>0, <2>1, SMT DEF RunOf
  <2>3. CreditOf(t)'
    BY <1>0, <2>1, SMT DEF RunOf, CreditOf, Credit
  <2> QED
    BY <1>0, <2>1, <2>2, <2>3, OneThread
<1>2. CASE \E q \in Queries : BeginQuery(t, q)
  <2>1. PICK q \in Queries : BeginQuery(t, q)
    BY <1>2
  <2>2. /\ conn' = conn /\ pc'[t] = "prepare" /\ query'[t] = q
        /\ query' \in [Threads -> Queries \cup {"none"}]
        /\ pc' \in [Threads -> SessionLabels]
        /\ \A u \in Threads \ {t} : pc'[u] = pc[u] /\ query'[u] = query[u]
    BY <1>0, <2>1, SMT DEF BeginQuery, Goto, SessionLabels
  <2>3. RunOf(t)'
    BY <1>0, <2>2 DEF RunOf
  <2>4. CreditOf(t)'
    BY <1>0, <2>2 DEF CreditOf, Credit
  <2> QED
    BY <1>0, <2>2, <2>3, <2>4, OneThread
<1> QED
  BY <1>1, <1>2

(* getAndCacheStmt fails once where it finds that the connection broke. *)
LEMMA PrepareFailInv ==
    ASSUME NEW t \in Threads, SessionInv, FailInv, GetAndCacheStmt(t)
    PROVE  FailInv'
<1>0. /\ binding = "sessions" /\ binding' = binding
      /\ query' = query /\ pc[t] = "prepare"
      /\ stmts \in [Threads -> [Queries -> Nat]]
      /\ failures \in [Threads -> [Queries -> Int]]
      /\ query \in [Threads -> Queries \cup {"none"}]
      /\ pc \in [Threads -> SessionLabels]
      /\ conn \in [Threads -> [number : Nat, status : States]]
      /\ RunOf(t) /\ CreditOf(t)
  BY DEF FailInv, SessionInv, GetAndCacheStmt, Running, RowsAside
<1>1. PICK r \in Queries : r = query[t] /\ query'[t] = r
  BY <1>0 DEF RunOf
<1>2. /\ stmts[t] \in [Queries -> Nat] /\ failures[t] \in [Queries -> Int]
      /\ conn[t] \in [number : Nat, status : States]
  BY <1>0
<1>3. CASE UseCached(t)
  <2>1. /\ stmts' = stmts /\ conn' = conn /\ failures' = failures
        /\ stmts[t][r] # 0 /\ pc'[t] = "exec"
        /\ pc' \in [Threads -> SessionLabels]
        /\ \A u \in Threads \ {t} : pc'[u] = pc[u]
    BY <1>0, <1>1, <1>3, SMT DEF UseCached, Goto, SessionLabels
  <2>2. RunOf(t)'
    BY <1>0, <1>1, <2>1 DEF RunOf
  <2>3. CreditOf(t)'
    BY <1>0, <2>1 DEF CreditOf, Credit
  <2> QED
    BY <1>0, <2>1, <2>2, <2>3, OneThread
<1>4. CASE PrepareHere(t) /\ conn[t].status = "works"
  <2>1. /\ conn' = conn /\ failures' = failures /\ pc'[t] = "exec"
        /\ stmts' = [stmts EXCEPT ![t][r] = conn[t].number]
        /\ stmts[t][r] = 0
        /\ pc' \in [Threads -> SessionLabels]
        /\ \A u \in Threads \ {t} : pc'[u] = pc[u]
    BY <1>0, <1>1, <1>4, SMT DEF PrepareHere, Goto, SessionLabels
  <2>2. /\ stmts' \in [Threads -> [Queries -> Nat]]
        /\ \A u \in Threads \ {t} : stmts'[u] = stmts[u]
        /\ stmts'[t][r] = conn[t].number
        /\ \A q \in Queries \ {r} : stmts'[t][q] = stmts[t][q]
    BY <1>0, <1>1, <1>2, <2>1, SMT
  <2>3. RunOf(t)'
    BY <1>0, <1>1, <1>4, <2>1, <2>2 DEF RunOf
  <2>4. CreditOf(t)'
    BY <1>0, <1>1, <1>2, <1>4, <2>1, <2>2, SMT DEF CreditOf, Credit
  <2> QED
    BY <1>0, <2>1, <2>2, <2>3, <2>4, OneThread
<1>5. CASE PrepareHere(t) /\ conn[t].status # "works"
  <2>1. /\ conn[t].status = "broke" /\ stmts' = stmts /\ stmts[t][r] = 0
        /\ failures' = [failures EXCEPT ![t][r] = @ + 1]
        /\ conn' = [conn EXCEPT ![t] = [number |-> conn[t].number, status |-> "done"]]
        /\ pc'[t] = "idle"
        /\ pc' \in [Threads -> SessionLabels]
        /\ \A u \in Threads \ {t} : pc'[u] = pc[u]
    <3>1. conn[t].status = "broke" /\ PrepareFails(t) /\ stmts[t][query[t]] = 0
          /\ SetConn(t, conn[t].number, "done")
      BY <1>5 DEF PrepareHere
    <3>2. pc'[t] = "idle" /\ pc' \in [Threads -> SessionLabels]
          /\ \A u \in Threads \ {t} : pc'[u] = pc[u]
      BY <1>0, <3>1, SMT DEF PrepareFails, Goto, SessionLabels
    <3> QED
      BY <1>1, <3>1, <3>2 DEF PrepareFails, Fail, SetConn
  <2>2. /\ failures' \in [Threads -> [Queries -> Int]]
        /\ \A u \in Threads \ {t} : failures'[u] = failures[u] /\ conn'[u] = conn[u]
        /\ conn'[t].status = "done" /\ conn'[t].number = conn[t].number
        /\ failures'[t][r] = failures[t][r] + 1
        /\ \A q \in Queries \ {r} : failures'[t][q] = failures[t][q]
    BY <1>0, <1>1, <1>2, <2>1, SMT
  <2>3. RunOf(t)'
    BY <1>0, <2>1, <2>2 DEF RunOf
  <2>4. CreditOf(t)'
    BY <1>0, <1>1, <1>2, <2>1, <2>2, SMT DEF CreditOf, RunOf, Credit
  <2> QED
    BY <1>0, <2>1, <2>2, <2>3, <2>4, OneThread
<1>6. CASE Rebuild(t) /\ conn'[t].status # "nil"
  <2>1. /\ conn[t].status = "done"
        /\ conn' = [conn EXCEPT ![t] = [number |-> conn[t].number + 1, status |-> "works"]]
        /\ stmts' = stmts /\ failures' = failures /\ pc' = pc
    BY <1>0, <1>6, SMT DEF Rebuild, SetConn
  <2>2. /\ conn'[t].status = "works" /\ conn'[t].number = conn[t].number + 1
        /\ \A u \in Threads \ {t} : conn'[u] = conn[u]
    BY <1>0, <1>2, <2>1, SMT
  <2>3. RunOf(t)'
    BY <1>0, <1>2, <2>1, <2>2, SMT DEF RunOf
  <2>4. CreditOf(t)'
    BY <1>0, <1>2, <2>1, <2>2, SMT DEF CreditOf, Credit
  <2> QED
    BY <1>0, <2>1, <2>2, <2>3, <2>4, OneThread
<1>7. CASE Rebuild(t) /\ conn'[t].status = "nil"
  <2>1. /\ conn' = [conn EXCEPT ![t] = [number |-> 0, status |-> "nil"]]
        /\ stmts' = stmts /\ failures' = [failures EXCEPT ![t][r] = @ + 1]
        /\ pc'[t] = "idle"
        /\ pc' \in [Threads -> SessionLabels]
        /\ \A u \in Threads \ {t} : pc'[u] = pc[u]
    <3>1. PrepareFails(t) /\ SetConn(t, 0, "nil")
      <4>1. ~SetConn(t, conn[t].number + 1, "works")
        BY <1>0, <1>7, SMT DEF SetConn
      <4> QED
        BY <1>7, <4>1 DEF Rebuild
    <3>2. pc'[t] = "idle" /\ pc' \in [Threads -> SessionLabels]
          /\ \A u \in Threads \ {t} : pc'[u] = pc[u]
      BY <1>0, <3>1, SMT DEF PrepareFails, Goto, SessionLabels
    <3> QED
      BY <1>1, <3>1, <3>2 DEF PrepareFails, Fail, SetConn
  <2>2. /\ failures' \in [Threads -> [Queries -> Int]]
        /\ \A u \in Threads \ {t} : failures'[u] = failures[u] /\ conn'[u] = conn[u]
    BY <1>0, <1>1, <1>2, <2>1, SMT
  <2>3. RunOf(t)' /\ CreditOf(t)'
    BY <1>0, <1>7, <2>1, <2>2 DEF RunOf, CreditOf
  <2> QED
    BY <1>0, <2>1, <2>2, <2>3, OneThread
<1>8. CASE NilConn(t)
  <2>1. UNCHANGED <<pc, conn, stmts, failures, query, binding>>
    BY <1>0, <1>8 DEF NilConn
  <2> QED
    BY <2>1 DEF FailInv, FailsOncePerLoss, RunOf, CreditOf, Credit
<1> QED
  BY <1>3, <1>4, <1>5, <1>6, <1>7, <1>8 DEF GetAndCacheStmt

(* The failures still to come are a number. *)
LEMMA CreditNumber == ASSUME NEW v, NEW n, NEW s PROVE Credit(v, n, s) \in Int
  BY SMT DEF Credit

(* A failure uses up one of those still to come. *)
LEMMA CreditSpent ==
    ASSUME NEW v \in Nat, NEW n \in Nat, v # 0, n # 0,
           NEW s \in {"works", "broke", "done"}, ~(v = n /\ s = "works")
    PROVE  Credit(0, n, IF v = n /\ s = "broke" THEN "done" ELSE s) = Credit(v, n, s) - 1
  BY SMT DEF Credit

(* One query's failure adds nothing to those of the others. *)
LEMMA CreditKept ==
    ASSUME NEW v \in Nat, NEW n \in Nat, NEW s \in {"works", "broke", "done"}, NEW c
    PROVE  Credit(v, n, IF c /\ s = "broke" THEN "done" ELSE s) <= Credit(v, n, s)
  BY SMT DEF Credit

(* A query that is run works, or fails and is removed from the cache. *)
LEMMA ExecFailInv ==
    ASSUME NEW t \in Threads, SessionInv, FailInv, ExecStmt(t)
    PROVE  FailInv'
<1> DEFINE n == conn[t].number
           s == conn[t].status
<1>0. /\ binding = "sessions" /\ binding' = binding
      /\ query' = query /\ pc[t] = "exec"
      /\ stmts \in [Threads -> [Queries -> Nat]]
      /\ failures \in [Threads -> [Queries -> Int]]
      /\ query \in [Threads -> Queries \cup {"none"}]
      /\ pc \in [Threads -> SessionLabels]
      /\ conn \in [Threads -> [number : Nat, status : States]]
      /\ RunOf(t) /\ CreditOf(t)
  BY DEF FailInv, SessionInv, ExecStmt, Running, RowsAside, Goto
<1>1. PICK r \in Queries : r = query[t] /\ query'[t] = r
  BY <1>0 DEF RunOf
<1>2. /\ stmts[t] \in [Queries -> Nat] /\ failures[t] \in [Queries -> Int]
      /\ conn[t] \in [number : Nat, status : States]
      /\ stmts[t][r] # 0
  BY <1>0, <1>1 DEF RunOf
<1>3. /\ pc'[t] = "idle" /\ pc' \in [Threads -> SessionLabels]
      /\ \A u \in Threads \ {t} : pc'[u] = pc[u]
  BY <1>0, SMT DEF ExecStmt, Goto, SessionLabels
<1>4. CASE stmts[t][r] = n /\ s = "works"
  <2>1. /\ stmts' = stmts /\ conn' = conn
        /\ failures' = [failures EXCEPT ![t][r] = 0]
    BY <1>1, <1>4 DEF ExecStmt, ClearCache
  <2>2. /\ failures' \in [Threads -> [Queries -> Int]] /\ failures'[t][r] = 0
        /\ \A u \in Threads \ {t} : failures'[u] = failures[u]
        /\ \A q \in Queries \ {r} : failures'[t][q] = failures[t][q]
    BY <1>0, <1>1, <1>2, <2>1, SMT
  <2>3. RunOf(t)'
    BY <1>0, <1>3, <2>1 DEF RunOf
  <2>4. CreditOf(t)'
    BY <1>0, <1>1, <1>2, <1>4, <2>1, <2>2, SMT DEF CreditOf, Credit
  <2> QED
    BY <1>0, <1>3, <2>1, <2>2, <2>3, <2>4, OneThread
<1>5. CASE ~(stmts[t][r] = n /\ s = "works")
  <2>1. /\ stmts' = [stmts EXCEPT ![t][r] = 0]
        /\ failures' = [failures EXCEPT ![t][r] = @ + 1]
        /\ IF stmts[t][r] = n /\ s = "broke"
           THEN conn' = [conn EXCEPT ![t] = [number |-> n, status |-> "done"]]
           ELSE conn' = conn
    BY <1>1, <1>5 DEF ExecStmt, ClearCache, Fail, SetConn
  <2>2. /\ failures' \in [Threads -> [Queries -> Int]]
        /\ failures'[t][r] = failures[t][r] + 1
        /\ \A u \in Threads \ {t} : failures'[u] = failures[u]
        /\ \A q \in Queries \ {r} : failures'[t][q] = failures[t][q]
    BY <1>0, <1>1, <1>2, <2>1, SMT
  <2>3. /\ stmts' \in [Threads -> [Queries -> Nat]]
        /\ stmts'[t][r] = 0
        /\ \A u \in Threads \ {t} : stmts'[u] = stmts[u]
        /\ \A q \in Queries \ {r} : stmts'[t][q] = stmts[t][q]
    BY <1>0, <1>1, <1>2, <2>1, SMT
  <2>4. /\ \A u \in Threads \ {t} : conn'[u] = conn[u]
        /\ conn'[t].number = n
        /\ conn'[t].status = (IF stmts[t][r] = n /\ s = "broke" THEN "done" ELSE s)
    BY <1>0, <1>2, <2>1, SMT
  <2>5. RunOf(t)'
    BY <1>0, <1>1, <1>3, <2>3, <2>4 DEF RunOf
  <2>6. s # "nil" /\ s \notin {"absent", "closed"} => CreditOf(t)'
    <3>1. s \in {"works", "broke", "done"} => CreditOf(t)'
      <4> SUFFICES ASSUME s \in {"works", "broke", "done"}, NEW q \in Queries
                   PROVE  failures'[t][q] + Credit(stmts'[t][q], n, conn'[t].status) <= 0
        BY <2>4 DEF CreditOf
      <4>1. /\ failures[t][q] \in Int /\ stmts[t][q] \in Nat /\ n \in Nat
            /\ failures[t][q] + Credit(stmts[t][q], n, s) <= 0
        BY <1>0, <1>2, SMT DEF CreditOf
      <4>2. CASE q = r
        <5>0. n # 0
          BY <1>0 DEF RunOf
        <5>1. PICK v \in Nat : v = stmts[t][q] /\ v # 0 /\ ~(v = n /\ s = "works")
          BY <1>2, <1>5, <4>1, <4>2
        <5>2. conn'[t].status = IF v = n /\ s = "broke" THEN "done" ELSE s
          BY <2>4, <4>2, <5>1
        <5>3. Credit(0, n, conn'[t].status) = Credit(v, n, s) - 1
          <6> HIDE DEF n, s
          <6>1. s \in {"works", "broke", "done"} /\ v # 0 /\ ~(v = n /\ s = "works")
            BY <5>1
          <6>2. Credit(0, n, IF v = n /\ s = "broke" THEN "done" ELSE s)
                  = Credit(v, n, s) - 1
            BY ONLY <4>1, <5>0, <6>1, CreditSpent
          <6> QED
            BY <5>2, <6>2
        <5> QED
          BY <2>2, <2>3, <4>1, <4>2, <5>1, <5>3, CreditNumber, SMT
      <4>3. CASE q # r
        <5>1. Credit(stmts[t][q], n, conn'[t].status) <= Credit(stmts[t][q], n, s)
          BY <2>4, <4>1, CreditKept
        <5> QED
          BY <2>2, <2>3, <4>1, <4>3, <5>1, CreditNumber, SMT
      <4> QED
        BY <4>2, <4>3
    <3> QED
      BY <1>2, <3>1 DEF States
  <2>7. s = "nil" => CreditOf(t)'
    BY <2>4 DEF CreditOf
  <2>8. s \notin {"absent", "closed"}
    BY <1>0, <1>1, <1>2 DEF RunOf
  <2> QED
    BY <1>0, <1>3, <2>2, <2>3, <2>4, <2>5, <2>6, <2>7, <2>8, OneThread
<1> QED
  BY <1>4, <1>5

(* A refusal of the server, which is not counted, takes the statement out  *)
(* of the cache.                                                           *)
LEMMA ServerFailInv ==
    ASSUME NEW t \in Threads, SessionInv, FailInv, ServerError(t)
    PROVE  FailInv'
<1>0. /\ binding = "sessions" /\ binding' = binding
      /\ query' = query /\ failures' = failures /\ conn' = conn
      /\ stmts \in [Threads -> [Queries -> Nat]]
      /\ failures \in [Threads -> [Queries -> Int]]
      /\ query \in [Threads -> Queries \cup {"none"}]
      /\ pc \in [Threads -> SessionLabels]
      /\ conn \in [Threads -> [number : Nat, status : States]]
      /\ conn[t].status = "works"
      /\ RunOf(t) /\ CreditOf(t) /\ pc[t] \in {"prepare", "exec"}
  BY DEF FailInv, SessionInv, ServerError, Running, RowsAside, Goto
<1>1. PICK r \in Queries : r = query[t]
  BY <1>0 DEF RunOf
<1>2. /\ pc'[t] = "idle" /\ pc' \in [Threads -> SessionLabels]
      /\ \A u \in Threads \ {t} : pc'[u] = pc[u]
  <2>1. pc' = [pc EXCEPT ![t] = "idle"]
    BY DEF ServerError, Goto
  <2> QED
    BY <1>0, <2>1, SMT DEF SessionLabels
<1>3. stmts' = stmts \/ stmts' = [stmts EXCEPT ![t][r] = 0]
  BY <1>1 DEF ServerError, ClearCache
<1>4. /\ stmts' \in [Threads -> [Queries -> Nat]]
      /\ \A u \in Threads \ {t} : stmts'[u] = stmts[u]
      /\ \A q \in Queries : stmts'[t][q] \in {0, stmts[t][q]}
  <2>1. CASE stmts' = [stmts EXCEPT ![t][r] = 0]
    <3>1. stmts[t] \in [Queries -> Nat]
      BY <1>0
    <3>2. /\ stmts' \in [Threads -> [Queries -> Nat]]
          /\ \A u \in Threads \ {t} : stmts'[u] = stmts[u]
      BY <1>0, <1>1, <2>1, <3>1, SMT
    <3>3. \A q \in Queries : stmts'[t][q] \in {0, stmts[t][q]}
      BY <1>0, <1>1, <2>1, <3>1, SMT
    <3> QED
      BY <3>2, <3>3
  <2> QED
    BY <1>0, <1>3, <2>1
<1>5. RunOf(t)'
  BY <1>0, <1>2 DEF RunOf
<1>6. CreditOf(t)'
  BY <1>0, <1>4, SMT DEF CreditOf, Credit
<1> QED
  BY <1>0, <1>2, <1>4, <1>5, <1>6, OneThread

(* A loss allows each query one failure more. *)
LEMMA BreakFailInv ==
    ASSUME NEW t \in Threads, SessionInv, FailInv, Break(t)
    PROVE  FailInv'
<1>0. /\ binding = "sessions" /\ binding' = binding
      /\ query' = query /\ stmts' = stmts /\ pc' = pc
      /\ stmts \in [Threads -> [Queries -> Nat]]
      /\ failures \in [Threads -> [Queries -> Int]]
      /\ query \in [Threads -> Queries \cup {"none"}]
      /\ pc \in [Threads -> SessionLabels]
      /\ conn \in [Threads -> [number : Nat, status : States]]
      /\ conn[t].status = "works"
      /\ RunOf(t) /\ CreditOf(t)
  BY DEF FailInv, SessionInv, Break, Running, RowsAside
<1>1. /\ conn'[t].number = conn[t].number /\ conn'[t].status = "broke"
      /\ \A u \in Threads \ {t} : conn'[u] = conn[u]
  BY <1>0, SMT DEF Break, SetConn
<1>2. /\ failures' \in [Threads -> [Queries -> Int]]
      /\ \A u \in Threads \ {t} : failures'[u] = failures[u]
      /\ \A q \in Queries : failures'[t][q] = failures[t][q] - 1
  <2>1. failures' = [failures EXCEPT ![t] = [q \in Queries |-> failures[t][q] - 1]]
    BY DEF Break
  <2>2. [q \in Queries |-> failures[t][q] - 1] \in [Queries -> Int]
    BY <1>0, SMT
  <2> QED
    BY <1>0, <2>1, <2>2, SMT
<1>3. RunOf(t)'
  BY <1>0, <1>1 DEF RunOf
<1>4. CreditOf(t)'
  <2> SUFFICES ASSUME NEW q \in Queries
               PROVE  failures'[t][q] + Credit(stmts[t][q], conn[t].number, "broke") <= 0
    BY <1>0, <1>1 DEF CreditOf
  <2>1. /\ failures[t][q] \in Int
        /\ failures[t][q] + Credit(stmts[t][q], conn[t].number, "works") <= 0
    BY <1>0, SMT DEF CreditOf
  <2> QED
    BY <1>2, <2>1, SMT DEF Credit
<1> QED
  BY <1>0, <1>1, <1>2, <1>3, <1>4, OneThread

(* CleanupThread leaves no statement that could fail. *)
LEMMA CleanupFailInv ==
    ASSUME NEW t \in Threads, SessionInv, FailInv, SessionCleanupThread(t)
    PROVE  FailInv'
<1>0. /\ binding = "sessions" /\ binding' = binding
      /\ query' = query /\ failures' = failures
      /\ stmts \in [Threads -> [Queries -> Nat]]
      /\ failures \in [Threads -> [Queries -> Int]]
      /\ query \in [Threads -> Queries \cup {"none"}]
      /\ pc \in [Threads -> SessionLabels]
      /\ conn \in [Threads -> [number : Nat, status : States]]
      /\ RunOf(t) /\ CreditOf(t)
  BY DEF FailInv, SessionInv, SessionCleanupThread, Running, RowsAside
<1>1. /\ pc'[t] = "ended" /\ pc' \in [Threads -> SessionLabels]
      /\ \A u \in Threads \ {t} : pc'[u] = pc[u]
  <2>1. pc' = [pc EXCEPT ![t] = "ended"]
    BY DEF SessionCleanupThread, Goto
  <2> QED
    BY <1>0, <2>1, SMT DEF SessionLabels
<1>2. /\ stmts' \in [Threads -> [Queries -> Nat]]
      /\ \A u \in Threads \ {t} : stmts'[u] = stmts[u]
      /\ \A q \in Queries : stmts'[t][q] = 0
  <2>1. stmts' = [stmts EXCEPT ![t] = [q \in Queries |-> 0]]
    BY DEF SessionCleanupThread
  <2> QED
    BY <1>0, <2>1, SMT
<1>3. /\ \A u \in Threads \ {t} : conn'[u] = conn[u]
      /\ conn'[t].number = conn[t].number
      /\ conn'[t].status = IF conn[t].status = "nil" THEN "nil" ELSE "closed"
  <2>1. CASE conn[t].status = "nil"
    BY <2>1 DEF SessionCleanupThread
  <2>2. CASE conn[t].status # "nil"
    <3>1. conn' = [conn EXCEPT ![t] = [number |-> conn[t].number, status |-> "closed"]]
      BY <2>2 DEF SessionCleanupThread, SetConn
    <3> QED
      BY <1>0, <2>2, <3>1, SMT
  <2> QED
    BY <2>1, <2>2
<1>4. RunOf(t)'
  BY <1>1, <1>2, <1>3 DEF RunOf
<1>5. CreditOf(t)'
  <2>1. CASE conn[t].status = "nil"
    BY <1>3, <2>1 DEF CreditOf
  <2>2. CASE conn[t].status # "nil"
    <3> SUFFICES ASSUME NEW q \in Queries
                 PROVE  failures[t][q] + Credit(0, conn[t].number, "closed") <= 0
      BY <1>0, <1>2, <1>3, <2>2 DEF CreditOf
    <3>1. /\ failures[t][q] \in Int
          /\ failures[t][q] + Credit(stmts[t][q], conn[t].number, conn[t].status) <= 0
      BY <1>0, <2>2, SMT DEF CreditOf
    <3> QED
      BY <3>1, SMT DEF Credit
  <2> QED
    BY <2>1, <2>2
<1> QED
  BY <1>0, <1>1, <1>2, <1>3, <1>4, <1>5, OneThread

(* Only the sessions touch what FailInv speaks of. *)
LEMMA NextFailInv == SessionInv /\ FailInv /\ [Next]_vars => FailInv'
<1> SUFFICES ASSUME SessionInv, FailInv, [Next]_vars PROVE FailInv'
  OBVIOUS
<1>1. binding' = binding
  BY BindingStays
<1>2. CASE \E t \in Threads : SessionStep(t)
  BY <1>2, BeginFailInv, PrepareFailInv, ExecFailInv, ServerFailInv, BreakFailInv,
     CleanupFailInv DEF SessionStep
<1>3. CASE UNCHANGED sessionVars /\ (binding = "sessions" => pc' = pc)
  BY <1>1, <1>3, SameFailures
<1>4. CASE \E t \in Threads : \/ CommonStep(t) \/ RemoteStep(t) \/ TikvStep(t)
                              \/ EmbeddedStep(t) \/ ElasticStep(t)
  <2>1. binding # "sessions"
    BY <1>4, OtherStepsOff DEF FailInv
  <2> QED
    BY <1>1, <1>2, <1>4, <2>1, SameFailures DEF Next, vars, SessionStep
<1> QED
  BY <1>2, <1>3, <1>4 DEF Next, vars, rowVars, SetupStep, Flush

(* The cache of prepared statements never holds one that keeps failing:    *)
(* each connection a thread loses costs each query one failure at most.    *)
THEOREM QueriesFailOncePerLoss == Spec => []FailsOncePerLoss
<1>1. SessionInv /\ FailInv /\ [Next]_vars => SessionInv' /\ FailInv'
  BY NextSessionInv, NextFailInv
<1>2. SessionInv /\ FailInv => FailsOncePerLoss
  <2> SUFFICES ASSUME SessionInv, FailInv, binding = "sessions",
                      NEW t \in Threads, conn[t].status # "nil", NEW q \in Queries
               PROVE  failures[t][q] <= 0
    BY DEF FailInv, FailsOncePerLoss
  <2>1. /\ failures[t][q] \in Int
        /\ failures[t][q] + Credit(stmts[t][q], conn[t].number, conn[t].status) <= 0
    BY SMT DEF FailInv, CreditOf
  <2> QED
    BY <2>1, SMT DEF Credit
<1> QED
  BY <1>1, <1>2, SessionInitInv, FailInit, PTL DEF Spec

-----------------------------------------------------------------------------
(* The creators. *)

(* The calls a creator may still have to make: those that are sure to make *)
(* the table, those that do unless the process has seen it, and the others *)
(* (suffixes of what Calls returns).                                       *)
Making == {<<"ensure">>, <<"drop", "ensure">>, <<"ensure", "flush">>, <<"check", "ensure">>,
           <<"create">>, <<"drop", "create">>}
MakingUnseen ==
    {<<"createUnseen">>, <<"dropSeen", "createUnseen">>, <<"tryDrop", "createUnseen">>,
     <<"check", "createUnseen">>, <<"check", "dropSeen", "createUnseen">>,
     <<"check", "tryDrop", "createUnseen">>}
Ending == {<< >>, <<"flush">>, <<"need">>, <<"check", "need">>}

(* A process that will make the table, ... *)
WillMake(p) == todo[p] \in Making \/ (todo[p] \in MakingUnseen /\ ~saw[p])

(* ... of which there is one as long as the table is not there, if it is   *)
(* to be loaded.                                                           *)
TableWillBe ==
    /\ command \in {"load", "run", "none"}
    /\ table \in BOOLEAN
    /\ saw \in [Processes -> BOOLEAN]
    /\ todo \in [Processes -> Making \cup MakingUnseen \cup Ending]
    /\ outcome \in [Processes -> {"creating", "ok", "failed"}]
    /\ command = "none" => table /\ \A p \in Processes : outcome[p] # "creating"
    /\ command = "load" => table \/ \E p \in Processes : outcome[p] = "creating" /\ WillMake(p)

(* Two short sequences, one after the other. *)
LEMMA Pair ==
    ASSUME NEW S, NEW a \in S, NEW b \in S
    PROVE  <<a>> \o <<b>> = <<a, b>>
<1> DEFINE joined == <<a>> \o <<b>>
<1>1. <<a>> \in Seq(S) /\ <<b>> \in Seq(S) /\ <<a, b>> \in Seq(S)
  BY SMT
<1>2. Len(<<a>>) = 1 /\ Len(<<b>>) = 1 /\ Len(<<a, b>>) = 2
  BY SMT
<1>3. joined \in Seq(S)
  BY <1>1, SMT
<1>4. Len(joined) = 2 /\ joined[1] = a /\ joined[2] = b
  BY <1>1, <1>2, SMT
<1>5. <<a, b>>[1] = a /\ <<a, b>>[2] = b
  BY SMT
<1> HIDE DEF joined
<1>6. \A i \in 1..Len(joined) : i = 1 \/ i = 2
  BY <1>4, SMT
<1>7. \A i \in 1..Len(joined) : joined[i] = <<a, b>>[i]
  BY <1>4, <1>5, <1>6
<1>8. joined = <<a, b>>
  BY <1>1, <1>2, <1>3, <1>4, <1>7, SeqEqual
<1> QED
  BY <1>8 DEF joined

(* Likewise, when the first has two members. *)
LEMMA Triple ==
    ASSUME NEW S, NEW a \in S, NEW b \in S, NEW c \in S
    PROVE  <<a, b>> \o <<c>> = <<a, b, c>>
<1> DEFINE joined == <<a, b>> \o <<c>>
<1>1. <<a, b>> \in Seq(S) /\ <<c>> \in Seq(S) /\ <<a, b, c>> \in Seq(S)
  BY SMT
<1>2. Len(<<a, b>>) = 2 /\ Len(<<c>>) = 1 /\ Len(<<a, b, c>>) = 3
  BY SMT
<1>3. joined \in Seq(S)
  BY <1>1, SMT
<1>4. Len(joined) = 3 /\ joined[1] = a /\ joined[2] = b /\ joined[3] = c
  BY <1>1, <1>2, SMT
<1>5. <<a, b, c>>[1] = a /\ <<a, b, c>>[2] = b /\ <<a, b, c>>[3] = c
  BY SMT
<1> HIDE DEF joined
<1>6. \A i \in 1..Len(joined) : i = 1 \/ i = 2 \/ i = 3
  BY <1>4, SMT
<1>7. \A i \in 1..Len(joined) : joined[i] = <<a, b, c>>[i]
  BY <1>4, <1>5, <1>6
<1>8. joined = <<a, b, c>>
  BY <1>1, <1>2, <1>3, <1>4, <1>7, SeqEqual
<1> QED
  BY <1>8 DEF joined

(* Every creator makes such calls, and for a load those that make the      *)
(* table.                                                                  *)
LEMMA CallsAre ==
    ASSUME NEW cmd \in {"load", "run"}, NEW drop \in BOOLEAN, binding \in Creating
    PROVE  /\ Calls(cmd, drop) \in Making \cup MakingUnseen \cup Ending
           /\ cmd = "load" => Calls(cmd, drop) \in Making \cup MakingUnseen
<1> DEFINE Result(s) == /\ s \in Making \cup MakingUnseen \cup Ending
                        /\ cmd = "load" => s \in Making \cup MakingUnseen
<1>1. /\ Result(<<"ensure">>) /\ Result(<<"drop", "ensure">>) /\ Result(<<"ensure", "flush">>)
      /\ Result(<<"check", "ensure">>) /\ Result(<<"drop", "create">>)
      /\ Result(<<"check", "createUnseen">>)
      /\ Result(<<"check", "dropSeen", "createUnseen">>)
      /\ Result(<<"check", "tryDrop", "createUnseen">>)
      /\ cmd = "run" => Result(<< >>) /\ Result(<<"check", "need">>)
  BY DEF Making, MakingUnseen, Ending
<1>2. /\ << >> \o <<"ensure">> = <<"ensure">>
      /\ <<"drop">> \o <<"ensure">> = <<"drop", "ensure">>
      /\ <<"ensure">> \o << >> = <<"ensure">>
      /\ <<"ensure">> \o <<"flush">> = <<"ensure", "flush">>
      /\ (<<"check">> \o << >>) \o <<"createUnseen">> = <<"check", "createUnseen">>
      /\ (<<"check">> \o <<"dropSeen">>) \o <<"createUnseen">>
            = <<"check", "dropSeen", "createUnseen">>
      /\ (<<"check">> \o <<"tryDrop">>) \o <<"createUnseen">>
            = <<"check", "tryDrop", "createUnseen">>
  <2> DEFINE S == {"drop", "ensure", "flush", "check", "createUnseen", "dropSeen", "tryDrop"}
  <2>1. /\ << >> \o <<"ensure">> = <<"ensure">> /\ <<"ensure">> \o << >> = <<"ensure">>
        /\ <<"check">> \o << >> = <<"check">>
    BY SMT
  <2>2. /\ "drop" \in S /\ "ensure" \in S /\ "flush" \in S /\ "check" \in S
        /\ "createUnseen" \in S /\ "dropSeen" \in S /\ "tryDrop" \in S
    OBVIOUS
  <2> HIDE DEF S
  <2>3. /\ <<"drop">> \o <<"ensure">> = <<"drop", "ensure">>
        /\ <<"ensure">> \o <<"flush">> = <<"ensure", "flush">>
        /\ <<"check">> \o <<"createUnseen">> = <<"check", "createUnseen">>
        /\ <<"check">> \o <<"dropSeen">> = <<"check", "dropSeen">>
        /\ <<"check">> \o <<"tryDrop">> = <<"check", "tryDrop">>
    BY <2>2, Pair
  <2>4. <<"check", "dropSeen">> \o <<"createUnseen">> = <<"check", "dropSeen", "createUnseen">>
    BY <2>2, Triple
  <2>5. <<"check", "tryDrop">> \o <<"createUnseen">> = <<"check", "tryDrop", "createUnseen">>
    BY <2>2, Triple
  <2> QED
    BY <2>1, <2>3, <2>4, <2>5
<1> HIDE DEF Result
<1>3. Result(MysqlCreate(cmd, drop)) /\ Result(PgCreate(cmd, drop))
  BY <1>1, <1>2 DEF MysqlCreate, PgCreate, When
<1>4. /\ Result(CassandraCreate(cmd, drop)) /\ Result(SqliteCreate(cmd, drop))
      /\ Result(BadgerCreate(cmd, drop)) /\ Result(BoltCreate(cmd, drop))
      /\ Result(RocksCreate(cmd, drop))
  BY <1>1, <1>2 DEF CassandraCreate, SqliteCreate, BadgerCreate, BoltCreate, RocksCreate, When
<1>5. Result(RedisCreate(cmd, drop)) /\ Result(S3Create(cmd, drop))
  BY <1>1, <1>2 DEF RedisCreate, S3Create, When
<1>6. Result(SpannerCreate(cmd, drop)) /\ Result(DynamoCreate(cmd, drop))
  BY <1>1, <1>2 DEF SpannerCreate, DynamoCreate, When
<1>7. Result(ElasticCreate(cmd, drop))
  BY <1>1, <1>2 DEF ElasticCreate, When
<1>8. Result(Calls(cmd, drop))
  BY <1>3, <1>4, <1>5, <1>6, <1>7 DEF Calls
<1> QED
  BY <1>8 DEF Result

(* The first process makes the table unless it is there. *)
LEMMA TableInit == Init => TableWillBe
<1> SUFFICES ASSUME Init PROVE TableWillBe
  OBVIOUS
<1>1. SetupInit
  BY DEF Init
<1>2. saw \in [Processes -> BOOLEAN] /\ \A p \in Processes : saw[p] = FALSE
  BY <1>1 DEF SetupInit, All
<1>3. CASE binding \in Creating
  <2>1. command \in {"load", "run"} /\ dropdata \in BOOLEAN /\ table \in BOOLEAN
    BY <1>1, <1>3 DEF SetupInit
  <2>2. /\ todo = [p \in Processes |-> Calls(command, dropdata)]
        /\ outcome = [p \in Processes |-> IF p = "p2" /\ binding \in Embedded
                                          THEN "ok" ELSE "creating"]
    BY <1>1, <1>3 DEF SetupInit, All
  <2>3. /\ Calls(command, dropdata) \in Making \cup MakingUnseen \cup Ending
        /\ command = "load" => Calls(command, dropdata) \in Making \cup MakingUnseen
    BY <2>1, <1>3, CallsAre
  <2>4. /\ todo \in [Processes -> Making \cup MakingUnseen \cup Ending]
        /\ outcome \in [Processes -> {"creating", "ok", "failed"}]
    BY <2>2, <2>3, SMT
  <2>5. "p1" \in Processes /\ outcome["p1"] = "creating"
    BY <2>2, SMT DEF Processes
  <2>6. todo["p1"] = Calls(command, dropdata) /\ ~saw["p1"]
    BY <2>2, <2>5, <1>2
  <2>7. command = "load" => WillMake("p1")
    BY <2>6, <2>3 DEF WillMake
  <2>8. command \in {"load", "run", "none"} /\ command # "none"
    BY <2>1
  <2> QED
    BY <2>1, <2>4, <2>5, <2>7, <2>8, <1>2 DEF TableWillBe
<1>4. CASE binding \notin Creating
  <2>1. /\ command = "none" /\ table = TRUE
        /\ todo = [p \in Processes |-> << >>] /\ outcome = [p \in Processes |-> "ok"]
    BY <1>1, <1>4 DEF SetupInit, All
  <2>2. /\ todo \in [Processes -> Making \cup MakingUnseen \cup Ending]
        /\ outcome \in [Processes -> {"creating", "ok", "failed"}]
    BY <2>1 DEF Ending
  <2> QED
    BY <2>1, <2>2, <1>2 DEF TableWillBe
<1> QED
  BY <1>3, <1>4

(* What is left of such a sequence after its first call: it still makes    *)
(* the table, unless that was the call which did.                          *)
CallsLeft(s) ==
    /\ Tail(s) \in Making \cup MakingUnseen \cup Ending
    /\ Head(s) = "drop" => Tail(s) \in Making
    /\ Head(s) \in {"dropSeen", "tryDrop"} => Tail(s) \in MakingUnseen

(* So it is of all of them. *)
LEMMA AfterCall ==
    ASSUME NEW s, s # << >>
    PROVE  /\ s \in Making =>
                CallsLeft(s) /\ (Tail(s) \in Making \/ Head(s) \in {"ensure", "create"})
           /\ s \in MakingUnseen =>
                CallsLeft(s) /\ (Tail(s) \in MakingUnseen \/ Head(s) = "createUnseen")
           /\ s \in Ending => CallsLeft(s)
<1>1. ASSUME s \in Making
      PROVE  CallsLeft(s) /\ (Tail(s) \in Making \/ Head(s) \in {"ensure", "create"})
  <2>1. CASE s = <<"ensure">>
    <3>1. Head(s) = "ensure" /\ Tail(s) = << >>
      BY <2>1, SMT
    <3> QED
      BY <3>1 DEF Making, MakingUnseen, Ending, CallsLeft
  <2>2. CASE s = <<"drop", "ensure">>
    <3>1. Head(s) = "drop" /\ Tail(s) = <<"ensure">>
      BY <2>2, SMT
    <3> QED
      BY <3>1 DEF Making, MakingUnseen, Ending, CallsLeft
  <2>3. CASE s = <<"ensure", "flush">>
    <3>1. Head(s) = "ensure" /\ Tail(s) = <<"flush">>
      BY <2>3, SMT
    <3> QED
      BY <3>1 DEF Making, MakingUnseen, Ending, CallsLeft
  <2>4. CASE s = <<"check", "ensure">>
    <3>1. Head(s) = "check" /\ Tail(s) = <<"ensure">>
      BY <2>4, SMT
    <3> QED
      BY <3>1 DEF Making, MakingUnseen, Ending, CallsLeft
  <2>5. CASE s = <<"create">>
    <3>1. Head(s) = "create" /\ Tail(s) = << >>
      BY <2>5, SMT
    <3> QED
      BY <3>1 DEF Making, MakingUnseen, Ending, CallsLeft
  <2>6. CASE s = <<"drop", "create">>
    <3>1. Head(s) = "drop" /\ Tail(s) = <<"create">>
      BY <2>6, SMT
    <3> QED
      BY <3>1 DEF Making, MakingUnseen, Ending, CallsLeft
  <2> QED
    BY <2>1, <2>2, <2>3, <2>4, <2>5, <2>6, <1>1 DEF Making
<1>2. ASSUME s \in MakingUnseen
      PROVE  CallsLeft(s) /\ (Tail(s) \in MakingUnseen \/ Head(s) = "createUnseen")
  <2>1. CASE s = <<"createUnseen">>
    <3>1. Head(s) = "createUnseen" /\ Tail(s) = << >>
      BY <2>1, SMT
    <3> QED
      BY <3>1 DEF Making, MakingUnseen, Ending, CallsLeft
  <2>2. CASE s = <<"dropSeen", "createUnseen">>
    <3>1. Head(s) = "dropSeen" /\ Tail(s) = <<"createUnseen">>
      BY <2>2, SMT
    <3> QED
      BY <3>1 DEF Making, MakingUnseen, Ending, CallsLeft
  <2>3. CASE s = <<"tryDrop", "createUnseen">>
    <3>1. Head(s) = "tryDrop" /\ Tail(s) = <<"createUnseen">>
      BY <2>3, SMT
    <3> QED
      BY <3>1 DEF Making, MakingUnseen, Ending, CallsLeft
  <2>4. CASE s = <<"check", "createUnseen">>
    <3>1. Head(s) = "check" /\ Tail(s) = <<"createUnseen">>
      BY <2>4, SMT
    <3> QED
      BY <3>1 DEF Making, MakingUnseen, Ending, CallsLeft
  <2>5. CASE s = <<"check", "dropSeen", "createUnseen">>
    <3>1. Head(s) = "check" /\ Tail(s) = <<"dropSeen", "createUnseen">>
      BY <2>5, SMT
    <3> QED
      BY <3>1 DEF Making, MakingUnseen, Ending, CallsLeft
  <2>6. CASE s = <<"check", "tryDrop", "createUnseen">>
    <3>1. Head(s) = "check" /\ Tail(s) = <<"tryDrop", "createUnseen">>
      BY <2>6, SMT
    <3> QED
      BY <3>1 DEF Making, MakingUnseen, Ending, CallsLeft
  <2> QED
    BY <2>1, <2>2, <2>3, <2>4, <2>5, <2>6, <1>2 DEF MakingUnseen
<1>3. ASSUME s \in Ending PROVE CallsLeft(s)
  <2>1. CASE s = <<"flush">>
    <3>1. Head(s) = "flush" /\ Tail(s) = << >>
      BY <2>1, SMT
    <3> QED
      BY <3>1 DEF Making, MakingUnseen, Ending, CallsLeft
  <2>2. CASE s = <<"need">>
    <3>1. Head(s) = "need" /\ Tail(s) = << >>
      BY <2>2, SMT
    <3> QED
      BY <3>1 DEF Making, MakingUnseen, Ending, CallsLeft
  <2>3. CASE s = <<"check", "need">>
    <3>1. Head(s) = "check" /\ Tail(s) = <<"need">>
      BY <2>3, SMT
    <3> QED
      BY <3>1 DEF Making, MakingUnseen, Ending, CallsLeft
  <2> QED
    BY <2>1, <2>2, <2>3, <1>3 DEF Ending
<1> QED
  BY <1>1, <1>2, <1>3

(* A call of a creator that drops the table is followed by one that makes  *)
(* it.                                                                     *)
LEMMA CreateCallTable ==
    ASSUME TableWillBe, NEW p \in Processes, outcome[p] = "creating", todo[p] # << >>,
           CreateCall(p, Head(todo[p])), UNCHANGED command
    PROVE  TableWillBe'
<1> DEFINE call == Head(todo[p])
<1>1. /\ command \in {"load", "run", "none"}
      /\ table \in BOOLEAN
      /\ saw \in [Processes -> BOOLEAN]
      /\ todo \in [Processes -> Making \cup MakingUnseen \cup Ending]
      /\ outcome \in [Processes -> {"creating", "ok", "failed"}]
      /\ command = "none" => table /\ \A q \in Processes : outcome[q] # "creating"
      /\ command = "load" =>
            table \/ \E q \in Processes : outcome[q] = "creating" /\ WillMake(q)
  BY DEF TableWillBe
<1>2. /\ todo' = [todo EXCEPT ![p] = Tail(@)]
      /\ table' = ((table /\ ~Drops(p, call)) \/ Makes(p, call))
      /\ saw' = [saw EXCEPT ![p] = CASE call = "check" -> table
                                   [] call \in {"dropSeen", "tryDrop"} -> FALSE
                                   [] OTHER -> @]
      /\ outcome' = outcome
  BY DEF CreateCall
<1>3. /\ Tail(todo[p]) \in Making \cup MakingUnseen \cup Ending
      /\ call = "drop" => Tail(todo[p]) \in Making
      /\ call \in {"dropSeen", "tryDrop"} => Tail(todo[p]) \in MakingUnseen
      /\ todo[p] \in Making => Tail(todo[p]) \in Making \/ call \in {"ensure", "create"}
      /\ todo[p] \in MakingUnseen => Tail(todo[p]) \in MakingUnseen \/ call = "createUnseen"
  BY <1>1, AfterCall DEF CallsLeft
<1> HIDE DEF call
<1>4. /\ todo'[p] = Tail(todo[p])
      /\ \A q \in Processes \ {p} : todo'[q] = todo[q] /\ saw'[q] = saw[q]
      /\ todo' \in [Processes -> Making \cup MakingUnseen \cup Ending]
  BY <1>1, <1>2, <1>3, SMT
<1>5. /\ call = "check" => saw'[p] = table
      /\ call \in {"dropSeen", "tryDrop"} => saw'[p] = FALSE
      /\ call \notin {"check", "dropSeen", "tryDrop"} => saw'[p] = saw[p]
  BY <1>1, <1>2
<1>6. saw' \in [Processes -> BOOLEAN]
  BY <1>1, <1>2
<1>7. table' \in BOOLEAN
  BY <1>2
<1>8. ASSUME command = "load", ~table'
      PROVE  \E q \in Processes : outcome'[q] = "creating" /\ WillMake(q)'
  <2>1. ~Makes(p, call) /\ (~table \/ Drops(p, call))
    BY <1>2, <1>8
  <2>2. CASE Drops(p, call)
    <3>1. WillMake(p)'
      BY <2>2, <1>3, <1>4, <1>5 DEF WillMake, Drops
    <3> QED
      BY <3>1, <1>2
  <2>3. CASE ~table
    <3>1. PICK q \in Processes : outcome[q] = "creating" /\ WillMake(q)
      BY <2>3, <1>1, <1>8
    <3>2. CASE q # p
      BY <3>1, <3>2, <1>2, <1>4 DEF WillMake
    <3>3. CASE q = p
      <4>1. WillMake(p)'
        BY <3>1, <3>3, <2>1, <2>3, <1>3, <1>4, <1>5 DEF WillMake, Makes
      <4> QED
        BY <4>1, <1>2
    <3> QED
      BY <3>2, <3>3
  <2> QED
    BY <2>1, <2>2, <2>3
<1>9. command # "none"
  BY <1>1
<1> QED
  BY <1>1, <1>2, <1>4, <1>6, <1>7, <1>8, <1>9 DEF TableWillBe

(* A creator that ends, with an error or without, was not the one that is  *)
(* to make the table.                                                      *)
LEMMA CreateEndsTable ==
    ASSUME TableWillBe, NEW p \in Processes, outcome[p] = "creating", UNCHANGED command,
           (todo[p] # << >> /\ CreateFails(p, Head(todo[p]))) \/ CreateReturns(p)
    PROVE  TableWillBe'
<1>1. /\ command \in {"load", "run", "none"}
      /\ table \in BOOLEAN
      /\ saw \in [Processes -> BOOLEAN]
      /\ todo \in [Processes -> Making \cup MakingUnseen \cup Ending]
      /\ outcome \in [Processes -> {"creating", "ok", "failed"}]
      /\ command = "none" => table /\ \A q \in Processes : outcome[q] # "creating"
      /\ command = "load" =>
            table \/ \E q \in Processes : outcome[q] = "creating" /\ WillMake(q)
  BY DEF TableWillBe
<1>2. table' = table /\ todo' = todo /\ saw' = saw /\ command' = command
  BY DEF CreateFails, CreateReturns
<1>3. PICK r \in {"ok", "failed"} : outcome' = [outcome EXCEPT ![p] = r]
  BY DEF CreateFails, CreateReturns
<1>4. /\ outcome' \in [Processes -> {"creating", "ok", "failed"}]
      /\ \A q \in Processes \ {p} : outcome'[q] = outcome[q]
  BY <1>1, <1>3, SMT
<1>5. ASSUME ~table, WillMake(p) PROVE FALSE
  <2>1. CASE CreateReturns(p)
    <3>1. todo[p] = << >>
      BY <2>1 DEF CreateReturns
    <3>2. << >> \notin Making /\ << >> \notin MakingUnseen
      BY SMT DEF Making, MakingUnseen
    <3> QED
      BY <3>1, <3>2, <1>5 DEF WillMake
  <2>2. CASE todo[p] # << >> /\ CreateFails(p, Head(todo[p]))
    <3>1. (Head(todo[p]) = "dropSeen" /\ saw[p]) \/ Head(todo[p]) = "need"
      BY <2>2, <1>5 DEF CreateFails, Refused
    <3>2. /\ todo[p] \in Making => Head(todo[p]) \in {"ensure", "drop", "check", "create"}
          /\ todo[p] \in MakingUnseen =>
                Head(todo[p]) \in {"createUnseen", "dropSeen", "tryDrop", "check"}
      BY SMT DEF Making, MakingUnseen
    <3> QED
      BY <3>1, <3>2, <1>5 DEF WillMake
  <2> QED
    BY <2>1, <2>2
<1>6. \A q \in Processes : WillMake(q)' <=> WillMake(q)
  BY <1>2 DEF WillMake
<1>7. command # "none"
  BY <1>1
<1>8. ASSUME command = "load", ~table
      PROVE  \E q \in Processes : outcome'[q] = "creating" /\ WillMake(q)'
  <2>1. PICK q \in Processes : outcome[q] = "creating" /\ WillMake(q)
    BY <1>1, <1>8
  <2>2. q # p
    BY <2>1, <1>5, <1>8
  <2> QED
    BY <2>1, <2>2, <1>4, <1>6
<1> QED
  BY <1>1, <1>2, <1>4, <1>7, <1>8 DEF TableWillBe

(* So the table is there or will be. *)
LEMMA TableNext == TableWillBe /\ [Next]_vars => TableWillBe'
<1> SUFFICES ASSUME TableWillBe, [Next]_vars PROVE TableWillBe'
  OBVIOUS
<1>1. CASE UNCHANGED setupVars
  <2>1. /\ command' = command /\ table' = table /\ todo' = todo /\ saw' = saw
        /\ outcome' = outcome
    BY <1>1 DEF setupVars
  <2>2. \A p \in Processes : WillMake(p)' <=> WillMake(p)
    BY <2>1 DEF WillMake
  <2> QED
    BY <2>1, <2>2 DEF TableWillBe
<1>2. CASE SetupStep
  <2>1. CASE StartThreads
    <3>1. /\ command' = "none" /\ table' = TRUE /\ saw' = [p \in Processes |-> FALSE]
          /\ todo' = [p \in Processes |-> << >>] /\ outcome' = [p \in Processes |-> "ok"]
      BY <2>1 DEF StartThreads, All
    <3>2. /\ todo' \in [Processes -> Making \cup MakingUnseen \cup Ending]
          /\ outcome' \in [Processes -> {"creating", "ok", "failed"}]
          /\ saw' \in [Processes -> BOOLEAN]
      BY <3>1 DEF Ending
    <3> QED
      BY <3>1, <3>2 DEF TableWillBe
  <2>2. ASSUME NEW p \in Processes, outcome[p] = "creating", UNCHANGED <<command, dropdata>>,
               \/ /\ todo[p] # << >>
                  /\ CreateCall(p, Head(todo[p])) \/ CreateFails(p, Head(todo[p]))
               \/ CreateReturns(p)
        PROVE  TableWillBe'
    BY <2>2, CreateCallTable, CreateEndsTable
  <2> QED
    BY <1>2, <2>1, <2>2 DEF SetupStep
<1>3. SetupStep \/ UNCHANGED setupVars
  BY DEF Next, vars
<1> QED
  BY <1>1, <1>2, <1>3

(* When the creators have returned and one of them has a database, the     *)
(* table is there: the drops and creations of two processes that are       *)
(* started together may interleave in any way, and a creator that fails    *)
(* fails because another one is still to make the table or has made it     *)
(* (the creators of db/, called by main).                                  *)
THEOREM TheTableIsReady == Spec => []TableReady
<1>1. TableWillBe => TableReady
  BY DEF TableWillBe, TableReady, Created
<1> QED
  BY <1>1, TableInit, TableNext, PTL DEF Spec
=============================================================================
