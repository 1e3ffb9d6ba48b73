----------------------------- MODULE ScanProofs -----------------------------
(***************************************************************************)
(* The operations that go over many rows, for any number of threads, keys  *)
(* and operations and any size of a page: what Count, Clean and the Scan   *)
(* of s3 promise while other threads change the table they page through,   *)
(* and what the Scans of the other bindings return.  The steps that page   *)
(* are those of TableProofs; they rely on the invariant of BindingsProofs. *)
(***************************************************************************)
EXTENDS BindingsProofs, TableProofs

\* Leaves are left to Zenon; those with arithmetic or functions cite SMT.
USE Zenon

-----------------------------------------------------------------------------
(* The operations that page through the table. *)

(* What the operations that page rely on always holds. *)
LEMMA PagesAlways == Spec => []AllPages
  BY PagesInit, PagesNext, BindingsInv, PTL DEF Spec

(* However the table changes while Count pages through it: every key that  *)
(* was there when it began and was left alone is counted, no key twice and *)
(* none that was never there, and in a transaction the count is exact.     *)
THEOREM CountsAreBetween == Spec => []CountIsBetween
<1>1. AllPages => CountIsBetween
  <2> SUFFICES ASSUME NEW t \in Threads, pc[t] = "counted", PagesInv(t)
               PROVE  /\ op[t].count >= Cardinality(op[t].began \ op[t].since)
                      /\ op[t].count <= Cardinality(op[t].began \cup op[t].since)
                      /\ Txn => op[t].count = Cardinality(op[t].began)
    BY DEF AllPages, CountIsBetween
  <2>1. CountPages(t)
    BY DEF PagesInv
  <2>2. PICK keys \in SUBSET Keys : Counted(op[t], keys)
    BY <2>1 DEF CountPages
  <2> DEFINE stable == op[t].began \ op[t].since
             seen == op[t].began \cup op[t].since
  <2>3. stable \in SUBSET Keys /\ seen \in SUBSET Keys /\ op[t].began \in SUBSET Keys
    BY <2>1 DEF CountPages, Drift
  <2>4. keys \subseteq seen /\ stable \subseteq keys
    BY <2>1, <2>2, <2>3 DEF CountPages, Counted
  <2>5. Txn => keys = op[t].began
    BY <2>1, <2>2, <2>3 DEF CountPages, Counted
  <2>6. op[t].count = Cardinality(keys)
    BY <2>2 DEF Counted
  <2> HIDE DEF stable, seen
  <2>7. Cardinality(stable) <= Cardinality(keys) /\ Cardinality(keys) <= Cardinality(seen)
    BY <2>3, <2>4, KeysFinite, FS_Subset
  <2>8. Cardinality(stable) \in Nat /\ Cardinality(keys) \in Nat
    BY <2>3, KeysFinite
  <2>9. Cardinality(keys) >= Cardinality(stable)
    BY <2>7, <2>8, SMT
  <2> QED
    BY <2>5, <2>6, <2>7, <2>9 DEF stable, seen
<1> QED
  BY <1>1, PagesAlways, PTL

(* When Clean reports success, after one range or any number of batches,   *)
(* no row is left but those other threads wrote after it began.            *)
THEOREM CleanLeavesNone == Spec => []CleanLeavesNothing
<1>1. AllPages => CleanLeavesNothing
  BY DEF AllPages, PagesInv, CleanPages, CleanLeavesNothing
<1> QED
  BY <1>1, PagesAlways, PTL

(* However other threads insert and delete while the Scan of s3 pages      *)
(* through the bucket: the keys come in order and none twice, none that    *)
(* was never there, and none that was there all along and could be read is *)
(* passed over.                                                            *)
THEOREM ScansAreBetween == Spec => []ScanIsBetween
<1>1. AllPages => ScanIsBetween
  <2> SUFFICES ASSUME NEW t \in Threads, pc[t] = "scanned", PagesInv(t)
               PROVE  LET out == op[t].out
                          stable == op[t].began \ op[t].since
                      IN /\ Len(out) <= op[t].count
                         /\ \A i, j \in 1..Len(out) : i < j => out[i] < out[j]
                         /\ Range(out) \subseteq op[t].began \cup op[t].since
                         /\ \A k \in stable : \/ k \in Range(out)
                                              \/ Len(out) = op[t].count /\ out[Len(out)] < k
    BY DEF AllPages, ScanIsBetween
  <2>1. ScanSeen(op[t]) /\ Scanned(op[t])
    BY DEF PagesInv, ScanPages
  <2> QED
    BY <2>1 DEF ScanSeen, Scanned, Increasing, Stable
<1> QED
  BY <1>1, PagesAlways, PTL

-----------------------------------------------------------------------------
(* The Scans that are one call. *)

(* Consecutive numbers in order. *)
LEMMA IntervalInOrder ==
    ASSUME NEW a \in Nat, NEW m \in Nat
    PROVE  InOrder((a + 1)..(a + m)) = [i \in 1..m |-> a + i]
<1> DEFINE S == (a + 1)..(a + m)
           w == [i \in 1..m |-> a + i]
           s == InOrder(S)
<1>1. IsFiniteSet(S) /\ Cardinality(S) = m
  <2>1. PICK lo \in Int, hi \in Int : lo = a + 1 /\ hi = a + m
    <3>1. a + 1 \in Int /\ a + m \in Int
      BY SMT
    <3> QED
      BY <3>1
  <2>2. IsFiniteSet(lo..hi) /\ Cardinality(lo..hi) = IF lo > hi THEN 0 ELSE hi - lo + 1
    BY FS_Interval
  <2>3. (IF lo > hi THEN 0 ELSE hi - lo + 1) = m
    BY <2>1, SMT
  <2> QED
    BY <2>1, <2>2, <2>3
<1>2. w \in [1..m -> S] /\ \A i, j \in DOMAIN w : i < j => w[i] < w[j]
  BY SMT
<1>3. s \in [1..m -> S] /\ \A i, j \in 1..m : i < j => s[i] < s[j]
  <2>1. \E v \in [1..Cardinality(S) -> S] : \A i, j \in DOMAIN v : i < j => v[i] < v[j]
    BY <1>1, <1>2
  <2>2. /\ s \in [1..Cardinality(S) -> S]
        /\ \A i, j \in DOMAIN s : i < j => s[i] < s[j]
    BY <2>1 DEF InOrder
  <2> QED
    BY <1>1, <2>2
<1> HIDE DEF s
<1>4. s \in Surjection(1..m, S)
  <2>1. \A i, j \in 1..m : i # j => i < j \/ j < i
    BY SMT
  <2>2. \A k \in S : ~(k < k)
    BY SMT
  <2>3. s \in Injection(1..m, S)
    BY <1>3, <2>1, <2>2 DEF Injection, IsInjective
  <2>4. IsFiniteSet(1..m) /\ Cardinality(1..m) = m
    BY FS_Interval, SMT
  <2> QED
    BY <1>1, <2>3, <2>4, FS_Injection
<1>5. \A k \in S : \E i \in 1..m : s[i] = k
  BY <1>4 DEF Surjection
<1>6. \A i \in 1..m : s[i] = a + i
  <2> DEFINE U == {i \in 1..m : s[i] # a + i}
  <2> SUFFICES ASSUME U # {} PROVE FALSE
    OBVIOUS
  <2>1. U \subseteq Nat
    BY SMT
  <2>2. PICK i \in U : \A j \in U : i <= j
    BY <2>1, LeastNumber
  <2>3. i \in 1..m /\ s[i] # a + i /\ s[i] \in S /\ a + i \in S
    BY <1>3, <2>2, SMT
  <2>4. \A j \in 1..m : j < i => s[j] = a + j
    BY <2>1, <2>2, <2>3, SMT
  <2>5. PICK j \in 1..m : s[j] = a + i
    BY <1>5, <2>3
  <2>6. i < j
    <3>1. j < i \/ j = i \/ i < j
      BY <2>3, SMT
    <3>2. j # i
      BY <2>3, <2>5
    <3>3. ASSUME j < i PROVE FALSE
      <4>1. s[j] = a + j
        BY <2>4, <3>3
      <4> QED
        BY <2>3, <2>5, <3>3, <4>1, SMT
    <3> QED
      BY <3>1, <3>2, <3>3
  <2>7. s[i] < a + i
    BY <1>3, <2>3, <2>5, <2>6
  <2>8. PICK x \in 1..m : x < i /\ s[i] = a + x
    <3>1. s[i] - a \in 1..m /\ s[i] - a < i /\ s[i] = a + (s[i] - a)
      BY <2>3, <2>7, SMT
    <3> QED
      BY <3>1
  <2>9. s[x] = s[i] /\ s[x] < s[i]
    BY <1>3, <2>3, <2>4, <2>8
  <2> QED
    BY <2>3, <2>9, SMT
<1>7. s = w
  BY <1>3, <1>6
<1> QED
  BY <1>7 DEF s

(* The entries of a result, wherever its nil entries are: before the       *)
(* others, after them, or nowhere.                                         *)
LEMMA EntriesAre ==
    ASSUME NEW result, NEW n \in Nat, DOMAIN result = 1..n, NEW a \in Nat, NEW r \in Seq(Keys),
           a + Len(r) <= n, \A i \in 1..Len(r) : result[a + i] = r[i],
           \A i \in 1..n : i <= a \/ a + Len(r) < i => result[i] = 0
    PROVE  Entries(result) = r
<1> DEFINE m == Len(r)
           live == {i \in DOMAIN result : result[i] # 0}
<1>1. m \in Nat /\ r \in [1..m -> Keys]
  BY LenProperties
<1>2. \A k \in Keys : k # 0
  BY RowStoreAssumption, SMT DEF Keys
<1>3. \A i \in 1..m : a + i \in 1..n
  BY <1>1, SMT
<1>4. \A i \in (a + 1)..(a + m) : i - a \in 1..m /\ i = a + (i - a)
  BY <1>1, SMT
<1>5. \A i \in 1..n : i \in (a + 1)..(a + m) \/ i <= a \/ a + m < i
  BY <1>1, SMT
<1>6. live = (a + 1)..(a + m)
  <2>1. ASSUME NEW i \in (a + 1)..(a + m) PROVE i \in live
    <3>1. PICK j \in 1..m : i = a + j
      BY <1>4
    <3>2. result[i] \in Keys /\ i \in 1..n
      BY <1>1, <1>3, <3>1
    <3> QED
      BY <1>2, <3>2
  <2>2. live \subseteq (a + 1)..(a + m)
    BY <1>5
  <2> QED
    BY <2>1, <2>2
<1>7. PICK place : place = InOrder(live) /\ place = [i \in 1..m |-> a + i]
  BY <1>1, <1>6, IntervalInOrder
<1>8. Entries(result) = [i \in DOMAIN place |-> result[place[i]]]
  BY <1>7 DEF Entries
<1>9. Entries(result) = [i \in 1..m |-> r[i]]
  <2>1. DOMAIN place = 1..m /\ \A i \in 1..m : place[i] = a + i
    BY <1>7
  <2> QED
    BY <1>8, <2>1
<1> QED
  BY <1>1, <1>9

(* A result without nil entries, ... *)
LEMMA PlainEntries ==
    ASSUME NEW r \in Seq(Keys)
    PROVE  Entries(r) = r
<1>1. PICK n \in Nat : n = Len(r) /\ DOMAIN r = 1..n
  BY LenProperties
<1>2. 0 \in Nat /\ 0 + n <= n /\ \A i \in 1..n : 0 + i = i /\ ~(i <= 0) /\ ~(0 + n < i)
  BY SMT
<1>3. /\ 0 + Len(r) <= n /\ \A i \in 1..Len(r) : r[0 + i] = r[i]
      /\ \A i \in 1..n : i <= 0 \/ 0 + Len(r) < i => r[i] = 0
  BY <1>1, <1>2
<1> QED
  BY <1>1, <1>2, <1>3, EntriesAre

(* ... and one filled from the front. *)
LEMMA PaddedEntries ==
    ASSUME NEW r \in Seq(Keys), NEW count \in Nat, Len(r) <= count
    PROVE  Entries(Padded(r, count)) = r
<1>1. PICK n \in Nat : n = Len(r) /\ n <= count
  BY LenProperties
<1>2. PICK result : result = Padded(r, count)
  OBVIOUS
<1>3. /\ DOMAIN result = 1..count
      /\ \A i \in 1..count : result[i] = IF i <= n THEN r[i] ELSE 0
  BY <1>1, <1>2 DEF Padded
<1>4. /\ 0 \in Nat /\ 0 + n <= count
      /\ \A i \in 1..n : 0 + i = i /\ i \in 1..count /\ i <= n
      /\ \A i \in 1..count : ~(i <= 0) /\ (0 + n < i => ~(i <= n))
  BY <1>1, SMT
<1>5. /\ 0 + Len(r) <= count /\ \A i \in 1..Len(r) : result[0 + i] = r[i]
      /\ \A i \in 1..count : i <= 0 \/ 0 + Len(r) < i => result[i] = 0
  BY <1>1, <1>3, <1>4
<1>6. Entries(result) = r
  BY <1>3, <1>4, <1>5, EntriesAre
<1> QED
  BY <1>2, <1>6

(* Keys in order differ. *)
LEMMA IncreasingDiffer ==
    ASSUME NEW s \in Seq(Keys), Increasing(s)
    PROVE  IsInjective(s)
<1>1. Len(s) \in Nat /\ DOMAIN s = 1..Len(s) /\ \A i \in 1..Len(s) : s[i] \in Keys
  BY LenProperties, ElementOfSeq
<1>2. \A i, j \in 1..Len(s) : i = j \/ i < j \/ j < i
  BY <1>1, SMT
<1>3. \A k \in Keys : ~(k < k)
  BY KeysFinite, SMT DEF Keys
<1> QED
  BY <1>1, <1>2, <1>3 DEF Increasing, IsInjective

(* How many keys FirstOf returns; if there are no more than were asked     *)
(* for, all of them.                                                       *)
LEMMA FirstOfLength ==
    ASSUME NEW S \in SUBSET Keys, NEW n \in Nat
    PROVE  /\ Len(FirstOf(n, S)) = Min({n, Cardinality(S)})
           /\ Cardinality(S) = n => FirstOf(n, S) = InOrder(S)
<1> DEFINE all == InOrder(S)
           size == Cardinality(S)
<1>1. all \in Seq(Keys) /\ Len(all) = size /\ size \in Nat
  BY InOrderIs, KeysFinite
<1> HIDE DEF all
<1>2. PICK m \in Nat : m = Min({n, size}) /\ m \in {n, size} /\ m <= n /\ m <= size
  BY <1>1, MinOfTwo
<1>3. m \in 0..Len(all)
  BY <1>1, <1>2, SMT
<1>4. PICK r : /\ r = SubSeq(all, 1, m) /\ r \in Seq(Keys) /\ Len(r) = m
               /\ \A i \in 1..m : r[i] = all[i]
  BY <1>1, <1>3, PrefixIs
<1>5. FirstOf(n, S) = r
  BY <1>1, <1>2, <1>4 DEF FirstOf, all
<1>6. ASSUME size = n PROVE r = all
  <2>1. m = Len(all)
    BY <1>1, <1>2, <1>6
  <2> QED
    BY <1>1, <1>4, <2>1, SeqEqual
<1> QED
  BY <1>2, <1>4, <1>5, <1>6 DEF all

(* What the property asks of the entries. *)
RightRows(start, count, rows) ==
    /\ IsInjective(rows)
    /\ Range(rows) \subseteq (IF binding = "aerospike" THEN Present ELSE From(start))
    /\ binding \notin {"aerospike", "minio"} =>
         Len(rows) = Min({count, Cardinality(From(start))})
    /\ binding \notin Unordered \cup {"aerospike", "minio"} =>
         rows = FirstOf(count, From(start))

(* The first rows from the start key on are right, with or without nil     *)
(* entries after them, ...                                                 *)
LEMMA FirstRows ==
    ASSUME NEW start \in Keys, NEW count \in Keys, NEW S \in SUBSET From(start),
           S = From(start) \/ binding = "minio", binding # "aerospike",
           NEW result \in {FirstOf(count, S), Padded(FirstOf(count, S), count)}
    PROVE  RightRows(start, count, Entries(result))
<1>1. S \in SUBSET Keys /\ count \in Nat \ {0} /\ count \in Nat
  BY RowStoreAssumption, SMT DEF From, Present, Keys
<1>2. PICK r : r = FirstOf(count, S)
  OBVIOUS
<1>3. r \in Seq(Keys) /\ Len(r) <= count /\ Increasing(r) /\ Range(r) \subseteq S
  BY <1>1, <1>2, PageIs DEF IsPage
<1>4. Entries(result) = r
  BY <1>1, <1>2, <1>3, PlainEntries, PaddedEntries
<1>5. IsInjective(r)
  BY <1>3, IncreasingDiffer
<1>6. S = From(start) => Len(r) = Min({count, Cardinality(From(start))})
  BY <1>1, <1>2, FirstOfLength
<1> QED
  BY <1>2, <1>3, <1>4, <1>5, <1>6 DEF RightRows

(* ... and so are those a statement without an order may return. *)
LEMMA AnyRows ==
    ASSUME NEW start \in Keys, NEW count \in Keys, NEW S,
           \/ S = From(start) /\ binding \in Unordered
           \/ S = Present /\ binding = "aerospike",
           NEW result \in AnyOf(count, S)
    PROVE  RightRows(start, count, Entries(result))
<1>1. S \in SUBSET Keys /\ count \in Nat
  BY RowStoreAssumption, SMT DEF From, Present, Keys
<1>2. PICK m \in Nat : m = Min({count, Cardinality(S)})
  BY <1>1, KeysFinite, MinOfTwo
<1>3. result \in [1..m -> S] /\ IsInjective(result)
  BY <1>2 DEF AnyOf
<1>4. result \in [1..m -> Keys]
  BY <1>1, <1>3
<1>5. DOMAIN result = 1..m /\ Range(result) \subseteq S
  BY <1>3 DEF Range
<1>6. result \in Seq(Keys) /\ Len(result) = m
  BY <1>4, SMT
<1>7. Entries(result) = result
  BY <1>6, PlainEntries
<1>8. "aerospike" \notin Unordered
  BY DEF Unordered
<1> QED
  BY <1>2, <1>3, <1>5, <1>6, <1>7, <1>8 DEF RightRows

(* The Scan of etcd appends its rows to as many nil entries. *)
LEMMA EtcdRows ==
    ASSUME NEW start \in Keys, NEW count \in Keys, binding = "etcd",
           NEW result \in EtcdScan(start, count)
    PROVE  RightRows(start, count, Entries(result))
<1> DEFINE S == From(start)
           nils == [i \in 1..count |-> 0]
<1>1. /\ S \in SUBSET Keys /\ S \in SUBSET S
      /\ count \in Nat \ {0} /\ count \in Nat
  BY RowStoreAssumption, SMT DEF From, Present, Keys
<1>2. Cardinality(S) = count /\ result = nils \o InOrder(S)
  BY DEF EtcdScan
<1>3. PICK r \in Seq(Keys) : r = InOrder(S) /\ Len(r) = count /\ r = FirstOf(count, S)
  BY <1>1, <1>2, InOrderIs, FirstOfLength
<1>4. nils \in Seq({0}) /\ Len(nils) = count /\ \A i \in 1..count : nils[i] = 0
  BY <1>1, SMT
<1> HIDE DEF nils
<1>5. \A k \in {0} : k \in Nat
  BY SMT
<1>6. /\ DOMAIN result = 1..(count + count)
      /\ \A i \in 1..count : result[i] = 0 /\ result[count + i] = r[i]
  <2>1. {0} \subseteq Nat /\ Keys \subseteq Nat
    BY <1>5, KeysFinite
  <2>2. nils \in Seq(Nat) /\ r \in Seq(Nat)
    BY <1>3, <1>4, <2>1, SeqMonotonic
  <2>3. PICK a \in Seq(Nat), b \in Seq(Nat) : a = nils /\ b = r
    BY <2>2
  <2>4. a \o b \in Seq(Nat) /\ Len(a \o b) = Len(a) + Len(b)
        /\ (\A i \in 1..Len(a) : (a \o b)[i] = a[i])
        /\ (\A i \in 1..Len(b) : (a \o b)[Len(a) + i] = b[i])
    BY SMT
  <2> QED
    BY <1>2, <1>3, <1>4, <2>3, <2>4, LenProperties
<1>7. /\ count + count \in Nat /\ count + count <= count + count
      /\ \A i \in 1..(count + count) : i <= count => i \in 1..count
      /\ \A i \in 1..(count + count) : ~(count + count < i)
  BY <1>1, SMT
<1>8. Entries(result) = r
  <2>1. \A i \in 1..(count + count) : i <= count \/ count + Len(r) < i => result[i] = 0
    BY <1>3, <1>6, <1>7
  <2>2. count + Len(r) <= count + count /\ \A i \in 1..Len(r) : result[count + i] = r[i]
    BY <1>3, <1>6, <1>7
  <2>3. PICK n \in Nat : n = count + count
    BY <1>7
  <2> QED
    BY <1>1, <1>6, <2>1, <2>2, <2>3, EntriesAre
<1>9. Increasing(r) /\ Range(r) \subseteq S
  <2>1. IsPage(S, count, r)
    BY <1>1, <1>3, PageIs
  <2> QED
    BY <2>1 DEF IsPage
<1>10. IsInjective(r) /\ Len(r) = Min({count, Cardinality(S)})
  BY <1>1, <1>3, <1>9, IncreasingDiffer, FirstOfLength
<1> QED
  BY <1>3, <1>8, <1>9, <1>10 DEF RightRows

(* Whatever the table holds, the Scan of every binding that supports it in *)
(* one call returns each row once, as many as were asked for if there are  *)
(* so many, none before the start key and, but for the bindings that leave *)
(* the order open, without a gap (the Scans under db/).                    *)
THEOREM ScansReturnRanges == Spec => []ScanReturnsRange
<1>1. ASSUME NEW start \in Keys, NEW count \in Keys, NEW result \in ScanBy(start, count)
      PROVE  RightRows(start, count, Entries(result))
  <2>1. From(start) \in SUBSET From(start)
    OBVIOUS
  <2>2. CASE binding \in TikvModes \cup {"foundationdb", "mongodb"}
    <3>1. result = FirstOf(count, From(start)) /\ binding # "aerospike"
      BY <2>2 DEF ScanBy, TikvModes, TikvScan, FdbScan, MongoScan
    <3> QED
      BY <2>1, <3>1, FirstRows
  <2>3. CASE binding \in {"badger", "boltdb", "rocksdb"}
    <3>1. result = Padded(FirstOf(count, From(start)), count) /\ binding # "aerospike"
      BY <2>3 DEF ScanBy, TikvModes, BadgerScan, BoltScan, RocksScan
    <3> QED
      BY <2>1, <3>1, FirstRows
  <2>4. CASE binding \in Unordered
    <3>1. result \in AnyOf(count, From(start))
      BY <2>4 DEF ScanBy, TikvModes, Unordered, SqliteScan, MysqlScan, PgScan, SpannerScan
    <3> QED
      BY <2>4, <3>1, AnyRows
  <2>5. CASE binding = "aerospike"
    <3>1. result \in AnyOf(count, Present)
      BY <2>5 DEF ScanBy, TikvModes, AerospikeScan
    <3> QED
      BY <2>5, <3>1, AnyRows
  <2>6. CASE binding = "minio"
    <3>1. PICK s \in SUBSET From(start) : result = Padded(FirstOf(count, s), count)
      BY <2>6 DEF ScanBy, TikvModes, MinioScan
    <3> QED
      BY <2>6, <3>1, FirstRows
  <2>7. CASE binding = "etcd"
    <3>1. result \in EtcdScan(start, count)
      BY <2>7 DEF ScanBy, TikvModes
    <3> QED
      BY <2>7, <3>1, EtcdRows
  <2>8. \/ binding \in TikvModes \cup {"foundationdb", "mongodb"}
        \/ binding \in {"badger", "boltdb", "rocksdb"} \/ binding \in Unordered
        \/ binding = "aerospike" \/ binding = "minio" \/ binding = "etcd"
    BY DEF ScanBy, Unordered
  <2> QED
    BY <2>2, <2>3, <2>4, <2>5, <2>6, <2>7, <2>8
<1>2. ScanReturnsRange
  BY <1>1 DEF ScanReturnsRange, RightRows
<1> QED
  BY <1>2, PTL
=============================================================================
