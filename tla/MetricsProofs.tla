---------------------------- MODULE MetricsProofs ---------------------------
(***************************************************************************)
(* For any number of processes, threads and operations, and whenever a     *)
(* warm-up ends: the total of a summary counts each operation measured     *)
(* once, up to the threads between the two calls of Measure.               *)
(***************************************************************************)
EXTENDS Metrics, FiniteSetTheorems, SequenceTheorems, TLAPS

\* Leaves are left to Zenon; those with arithmetic or functions cite SMT.
USE Zenon

-----------------------------------------------------------------------------
(* The calls of Measure for one operation. *)

(* Those of Measure for a read or an update that succeeded, and no others, *)
(* are followed by that for the total.                                     *)
Success == {"READ", "UPDATE"}
Measured == Success \cup {"READ_ERROR", "UPDATE_ERROR", "READ_MODIFY_WRITE", "TOTAL"}
Paired(s) ==
    /\ s \in Seq(Measured) /\ s # << >>
    /\ \A i \in 1..Len(s) : s[i] \in Success <=> i + 1 \in 1..Len(s) /\ s[i + 1] = "TOTAL"

(* Calls that are paired can follow one another. *)
LEMMA PairedJoin ==
    ASSUME NEW s, NEW r, Paired(s), Paired(r), Head(r) # "TOTAL"
    PROVE  Paired(s \o r) /\ Head(s \o r) = Head(s)
<1> DEFINE m == Len(s)
           n == Len(r)
           q == s \o r
<1>1. s \in Seq(Measured) /\ r \in Seq(Measured) /\ m \in Nat \ {0} /\ n \in Nat \ {0}
  BY LenProperties, EmptySeq DEF Paired
<1>2. /\ q \in Seq(Measured) /\ Len(q) = m + n
      /\ \A i \in 1..m : q[i] = s[i]
      /\ \A i \in 1..n : q[m + i] = r[i]
  BY <1>1, SMT
<1>3. Head(s) = s[1] /\ Head(r) = r[1] /\ Head(q) = q[1]
  BY <1>1, <1>2, SMT
<1> HIDE DEF q, m, n
<1>4. 1 \in 1..m /\ 1 \in 1..n /\ m \in 1..m /\ q # << >>
  BY <1>1, <1>2, SMT
<1>5. \A i \in 1..m : s[i] \in Success <=> i + 1 \in 1..m /\ s[i + 1] = "TOTAL"
  BY DEF Paired, m
<1>6. \A i \in 1..n : r[i] \in Success <=> i + 1 \in 1..n /\ r[i + 1] = "TOTAL"
  BY DEF Paired, n
<1>7. ASSUME NEW i \in 1..Len(q)
      PROVE  q[i] \in Success <=> i + 1 \in 1..Len(q) /\ q[i + 1] = "TOTAL"
  <2>1. CASE i \in 1..m /\ i # m
    <3>1. i + 1 \in 1..m /\ i + 1 \in 1..Len(q)
      BY <1>1, <1>2, <2>1, SMT
    <3> QED
      BY <1>2, <1>5, <2>1, <3>1
  <2>2. CASE i = m
    <3>1. ~(i + 1 \in 1..m)
      BY <1>1, <2>2, SMT
    <3>2. q[i] \notin Success
      BY <1>2, <1>4, <1>5, <2>2, <3>1
    <3>3. q[i + 1] # "TOTAL"
      BY <1>2, <1>3, <1>4, <2>2
    <3> QED
      BY <3>2, <3>3
  <2>3. CASE i \notin 1..m
    <3>1. PICK j \in 1..n : i = m + j
      <4>1. i - m \in 1..n /\ i = m + (i - m)
        BY <1>1, <1>2, <2>3, SMT
      <4> QED
        BY <4>1
    <3>2. (i + 1 \in 1..Len(q) <=> j + 1 \in 1..n) /\ i + 1 = m + (j + 1)
      BY <1>1, <1>2, <3>1, SMT
    <3>3. q[i] = r[j] /\ (j + 1 \in 1..n => q[i + 1] = r[j + 1])
      BY <1>2, <3>1, <3>2
    <3> QED
      BY <1>6, <3>2, <3>3
  <2> QED
    BY <2>1, <2>2, <2>3
<1>8. Paired(q)
  BY <1>2, <1>4, <1>7 DEF Paired
<1> QED
  BY <1>2, <1>3, <1>4, <1>8 DEF q

(* A sequence of one call, ... *)
LEMMA OneCall ==
    ASSUME NEW S, NEW a \in S
    PROVE  /\ <<a>> \in Seq(S) /\ <<a>> # << >> /\ Len(<<a>>) = 1
           /\ Head(<<a>>) = a /\ <<a>>[1] = a
  BY SMT

(* ... and of two. *)
LEMMA TwoCalls ==
    ASSUME NEW S, NEW a \in S, NEW b \in S
    PROVE  /\ <<a, b>> \in Seq(S) /\ <<a, b>> # << >> /\ Len(<<a, b>>) = 2
           /\ Head(<<a, b>>) = a /\ <<a, b>>[1] = a /\ <<a, b>>[2] = b
  BY SMT

(* What the wrapper measures of one call is paired, ... *)
LEMMA CallsPaired ==
    ASSUME NEW op \in Success, NEW ok \in BOOLEAN
    PROVE  Paired(Calls(op, ok)) /\ Head(Calls(op, ok)) # "TOTAL"
<1>1. CASE ok
  <2>1. /\ Calls(op, ok) = <<op, "TOTAL">> /\ op # "TOTAL"
        /\ op \in Measured /\ "TOTAL" \in Measured
    BY <1>1 DEF Calls, Success, Measured
  <2> DEFINE s == <<op, "TOTAL">>
  <2>2. /\ s \in Seq(Measured) /\ s # << >> /\ Len(s) = 2 /\ Head(s) = op
        /\ s[1] = op /\ s[2] = "TOTAL"
    BY <2>1, TwoCalls
  <2> HIDE DEF s
  <2>3. \A i \in 1..2 : i = 1 \/ i = 2
    BY SMT
  <2>4. 1 + 1 = 2 /\ 2 \in 1..2 /\ ~(2 + 1 \in 1..2)
    BY SMT
  <2>5. Paired(s)
    BY <2>2, <2>3, <2>4 DEF Paired, Success
  <2> QED
    BY <2>1, <2>2, <2>5 DEF s
<1>2. CASE ~ok
  <2>1. PICK e \in {"READ_ERROR", "UPDATE_ERROR"} : Calls(op, ok) = <<e>>
    BY <1>2, SMT DEF Calls, Error, Success
  <2>2. e \in Measured /\ e \notin Success /\ e # "TOTAL"
    BY DEF Success, Measured
  <2> DEFINE s == <<e>>
  <2>3. s \in Seq(Measured) /\ s # << >> /\ Len(s) = 1 /\ Head(s) = e /\ s[1] = e
    BY <2>2, OneCall
  <2> HIDE DEF s
  <2>4. (\A i \in 1..1 : i = 1) /\ ~(1 + 1 \in 1..1)
    BY SMT
  <2>5. Paired(s)
    BY <2>2, <2>3, <2>4 DEF Paired
  <2> QED
    BY <2>1, <2>2, <2>3, <2>5 DEF s
<1> QED
  BY <1>1, <1>2

(* ... and so is all that is measured of an operation. *)
LEMMA OperationsPaired ==
    ASSUME NEW op \in {"READ", "UPDATE", "READ_MODIFY_WRITE"}, NEW calls \in Operations(op)
    PROVE  Paired(calls) /\ Head(calls) # "TOTAL"
<1>1. CASE op # "READ_MODIFY_WRITE"
  BY <1>1, CallsPaired DEF Operations, Success
<1>2. CASE op = "READ_MODIFY_WRITE"
  <2> DEFINE s == <<"READ_MODIFY_WRITE">>
  <2>1. /\ s \in Seq(Measured) /\ s # << >> /\ Len(s) = 1
        /\ s[1] = "READ_MODIFY_WRITE" /\ Head(s) = "READ_MODIFY_WRITE"
    <3>1. "READ_MODIFY_WRITE" \in Measured
      BY DEF Measured
    <3> QED
      BY <3>1, OneCall
  <2> HIDE DEF s
  <2>2. (\A i \in 1..1 : i = 1) /\ ~(1 + 1 \in 1..1)
    BY SMT
  <2>3. Paired(s) /\ Head(s) # "TOTAL"
    BY <2>1, <2>2 DEF Paired, Success
  <2>4. \A ok \in BOOLEAN : Paired(Calls("READ", ok)) /\ Paired(Calls("UPDATE", ok))
                            /\ Head(Calls("READ", ok)) # "TOTAL"
                            /\ Head(Calls("UPDATE", ok)) # "TOTAL"
    BY CallsPaired DEF Success
  <2>5. \/ calls = Calls("READ", FALSE) \o s
        \/ \E ok \in BOOLEAN : calls = (Calls("READ", TRUE) \o Calls("UPDATE", ok)) \o s
    BY <1>2 DEF Operations, s
  <2>6. CASE calls = Calls("READ", FALSE) \o s
    BY <2>3, <2>4, <2>6, PairedJoin
  <2>7. ASSUME NEW ok \in BOOLEAN, calls = (Calls("READ", TRUE) \o Calls("UPDATE", ok)) \o s
        PROVE  Paired(calls) /\ Head(calls) # "TOTAL"
    <3>1. PICK both : both = Calls("READ", TRUE) \o Calls("UPDATE", ok)
      OBVIOUS
    <3>2. Paired(both) /\ Head(both) # "TOTAL"
      BY <2>4, <3>1, PairedJoin
    <3> QED
      BY <2>3, <2>7, <3>1, <3>2, PairedJoin
  <2> QED
    BY <2>5, <2>6, <2>7
<1> QED
  BY <1>1, <1>2

(* What is left after the first call. *)
LEMMA AfterFirst ==
    ASSUME NEW s, Paired(s)
    PROVE  /\ Head(s) \in Measured
           /\ Len(s) = 1 => Head(s) \notin Success
           /\ Len(s) # 1 => /\ Paired(Tail(s))
                            /\ Head(Tail(s)) = "TOTAL" <=> Head(s) \in Success
<1> DEFINE n == Len(s)
           r == Tail(s)
<1>1. s \in Seq(Measured) /\ s # << >> /\ n \in Nat \ {0}
  BY LenProperties, EmptySeq DEF Paired
<1>2. /\ Head(s) \in Measured /\ r \in Seq(Measured) /\ Len(r) = n - 1
      /\ \A i \in 1..Len(r) : r[i] = s[i + 1]
  BY <1>1, HeadTailProperties
<1>3. Head(s) = s[1]
  BY <1>1, SMT
<1>4. \A i \in 1..n : s[i] \in Success <=> i + 1 \in 1..n /\ s[i + 1] = "TOTAL"
  BY DEF Paired
<1> HIDE DEF r
<1>5. ASSUME n = 1 PROVE Head(s) \notin Success
  <2>1. 1 \in 1..n /\ ~(1 + 1 \in 1..n)
    BY <1>5, SMT
  <2> QED
    BY <1>3, <1>4, <2>1
<1>6. ASSUME n # 1 PROVE Paired(r) /\ (Head(r) = "TOTAL" <=> Head(s) \in Success)
  <2>1. 1 \in 1..n /\ 1 + 1 \in 1..n /\ 1 \in 1..Len(r) /\ r # << >>
    BY <1>1, <1>2, <1>6, SMT
  <2>2. Head(r) = r[1]
    BY <1>2, <2>1, SMT
  <2>3. ASSUME NEW i \in 1..Len(r)
        PROVE  r[i] \in Success <=> i + 1 \in 1..Len(r) /\ r[i + 1] = "TOTAL"
    <3>1. i + 1 \in 1..n /\ (i + 1 \in 1..Len(r) <=> (i + 1) + 1 \in 1..n)
      BY <1>1, <1>2, SMT
    <3> QED
      BY <1>2, <1>4, <3>1
  <2>4. Paired(r)
    BY <1>2, <2>1, <2>3 DEF Paired
  <2> QED
    BY <1>2, <1>3, <1>4, <2>1, <2>2, <2>4
<1> QED
  BY <1>2, <1>5, <1>6 DEF r

-----------------------------------------------------------------------------
(* The histograms. *)

(* Recording a value lengthens the sequence by one. *)
LEMMA RecordLonger ==
    ASSUME NEW S, NEW s \in Seq(S), NEW l \in S
    PROVE  Record(s, l) \in Seq(S) /\ Len(Record(s, l)) = Len(s) + 1
<1> DEFINE before == {j \in DOMAIN s : s[j] <= l}
           c == Cardinality(before)
           n == Len(s)
<1>1. n \in Nat /\ DOMAIN s = 1..n
  BY LenProperties
<1>2. IsFiniteSet(1..n) /\ Cardinality(1..n) = n
  BY <1>1, FS_Interval, SMT
<1>3. before \in SUBSET (1..n)
  BY <1>1
<1>4. c <= n /\ c \in Nat
  BY <1>2, <1>3, FS_Subset, FS_CardinalityType
<1> HIDE DEF c
<1>5. Record(s, l) = SubSeq(s, 1, (c + 1) - 1) \o <<l>> \o SubSeq(s, c + 1, n)
  BY DEF Record, InsertAt, c, n
<1>6. (c + 1) - 1 = c
  BY <1>4, SMT
<1>7. SubSeq(s, 1, c) \in Seq(S) /\ Len(SubSeq(s, 1, c)) = c
  BY <1>1, <1>4, SMT
<1>8. SubSeq(s, c + 1, n) \in Seq(S) /\ Len(SubSeq(s, c + 1, n)) = n - c
  <2>1. PICK m \in 1..n + 1 : m = c + 1
    BY <1>1, <1>4, SMT
  <2>2. m \in Int /\ n \in Int /\ \A i \in m..n : i \in 1..n
    BY <1>1, SMT
  <2>3. \A i \in 1..n : s[i] \in S
    BY ElementOfSeq
  <2>4. SubSeq(s, m, n) \in Seq(S) /\ Len(SubSeq(s, m, n)) = IF m <= n THEN n - m + 1 ELSE 0
    BY <2>2, <2>3, SubSeqProperties
  <2>5. ASSUME NEW x \in Nat, NEW y \in Nat, NEW z, z = y + 1, y <= x
        PROVE  (IF z <= x THEN x - z + 1 ELSE 0) = x - y
    BY <2>5, SMT
  <2>6. (IF m <= n THEN n - m + 1 ELSE 0) = n - c
    BY <1>1, <1>4, <2>1, <2>5
  <2> QED
    BY <2>1, <2>4, <2>6
<1>9. <<l>> \in Seq(S) /\ Len(<<l>>) = 1
  BY OneCall
<1>10. PICK a \in Seq(S), b \in Seq(S) :
         /\ a = SubSeq(s, 1, c) /\ Len(a) = c /\ b = SubSeq(s, c + 1, n) /\ Len(b) = n - c
  BY <1>7, <1>8
<1>11. Record(s, l) = (a \o <<l>>) \o b
  BY <1>5, <1>6, <1>10
<1> HIDE DEF n
<1>12. (a \o <<l>>) \o b \in Seq(S) /\ Len((a \o <<l>>) \o b) = n + 1
  <2>0. PICK e \in Seq(S) : e = <<l>> /\ Len(e) = 1
    BY <1>9
  <2>1. PICK d \in Seq(S) : d = a \o e /\ Len(d) = Len(a) + Len(e)
    <3>1. a \o e \in Seq(S) /\ Len(a \o e) = Len(a) + Len(e)
      BY SMT
    <3> QED
      BY <3>1
  <2>2. d \o b \in Seq(S) /\ Len(d \o b) = Len(d) + Len(b)
    BY SMT
  <2>3. (c + 1) + (n - c) = n + 1
    BY <1>1, <1>4, SMT
  <2> QED
    BY <1>10, <2>0, <2>1, <2>2, <2>3
<1> QED
  BY <1>11, <1>12 DEF n

Histogram == [start : Nat, latencies : Seq(Latencies)]

(* The types that the argument needs. *)
TypeInv ==
    /\ ops \in Nat
    /\ home \in [Threads -> Instances]
    /\ warmUp \in [Instances -> BOOLEAN]
    /\ DOMAIN hist = Instances
    /\ \A i \in Instances : p[i].operations \subseteq {"READ", "UPDATE", "READ_MODIFY_WRITE"}
    /\ \A i \in Instances : \A op \in DOMAIN hist[i] : hist[i][op] \in Histogram
    /\ DOMAIN todo = Threads
    /\ \A t \in Threads : todo[t] # None =>
         /\ DOMAIN todo[t] = {"calls", "latency"}
         /\ Paired(todo[t].calls) /\ todo[t].latency \in Latencies

(* Measure counts one more of the operation, and changes no other count. *)
LEMMA RecordedCounts ==
    ASSUME TypeInv, NEW i \in Instances, NEW o, NEW l \in Latencies, hist' = Recorded(i, o, l)
    PROVE  /\ DOMAIN hist' = Instances
           /\ \A j \in Instances : \A q \in DOMAIN hist'[j] : hist'[j][q] \in Histogram
           /\ \A j \in Instances : j # i => hist'[j] = hist[j]
           /\ Count(i, o)' = Count(i, o) + 1
           /\ \A q : q # o => Count(i, q)' = Count(i, q)
<1> DEFINE h == hist[i]
           old == IF o \in DOMAIN h THEN h[o] ELSE [start |-> ops, latencies |-> << >>]
           new == [old EXCEPT !.latencies = Record(old.latencies, l)]
           hs == [q \in DOMAIN h \cup {o} |-> IF q = o THEN new ELSE h[q]]
<1>1. hist' = [hist EXCEPT ![i] = hs] /\ DOMAIN hist = Instances
  BY DEF Recorded, TypeInv
<1>2. old \in Histogram /\ Len(old.latencies) = Count(i, o)
  <2>1. CASE o \in DOMAIN h
    BY <2>1 DEF TypeInv, Count
  <2>2. CASE o \notin DOMAIN h
    <3>1. << >> \in Seq(Latencies) /\ Len(<< >>) = 0
      BY SMT
    <3>2. old = [start |-> ops, latencies |-> << >>] /\ ops \in Nat
      BY <2>2 DEF TypeInv
    <3> HIDE DEF old
    <3>3. old \in Histogram /\ old.latencies = << >>
      BY <3>1, <3>2, SMT DEF Histogram
    <3>4. Len(old.latencies) = 0
      BY <3>1, <3>3
    <3>5. Count(i, o) = 0
      BY <2>2 DEF Count
    <3> QED
      BY <3>3, <3>4, <3>5
  <2> QED
    BY <2>1, <2>2
<1> HIDE DEF old
<1>3. old.latencies \in Seq(Latencies)
  BY <1>2 DEF Histogram
<1>4. PICK longer \in Seq(Latencies) :
        longer = Record(old.latencies, l) /\ Len(longer) = Len(old.latencies) + 1
  BY <1>3, RecordLonger
<1>5. new \in Histogram /\ new.latencies = longer
  BY <1>2, <1>4, SMT DEF Histogram
<1> HIDE DEF new
<1>6. DOMAIN hs = DOMAIN h \cup {o} /\ hs[o] = new /\ \A q \in DOMAIN h : q # o => hs[q] = h[q]
  OBVIOUS
<1> HIDE DEF hs
<1>7. DOMAIN hist' = Instances /\ hist'[i] = hs /\ \A j \in Instances : j # i => hist'[j] = hist[j]
  BY <1>1
<1>8. \A j \in Instances : \A q \in DOMAIN hist'[j] : hist'[j][q] \in Histogram
  BY <1>5, <1>6, <1>7 DEF TypeInv
<1>9. Count(i, o)' = Count(i, o) + 1
  BY <1>2, <1>4, <1>5, <1>6, <1>7 DEF Count
<1>10. \A q : q # o => Count(i, q)' = Count(i, q)
  BY <1>6, <1>7 DEF Count
<1> QED
  BY <1>7, <1>8, <1>9, <1>10

-----------------------------------------------------------------------------
(* The inductive invariant: nothing is counted during the warm-up; after   *)
(* it, the total has more than reads and updates the threads that were     *)
(* between the two calls when it ended, and lacks those that are now.      *)

Mine(i) == {t \in Threads : home[t] = i}
Between(i) == {t \in Mine(i) : todo[t] # None /\ Head(todo[t].calls) = "TOTAL"}
Excess(i) == Count(i, "TOTAL") - Count(i, "READ") - Count(i, "UPDATE")

Explained(i, late) ==
    /\ late \subseteq Mine(i) /\ (late # {} => p[i].warmUp)
    /\ Excess(i) = Cardinality(late) - Cardinality(Between(i))

SumInv(i) ==
    IF warmUp[i] THEN p[i].warmUp /\ DOMAIN hist[i] = {}
    ELSE \E late \in SUBSET Mine(i) : Explained(i, late)

MetricsInv == TypeInv /\ \A i \in Instances : SumInv(i)

(* Counts are numbers, and so are those of threads. *)
LEMMA CountsAreNumbers ==
    ASSUME TypeInv, NEW i \in Instances
    PROVE  /\ \A op : Count(i, op) \in Nat
           /\ IsFiniteSet(Mine(i)) /\ IsFiniteSet(Between(i))
           /\ Cardinality(Mine(i)) \in Nat /\ Cardinality(Between(i)) \in Nat
<1>1. ASSUME NEW op PROVE Count(i, op) \in Nat
  <2>1. ASSUME op \in DOMAIN hist[i] PROVE Len(hist[i][op].latencies) \in Nat
    <3>1. hist[i][op].latencies \in Seq(Latencies)
      BY <2>1 DEF TypeInv, Histogram
    <3> QED
      BY <3>1, LenProperties
  <2>2. 0 \in Nat
    BY SMT
  <2> QED
    BY <2>1, <2>2 DEF Count
<1>2. Mine(i) \in SUBSET Threads /\ Between(i) \in SUBSET Threads
  BY DEF Mine, Between
<1> QED
  BY <1>1, <1>2, MetricsAssumption, FS_Subset, FS_CardinalityType

(* Initially nothing is measured. *)
LEMMA MetricsInit == Init => MetricsInv
<1> SUFFICES ASSUME Init PROVE MetricsInv
  OBVIOUS
<1>1. PICK c \in Configurations : p = c.processes /\ maxOps = c.maxOps /\ home = c.home
  BY DEF Init
<1>2. /\ home \in [Threads -> Instances]
      /\ \A i \in Instances : /\ p[i].warmUp \in BOOLEAN
                              /\ p[i].operations \subseteq {"READ", "UPDATE", "READ_MODIFY_WRITE"}
  BY <1>1, MetricsAssumption
<1>3. DOMAIN << >> = {}
  BY SMT
<1>4. 0 \in Nat
  BY SMT
<1>5. TypeInv
  BY <1>2, <1>3, <1>4 DEF Init, TypeInv
<1>6. ASSUME NEW i \in Instances PROVE SumInv(i)
  <2>1. warmUp[i] = p[i].warmUp /\ DOMAIN hist[i] = {}
    BY <1>3 DEF Init
  <2>2. Between(i) = {} /\ {} \in SUBSET Mine(i)
    BY DEF Between, Mine, Init
  <2>3. Cardinality({}) = 0
    BY FS_EmptySet
  <2>4. Count(i, "TOTAL") = 0 /\ Count(i, "READ") = 0 /\ Count(i, "UPDATE") = 0
    BY <2>1 DEF Count
  <2>5. Excess(i) = Cardinality({}) - Cardinality(Between(i))
    BY <2>2, <2>3, <2>4, SMT DEF Excess
  <2>6. Explained(i, {})
    BY <2>2, <2>5 DEF Explained
  <2> QED
    BY <2>1, <2>2, <2>6 DEF SumInv
<1> QED
  BY <1>5, <1>6 DEF MetricsInv

(* A step that measures nothing keeps the invariant, if it leaves the      *)
(* warm-up and the threads between two calls alone.                        *)
LEMMA SumStays ==
    ASSUME NEW i \in Instances, SumInv(i), p' = p, home' = home, warmUp'[i] = warmUp[i],
           hist'[i] = hist[i], Between(i)' = Between(i)
    PROVE  SumInv(i)'
<1>1. /\ Count(i, "TOTAL")' = Count(i, "TOTAL")
      /\ Count(i, "READ")' = Count(i, "READ") /\ Count(i, "UPDATE")' = Count(i, "UPDATE")
  BY DEF Count
<1>2. Mine(i)' = Mine(i) /\ Excess(i)' = Excess(i)
  BY <1>1 DEF Mine, Excess
<1>3. \A late : Explained(i, late) => Explained(i, late)'
  BY <1>2 DEF Explained
<1> QED
  BY <1>2, <1>3 DEF SumInv

(* An operation ends, and is to be measured. *)
LEMMA EndOperationInv ==
    ASSUME MetricsInv, NEW t \in Threads, EndOperation(t)
    PROVE  MetricsInv'
<1>1. /\ todo[t] = None /\ ops' = ops + 1
      /\ p' = p /\ home' = home /\ warmUp' = warmUp /\ hist' = hist
  BY DEF EndOperation
<1>2. PICK op \in p[home[t]].operations, l \in Latencies : \E calls \in Operations(op) :
        todo' = [todo EXCEPT ![t] = [calls |-> calls, latency |-> l]]
  BY DEF EndOperation
<1>3. PICK calls \in Operations(op) : todo' = [todo EXCEPT ![t] = [calls |-> calls, latency |-> l]]
  BY <1>2
<1>4. op \in {"READ", "UPDATE", "READ_MODIFY_WRITE"} /\ DOMAIN todo = Threads
  BY DEF MetricsInv, TypeInv
<1>5. Paired(calls) /\ Head(calls) # "TOTAL"
  BY <1>4, OperationsPaired
<1>6. /\ todo'[t] = [calls |-> calls, latency |-> l] /\ DOMAIN todo' = Threads
      /\ \A u \in Threads : u # t => todo'[u] = todo[u]
  BY <1>3, <1>4
<1>7. /\ todo'[t].calls = calls /\ todo'[t].latency = l
      /\ DOMAIN todo'[t] = {"calls", "latency"}
  BY <1>6, SMT
<1>8. ops' \in Nat
  BY <1>1, SMT DEF MetricsInv, TypeInv
<1>9. TypeInv'
  BY <1>1, <1>5, <1>6, <1>7, <1>8 DEF MetricsInv, TypeInv
<1>10. ASSUME NEW i \in Instances PROVE SumInv(i)'
  <2>1. Between(i)' = Between(i)
    BY <1>1, <1>5, <1>6, <1>7 DEF Between, Mine
  <2> QED
    BY <1>1, <2>1, SumStays DEF MetricsInv
<1> QED
  BY <1>9, <1>10 DEF MetricsInv

(* The warm-up ends; the threads between two calls are to be late. *)
LEMMA EndWarmUpInv ==
    ASSUME MetricsInv, NEW i \in Instances, EndWarmUp(i)
    PROVE  MetricsInv'
<1>1. /\ warmUp[i] /\ warmUp' = [warmUp EXCEPT ![i] = FALSE]
      /\ p' = p /\ home' = home /\ todo' = todo /\ hist' = hist /\ ops' = ops
  BY DEF EndWarmUp
<1>2. TypeInv /\ warmUp \in [Instances -> BOOLEAN]
  BY DEF MetricsInv, TypeInv
<1>3. warmUp' \in [Instances -> BOOLEAN] /\ warmUp'[i] = FALSE
      /\ \A j \in Instances : j # i => warmUp'[j] = warmUp[j]
  BY <1>1, <1>2
<1>4. TypeInv'
  BY <1>1, <1>2, <1>3 DEF TypeInv
<1>5. \A j \in Instances : Between(j)' = Between(j)
  BY <1>1 DEF Between, Mine
<1>6. ASSUME NEW j \in Instances, j # i PROVE SumInv(j)'
  BY <1>1, <1>3, <1>5, <1>6, SumStays DEF MetricsInv
<1>7. SumInv(i)'
  <2>1. p[i].warmUp /\ DOMAIN hist[i] = {}
    BY <1>1 DEF MetricsInv, SumInv
  <2>2. Count(i, "TOTAL")' = 0 /\ Count(i, "READ")' = 0 /\ Count(i, "UPDATE")' = 0
    BY <1>1, <2>1 DEF Count
  <2>3. Cardinality(Between(i)) \in Nat
    BY <1>2, CountsAreNumbers
  <2>4. Excess(i)' = Cardinality(Between(i)) - Cardinality(Between(i)')
    BY <1>5, <2>2, <2>3, SMT DEF Excess
  <2>5. Between(i) \subseteq Mine(i)'
    BY <1>1 DEF Between, Mine
  <2>6. Explained(i, Between(i))'
    BY <1>1, <1>5, <2>1, <2>4, <2>5 DEF Explained
  <2> QED
    BY <1>3, <1>5, <2>5, <2>6 DEF SumInv
<1> QED
  BY <1>4, <1>6, <1>7 DEF MetricsInv

(* One call of Measure: that for a read or an update puts the thread       *)
(* between the two, that for the total takes it out again.                 *)
LEMMA MeasureInv ==
    ASSUME MetricsInv, NEW t \in Threads, Measure(t)
    PROVE  MetricsInv'
<1>0. PICK i, s, l : i = home[t] /\ s = todo[t].calls /\ l = todo[t].latency
  OBVIOUS
<1> DEFINE last == Len(s) = 1
<1>1. TypeInv /\ i \in Instances /\ DOMAIN todo = Threads
  BY <1>0 DEF MetricsInv, TypeInv
<1>2. /\ todo[t] # None /\ p' = p /\ home' = home /\ warmUp' = warmUp /\ ops' = ops
      /\ hist' = IF warmUp[i] THEN hist ELSE Recorded(i, Head(s), l)
      /\ todo' = [todo EXCEPT ![t] = IF last THEN None ELSE [todo[t] EXCEPT !.calls = Tail(s)]]
  BY <1>0 DEF Measure
<1>3. /\ Paired(s) /\ l \in Latencies /\ DOMAIN todo[t] = {"calls", "latency"}
  BY <1>0, <1>1, <1>2 DEF TypeInv
<1>4. /\ Head(s) \in Measured
      /\ last => Head(s) \notin Success
      /\ ~last => Paired(Tail(s)) /\ (Head(Tail(s)) = "TOTAL" <=> Head(s) \in Success)
  BY <1>3, AfterFirst
<1>5. PICK rest : rest = [todo[t] EXCEPT !.calls = Tail(s)]
  OBVIOUS
<1>6. rest.calls = Tail(s) /\ rest.latency = l /\ DOMAIN rest = {"calls", "latency"}
  BY <1>0, <1>3, <1>5
<1> HIDE DEF last
<1>7. /\ DOMAIN todo' = Threads /\ todo'[t] = IF last THEN None ELSE rest
      /\ \A u \in Threads : u # t => todo'[u] = todo[u]
  BY <1>1, <1>2, <1>5
<1>8. rest # None
  BY <1>6, SMT DEF None
<1>9. ASSUME NEW j \in Instances, j # i PROVE Between(j)' = Between(j)
  BY <1>0, <1>2, <1>7, <1>9 DEF Between, Mine
<1>10. (t \in Between(i)' <=> Head(s) \in Success) /\ (t \in Between(i) <=> Head(s) = "TOTAL")
  BY <1>0, <1>2, <1>4, <1>6, <1>7, <1>8 DEF Between, Mine
<1>11. \A u : u # t => (u \in Between(i)' <=> u \in Between(i))
  BY <1>2, <1>7 DEF Between, Mine
<1>12. CASE warmUp[i]
  <2>1. hist' = hist
    BY <1>2, <1>12
  <2>2. TypeInv'
    BY <1>1, <1>2, <1>3, <1>4, <1>6, <1>7, <2>1 DEF TypeInv
  <2>3. ASSUME NEW j \in Instances, j # i PROVE SumInv(j)'
    BY <1>2, <1>9, <2>1, <2>3, SumStays DEF MetricsInv
  <2>4. SumInv(i)'
    BY <1>1, <1>2, <1>12, <2>1 DEF MetricsInv, SumInv
  <2> QED
    BY <2>2, <2>3, <2>4 DEF MetricsInv
<1>13. CASE ~warmUp[i]
  <2>1. hist' = Recorded(i, Head(s), l)
    BY <1>2, <1>13
  <2>2. /\ DOMAIN hist' = Instances
        /\ \A j \in Instances : \A q \in DOMAIN hist'[j] : hist'[j][q] \in Histogram
        /\ \A j \in Instances : j # i => hist'[j] = hist[j]
        /\ Count(i, Head(s))' = Count(i, Head(s)) + 1
        /\ \A q : q # Head(s) => Count(i, q)' = Count(i, q)
    BY <1>1, <1>3, <2>1, RecordedCounts
  <2>3. TypeInv'
    BY <1>1, <1>2, <1>3, <1>4, <1>6, <1>7, <2>2 DEF TypeInv
  <2>4. ASSUME NEW j \in Instances, j # i PROVE SumInv(j)'
    BY <1>2, <1>9, <2>2, <2>4, SumStays DEF MetricsInv
  <2>5. PICK late \in SUBSET Mine(i) : Explained(i, late)
    BY <1>1, <1>13 DEF MetricsInv, SumInv
  <2> DEFINE was == Cardinality(Between(i))
             now == Cardinality(Between(i)')
             n == Cardinality(late)
  <2>6. /\ \A q : Count(i, q) \in Nat
        /\ IsFiniteSet(Between(i)) /\ was \in Nat /\ n \in Nat
    <3>1. IsFiniteSet(Mine(i))
      BY <1>1, CountsAreNumbers
    <3> QED
      BY <1>1, <3>1, CountsAreNumbers, FS_Subset, FS_CardinalityType
  <2>7. Excess(i) = n - was
    BY <2>5 DEF Explained
  <2>8. Excess(i)' = n - now
    <3> DEFINE a == Count(i, "TOTAL")
               b == Count(i, "READ")
               c == Count(i, "UPDATE")
    <3>1. a \in Nat /\ b \in Nat /\ c \in Nat /\ a - b - c = n - was
      BY <2>6, <2>7 DEF Excess
    <3>2. Excess(i)' = a' - b' - c'
      BY DEF Excess
    <3>3. CASE Head(s) \in Success
      <4>1. Between(i)' = Between(i) \cup {t} /\ t \notin Between(i)
        BY <1>10, <1>11, <3>3 DEF Success
      <4>2. now = was + 1
        BY <2>6, <4>1, FS_AddElement
      <4>3. a' = a /\ ((b' = b + 1 /\ c' = c) \/ (b' = b /\ c' = c + 1))
        BY <2>2, <3>3 DEF Success
      <4> HIDE DEF a, b, c, now, was, n
      <4> QED
        BY <2>6, <3>1, <3>2, <4>2, <4>3, SMT
    <3>4. CASE Head(s) = "TOTAL"
      <4>1. Between(i)' = Between(i) \ {t} /\ t \in Between(i)
        BY <1>10, <1>11, <3>4 DEF Success
      <4>2. now = was - 1
        BY <2>6, <4>1, FS_RemoveElement
      <4>3. a' = a + 1 /\ b' = b /\ c' = c
        BY <2>2, <3>4
      <4> HIDE DEF a, b, c, now, was, n
      <4> QED
        BY <2>6, <3>1, <3>2, <4>2, <4>3, SMT
    <3>5. CASE Head(s) \notin Success /\ Head(s) # "TOTAL"
      <4>1. Between(i)' = Between(i)
        <5>1. Between(i)' \subseteq Between(i) /\ Between(i) \subseteq Between(i)'
          BY <1>10, <1>11, <3>5
        <5> QED
          BY <5>1
      <4>2. a' = a /\ b' = b /\ c' = c
        BY <2>2, <3>5 DEF Success
      <4> QED
        BY <3>1, <3>2, <4>1, <4>2
    <3> QED
      BY <3>3, <3>4, <3>5
  <2>9. Mine(i)' = Mine(i)
    BY <1>2 DEF Mine
  <2>10. Explained(i, late)'
    BY <1>2, <2>5, <2>8, <2>9 DEF Explained
  <2>11. SumInv(i)'
    BY <1>2, <1>13, <2>9, <2>10 DEF SumInv
  <2> QED
    BY <2>3, <2>4, <2>11 DEF MetricsInv
<1> QED
  BY <1>12, <1>13

(* Pushing, forgetting and querying measure nothing. *)
LEMMA MetricsNext == MetricsInv /\ [Next]_vars => MetricsInv'
<1> SUFFICES ASSUME MetricsInv, [Next]_vars PROVE MetricsInv'
  OBVIOUS
<1>1. ASSUME p' = p, home' = home, warmUp' = warmUp, hist' = hist, todo' = todo, ops' = ops
      PROVE  MetricsInv'
  <2>1. TypeInv'
    BY <1>1 DEF MetricsInv, TypeInv
  <2>2. \A i \in Instances : Between(i)' = Between(i)
    BY <1>1 DEF Between, Mine
  <2>3. ASSUME NEW i \in Instances PROVE SumInv(i)'
    BY <1>1, <2>2, SumStays DEF MetricsInv
  <2> QED
    BY <2>1, <2>3 DEF MetricsInv
<1>2. ASSUME NEW t \in Threads, EndOperation(t) \/ Measure(t) PROVE MetricsInv'
  BY <1>2, EndOperationInv, MeasureInv
<1>3. ASSUME NEW i \in Instances, EndWarmUp(i) PROVE MetricsInv'
  BY <1>3, EndWarmUpInv
<1>4. ASSUME NEW i \in Instances, Output(i) \/ WriteMetrics(i) PROVE MetricsInv'
  BY <1>1, <1>4 DEF Output, WriteMetrics
<1>5. ASSUME NEW bench, QueryAndAggregate(bench) PROVE MetricsInv'
  BY <1>1, <1>5 DEF QueryAndAggregate
<1>6. ASSUME NEW id, Forget(id) PROVE MetricsInv'
  BY <1>1, <1>6 DEF Forget
<1>7. ASSUME UNCHANGED vars PROVE MetricsInv'
  BY <1>1, <1>7 DEF vars
<1> QED
  BY <1>2, <1>3, <1>4, <1>5, <1>6, <1>7 DEF Next

(* At any moment, whenever the warm-up ends and whatever fails, the total  *)
(* lacks no operations but those of threads between the two calls that     *)
(* measure makes, and has at most one per thread too many, none without a  *)
(* warm-up (measure of dbwrapper.go, Measure of pkg/measurement).          *)
THEOREM TotalsAreSums == Spec => []TotalIsSum
<1>1. MetricsInv => TotalIsSum
  <2> SUFFICES ASSUME MetricsInv, NEW i \in Instances
               PROVE  LET mine == {t \in Threads : home[t] = i}
                          between == {t \in mine : todo[t] # None /\ Head(todo[t].calls) = "TOTAL"}
                          excess == Count(i, "TOTAL") - Count(i, "READ") - Count(i, "UPDATE")
                      IN /\ -Cardinality(between) <= excess
                         /\ excess <= IF p[i].warmUp THEN Cardinality(mine) ELSE 0
    BY DEF TotalIsSum
  <2>1. TypeInv /\ SumInv(i)
    BY DEF MetricsInv
  <2>2. /\ IsFiniteSet(Mine(i)) /\ Cardinality(Mine(i)) \in Nat
        /\ Cardinality(Between(i)) \in Nat
    BY <2>1, CountsAreNumbers
  <2>3. /\ -Cardinality(Between(i)) <= Excess(i)
        /\ Excess(i) <= IF p[i].warmUp THEN Cardinality(Mine(i)) ELSE 0
    <3>1. CASE warmUp[i]
      <4>1. p[i].warmUp /\ DOMAIN hist[i] = {}
        BY <2>1, <3>1 DEF SumInv
      <4>2. Count(i, "TOTAL") = 0 /\ Count(i, "READ") = 0 /\ Count(i, "UPDATE") = 0
        BY <4>1 DEF Count
      <4>3. Excess(i) = 0
        BY <4>2, SMT DEF Excess
      <4>4. -Cardinality(Between(i)) <= 0 /\ 0 <= Cardinality(Mine(i))
        BY <2>2, SMT
      <4> QED
        BY <4>1, <4>3, <4>4
    <3>2. CASE ~warmUp[i]
      <4>1. PICK late \in SUBSET Mine(i) : Explained(i, late)
        BY <2>1, <3>2 DEF SumInv
      <4>2. Cardinality(late) \in Nat /\ Cardinality(late) <= Cardinality(Mine(i))
        BY <2>2, FS_Subset, FS_CardinalityType
      <4>3. Excess(i) = Cardinality(late) - Cardinality(Between(i))
        BY <4>1 DEF Explained
      <4>4. /\ -Cardinality(Between(i)) <= Excess(i) /\ Excess(i) <= Cardinality(Mine(i))
            /\ Cardinality(late) = 0 => Excess(i) <= 0
        BY <2>2, <4>2, <4>3, SMT
      <4>5. ~p[i].warmUp => Cardinality(late) = 0
        BY <4>1, FS_EmptySet DEF Explained
      <4> QED
        BY <4>4, <4>5
    <3> QED
      BY <3>1, <3>2
  <2> QED
    BY <2>3 DEF Excess, Between, Mine
<1> QED
  BY <1>1, MetricsInit, MetricsNext, PTL DEF Spec
=============================================================================
