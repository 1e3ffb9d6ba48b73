----------------------------- MODULE SumLemmas ------------------------------
(***************************************************************************)
(* Induction over data, and what it shows of sums and of integer division. *)
(* The proof system's induction theorems take an operator, which its       *)
(* provers cannot instantiate; a well-founded relation has least elements, *)
(* which is a statement about sets, and does the same work.                *)
(***************************************************************************)
EXTENDS Integers, FiniteSetsExt, FiniteSetTheorems, TLAPS

\* Leaves are left to Zenon; those with arithmetic or functions cite SMT.
USE Zenon

-----------------------------------------------------------------------------
(* A set of parts of a finite set has a least one, such as the smallest   *)
(* set of workers for which a claim about their sum fails.                 *)
LEMMA LeastSet ==
    ASSUME NEW S, IsFiniteSet(S), NEW T, T \subseteq SUBSET S, T # {}
    PROVE  \E s \in T : \A u \in T : u \subseteq s => u = s
<1>1. SUBSET S = FiniteSubsetsOf(S)
  BY FS_FiniteSubsetsOfFinite
<1>2. IsWellFoundedOn(StrictSubsetOrdering(S), SUBSET S)
  BY <1>1, FS_StrictSubsetOrderingWellFounded
<1>3. \E s \in T : \A u \in T : ~(<<u, s>> \in StrictSubsetOrdering(S))
  BY <1>2, WFMin
<1> QED
  BY <1>3 DEF StrictSubsetOrdering

(* The equations of a sum over the parts of D, in the order in which       *)
(* MapThenSumSet picks the elements.                                       *)
Pick(s) == CHOOSE x \in s : TRUE
SumStep(f, g, s) == IF s = {} THEN 0 ELSE f[Pick(s)] + g[s \ {Pick(s)}]
Sums(f, g, D) == g = [s \in SUBSET D |-> SumStep(f, g, s)]

(* The element that is picked is one of the set. *)
LEMMA PickIn == ASSUME NEW s, s # {} PROVE Pick(s) \in s
  BY DEF Pick

(* The equations have one solution: what was summed over a smaller set is  *)
(* what the sum over a larger one contains.                                *)
LEMMA SumsAgree ==
    ASSUME NEW S, IsFiniteSet(S), NEW f, NEW a \in SUBSET S, NEW b \in SUBSET S,
           NEW g, NEW h, Sums(f, g, a), Sums(f, h, b)
    PROVE  \A s \in SUBSET (a \cap b) : g[s] = h[s]
<1> DEFINE T == {s \in SUBSET (a \cap b) : g[s] # h[s]}
<1> SUFFICES ASSUME T # {} PROVE FALSE
  OBVIOUS
<1>1. PICK s \in T : \A u \in T : u \subseteq s => u = s
  <2>1. T \subseteq SUBSET S
    OBVIOUS
  <2> HIDE DEF T
  <2> QED
    BY <2>1, LeastSet, SMT
<1>2. g[s] = SumStep(f, g, s) /\ h[s] = SumStep(f, h, s)
  BY DEF Sums
<1>3. s # {}
  BY <1>2 DEF SumStep
<1>4. g[s \ {Pick(s)}] = h[s \ {Pick(s)}]
  BY <1>1, <1>3, PickIn, SMT
<1> QED
  BY <1>2, <1>4 DEF SumStep

(* The equations have a solution for every finite set. *)
LEMMA SumsExist ==
    ASSUME NEW S, IsFiniteSet(S), NEW f
    PROVE  \E g : Sums(f, g, S)
<1> DEFINE T == {d \in SUBSET S : ~ \E g : Sums(f, g, d)}
<1> SUFFICES ASSUME T # {} PROVE FALSE
  OBVIOUS
<1>1. PICK d \in T : \A u \in T : u \subseteq d => u = d
  <2>1. T \subseteq SUBSET S
    OBVIOUS
  <2> HIDE DEF T
  <2> QED
    BY <2>1, LeastSet, SMT
<1> DEFINE G(u) == CHOOSE g : Sums(f, g, u)
<1>2. \A u \in SUBSET d : u # d => Sums(f, G(u), u)
  BY <1>1
<1> DEFINE g == [u \in SUBSET d |-> IF u = d THEN SumStep(f, G(d \ {Pick(d)}), d) ELSE G(u)[u]]
<1>3. \A u \in SUBSET d : g[u] = SumStep(f, g, u)
  <2> TAKE u \in SUBSET d
  <2>1. CASE u = d
    <3>1. CASE d = {}
      BY <2>1, <3>1 DEF SumStep
    <3>2. CASE d # {}
      <4>1. d \ {Pick(d)} # d /\ d \ {Pick(d)} \in SUBSET d
        BY <3>2, PickIn
      <4>2. g[d \ {Pick(d)}] = G(d \ {Pick(d)})[d \ {Pick(d)}]
        BY <4>1
      <4> HIDE DEF G
      <4> QED
        BY <2>1, <3>2, <4>2 DEF SumStep
    <3> QED
      BY <3>1, <3>2
  <2>2. CASE u # d
    <3>1. Sums(f, G(u), u)
      BY <1>2, <2>2
    <3>2. G(u)[u] = SumStep(f, G(u), u)
      <4> HIDE DEF G
      <4> QED
        BY <3>1 DEF Sums
    <3>3. CASE u = {}
      BY <2>2, <3>2, <3>3 DEF SumStep
    <3>4. CASE u # {}
      <4> DEFINE v == u \ {Pick(u)}
      <4>1. v \in SUBSET u /\ v # d /\ v \in SUBSET d
        BY <2>2, <3>4, PickIn
      <4>2. Sums(f, G(v), v)
        BY <1>2, <4>1
      <4>3. G(u)[v] = G(v)[v]
        <5>1. v \in SUBSET S /\ u \in SUBSET S /\ v \in SUBSET (u \cap v)
          BY <4>1
        <5> HIDE DEF G, v
        <5> QED
          BY <3>1, <4>2, <5>1, SumsAgree, SMT
      <4>4. g[v] = G(v)[v] /\ g[u] = G(u)[u]
        BY <2>2, <4>1
      <4> HIDE DEF G, g
      <4> QED
        BY <3>2, <3>4, <4>3, <4>4 DEF SumStep
    <3> QED
      BY <3>3, <3>4
  <2> QED
    BY <2>1, <2>2
<1>4. Sums(f, g, d)
  <2>1. g = [u \in SUBSET d |-> g[u]]
    BY SMT
  <2> HIDE DEF g
  <2> QED
    BY <1>3, <2>1 DEF Sums
<1> QED
  BY <1>1, <1>4

(* The sum of f over S, as Client adds up the operations its workers did.  *)
SumOver(f, S) == MapThenSumSet(LAMBDA x : f[x], S)
SumFcn(f, S) == CHOOSE g : Sums(f, g, S)

(* MapThenSumSet is what the equations say. *)
LEMMA SumOverDef == ASSUME NEW f, NEW S PROVE SumOver(f, S) = SumFcn(f, S)[S]
  BY DEF SumOver, MapThenSumSet, MapThenFoldSet, SumFcn, Sums, SumStep, Pick


(* A set of natural numbers has a least one, such as the number of the     *)
(* first worker up to which a claim fails.                                 *)
LEMMA LeastNumber ==
    ASSUME NEW T, T \subseteq Nat, T # {}
    PROVE  \E n \in T : \A m \in T : n <= m
<1>1. \E n \in T : \A m \in T : ~(<<m, n>> \in OpToRel(<, Nat))
  BY NatLessThanWellFounded, WFMin
<1>2. \A m, n \in Nat : m < n => <<m, n>> \in OpToRel(<, Nat)
  BY DEF OpToRel
<1>3. \A m, n \in T : ~(m < n) => n <= m
  BY SMT
<1> HIDE DEF OpToRel
<1> QED
  BY <1>1, <1>2, <1>3

(* What holds of 0, and of n + 1 when of n, holds up to N: a claim about   *)
(* the first n workers.                                                    *)
LEMMA CountUp ==
    ASSUME NEW N \in Nat, NEW T, 0 \in T, \A n \in 0..(N - 1) : n \in T => n + 1 \in T
    PROVE  \A n \in 0..N : n \in T
<1> DEFINE U == {n \in 0..N : n \notin T}
<1> SUFFICES ASSUME U # {} PROVE FALSE
  OBVIOUS
<1>1. U \subseteq Nat
  BY SMT
<1>2. PICK n \in U : \A m \in U : n <= m
  <2> HIDE DEF U
  <2> QED
    BY <1>1, LeastNumber
<1>3. n \in 0..N /\ n \notin T /\ n # 0
  OBVIOUS
<1>4. n - 1 \in 0..(N - 1) /\ n - 1 \in 0..N /\ ~(n <= n - 1) /\ (n - 1) + 1 = n
  BY <1>3, SMT
<1>5. n - 1 \in T
  BY <1>2, <1>4
<1> HIDE DEF U
<1> QED
  BY <1>3, <1>4, <1>5

(* What holds of a set when it holds of its smaller parts holds of every   *)
(* part of a finite set.                                                   *)
LEMMA BuildUp ==
    ASSUME NEW S, IsFiniteSet(S), NEW T,
           \A s \in SUBSET S : (\A u \in SUBSET s : u # s => u \in T) => s \in T
    PROVE  \A s \in SUBSET S : s \in T
<1> DEFINE U == {s \in SUBSET S : s \notin T}
<1> SUFFICES ASSUME U # {} PROVE FALSE
  OBVIOUS
<1>1. U \subseteq SUBSET S
  OBVIOUS
<1>2. PICK s \in U : \A u \in U : u \subseteq s => u = s
  <2> HIDE DEF U
  <2> QED
    BY <1>1, LeastSet, SMT
<1>3. s \in SUBSET S /\ s \notin T
  OBVIOUS
<1>4. ASSUME NEW u \in SUBSET s, u # s PROVE u \in T
  BY <1>2, <1>3, <1>4, SMT
<1> QED
  BY <1>3, <1>4

(* g gives the sum of f over every part of S, and any element may be added *)
(* last.                                                                   *)
AddsUp(f, g, S) ==
    /\ g[{}] = 0
    /\ \A s \in SUBSET S : g[s] \in Int
    /\ \A s \in SUBSET S : \A x \in s : g[s] = f[x] + g[s \ {x}]

(* Addition commutes, so the order in which elements are picked is of no   *)
(* account.                                                                *)
LEMMA SumRemove ==
    ASSUME NEW S, IsFiniteSet(S), NEW f, \A x \in S : f[x] \in Int, NEW g, Sums(f, g, S)
    PROVE  AddsUp(f, g, S)
<1> DEFINE Q(s) == g[s] \in Int /\ \A x \in s : g[s] = f[x] + g[s \ {x}]
           T == {s \in SUBSET S : Q(s)}
<1>0. g[{}] = 0
  BY DEF Sums, SumStep
<1>1. ASSUME NEW s \in SUBSET S, \A u \in SUBSET s : u # s => u \in T
      PROVE  s \in T
  <2>1. g[s] = SumStep(f, g, s)
    BY DEF Sums
  <2>2. CASE s = {}
    BY <2>1, <2>2, SMT DEF SumStep
  <2>3. CASE s # {}
    <3>1. PICK c \in s : g[s] = f[c] + g[s \ {c}]
      BY <2>1, <2>3, PickIn DEF SumStep
    <3>2. \A x \in s : f[x] \in Int /\ g[s \ {x}] \in Int
      BY <1>1
    <3>3. g[s] \in Int
      <4>1. \A i, j \in Int : i + j \in Int
        BY SMT
      <4> QED
        BY <3>1, <3>2, <4>1, Zenon
    <3>4. ASSUME NEW x \in s, x # c PROVE g[s] = f[x] + g[s \ {x}]
      <4>1. PICK k : k = g[(s \ {x}) \ {c}]
        OBVIOUS
      <4>2. PICK u, v : u = g[s \ {c}] /\ v = g[s \ {x}]
        OBVIOUS
      <4>3. PICK i, j : i = f[c] /\ j = f[x]
        OBVIOUS
      <4>4. u = j + k
        <5>1. (s \ {c}) \ {x} = (s \ {x}) \ {c}
          OBVIOUS
        <5>2. g[s \ {c}] = f[x] + g[(s \ {c}) \ {x}]
          BY <1>1, <3>4
        <5> QED
          BY <4>1, <4>2, <4>3, <5>1, <5>2, Zenon
      <4>5. v = i + k
        <5>1. g[s \ {x}] = f[c] + g[(s \ {x}) \ {c}]
          BY <1>1, <3>4
        <5> QED
          BY <4>1, <4>2, <4>3, <5>1, Zenon
      <4>6. g[s] = i + u
        BY <3>1, <4>2, <4>3, Zenon
      <4>7. i \in Int /\ j \in Int /\ k \in Int
        BY <1>1, <3>2, <3>4, <4>1, <4>3
      <4>8. i + (j + k) = j + (i + k)
        BY <4>7, SMT
      <4> QED
        BY <4>2, <4>3, <4>4, <4>5, <4>6, <4>8, Zenon
    <3> QED
      BY <3>1, <3>3, <3>4
  <2> QED
    BY <2>2, <2>3
<1>2. \A s \in SUBSET S : s \in T
  <2> HIDE DEF T
  <2> QED
    BY <1>1, BuildUp
<1> QED
  BY <1>0, <1>2 DEF AddsUp

(* The sum over a finite set adds up. *)
LEMMA SumByParts ==
    ASSUME NEW S, IsFiniteSet(S), NEW f, \A x \in S : f[x] \in Int
    PROVE  \E g : AddsUp(f, g, S) /\ g[S] = SumOver(f, S)
<1>1. PICK g : g = SumFcn(f, S)
  OBVIOUS
<1>2. Sums(f, g, S)
  BY <1>1, SumsExist DEF SumFcn
<1>3. g[S] = SumOver(f, S)
  BY <1>1, SumOverDef
<1> QED
  BY <1>2, <1>3, SumRemove

(* A sum is an element and the sum of the others. *)
LEMMA SumOfRest ==
    ASSUME NEW S, IsFiniteSet(S), NEW f, \A x \in S : f[x] \in Int, NEW y \in S
    PROVE  SumOver(f, S) \in Int /\ SumOver(f, S) = f[y] + SumOver(f, S \ {y})
<1>1. PICK g : g = SumFcn(f, S)
  OBVIOUS
<1>2. PICK h : h = SumFcn(f, S \ {y})
  OBVIOUS
<1>3. IsFiniteSet(S \ {y})
  BY FS_Subset
<1>4. Sums(f, g, S) /\ Sums(f, h, S \ {y})
  BY <1>1, <1>2, <1>3, SumsExist DEF SumFcn
<1>5. g[S \ {y}] = h[S \ {y}]
  <2>1. S \ {y} \in SUBSET S /\ S \in SUBSET S /\ S \ {y} \in SUBSET (S \cap (S \ {y}))
    OBVIOUS
  <2> QED
    BY <1>4, <2>1, SumsAgree, SMT
<1>6. SumOver(f, S) = g[S] /\ SumOver(f, S \ {y}) = h[S \ {y}]
  BY <1>1, <1>2, SumOverDef
<1>7. AddsUp(f, g, S)
  BY <1>4, SumRemove
<1>8. S \in SUBSET S
  OBVIOUS
<1>9. g[S] \in Int /\ g[S] = f[y] + g[S \ {y}]
  BY <1>7, <1>8 DEF AddsUp
<1> QED
  BY <1>5, <1>6, <1>9

(* A sum depends on the numbers that are added and nothing else. *)
LEMMA SumOfSame ==
    ASSUME NEW S, NEW f, NEW h, \A x \in S : f[x] = h[x]
    PROVE  SumOver(f, S) = SumOver(h, S)
<1>1. \A g, s : s \in SUBSET S => SumStep(f, g, s) = SumStep(h, g, s)
  BY PickIn DEF SumStep
<1>2. \A g : Sums(f, g, S) <=> Sums(h, g, S)
  BY <1>1 DEF Sums
<1>3. SumFcn(f, S) = SumFcn(h, S)
  BY <1>2 DEF SumFcn
<1> QED
  BY <1>3, SumOverDef

(* The sum of nothing. *)
LEMMA SumOfNone == ASSUME NEW f PROVE SumOver(f, {}) = 0
<1>1. PICK g : g = SumFcn(f, {})
  OBVIOUS
<1>2. Sums(f, g, {})
  BY <1>1, SumsExist, FS_EmptySet DEF SumFcn
<1> QED
  BY <1>1, <1>2, SumOverDef DEF Sums, SumStep

(* One more number keeps a sum above a bound that moves with it. *)
LEMMA StaysAbove ==
    ASSUME NEW a \in Int, NEW b \in Int, NEW x \in Int, NEW s \in Int,
           a <= s, b <= a + x
    PROVE  b <= x + s
  BY SMT

(* The same for a bound from above. *)
LEMMA StaysBelow ==
    ASSUME NEW a \in Int, NEW b \in Int, NEW x \in Int, NEW s \in Int,
           s <= a, a + x <= b
    PROVE  x + s <= b
  BY SMT

(* A sum over 0..N-1, the workers of Client, lies between two bounds that  *)
(* grow by no more, and no less, than each term.                           *)
LEMMA SumBounds ==
    ASSUME NEW N \in Nat, NEW f, \A n \in 0..(N - 1) : f[n] \in Int,
           NEW lo \in [0..N -> Int], NEW hi \in [0..N -> Int],
           lo[0] <= 0, hi[0] >= 0,
           \A n \in 0..(N - 1) : lo[n + 1] <= lo[n] + f[n] /\ hi[n] + f[n] <= hi[n + 1]
    PROVE  SumOver(f, 0..(N - 1)) \in lo[N]..hi[N]
<1>1. IsFiniteSet(0..(N - 1))
  BY FS_Interval, SMT
<1>2. PICK g : AddsUp(f, g, 0..(N - 1)) /\ g[0..(N - 1)] = SumOver(f, 0..(N - 1))
  BY <1>1, SumByParts
<1>3. PICK h : h = [n \in 0..N |-> g[0..(n - 1)]]
  OBVIOUS
<1>4. h[0] = 0 /\ h[N] = SumOver(f, 0..(N - 1))
  <2>1. 0..(0 - 1) = {}
    BY SMT
  <2> QED
    BY <1>2, <1>3, <2>1, SMT DEF AddsUp
<1>5. ASSUME NEW n \in 0..(N - 1)
      PROVE  h[n + 1] = f[n] + h[n] /\ h[n] \in Int
  <2>1. /\ \A x \in 0..n : x # n => x \in 0..(n - 1)
        /\ \A x \in 0..(n - 1) : x \in 0..n /\ x # n
    BY SMT
  <2>2. (0..n) \ {n} = 0..(n - 1)
    BY <2>1, Zenon
  <2>3. n \in 0..n /\ 0..n \in SUBSET (0..(N - 1)) /\ 0..(n - 1) \in SUBSET (0..(N - 1))
    BY SMT
  <2>4. n \in 0..N /\ n + 1 \in 0..N /\ (n + 1) - 1 = n
    BY SMT
  <2>5. g[0..n] = f[n] + g[(0..n) \ {n}] /\ g[0..(n - 1)] \in Int
    BY <1>2, <2>3 DEF AddsUp
  <2>6. h[n + 1] = g[0..((n + 1) - 1)] /\ h[n] = g[0..(n - 1)]
    BY <1>3, <2>4
  <2> QED
    BY <2>2, <2>4, <2>5, <2>6, Zenon
<1> DEFINE T == {n \in 0..N : lo[n] <= h[n] /\ h[n] <= hi[n]}
<1>6. 0 \in T
  BY <1>4, SMT
<1>7. ASSUME NEW n \in 0..(N - 1), n \in T PROVE n + 1 \in T
  <2>1. n \in 0..N /\ n + 1 \in 0..N
    BY SMT
  <2>2. /\ lo[n] \in Int /\ hi[n] \in Int /\ f[n] \in Int
        /\ lo[n + 1] \in Int /\ hi[n + 1] \in Int
    BY <2>1
  <2>3. lo[n] <= h[n] /\ h[n] <= hi[n] /\ h[n] \in Int /\ h[n + 1] = f[n] + h[n]
    BY <1>5, <1>7
  <2>4. lo[n + 1] <= lo[n] + f[n] /\ hi[n] + f[n] <= hi[n + 1]
    OBVIOUS
  <2>5. lo[n + 1] <= h[n + 1] /\ h[n + 1] <= hi[n + 1]
    <3>1. lo[n + 1] <= f[n] + h[n]
      BY <2>2, <2>3, <2>4, StaysAbove
    <3>2. f[n] + h[n] <= hi[n + 1]
      BY <2>2, <2>3, <2>4, StaysBelow
    <3> QED
      BY <2>3, <3>1, <3>2
  <2> QED
    BY <2>1, <2>5
<1>8. N \in T
  <2> HIDE DEF T
  <2>1. \A n \in 0..N : n \in T
    BY <1>6, <1>7, CountUp
  <2> QED
    BY <2>1, SMT
<1>9. h[N] \in Int
  BY <1>1, <1>2, <1>4 DEF AddsUp
<1> QED
  BY <1>4, <1>8, <1>9, SMT

-----------------------------------------------------------------------------
(* Quotient and remainder make up the number, as newWorker relies on when  *)
(* it hands out the operations.                                            *)
LEMMA QuotientAndRemainder ==
    ASSUME NEW n \in Nat, NEW k \in Nat \ {0}
    PROVE  /\ n \div k \in Nat /\ n % k \in 0..(k - 1)
           /\ n = k * (n \div k) + (n % k)
<1>1. n \div k \in Nat
  BY SMT
<1>2. k * (n \div k) <= n /\ n < k * (n \div k) + k
  BY SMT
<1>3. PICK r \in 0..(k - 1) : n = k * (n \div k) + r
  <2>1. k * (n \div k) \in Nat
    BY <1>1, SMT
  <2>2. \A m \in Nat : m <= n /\ n < m + k => n - m \in 0..(k - 1) /\ n = m + (n - m)
    BY SMT
  <2> QED
    BY <1>2, <2>1, <2>2
<1>4. ASSUME NEW q \in Nat, n = k * q + r
      PROVE  n % k = r
  BY <1>4, SMT
<1>5. n % k = r
  BY <1>1, <1>3, <1>4
<1> QED
  BY <1>1, <1>3, <1>5

(* One batch more is one round more: how the worker's loop counts. *)
LEMMA OneMoreRound ==
    ASSUME NEW n \in Nat, NEW k \in Nat \ {0}
    PROVE  /\ n \div k \in Nat
           /\ (n + k) \div k = (n \div k) + 1
           /\ 0 \div k = 0
<1>1. ASSUME NEW m \in Nat, NEW q \in Nat, NEW r \in 0..(k - 1), m = k * q + r
      PROVE  m \div k = q
  BY <1>1, SMT
<1>2. ASSUME NEW q \in Nat, NEW r \in 0..(k - 1), n = k * q + r
      PROVE  n + k = k * (q + 1) + r
  BY <1>2, SMT
<1>3. /\ n \div k \in Nat /\ n % k \in 0..(k - 1)
      /\ n = k * (n \div k) + (n % k)
  BY QuotientAndRemainder
<1>4. n + k = k * ((n \div k) + 1) + (n % k)
  BY <1>2, <1>3
<1>5. (n + k) \div k = (n \div k) + 1
  BY <1>1, <1>3, <1>4, SMT
<1>6. 0 \div k = 0
  BY SMT
<1> QED
  BY <1>3, <1>5, <1>6

(* Counting on: the remainder goes up by one, or around, as the counter of *)
(* Sequential does.                                                        *)
LEMMA CountOn ==
    ASSUME NEW n \in Nat, NEW k \in Nat \ {0}
    PROVE  IF (n % k) + 1 < k
           THEN (n + 1) \div k = n \div k /\ (n + 1) % k = (n % k) + 1
           ELSE (n + 1) \div k = (n \div k) + 1 /\ (n + 1) % k = 0
<1>1. ASSUME NEW m \in Nat, NEW q \in Nat, NEW r \in 0..(k - 1), m = k * q + r
      PROVE  m \div k = q /\ m % k = r
  BY <1>1, SMT
<1>2. PICK q \in Nat, r \in 0..(k - 1) : q = n \div k /\ r = n % k /\ n = k * q + r
  BY QuotientAndRemainder
<1>3. CASE r + 1 < k
  <2>1. n + 1 = k * q + (r + 1) /\ r + 1 \in 0..(k - 1) /\ n + 1 \in Nat
    BY <1>2, <1>3, SMT
  <2> QED
    BY <1>1, <1>2, <1>3, <2>1
<1>4. CASE ~(r + 1 < k)
  <2>1. r + 1 = k
    BY <1>4, SMT
  <2>2. k * (q + 1) = k * q + k
    BY SMT
  <2>3. n + 1 = k * (q + 1) + 0 /\ 0 \in 0..(k - 1) /\ n + 1 \in Nat /\ q + 1 \in Nat
    BY <1>2, <2>1, <2>2, SMT
  <2> QED
    BY <1>1, <1>2, <1>4, <2>3
<1> QED
  BY <1>2, <1>3, <1>4
=============================================================================
