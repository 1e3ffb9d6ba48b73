-------------------------- MODULE GeneratorsProofs --------------------------
(***************************************************************************)
(* The acknowledged counter and the generators, for any number of threads  *)
(* and keys, any ranges and any weights.  While the keys in flight fit the *)
(* window, Last covers only keys that are acknowledged; in any window, it  *)
(* never goes back and never passes the keys issued.  A key drawn from the *)
(* latest ones lies below Last, Zipfian's sum has each term once,          *)
(* Sequential takes its numbers in turn, and the others return all of      *)
(* their range and nothing else.                                           *)
(***************************************************************************)
EXTENDS Generators, SumLemmas, TLAPS

\* Leaves are left to Zenon; those with arithmetic or functions cite SMT.
USE Zenon

-----------------------------------------------------------------------------
(* Arithmetic of slots: value & WindowMask is a remainder. *)

\* A slot is an index of the window (the mask keeps value inside it).
LEMMA SlotRange == ASSUME NEW k \in Int PROVE Slot(k) \in 0..(WindowSize - 1)
BY WindowAssumption, SMT DEF Slot

\* A slot is at most the key it is taken of (a remainder of a natural number).
LEMMA SlotAtMost == ASSUME NEW k \in Nat PROVE Slot(k) <= k
<1>1. /\ k \div WindowSize \in Nat
      /\ k = (WindowSize * (k \div WindowSize)) + Slot(k)
  BY WindowAssumption, SMT DEF Slot
<1>2. WindowSize * (k \div WindowSize) \in Nat /\ Slot(k) \in Int
  BY <1>1, WindowAssumption, SlotRange, SMT
<1>3. \A n \in Nat : \A s \in Int : s <= n + s
  BY SMT
<1> QED
  BY <1>1, <1>2, <1>3

\* Keys a window apart share their slot (value & WindowMask wraps around).
LEMMA SlotWraps ==
  ASSUME NEW k \in Int PROVE Slot(k + WindowSize) = Slot(k)
<1> DEFINE q == k \div WindowSize
           r == k % WindowSize
           p == (k + WindowSize) \div WindowSize
           s == (k + WindowSize) % WindowSize
<1>1. /\ q \in Int /\ r \in 0..(WindowSize - 1) /\ k = (WindowSize * q) + r
      /\ p \in Int /\ s \in 0..(WindowSize - 1)
      /\ k + WindowSize = (WindowSize * p) + s
  BY WindowAssumption, SMT
<1> HIDE DEF p, q, r, s
<1>2. (WindowSize * p) + s = (WindowSize * (q + 1)) + r
  BY <1>1, WindowAssumption, SMT
<1>3. p < q + 1 => (WindowSize * p) + WindowSize <= WindowSize * (q + 1)
  BY <1>1, WindowAssumption, SMT
<1>4. p > q + 1 => (WindowSize * (q + 1)) + WindowSize <= WindowSize * p
  BY <1>1, WindowAssumption, SMT
<1>5. p = q + 1
  BY <1>1, <1>2, <1>3, <1>4, WindowAssumption, SMT
<1>6. s = r
  BY <1>1, <1>2, <1>5, WindowAssumption, SMT
<1> QED
  BY <1>6 DEF Slot, r, s

\* Two keys less than a window apart have different slots.
LEMMA SlotInjective ==
  ASSUME NEW j \in Int, NEW k \in Int, j < k, k < j + WindowSize
  PROVE  Slot(j) # Slot(k)
<1> SUFFICES ASSUME Slot(j) = Slot(k) PROVE FALSE
  OBVIOUS
<1> DEFINE p == j \div WindowSize
           q == k \div WindowSize
<1>1. /\ p \in Int /\ j = (WindowSize * p) + Slot(j)
      /\ q \in Int /\ k = (WindowSize * q) + Slot(k)
      /\ Slot(j) \in Int
  BY WindowAssumption, SMT DEF Slot
<1> HIDE DEF p, q
<1>2. WindowSize * p < WindowSize * q /\ WindowSize * q < (WindowSize * p) + WindowSize
  BY <1>1, WindowAssumption, SMT
<1>3. q <= p => WindowSize * q <= WindowSize * p
  BY <1>1, WindowAssumption, SMT
<1>4. p + 1 <= q => (WindowSize * p) + WindowSize <= WindowSize * q
  BY <1>1, WindowAssumption, SMT
<1> QED
  BY <1>1, <1>2, <1>3, <1>4, WindowAssumption, SMT

\* The keys of one window have pairwise different slots.
LEMMA WindowInjective ==
  ASSUME NEW low \in Int,
         NEW j \in (low + 1)..(low + WindowSize),
         NEW k \in (low + 1)..(low + WindowSize), Slot(j) = Slot(k)
  PROVE  j = k
BY SlotInjective, WindowAssumption, SMT

-----------------------------------------------------------------------------
\* The counter starts with an empty window and Last just below the first key.
LEMMA InitInductive == Init => Inductive
<1> SUFFICES ASSUME Init PROVE Inductive
  OBVIOUS
<1>1. TypeOK
  <2>1. window \in [0..(WindowSize - 1) -> BOOLEAN]
    BY DEF Init
  <2> QED
    BY <2>1, StartAssumption, SMT DEF Init, TypeOK, Sweeping, Outside
<1>2. /\ NeverPanics /\ OneSweeper
      /\ \A t \in Threads : pc[t] \in Sweeping => lock = 1
      /\ HeldKeys /\ SweepOrder
  BY DEF Init, NeverPanics, Running, OneSweeper, Sweeping, HeldKeys, HoldsKey,
         SweepOrder, InSweep
<1>3. KeyOrder /\ OnlyAcknowledged
  BY StartAssumption, BoundAssumption, SMT DEF Init, KeyOrder, OnlyAcknowledged
<1>4. WindowMatches
  BY SlotRange, StartAssumption, WindowAssumption, SMT
  DEF Init, WindowMatches, Pending
<1> QED
  BY <1>1, <1>2, <1>3, <1>4 DEF Inductive

-----------------------------------------------------------------------------
(* One lemma per step of a thread: it preserves the inductive invariant. *)

\* Next hands out a fresh key: it is not acknowledged and nobody else holds it.
LEMMA TakeKeyInductive ==
  ASSUME NEW t \in Threads, Inductive, Span <= WindowSize, TakeKey(t)
  PROVE  Inductive'
<1> USE DEF Inductive, TakeKey
<1>1. TypeOK'
  BY SMT DEF TypeOK, Goto, Sweeping, Outside
<1>2. /\ NeverPanics' /\ OneSweeper'
      /\ (\A u \in Threads : pc[u] \in Sweeping => lock = 1)'
  BY DEF TypeOK, Goto, NeverPanics, Running, OneSweeper, Sweeping
<1>3. KeyOrder' /\ OnlyAcknowledged'
  BY BoundAssumption, StartAssumption, SMT DEF TypeOK, KeyOrder, OnlyAcknowledged
<1>4. HeldKeys'
  BY StartAssumption, SMT DEF TypeOK, Goto, KeyOrder, HeldKeys, HoldsKey
<1>5. SweepOrder'
  BY SMT DEF TypeOK, Goto, SweepOrder, InSweep
<1>6. WindowMatches'
  BY DEF TypeOK, Goto, WindowMatches, Pending, InSweep
<1> QED
  BY <1>1, <1>2, <1>3, <1>4, <1>5, <1>6

\* A key that is held lies in the window after Last, and its slot is free.
LEMMA HeldSlotFree ==
  ASSUME NEW t \in Threads, Inductive, Span <= WindowSize, HoldsKey(t)
  PROVE  /\ value[t] \in (limit + 1)..(limit + WindowSize)
         /\ value[t] \in Start..(counter - 1)
         /\ value[t] \notin acked
         /\ ~window[Slot(value[t])]
<1> USE DEF Inductive
<1>1. /\ value[t] \in (limit + 1)..(limit + WindowSize)
      /\ value[t] \in Start..(counter - 1)
      /\ value[t] \notin acked
  BY BoundAssumption, WindowAssumption, StartAssumption, SMT
  DEF TypeOK, HeldKeys, KeyOrder, OnlyAcknowledged
<1> QED
  BY <1>1 DEF WindowMatches, Pending

\* The slot of a key that is not acknowledged is free: Acknowledge goes on.
LEMMA CheckSlotInductive ==
  ASSUME NEW t \in Threads, Inductive, Span <= WindowSize, CheckSlot(t)
  PROVE  Inductive'
<1> USE DEF Inductive, CheckSlot
<1>1. ~window[Slot(value[t])]
  BY HeldSlotFree DEF Goto, HoldsKey
<1>2. pc' = [pc EXCEPT ![t] = "mark"]
  BY <1>1 DEF Goto
<1>3. TypeOK'
  BY <1>2 DEF TypeOK, Goto, Sweeping, Outside
<1>4. /\ NeverPanics' /\ OneSweeper'
      /\ (\A u \in Threads : pc[u] \in Sweeping => lock = 1)'
  BY <1>2 DEF TypeOK, Goto, NeverPanics, Running, OneSweeper, Sweeping
<1>5. KeyOrder' /\ OnlyAcknowledged'
  BY DEF KeyOrder, OnlyAcknowledged
<1>6. HeldKeys'
  BY <1>2, SMT DEF TypeOK, Goto, HeldKeys, HoldsKey
<1>7. SweepOrder'
  BY <1>2 DEF TypeOK, Goto, SweepOrder, InSweep
<1>8. WindowMatches'
  BY <1>2 DEF TypeOK, Goto, WindowMatches, Pending, InSweep
<1> QED
  BY <1>3, <1>4, <1>5, <1>6, <1>7, <1>8

\* Marking sets the flag of exactly one key of the window.
LEMMA MarkSlotInductive ==
  ASSUME NEW t \in Threads, Inductive, Span <= WindowSize, MarkSlot(t)
  PROVE  Inductive'
<1> USE DEF Inductive, MarkSlot
<1>1. /\ value[t] \in (limit + 1)..(limit + WindowSize)
      /\ value[t] \in Start..(counter - 1)
      /\ value[t] \notin acked
  BY HeldSlotFree DEF Goto, HoldsKey
<1>2. Slot(value[t]) \in 0..(WindowSize - 1)
  BY SlotRange DEF TypeOK
<1>3. TypeOK'
  <2>1. window' \in [0..(WindowSize - 1) -> BOOLEAN]
    BY <1>2 DEF TypeOK
  <2> QED
    BY <2>1 DEF TypeOK, Goto, Sweeping, Outside
<1>4. /\ NeverPanics' /\ OneSweeper'
      /\ (\A u \in Threads : pc[u] \in Sweeping => lock = 1)'
  BY DEF TypeOK, Goto, NeverPanics, Running, OneSweeper, Sweeping
<1>5. KeyOrder' /\ OnlyAcknowledged'
  BY <1>1 DEF TypeOK, KeyOrder, OnlyAcknowledged
<1>6. HeldKeys'
  BY DEF TypeOK, Goto, HeldKeys, HoldsKey
<1>7. \A u \in Threads : InSweep(u)' <=> InSweep(u)
  BY DEF TypeOK, Goto, InSweep
<1>8. SweepOrder'
  BY <1>2, <1>7, SlotRange DEF TypeOK, Goto, SweepOrder
<1>9. WindowMatches'
  <2> SUFFICES ASSUME NEW key \in (limit + 1)..(limit + WindowSize)
               PROVE  window'[Slot(key)] <=> Pending(key)'
    BY DEF WindowMatches
  <2>1. key \in Int
    BY WindowAssumption, SMT DEF TypeOK
  <2>4. Slot(key) \in 0..(WindowSize - 1)
    BY <2>1, SlotRange
  <2>2. CASE key = value[t]
    <3>1. \A u \in Threads : InSweep(u) => index[u] <= key
      BY <1>1, <2>2, SMT DEF TypeOK, SweepOrder
    <3> QED
      BY <1>2, <1>7, <2>2, <3>1 DEF TypeOK, Pending
  <2>3. CASE key # value[t]
    <3>1. Slot(key) # Slot(value[t])
      BY <1>1, <2>3, WindowInjective DEF TypeOK
    <3> QED
      BY <1>7, <2>3, <2>4, <3>1 DEF TypeOK, Pending, WindowMatches
  <2> QED
    BY <2>2, <2>3
<1> QED
  BY <1>3, <1>4, <1>5, <1>6, <1>8, <1>9

\* The thread that finds the lock free is the only sweeper; the one that finds
\* it taken leaves.
LEMMA TryLockInductive ==
  ASSUME NEW t \in Threads, Inductive, TryLock(t)
  PROVE  Inductive'
<1> USE DEF Inductive, TryLock
<1>1. TypeOK'
  BY DEF TypeOK, Goto, Sweeping, Outside
<1>2. NeverPanics'
  BY DEF TypeOK, Goto, NeverPanics, Running
<1>3. OneSweeper' /\ (\A u \in Threads : pc[u] \in Sweeping => lock = 1)'
  BY SMT DEF TypeOK, Goto, OneSweeper, Sweeping
<1>4. KeyOrder' /\ OnlyAcknowledged'
  BY DEF KeyOrder, OnlyAcknowledged
<1>5. HeldKeys'
  BY DEF TypeOK, Goto, HeldKeys, HoldsKey
<1>6. SweepOrder'
  BY DEF TypeOK, Goto, SweepOrder, InSweep
<1>7. WindowMatches'
  BY DEF TypeOK, Goto, WindowMatches, Pending, InSweep
<1> QED
  BY <1>1, <1>2, <1>3, <1>4, <1>5, <1>6, <1>7

\* A thread that sweeps is the only one with a loop variable.
LEMMA OnlyOneInSweep ==
  ASSUME NEW t \in Threads, NEW u \in Threads, OneSweeper,
         pc[t] \in Sweeping, InSweep(u)
  PROVE  u = t
BY DEF OneSweeper, Sweeping, InSweep

\* The sweep starts right after Last: it has consumed no mark yet.
LEMMA LoadLimitInductive ==
  ASSUME NEW t \in Threads, Inductive, LoadLimit(t)
  PROVE  Inductive'
<1> USE DEF Inductive, LoadLimit
<1>1. TypeOK'
  BY SMT DEF TypeOK, Goto, Sweeping, Outside
<1>2. /\ NeverPanics' /\ OneSweeper'
      /\ (\A u \in Threads : pc[u] \in Sweeping => lock = 1)'
  BY DEF TypeOK, Goto, NeverPanics, Running, OneSweeper, Sweeping
<1>3. KeyOrder' /\ OnlyAcknowledged'
  BY DEF KeyOrder, OnlyAcknowledged
<1>4. HeldKeys'
  BY DEF TypeOK, Goto, HeldKeys, HoldsKey
<1>5. \A u \in Threads : ~InSweep(u) /\ (InSweep(u)' <=> u = t)
  BY OnlyOneInSweep DEF TypeOK, Goto, InSweep, Sweeping
<1>6. SweepOrder'
  BY <1>5, SMT DEF TypeOK, Goto, SweepOrder, KeyOrder
<1>7. WindowMatches'
  BY <1>5, SMT DEF TypeOK, WindowMatches, Pending
<1> QED
  BY <1>1, <1>2, <1>3, <1>4, <1>6, <1>7

\* The sweep only goes on at a slot whose flag it has seen set.
LEMMA TestSlotInductive ==
  ASSUME NEW t \in Threads, Inductive, TestSlot(t)
  PROVE  Inductive'
<1> USE DEF Inductive, TestSlot
<1>1. \/ pc' = [pc EXCEPT ![t] = "clear"] /\ window[Slot(index[t])]
      \/ pc' = [pc EXCEPT ![t] = "store"]
  BY DEF Goto
<1>2. TypeOK'
  BY <1>1 DEF TypeOK, Goto, Sweeping, Outside
<1>3. /\ NeverPanics' /\ OneSweeper'
      /\ (\A u \in Threads : pc[u] \in Sweeping => lock = 1)'
  BY <1>1 DEF TypeOK, Goto, NeverPanics, Running, OneSweeper, Sweeping
<1>4. KeyOrder' /\ OnlyAcknowledged'
  BY DEF KeyOrder, OnlyAcknowledged
<1>5. HeldKeys'
  BY <1>1 DEF TypeOK, Goto, HeldKeys, HoldsKey
<1>6. \A u \in Threads : InSweep(u)' <=> InSweep(u)
  BY <1>1 DEF TypeOK, Goto, InSweep
<1>7. SweepOrder'
  BY <1>1, <1>6 DEF TypeOK, Goto, SweepOrder
<1>8. WindowMatches'
  BY <1>6 DEF WindowMatches, Pending
<1> QED
  BY <1>2, <1>3, <1>4, <1>5, <1>7, <1>8

\* The flag the sweep has seen set belongs to the key it is looking at.
LEMMA SweptKeyAcked ==
  ASSUME NEW t \in Threads, Inductive, Span <= WindowSize, pc[t] = "clear"
  PROVE  /\ index[t] \in (limit + 1)..(limit + WindowSize)
         /\ index[t] \in acked
         /\ index[t] < counter
<1> USE DEF Inductive
<1>1. InSweep(t) /\ pc[t] \in Sweeping
  BY DEF InSweep, Sweeping
<1>2. /\ limit < index[t] /\ index[t] <= limit + WindowSize + 1
      /\ window[Slot(index[t])] /\ index[t] \in Int
  BY <1>1, BoundAssumption, WindowAssumption, SMT DEF TypeOK, SweepOrder, KeyOrder
<1>3. index[t] # limit + WindowSize + 1
  <2> SUFFICES ASSUME index[t] = limit + WindowSize + 1 PROVE FALSE
    OBVIOUS
  <2>1. limit + 1 \in Int /\ index[t] = (limit + 1) + WindowSize
    BY WindowAssumption, SMT DEF TypeOK
  <2>2. Slot(index[t]) = Slot(limit + 1)
    BY <2>1, SlotWraps
  <2>3. limit + 1 \in (limit + 1)..(limit + WindowSize)
    BY WindowAssumption, SMT DEF TypeOK
  <2>4. Pending(limit + 1)
    BY <1>2, <2>2, <2>3 DEF WindowMatches
  <2> QED
    BY <1>1, <2>1, <2>4, WindowAssumption, SMT DEF Pending, TypeOK
<1>4. index[t] \in (limit + 1)..(limit + WindowSize)
  BY <1>2, <1>3, WindowAssumption, SMT DEF TypeOK
<1>5. index[t] \in acked
  BY <1>2, <1>4 DEF WindowMatches, Pending
<1> QED
  BY <1>4, <1>5, SMT DEF KeyOrder, TypeOK

\* Clearing consumes the mark of exactly one key of the window.
LEMMA ClearSlotInductive ==
  ASSUME NEW t \in Threads, Inductive, Span <= WindowSize, ClearSlot(t)
  PROVE  Inductive'
<1> USE DEF Inductive, ClearSlot
<1>1. /\ index[t] \in (limit + 1)..(limit + WindowSize)
      /\ index[t] \in acked
      /\ index[t] < counter
  BY SweptKeyAcked DEF Goto
<1>2. Slot(index[t]) \in 0..(WindowSize - 1)
  BY SlotRange DEF TypeOK
<1>3. TypeOK'
  <2>1. window' \in [0..(WindowSize - 1) -> BOOLEAN]
    BY <1>2 DEF TypeOK
  <2> QED
    BY <2>1, SMT DEF TypeOK, Goto, Sweeping, Outside
<1>4. /\ NeverPanics' /\ OneSweeper'
      /\ (\A u \in Threads : pc[u] \in Sweeping => lock = 1)'
  BY DEF TypeOK, Goto, NeverPanics, Running, OneSweeper, Sweeping
<1>5. KeyOrder' /\ OnlyAcknowledged'
  BY DEF KeyOrder, OnlyAcknowledged
<1>6. HeldKeys'
  BY DEF TypeOK, Goto, HeldKeys, HoldsKey
<1>7. \A u \in Threads : (InSweep(u) <=> u = t) /\ (InSweep(u)' <=> u = t)
  BY OnlyOneInSweep DEF TypeOK, Goto, InSweep, Sweeping
<1>8. index'[t] = index[t] + 1 /\ pc'[t] = "test"
  BY DEF TypeOK, Goto
<1>9. SweepOrder'
  BY <1>1, <1>7, <1>8, SMT DEF TypeOK, SweepOrder
<1>10. WindowMatches'
  <2> SUFFICES ASSUME NEW key \in (limit + 1)..(limit + WindowSize)
               PROVE  window'[Slot(key)] <=> Pending(key)'
    BY DEF WindowMatches
  <2>1. key \in Int
    BY WindowAssumption, SMT DEF TypeOK
  <2>2. Slot(key) \in 0..(WindowSize - 1)
    BY <2>1, SlotRange
  <2>3. CASE key = index[t]
    BY <1>2, <1>7, <1>8, <2>1, <2>3, SMT DEF TypeOK, Pending
  <2>4. CASE key # index[t]
    <3>1. Slot(key) # Slot(index[t])
      BY <1>1, <2>4, WindowInjective DEF TypeOK
    <3>2. window'[Slot(key)] <=> window[Slot(key)]
      BY <2>2, <3>1 DEF TypeOK
    <3>3. Pending(key)' <=> Pending(key)
      BY <1>7, <1>8, <2>1, <2>4, SMT DEF TypeOK, Pending
    <3> QED
      BY <3>2, <3>3 DEF WindowMatches
  <2> QED
    BY <2>3, <2>4
<1> QED
  BY <1>3, <1>4, <1>5, <1>6, <1>9, <1>10

\* Last moves over acknowledged keys, and the window moves with it: the slots it
\* gains are those of the keys just published, all of them clear.
LEMMA StoreLimitInductive ==
  ASSUME NEW t \in Threads, Inductive, Span <= WindowSize, StoreLimit(t)
  PROVE  Inductive'
<1> USE DEF Inductive, StoreLimit
<1>1. \A u \in Threads : (InSweep(u) <=> u = t) /\ ~InSweep(u)'
  BY OnlyOneInSweep DEF TypeOK, Goto, InSweep, Sweeping
<1>2. /\ limit < index[t] /\ index[t] <= counter /\ index[t] \in Int
      /\ (limit + 1)..(index[t] - 1) \subseteq acked
  BY <1>1 DEF SweepOrder, TypeOK
<1>3. TypeOK'
  BY <1>2, SMT DEF TypeOK, Goto, Sweeping, Outside
<1>4. /\ NeverPanics' /\ OneSweeper'
      /\ (\A u \in Threads : pc[u] \in Sweeping => lock = 1)'
  BY DEF TypeOK, Goto, NeverPanics, Running, OneSweeper, Sweeping
<1>5. KeyOrder' /\ OnlyAcknowledged'
  BY <1>2, BoundAssumption, StartAssumption, SMT
  DEF TypeOK, KeyOrder, OnlyAcknowledged
<1>6. HeldKeys'
  BY DEF TypeOK, Goto, HeldKeys, HoldsKey
<1>7. SweepOrder'
  BY <1>1 DEF SweepOrder
<1>8. WindowMatches'
  <2> SUFFICES ASSUME NEW key \in index[t]..(index[t] - 1 + WindowSize)
               PROVE  window[Slot(key)] <=> key \in acked
    BY <1>1, <1>2, SMT DEF WindowMatches, Pending, TypeOK
  <2>1. key \in Int /\ index[t] <= key /\ key <= index[t] - 1 + WindowSize
    BY <1>2, WindowAssumption, SMT
  <2>2. CASE key <= limit + WindowSize
    <3>1. key \in (limit + 1)..(limit + WindowSize)
      BY <1>2, <2>1, <2>2, WindowAssumption, SMT DEF TypeOK
    <3>2. Pending(key) <=> key \in acked
      BY <1>1, <2>1 DEF Pending
    <3> QED
      BY <3>1, <3>2 DEF WindowMatches
  <2>3. CASE key > limit + WindowSize
    <3> DEFINE back == key - WindowSize
    <3>1. /\ back \in Int /\ back < index[t] /\ key = back + WindowSize
          /\ back \in (limit + 1)..(limit + WindowSize)
      BY <1>2, <2>1, <2>3, WindowAssumption, BoundAssumption, SMT DEF TypeOK, KeyOrder
    <3>2. Slot(key) = Slot(back)
      BY <3>1, SlotWraps
    <3>3. ~Pending(back)
      BY <1>1, <1>2, <3>1, SMT DEF Pending
    <3>4. ~window[Slot(key)]
      BY <3>1, <3>2, <3>3 DEF WindowMatches
    <3>5. key \notin acked
      BY <2>1, <2>3, BoundAssumption, WindowAssumption, StartAssumption, SMT DEF KeyOrder, TypeOK
    <3> QED
      BY <3>4, <3>5
  <2> QED
    BY <2>1, <2>2, <2>3, WindowAssumption, SMT DEF TypeOK
<1> QED
  BY <1>3, <1>4, <1>5, <1>6, <1>7, <1>8

\* The holder gives the lock back when nobody else sweeps.
LEMMA UnlockInductive ==
  ASSUME NEW t \in Threads, Inductive, Unlock(t)
  PROVE  Inductive'
<1> USE DEF Inductive, Unlock
<1>1. TypeOK'
  BY DEF TypeOK, Goto, Sweeping, Outside
<1>2. NeverPanics'
  BY DEF TypeOK, Goto, NeverPanics, Running
<1>3. OneSweeper' /\ (\A u \in Threads : pc[u] \in Sweeping => lock = 1)'
  BY DEF TypeOK, Goto, OneSweeper, Sweeping
<1>4. KeyOrder' /\ OnlyAcknowledged'
  BY DEF KeyOrder, OnlyAcknowledged
<1>5. HeldKeys'
  BY DEF TypeOK, Goto, HeldKeys, HoldsKey
<1>6. SweepOrder'
  BY DEF TypeOK, Goto, SweepOrder, InSweep
<1>7. WindowMatches'
  BY DEF TypeOK, Goto, WindowMatches, Pending, InSweep
<1> QED
  BY <1>1, <1>2, <1>3, <1>4, <1>5, <1>6, <1>7

-----------------------------------------------------------------------------
(* The theorems, for keys that stay within a window of Last. *)

\* Every step of every goroutine preserves the inductive invariant.
LEMMA NextInductive ==
  ASSUME Inductive, Span <= WindowSize, [Next]_vars
  PROVE  Inductive'
<1>1. CASE UNCHANGED vars
  BY <1>1 DEF vars, Inductive, TypeOK, NeverPanics, Running, OneSweeper,
              KeyOrder, HeldKeys, HoldsKey, OnlyAcknowledged, SweepOrder,
              InSweep, WindowMatches, Pending
<1>2. CASE Finished
  BY <1>1, <1>2 DEF Finished
<1>3. ASSUME NEW t \in Threads, Step(t) PROVE Inductive'
  BY <1>3, TakeKeyInductive, CheckSlotInductive, MarkSlotInductive,
     TryLockInductive, LoadLimitInductive, TestSlotInductive,
     ClearSlotInductive, StoreLimitInductive, UnlockInductive
  DEF Step, Acknowledge
<1> QED
  BY <1>1, <1>2, <1>3 DEF Next

\* The inductive invariant holds in every reachable state: the flags of the
\* window are exactly the acknowledged keys after Last that no sweep has taken.
THEOREM InductiveHolds == ASSUME Span <= WindowSize PROVE Spec => []Inductive
<1>1. Init => Inductive
  BY InitInductive
<1>2. Inductive /\ [Next]_vars => Inductive'
  BY NextInductive
<1> QED
  BY <1>1, <1>2, PTL DEF Spec

\* Every variable keeps its type, whatever the interleaving of Acknowledge.
THEOREM TypeCorrect == ASSUME Span <= WindowSize PROVE Spec => []TypeOK
<1>1. Inductive => TypeOK
  BY DEF Inductive
<1> QED
  BY <1>1, InductiveHolds, PTL

\* Last reports only keys that are acknowledged together with all keys before
\* them, for any number of concurrent calls of Acknowledge.
THEOREM LastIsAcknowledged ==
  ASSUME Span <= WindowSize PROVE Spec => []OnlyAcknowledged
<1>1. Inductive => OnlyAcknowledged
  BY DEF Inductive
<1> QED
  BY <1>1, InductiveHolds, PTL

\* Acknowledge never panics while the keys in flight fit in the window.
THEOREM AcknowledgeNeverPanics ==
  ASSUME Span <= WindowSize PROVE Spec => []NeverPanics
<1>1. Inductive => NeverPanics
  BY DEF Inductive
<1> QED
  BY <1>1, InductiveHolds, PTL

\* TryLock admits one sweep at a time.
THEOREM SweepIsExclusive ==
  ASSUME Span <= WindowSize PROVE Spec => []OneSweeper
<1>1. Inductive => OneSweeper
  BY DEF Inductive
<1> QED
  BY <1>1, InductiveHolds, PTL

-----------------------------------------------------------------------------
(* AcknowledgedCounter implements PublishedPrefix. *)

\* The counter as constructed is the empty prefix.
LEMMA InitIsPromised == ASSUME Init PROVE Promise!Init
BY DEF Init, Promise!Init

\* Each step of a goroutine issues a key, acknowledges one, publishes a run of
\* acknowledged keys, or leaves what is promised alone.
LEMMA StepIsPromised ==
  ASSUME NEW t \in Threads, Inductive, Step(t)
  PROVE  [Promise!Next]_<<counter, acked, limit>>
<1>1. CASE TakeKey(t)
  BY <1>1 DEF TakeKey, Promise!Next, Promise!Issue
<1>2. CASE MarkSlot(t)
  <2>1. value[t] \in Start..(counter - 1) /\ value[t] \notin acked
    BY <1>2 DEF MarkSlot, Goto, Inductive, HeldKeys, HoldsKey
  <2>2. Promise!Acknowledge(value[t])
    BY <1>2, <2>1 DEF MarkSlot, Promise!Acknowledge
  <2> QED
    BY <2>1, <2>2 DEF Promise!Next
<1>3. CASE StoreLimit(t)
  <2>1. /\ index[t] \in Int /\ limit \in Int /\ counter \in Int
        /\ limit < index[t] /\ index[t] <= counter
        /\ (limit + 1)..(index[t] - 1) \subseteq acked
    BY <1>3 DEF StoreLimit, Goto, Inductive, TypeOK, SweepOrder, InSweep
  <2>2. CASE index[t] = limit + 1
    BY <1>3, <2>1, <2>2, SMT DEF StoreLimit
  <2>3. CASE index[t] > limit + 1
    <3>1. Promise!Publish(index[t] - 1)
      BY <1>3, <2>1, <2>3, SMT DEF StoreLimit, Promise!Publish
    <3>2. index[t] - 1 \in Start..(counter - 1)
      BY <2>1, <2>3, StartAssumption, SMT DEF Inductive, KeyOrder
    <3> QED
      BY <3>1, <3>2 DEF Promise!Next
  <2> QED
    BY <2>1, <2>2, <2>3, SMT
<1>4. CASE CheckSlot(t) \/ TryLock(t) \/ LoadLimit(t) \/ TestSlot(t)
           \/ ClearSlot(t) \/ Unlock(t)
  BY <1>4 DEF CheckSlot, TryLock, LoadLimit, TestSlot, ClearSlot, Unlock
<1> QED
  BY <1>1, <1>2, <1>3, <1>4 DEF Step, Acknowledge

\* The window and the try-lock implement the published prefix.
THEOREM Refinement ==
  ASSUME Span <= WindowSize PROVE Spec => ImplementsPromise
<1>1. Init => Promise!Init
  BY InitIsPromised
<1>2. Inductive /\ [Next]_vars => [Promise!Next]_<<counter, acked, limit>>
  BY StepIsPromised DEF Next, Finished, vars
<1> QED
  BY <1>1, <1>2, InductiveHolds, PTL
  DEF Spec, ImplementsPromise, Promise!Spec, Promise!promiseVars

\* Last never goes back: readers of Last see a growing set of keys.
THEOREM LastIsMonotone ==
  ASSUME Span <= WindowSize PROVE Spec => LastNeverRetreats
<1>1. ASSUME Inductive, NEW t \in Threads, Step(t) PROVE limit' >= limit
  <2>1. limit \in Int /\ index[t] \in Int
    BY <1>1 DEF Inductive, TypeOK
  <2>2. CASE StoreLimit(t)
    BY <1>1, <2>1, <2>2, SMT DEF StoreLimit, Goto, Inductive, SweepOrder, InSweep
  <2>3. CASE ~StoreLimit(t)
    BY <1>1, <2>1, <2>3, SMT
    DEF Step, Acknowledge, TakeKey, CheckSlot, MarkSlot, TryLock, LoadLimit,
        TestSlot, ClearSlot, Unlock
  <2> QED
    BY <2>2, <2>3
<1>2. Inductive /\ [Next]_vars => [limit' >= limit]_vars
  BY <1>1 DEF Next, Finished
<1> QED
  BY <1>2, InductiveHolds, PTL DEF Spec, LastNeverRetreats

-----------------------------------------------------------------------------
(* Why an acknowledged key right after Last was left by a lost race. *)

\* The goroutine of the key found the lock taken, or has yet to try it.
LeftToHolder(key) ==
  key \in lostRace \/ \E u \in Threads : pc[u] = "try" /\ value[u] = key

\* An acknowledged key right after Last is still to be swept, or left to the
\* holder; so is the key at which a sweep has stopped.
StallInv ==
  /\ limit + 1 \in acked =>
       \/ LeftToHolder(limit + 1)
       \/ \E u \in Threads : pc[u] \in {"load", "test", "clear"}
       \/ \E u \in Threads : pc[u] = "store" /\ index[u] > limit + 1
  /\ \A t \in Threads :
       pc[t] = "store" /\ index[t] \in acked => LeftToHolder(index[t])

\* A sweep stops at a key that is not acknowledged: the flag of that key's slot
\* is clear, and the comparison with the slot number never ends the loop.
LEMMA SweepStopsUnacked ==
  ASSUME NEW t \in Threads, Inductive, Span <= WindowSize, pc[t] = "test",
         ~(index[t] # Slot(limit) /\ window[Slot(index[t])])
  PROVE  index[t] \notin acked
<1> USE DEF Inductive
<1>1. InSweep(t) /\ pc[t] \in Sweeping
  BY DEF InSweep, Sweeping
<1>2. /\ limit \in Nat /\ index[t] \in Int /\ limit < index[t]
      /\ index[t] <= limit + WindowSize + 1 /\ index[t] <= counter /\ counter \in Int
      /\ counter <= limit + WindowSize + 1
  BY <1>1, BoundAssumption, WindowAssumption, StartAssumption, SMT
  DEF TypeOK, SweepOrder, KeyOrder
<1>3. Slot(limit) <= limit
  BY <1>2, SlotAtMost
<1>4. ~ window[Slot(index[t])]
  BY <1>2, <1>3, SlotRange, WindowAssumption, SMT
<1>5. CASE index[t] <= limit + WindowSize
  <2>1. ~ Pending(index[t])
    BY <1>2, <1>4, <1>5, WindowAssumption, SMT DEF WindowMatches
  <2>2. \A u \in Threads : InSweep(u) => index[u] <= index[t]
    BY <1>1, <1>2, OnlyOneInSweep, SMT
  <2> QED
    BY <2>1, <2>2 DEF Pending
<1>6. CASE index[t] = limit + WindowSize + 1
  BY <1>2, <1>6, StartAssumption, SMT DEF KeyOrder
<1> QED
  BY <1>2, <1>5, <1>6, WindowAssumption, SMT

\* Every step of a goroutine keeps it.
LEMMA StallStep ==
  ASSUME NEW t \in Threads, Inductive, Span <= WindowSize, StallInv, Step(t)
  PROVE  StallInv'
<1>0. /\ pc \in [Threads -> Sweeping \union Outside] /\ limit \in Int
      /\ index \in [Threads -> Int] /\ value \in [Threads -> Int]
      /\ lock \in {0, 1}
  BY DEF Inductive, TypeOK
<1>1. \A u, v \in Threads : pc[u] \in Sweeping /\ pc[v] \in Sweeping => u = v /\ lock = 1
  BY DEF Inductive, OneSweeper
<1> USE DEF Goto
<1>2. CASE TakeKey(t) \/ CheckSlot(t)
  BY <1>0, <1>2, SMT DEF TakeKey, CheckSlot, StallInv, LeftToHolder
<1>3. CASE MarkSlot(t)
  BY <1>0, <1>3, SMT DEF MarkSlot, StallInv, LeftToHolder
<1>4. CASE TryLock(t)
  BY <1>0, <1>1, <1>4, SMT DEF TryLock, StallInv, LeftToHolder, Sweeping
<1>5. CASE LoadLimit(t)
  BY <1>0, <1>1, <1>5, SMT DEF LoadLimit, StallInv, LeftToHolder, Sweeping
<1>6. CASE TestSlot(t)
  <2>1. /\ limit' = limit /\ index' = index /\ acked' = acked /\ pc[t] = "test"
        /\ \A key : LeftToHolder(key) => LeftToHolder(key)'
        /\ \A u \in Threads : u # t => pc'[u] = pc[u]
    BY <1>0, <1>6 DEF TestSlot, LeftToHolder
  <2>2. CASE pc'[t] = "clear"
    BY <2>1, <2>2 DEF StallInv
  <2>3. CASE pc'[t] # "clear"
    <3>1. pc'[t] = "store" /\ ~(index[t] # Slot(limit) /\ window[Slot(index[t])])
      BY <1>0, <1>6, <2>3 DEF TestSlot
    <3>2. index[t] \notin acked /\ limit < index[t]
      BY <2>1, <3>1, SweepStopsUnacked DEF Inductive, SweepOrder, InSweep
    <3>3. limit + 1 \in acked => index[t] > limit + 1
      BY <1>0, <3>2, SMT
    <3> QED
      BY <2>1, <3>1, <3>2, <3>3 DEF StallInv
  <2> QED
    BY <2>2, <2>3
<1>7. CASE ClearSlot(t)
  BY <1>0, <1>1, <1>7, SMT DEF ClearSlot, StallInv, LeftToHolder, Sweeping
<1>8. CASE StoreLimit(t)
  <2>1. /\ limit' + 1 = index[t] /\ acked' = acked /\ pc[t] = "store" /\ pc'[t] = "unlock"
        /\ \A key : LeftToHolder(key) => LeftToHolder(key)'
    BY <1>0, <1>8, SMT DEF StoreLimit, LeftToHolder
  <2>2. \A u \in Threads : pc'[u] # "store"
    BY <1>0, <1>1, <1>8 DEF StoreLimit, Sweeping
  <2> QED
    BY <2>1, <2>2 DEF StallInv
<1>9. CASE Unlock(t)
  BY <1>0, <1>1, <1>9, SMT DEF Unlock, StallInv, LeftToHolder, Sweeping
<1> QED
  BY <1>2, <1>3, <1>4, <1>5, <1>6, <1>7, <1>8, <1>9 DEF Step, Acknowledge

\* A key acknowledged right after Last, with nobody inside Acknowledge, was left
\* by a goroutine that lost TryLock: no sweep of Acknowledge overlooks a key.
THEOREM OnlyLostRacesStall ==
  ASSUME Span <= WindowSize PROVE Spec => []StallOnlyAfterLostRace
<1>1. Init => StallInv
  BY DEF Init, StallInv
<1>2. Inductive /\ StallInv /\ [Next]_vars => StallInv'
  <2> SUFFICES ASSUME Inductive, StallInv, [Next]_vars PROVE StallInv'
    OBVIOUS
  <2>1. CASE UNCHANGED vars
    BY <2>1 DEF vars, StallInv, LeftToHolder
  <2> QED
    BY <2>1, StallStep DEF Next, Finished
<1>3. StallInv => StallOnlyAfterLostRace
  BY DEF StallInv, LeftToHolder, StallOnlyAfterLostRace, Quiescent
<1> QED
  BY <1>1, <1>2, <1>3, InductiveHolds, PTL DEF Spec

-----------------------------------------------------------------------------
(* The counter: who sweeps holds the lock, and is alone; a sweep has gone  *)
(* past the limit it loaded.                                               *)
SweepInv ==
    /\ limit \in Int /\ limit >= 0
    /\ index \in [Threads -> Int]
    /\ pc \in [Threads -> Sweeping \union Outside]
    /\ lock \in {0, 1}
    /\ \A t \in Threads : pc[t] \in Sweeping => lock = 1
    /\ OneSweeper
    /\ \A t \in Threads : InSweep(t) => limit < index[t]

(* The counter starts with no sweep. *)
LEMMA SweepInit == Init => SweepInv
  BY StartAssumption, SMT DEF Init, SweepInv, OneSweeper, InSweep, Sweeping, Outside

(* A step of one thread keeps the sweeps apart and never moves Last back. *)
LEMMA SweepStep ==
    ASSUME NEW t \in Threads, SweepInv, Step(t)
    PROVE  SweepInv' /\ limit' >= limit
<1> USE DEF SweepInv, OneSweeper, InSweep, Sweeping, Outside, Goto
<1>1. CASE TakeKey(t)
  BY <1>1, SMT DEF TakeKey
<1>2. CASE CheckSlot(t)
  BY <1>2, SMT DEF CheckSlot
<1>3. CASE MarkSlot(t)
  BY <1>3, SMT DEF MarkSlot
<1>4. CASE TryLock(t)
  BY <1>4, SMT DEF TryLock
<1>5. CASE LoadLimit(t)
  BY <1>5, SMT DEF LoadLimit
<1>6. CASE TestSlot(t)
  BY <1>6, SMT DEF TestSlot
<1>7. CASE ClearSlot(t)
  BY <1>7, SMT DEF ClearSlot
<1>8. CASE StoreLimit(t)
  BY <1>8, SMT DEF StoreLimit
<1>9. CASE Unlock(t)
  BY <1>9, SMT DEF Unlock
<1> QED
  BY <1>1, <1>2, <1>3, <1>4, <1>5, <1>6, <1>7, <1>8, <1>9 DEF Step, Acknowledge

(* No step at all leaves everything as it is. *)
LEMMA SweepStutter ==
    ASSUME SweepInv, UNCHANGED vars
    PROVE  SweepInv' /\ limit' >= limit
  BY SMT DEF SweepInv, OneSweeper, InSweep, vars

(* Last never goes back, also when the keys issued overrun the window of   *)
(* Acknowledge.                                                            *)
THEOREM LastIsMonotoneInAnyWindow == Spec => LastNeverRetreats
<1>1. SweepInv /\ [Next]_vars => SweepInv' /\ limit' >= limit
  BY SweepStep, SweepStutter DEF Next, Finished
<1>2. SweepInv /\ [Next]_vars => SweepInv'
  BY <1>1
<1>3. SweepInv /\ [Next]_vars => [limit' >= limit]_vars
  BY <1>1
<1> QED
  BY SweepInit, <1>2, <1>3, PTL DEF Spec, LastNeverRetreats

-----------------------------------------------------------------------------
(* Every step of Last is paid for by a key: the flags that are set and the *)
(* goroutines that have yet to set one are no more than the keys after it. *)
Marked  == {s \in 0..(WindowSize - 1) : window[s]}
Holders == {t \in Threads : HoldsKey(t)}
Owed    == Cardinality(Marked) + Cardinality(Holders)

CountInv ==
    /\ SweepInv
    /\ counter \in Int /\ value \in [Threads -> Int]
    /\ window \in [0..(WindowSize - 1) -> BOOLEAN]
    /\ IsFiniteSet(Holders)
    /\ limit + Owed < counter
    /\ \A t \in Threads : InSweep(t) => (index[t] - 1) + Owed < counter
    /\ \A t \in Threads : pc[t] = "clear" => window[Slot(index[t])]

(* What is owed is a number. *)
LEMMA OwedType ==
    ASSUME CountInv
    PROVE  /\ IsFiniteSet(Marked)
           /\ Cardinality(Marked) \in Nat /\ Cardinality(Holders) \in Nat /\ Owed \in Nat
<1>1. IsFiniteSet(Marked)
  <2>1. IsFiniteSet(0..(WindowSize - 1))
    BY FS_Interval, WindowAssumption, SMT
  <2> QED
    BY <2>1, FS_Subset DEF Marked
<1>2. Cardinality(Marked) \in Nat /\ Cardinality(Holders) \in Nat
  BY <1>1, FS_CardinalityType DEF CountInv
<1> QED
  BY <1>1, <1>2, SMT DEF Owed

(* Owing less keeps a balance. *)
LEMMA OwingLess ==
    ASSUME NEW n \in Int, NEW c \in Int, NEW o \in Int, NEW q \in Int, n + o < c, q <= o
    PROVE  n + q < c
  BY SMT

(* No key is issued, no flag is set and nobody inserts. *)
LEMMA CountInit == Init => CountInv
<1> SUFFICES ASSUME Init PROVE CountInv
  OBVIOUS
<1>1. SweepInv
  BY SweepInit
<1>2. Marked = {} /\ Holders = {}
  BY DEF Init, Marked, Holders, HoldsKey
<1>3. Owed = 0
  BY <1>2, FS_EmptySet, SMT DEF Owed
<1>4. IsFiniteSet(Holders)
  BY <1>2, FS_EmptySet
<1>5. window \in [0..(WindowSize - 1) -> BOOLEAN]
  BY DEF Init
<1> QED
  BY <1>1, <1>3, <1>4, <1>5, StartAssumption, SMT DEF Init, CountInv, InSweep

(* Each step keeps the balance: Next owes the key it issues, Acknowledge   *)
(* exchanges a goroutine for a flag at most, and the sweep goes on by one  *)
(* for each flag it clears.                                                *)
LEMMA CountStep ==
    ASSUME NEW t \in Threads, CountInv, Step(t)
    PROVE  CountInv'
<1>0. SweepInv'
  BY SweepStep DEF CountInv
<1>1. /\ limit \in Int /\ counter \in Int /\ index \in [Threads -> Int] /\ value \in [Threads -> Int]
      /\ pc \in [Threads -> Sweeping \union Outside]
      /\ window \in [0..(WindowSize - 1) -> BOOLEAN] /\ IsFiniteSet(Holders)
      /\ limit + Owed < counter
      /\ \A u \in Threads : InSweep(u) => (index[u] - 1) + Owed < counter
      /\ \A u \in Threads : pc[u] = "clear" => window[Slot(index[u])]
      /\ \A u, v \in Threads : InSweep(u) /\ InSweep(v) => u = v
  BY DEF CountInv, SweepInv, OneSweeper, InSweep, Sweeping
<1>2. /\ IsFiniteSet(Marked) /\ Cardinality(Marked) \in Nat
      /\ Cardinality(Holders) \in Nat /\ Owed \in Nat
  BY OwedType
<1>3. CASE TakeKey(t)
  <2>1. Marked' = Marked /\ Holders' = Holders \union {t} /\ t \notin Holders
    BY <1>1, <1>3 DEF TakeKey, Goto, Marked, Holders, HoldsKey
  <2>2. IsFiniteSet(Holders') /\ Cardinality(Holders') = Cardinality(Holders) + 1
    BY <1>1, <2>1, FS_AddElement
  <2>3. Owed' = Owed + 1
    BY <1>2, <2>1, <2>2, SMT DEF Owed
  <2>4. \A u \in Threads : (InSweep(u)' => InSweep(u)) /\ (pc'[u] = "clear" => pc[u] = "clear")
    BY <1>1, <1>3 DEF TakeKey, Goto, InSweep
  <2>5. counter' = counter + 1 /\ UNCHANGED <<limit, index, window>> /\ value' \in [Threads -> Int]
    BY <1>1, <1>3 DEF TakeKey
  <2> QED
    BY <1>0, <1>1, <1>2, <2>2, <2>3, <2>4, <2>5, SMT DEF CountInv
<1>4. CASE CheckSlot(t)
  <2>1. Marked' = Marked /\ (Holders' = Holders \/ Holders' = Holders \ {t}) /\ t \in Holders
    BY <1>1, <1>4 DEF CheckSlot, Goto, Marked, Holders, HoldsKey
  <2>2. IsFiniteSet(Holders') /\ Cardinality(Holders') \in Int /\ Cardinality(Holders') <= Cardinality(Holders)
    <3>1. IsFiniteSet(Holders \ {t}) /\ Cardinality(Holders \ {t}) = Cardinality(Holders) - 1
      BY <1>1, <2>1, FS_RemoveElement
    <3>2. CASE Holders' = Holders
      BY <1>1, <1>2, <3>2, SMT
    <3>3. CASE Holders' = Holders \ {t}
      BY <1>2, <3>1, <3>3, SMT
    <3> QED
      BY <2>1, <3>2, <3>3
  <2>3. Owed' \in Int /\ Owed' <= Owed
    BY <1>2, <2>1, <2>2, SMT DEF Owed
  <2>4. \A u \in Threads : (InSweep(u)' => InSweep(u)) /\ (pc'[u] = "clear" => pc[u] = "clear")
    BY <1>1, <1>4 DEF CheckSlot, Goto, InSweep
  <2>5. UNCHANGED <<counter, limit, index, window, value>>
    BY <1>4 DEF CheckSlot
  <2>6. limit' + Owed' < counter' /\ \A u \in Threads : InSweep(u)' => (index'[u] - 1) + Owed' < counter'
    <3>1. counter \in Int /\ limit \in Int /\ \A u \in Threads : index[u] - 1 \in Int
      BY <1>1, SMT
    <3>2. Owed \in Int /\ Owed' \in Int /\ Owed' <= Owed /\ counter' = counter
      BY <1>2, <2>5, <2>3, SMT
    <3>3. \A n \in Int : n + Owed < counter => n + Owed' < counter
      BY <3>1, <3>2, OwingLess
    <3> QED
      BY <1>1, <2>5, <2>4, <3>1, <3>2, <3>3
  <2> QED
    BY <1>0, <1>1, <2>2, <2>4, <2>5, <2>6 DEF CountInv
<1>5. CASE MarkSlot(t)
  <2>1. Slot(value[t]) \in 0..(WindowSize - 1)
    BY <1>1, SlotRange
  <2>2. window' = [window EXCEPT ![Slot(value[t])] = TRUE] /\ UNCHANGED <<counter, limit, index, value>>
    BY <1>5 DEF MarkSlot
  <2>3. window' \in [0..(WindowSize - 1) -> BOOLEAN] /\ Marked' = Marked \union {Slot(value[t])}
    BY <1>1, <2>1, <2>2 DEF Marked
  <2>4. Holders' = Holders \ {t} /\ t \in Holders
    BY <1>1, <1>5 DEF MarkSlot, Goto, Holders, HoldsKey
  <2>5. IsFiniteSet(Holders') /\ Cardinality(Holders') = Cardinality(Holders) - 1
    BY <1>1, <2>4, FS_RemoveElement
  <2>6. Cardinality(Marked') \in Nat /\ Cardinality(Marked') <= Cardinality(Marked) + 1
    <3>1. Cardinality(Marked \union {Slot(value[t])}) \in {Cardinality(Marked), Cardinality(Marked) + 1}
      BY <1>2, FS_AddElement
    <3> QED
      BY <1>2, <2>3, <3>1, SMT
  <2>7. Owed' \in Int /\ Owed' <= Owed
    BY <1>2, <2>5, <2>6, SMT DEF Owed
  <2>8. \A u \in Threads : (InSweep(u)' => InSweep(u)) /\ (pc'[u] = "clear" => pc[u] = "clear")
    BY <1>1, <1>5 DEF MarkSlot, Goto, InSweep
  <2>9. \A u \in Threads : window[Slot(index[u])] => window'[Slot(index[u])]
    BY <1>1, <2>1, <2>2, SlotRange
  <2>10. limit' + Owed' < counter' /\ \A u \in Threads : InSweep(u)' => (index'[u] - 1) + Owed' < counter'
    <3>1. counter \in Int /\ limit \in Int /\ \A u \in Threads : index[u] - 1 \in Int
      BY <1>1, SMT
    <3>2. Owed \in Int /\ Owed' \in Int /\ Owed' <= Owed /\ counter' = counter
      BY <1>2, <2>2, <2>7, SMT
    <3>3. \A n \in Int : n + Owed < counter => n + Owed' < counter
      BY <3>1, <3>2, OwingLess
    <3> QED
      BY <1>1, <2>2, <2>8, <3>1, <3>2, <3>3
  <2> QED
    BY <1>0, <1>1, <2>2, <2>3, <2>5, <2>8, <2>9, <2>10 DEF CountInv
<1>6. CASE TryLock(t) \/ Unlock(t)
  <2>1. /\ UNCHANGED <<counter, limit, index, window, value>>
        /\ \A u \in Threads : /\ HoldsKey(u)' <=> HoldsKey(u)
                              /\ InSweep(u)' => InSweep(u)
                              /\ pc'[u] = "clear" => pc[u] = "clear"
    BY <1>1, <1>6 DEF TryLock, Unlock, Goto, HoldsKey, InSweep
  <2>2. Marked' = Marked /\ Holders' = Holders
    BY <2>1 DEF Marked, Holders
  <2> QED
    BY <1>0, <1>1, <2>1, <2>2 DEF CountInv, Owed
<1>7. CASE LoadLimit(t)
  <2>1. /\ UNCHANGED <<counter, limit, window, value>> /\ index'[t] = limit + 1
        /\ \A u \in Threads : /\ HoldsKey(u)' <=> HoldsKey(u)
                              /\ u # t => index'[u] = index[u] /\ (InSweep(u)' => InSweep(u))
                              /\ pc'[u] = "clear" => pc[u] = "clear" /\ u # t
    BY <1>1, <1>7 DEF LoadLimit, Goto, HoldsKey, InSweep
  <2>2. Marked' = Marked /\ Holders' = Holders
    BY <2>1 DEF Marked, Holders
  <2>3. Owed' = Owed
    BY <2>2 DEF Owed
  <2> QED
    BY <1>0, <1>1, <1>2, <2>1, <2>2, <2>3, SMT DEF CountInv
<1>8. CASE TestSlot(t)
  <2>1. /\ UNCHANGED <<counter, limit, index, window, value>>
        /\ \A u \in Threads : /\ HoldsKey(u)' <=> HoldsKey(u)
                              /\ InSweep(u)' => InSweep(u)
                              /\ pc'[u] = "clear" => pc[u] = "clear" \/ window[Slot(index[u])]
    BY <1>1, <1>8 DEF TestSlot, Goto, HoldsKey, InSweep
  <2>2. Marked' = Marked /\ Holders' = Holders
    BY <2>1 DEF Marked, Holders
  <2> QED
    BY <1>0, <1>1, <2>1, <2>2 DEF CountInv, Owed
<1>9. CASE ClearSlot(t)
  <2>1. Slot(index[t]) \in Marked
    BY <1>1, <1>9, SlotRange DEF ClearSlot, Goto, Marked
  <2>2. /\ window' = [window EXCEPT ![Slot(index[t])] = FALSE] /\ UNCHANGED <<counter, limit, value>>
        /\ index'[t] = index[t] + 1 /\ InSweep(t)
        /\ \A u \in Threads : /\ HoldsKey(u)' <=> HoldsKey(u)
                              /\ InSweep(u)' => InSweep(u)
                              /\ pc'[u] = "clear" => InSweep(u) /\ u # t
    BY <1>1, <1>9 DEF ClearSlot, Goto, HoldsKey, InSweep
  <2>3. window' \in [0..(WindowSize - 1) -> BOOLEAN] /\ Marked' = Marked \ {Slot(index[t])}
    BY <1>1, <2>1, <2>2 DEF Marked
  <2>4. Holders' = Holders
    BY <2>2 DEF Holders
  <2>5. Cardinality(Marked') = Cardinality(Marked) - 1
    BY <1>2, <2>1, <2>3, FS_RemoveElement
  <2>6. Owed' = Owed - 1
    BY <1>2, <2>4, <2>5, SMT DEF Owed
  <2>7. \A u \in Threads : InSweep(u) => u = t
    BY <1>1, <2>2
  <2>8. (index'[t] - 1) + Owed' < counter'
    BY <1>1, <1>2, <2>2, <2>6, SMT
  <2>9. limit' + Owed' < counter'
    BY <1>1, <1>2, <2>2, <2>6, SMT
  <2> QED
    BY <1>0, <1>1, <2>2, <2>3, <2>4, <2>7, <2>8, <2>9 DEF CountInv
<1>10. CASE StoreLimit(t)
  <2>1. /\ UNCHANGED <<counter, index, window, value>> /\ limit' = index[t] - 1 /\ InSweep(t)
        /\ \A u \in Threads : /\ HoldsKey(u)' <=> HoldsKey(u)
                              /\ InSweep(u)' => InSweep(u)
                              /\ pc'[u] = "clear" => pc[u] = "clear"
    BY <1>1, <1>10 DEF StoreLimit, Goto, HoldsKey, InSweep
  <2>2. Marked' = Marked /\ Holders' = Holders
    BY <2>1 DEF Marked, Holders
  <2> QED
    BY <1>0, <1>1, <2>1, <2>2 DEF CountInv, Owed
<1> QED
  BY <1>3, <1>4, <1>5, <1>6, <1>7, <1>8, <1>9, <1>10 DEF Step, Acknowledge

(* Without a step nothing is owed anew. *)
LEMMA CountStutter == ASSUME CountInv, UNCHANGED vars PROVE CountInv'
<1>1. SweepInv'
  BY SweepStutter DEF CountInv
<1>2. UNCHANGED <<counter, limit, index, window, value, pc>>
  BY DEF vars
<1>3. Marked' = Marked /\ Holders' = Holders
  BY <1>2 DEF Marked, Holders, HoldsKey
<1> QED
  BY <1>1, <1>2, <1>3 DEF CountInv, Owed, InSweep

(* What is owed is not negative, so Last stays below the next key. *)
LEMMA CountLast == ASSUME CountInv PROVE LastIsIssued
  BY OwedType, SMT DEF CountInv, SweepInv, LastIsIssued

(* Last never returns a key that Next has not handed out, also when the    *)
(* keys overrun the window of Acknowledge.                                 *)
THEOREM LastIsIssuedInAnyWindow == Spec => []LastIsIssued
<1>1. CountInv /\ [Next]_vars => CountInv'
  BY CountStep, CountStutter DEF Next, Finished
<1>2. CountInv => LastIsIssued
  BY CountLast
<1> QED
  BY CountInit, <1>1, <1>2, PTL DEF Spec

-----------------------------------------------------------------------------
(* Also with draws between the inserts, what SkewedLatest takes for the    *)
(* newest key has been issued.                                             *)
THEOREM LastIsIssuedToDraws == GenSpec => []LastIsIssued
<1>1. GenInit => CountInv
  BY CountInit DEF GenInit
<1>2. CountInv /\ [GenNext]_genVars => CountInv'
  <2> SUFFICES ASSUME CountInv, [GenNext]_genVars PROVE CountInv'
    OBVIOUS
  <2>1. ASSUME NEW t \in Threads, DrawStep(t) PROVE CountInv'
    BY <2>1, CountStutter
    DEF DrawStep, ReadLast, CheckCount, LockZeta, Recheck, StoreZetan, UnlockZeta,
        DrawLatest, DrawExponential, Return, DrawSequential, Draws
  <2> QED
    BY <2>1, CountStep, CountStutter DEF GenNext, InsertStep, genVars
<1>3. CountInv => LastIsIssued
  BY CountLast
<1> QED
  BY <1>1, <1>2, <1>3, PTL DEF GenSpec

-----------------------------------------------------------------------------
(* The draws. *)

DrawStates == {"none", "check", "lock", "recheck", "sum", "unlock", "draw", "drawn"}
Holds(t)   == dpc[t] \in {"recheck", "sum", "unlock"}
Once(n)    == [i \in Terms |-> IF i < n THEN 1 ELSE 0]

(* The inductive invariant: the lock excludes, the sum is exact but for    *)
(* the terms a thread is about to add, and nobody counts back from more    *)
(* than Last.                                                              *)
DrawInv ==
    /\ SweepInv
    /\ countForZeta \in Int
    /\ max \in [Threads -> Int] /\ from \in [Threads -> Int] /\ drawn \in [Threads -> Int]
    /\ dpc \in [Threads -> DrawStates]
    /\ zlock \in {0, 1}
    /\ \A t \in Threads : Holds(t) => zlock = 1
    /\ \A t, u \in Threads : Holds(t) /\ Holds(u) => t = u
    /\ \A t \in Threads : dpc[t] = "sum" =>
         from[t] <= max[t] /\ countForZeta = max[t] /\ summed = Once(from[t])
    /\ (\A t \in Threads : dpc[t] # "sum") => summed = Once(countForZeta)
    /\ \A t \in Threads : max[t] <= limit
    /\ \A t \in Threads : dpc[t] = "drawn" => drawn[t] \in 0..limit

(* NewSkewedLatest sums the terms of the records there are. *)
LEMMA DrawInit == GenInit => DrawInv
<1> SUFFICES ASSUME GenInit PROVE DrawInv
  OBVIOUS
<1>1. SweepInv
  BY SweepInit DEF GenInit
<1>2. summed = Once(countForZeta) /\ countForZeta \in Int
  BY StartAssumption, SMT DEF GenInit, Once
<1>3. \A t \in Threads : dpc[t] = "none" /\ max[t] = 0
  BY DEF GenInit
<1> QED
  BY <1>1, <1>2, <1>3, SMT DEF GenInit, DrawInv, DrawStates, Holds, SweepInv

(* An insert moves Last forward and leaves the draws alone. *)
LEMMA InsertDrawInv ==
    ASSUME NEW t \in Threads, DrawInv, InsertStep(t)
    PROVE  DrawInv'
<1>1. SweepInv' /\ limit' >= limit
  BY SweepStep DEF InsertStep, DrawInv
<1>2. UNCHANGED <<dpc, max, from, drawn, zlock, countForZeta, summed>>
  BY DEF InsertStep, drawVars, zetaVars
<1>3. limit \in Int /\ limit' \in Int
  BY <1>1 DEF DrawInv, SweepInv
<1>4. \A u \in Threads : max[u] \in Int /\ drawn[u] \in Int
  BY DEF DrawInv
<1>5. \A u \in Threads : max'[u] <= limit' /\ (dpc'[u] = "drawn" => drawn'[u] \in 0..limit')
  BY <1>1, <1>2, <1>3, <1>4, SMT DEF DrawInv
<1> QED
  BY <1>1, <1>2, <1>5, SMT DEF DrawInv, Holds, Once

(* A step of a draw leaves the counter alone. *)
LEMMA DrawSweepInv ==
    ASSUME NEW t \in Threads, SweepInv, DrawStep(t)
    PROVE  SweepInv' /\ limit' = limit
<1>1. UNCHANGED vars
  BY DEF DrawStep, ReadLast, CheckCount, LockZeta, Recheck, StoreZetan, UnlockZeta,
         DrawLatest, DrawExponential, Return, DrawSequential, Draws
<1> QED
  BY <1>1, SweepStutter DEF vars

(* Terms are added from where the sum ends. *)
LEMMA AddTerms ==
    ASSUME NEW m \in Int, NEW n \in Int, m <= n, summed = Once(m)
    PROVE  [i \in Terms |-> summed[i] + IF m <= i /\ i < n THEN 1 ELSE 0] = Once(n)
<1>1. \A i \in Terms : i \in Int
  BY BoundAssumption, SMT DEF Terms
<1> QED
  BY <1>1, SMT DEF Once

(* Each step of a draw keeps the sum exact and the keys below Last. *)
LEMMA DrawStepInv ==
    ASSUME NEW t \in Threads, DrawInv, DrawStep(t)
    PROVE  DrawInv'
<1>0. SweepInv' /\ limit' = limit /\ limit \in Int /\ limit >= 0
  BY DrawSweepInv DEF DrawInv, SweepInv
<1> USE DEF DrawInv, Holds, DrawStates, Draws, zetaVars
<1>1. CASE ReadLast(t)
  BY <1>0, <1>1, SMT DEF ReadLast
<1>2. CASE CheckCount(t)
  BY <1>0, <1>2 DEF CheckCount
<1>3. CASE LockZeta(t)
  BY <1>0, <1>3, SMT DEF LockZeta
<1>4. CASE Recheck(t)
  <2>1. summed = Once(countForZeta)
    BY <1>4 DEF Recheck
  <2>2. CASE max[t] > countForZeta
    <3>1. /\ dpc' = [dpc EXCEPT ![t] = "sum"] /\ from' = [from EXCEPT ![t] = countForZeta]
          /\ countForZeta' = max[t] /\ UNCHANGED <<max, drawn, zlock, summed>>
      BY <1>4, <2>2, SMT DEF Recheck
    <3>2. Once(from[t])' = Once(countForZeta)
      BY <3>1 DEF Once
    <3> QED
      BY <1>0, <1>4, <2>1, <2>2, <3>1, <3>2, SMT DEF Recheck
  <2>3. CASE max[t] <= countForZeta
    BY <1>0, <1>4, <2>3, SMT DEF Recheck
  <2> QED
    BY <2>2, <2>3, SMT
<1>5. CASE StoreZetan(t)
  <2>1. summed = Once(from[t]) /\ from[t] <= max[t] /\ countForZeta = max[t]
    BY <1>5 DEF StoreZetan
  <2>2. summed' = Once(max[t])
    BY <1>5, <2>1, AddTerms, SMT DEF StoreZetan
  <2> QED
    BY <1>0, <1>5, <2>1, <2>2 DEF StoreZetan
<1>6. CASE UnlockZeta(t)
  BY <1>0, <1>6 DEF UnlockZeta
<1>7. CASE DrawLatest(t)
  BY <1>0, <1>7, SMT DEF DrawLatest
<1>8. CASE DrawExponential(t)
  BY <1>0, <1>8, SMT DEF DrawExponential
<1>9. CASE Return(t)
  BY <1>0, <1>9, SMT DEF Return
<1>10. CASE DrawSequential(t)
  BY <1>0, <1>10 DEF DrawSequential
<1> HIDE DEF DrawInv, Holds, DrawStates, Draws, zetaVars
<1> QED
  BY <1>1, <1>2, <1>3, <1>4, <1>5, <1>6, <1>7, <1>8, <1>9, <1>10 DEF DrawStep

(* Inserts and draws together. *)
LEMMA NextDrawInv == DrawInv /\ [GenNext]_genVars => DrawInv'
<1> SUFFICES ASSUME DrawInv, [GenNext]_genVars PROVE DrawInv'
  OBVIOUS
<1>1. CASE UNCHANGED genVars
  <2>1. SweepInv' /\ UNCHANGED <<limit, dpc, max, from, drawn, zlock, countForZeta, summed>>
    BY <1>1, SweepStutter DEF genVars, vars, drawVars, zetaVars, DrawInv
  <2> QED
    BY <2>1 DEF DrawInv, Holds, Once
<1>2. CASE GenNext
  BY <1>2, InsertDrawInv, DrawStepInv DEF GenNext
<1> QED
  BY <1>1, <1>2

(* Zipfian.next adds every term to zetan once, however many threads find   *)
(* the count out of date at the same time.                                 *)
THEOREM ZetaSummedOnce == GenSpec => []ZetaIsExact
<1>1. DrawInv => ZetaIsExact
  BY DEF DrawInv, Holds, Once, ZetaIsExact
<1> QED
  BY <1>1, DrawInit, NextDrawInv, PTL DEF GenSpec

(* SkewedLatest.Next, and nextKeyNum with Exponential, return keys between *)
(* the first and Last.                                                     *)
THEOREM DrawnKeysArePublished == GenSpec => []DrawnIsPublished
<1>1. DrawInv => DrawnIsPublished
  BY DEF DrawInv, DrawnIsPublished
<1> QED
  BY <1>1, DrawInit, NextDrawInv, PTL DEF GenSpec

-----------------------------------------------------------------------------
(* Types, in any window. *)

(* The keys issued, and with them everything that is drawn or summed, stay *)
(* within the bound of the model.                                          *)
BoundInv ==
    /\ GenTypeOK /\ CountInv /\ DrawInv
    /\ counter <= MaxKey

(* A step of one thread keeps the types of the counter. *)
LEMMA CounterTypes ==
    ASSUME NEW t \in Threads, TypeOK, Step(t)
    PROVE  TypeOK'
<1>1. Slot(value[t]) \in 0..(WindowSize - 1) /\ Slot(index[t]) \in 0..(WindowSize - 1)
  BY SlotRange DEF TypeOK
<1>2. window' \in [0..(WindowSize - 1) -> BOOLEAN]
  <2>1. \/ window' = window
        \/ window' = [window EXCEPT ![Slot(value[t])] = TRUE]
        \/ window' = [window EXCEPT ![Slot(index[t])] = FALSE]
    BY DEF Step, Acknowledge, TakeKey, CheckSlot, MarkSlot, TryLock, LoadLimit, TestSlot,
           ClearSlot, StoreLimit, Unlock
  <2> QED
    BY <1>1, <2>1 DEF TypeOK
<1> USE DEF TypeOK, Goto, Sweeping, Outside
<1>3. CASE TakeKey(t)
  BY <1>2, <1>3, SMT DEF TakeKey
<1>4. CASE CheckSlot(t)
  BY <1>2, <1>4 DEF CheckSlot
<1>5. CASE MarkSlot(t)
  BY <1>2, <1>5 DEF MarkSlot
<1>6. CASE TryLock(t)
  BY <1>2, <1>6 DEF TryLock
<1>7. CASE LoadLimit(t)
  BY <1>2, <1>7, SMT DEF LoadLimit
<1>8. CASE TestSlot(t)
  BY <1>2, <1>8 DEF TestSlot
<1>9. CASE ClearSlot(t)
  BY <1>2, <1>9, SMT DEF ClearSlot
<1>10. CASE StoreLimit(t)
  BY <1>2, <1>10, SMT DEF StoreLimit
<1>11. CASE Unlock(t)
  BY <1>2, <1>11 DEF Unlock
<1> QED
  BY <1>3, <1>4, <1>5, <1>6, <1>7, <1>8, <1>9, <1>10, <1>11, SMT DEF Step, Acknowledge

(* NewSkewedLatest starts below the bound. *)
LEMMA BoundInit == GenInit => BoundInv
<1> SUFFICES ASSUME GenInit PROVE BoundInv
  OBVIOUS
<1>1. CountInv /\ DrawInv
  BY CountInit, DrawInit DEF GenInit
<1>2. TypeOK
  <2>1. window \in [0..(WindowSize - 1) -> BOOLEAN]
    BY DEF GenInit, Init
  <2> QED
    BY <2>1, StartAssumption, SMT DEF GenInit, Init, TypeOK, Sweeping, Outside
<1>3. counter <= MaxKey /\ countForZeta \in 0..MaxKey
  BY StartAssumption, ItemsAssumption, BoundAssumption, SMT DEF GenInit, Init
<1>4. \A t \in Threads : max[t] = 0 /\ from[t] = 0
  BY DEF GenInit
<1>5. 0 \in 0..MaxKey
  BY BoundAssumption, SMT
<1> QED
  BY <1>1, <1>2, <1>3, <1>4, <1>5 DEF BoundInv, GenTypeOK, GenInit

(* Inserts and draws stay within it: Last is below the keys issued. *)
LEMMA BoundNext == BoundInv /\ [GenNext]_genVars => BoundInv'
<1> SUFFICES ASSUME BoundInv, [GenNext]_genVars PROVE BoundInv'
  OBVIOUS
<1>0. DrawInv' /\ limit \in 0..MaxKey /\ countForZeta \in 0..MaxKey /\ counter <= MaxKey
      /\ counter \in Int /\ TypeOK /\ CountInv
      /\ \A t \in Threads : max[t] \in 0..MaxKey /\ from[t] \in 0..MaxKey
  <2>1. DrawInv'
    BY NextDrawInv DEF BoundInv
  <2>2. limit < counter
    BY CountLast DEF BoundInv, LastIsIssued
  <2>3. limit >= 0
    BY DEF BoundInv, CountInv, SweepInv
  <2> QED
    BY <2>1, <2>2, <2>3, BoundAssumption, SMT DEF BoundInv, GenTypeOK, TypeOK
<1>1. dpc' \in [Threads -> DrawStates] /\ zlock' \in {0, 1}
  BY <1>0 DEF DrawInv
<1>2. CASE UNCHANGED genVars
  BY <1>0, <1>1, <1>2, CountStutter
  DEF genVars, vars, drawVars, zetaVars, BoundInv, GenTypeOK, TypeOK
<1>3. ASSUME NEW t \in Threads, InsertStep(t) PROVE BoundInv'
  <2>1. UNCHANGED <<max, from, countForZeta>> /\ Step(t)
    BY <1>3 DEF InsertStep, drawVars, zetaVars
  <2>2. counter' <= MaxKey
    BY <1>0, <2>1, BoundAssumption, SMT
    DEF Step, Acknowledge, TakeKey, CheckSlot, MarkSlot, TryLock, LoadLimit, TestSlot,
        ClearSlot, StoreLimit, Unlock
  <2> QED
    BY <1>0, <1>1, <2>1, <2>2, CounterTypes, CountStep DEF BoundInv, GenTypeOK, DrawStates
<1>4. ASSUME NEW t \in Threads, DrawStep(t) PROVE BoundInv'
  <2>1. UNCHANGED vars
    BY <1>4
    DEF DrawStep, ReadLast, CheckCount, LockZeta, Recheck, StoreZetan, UnlockZeta,
        DrawLatest, DrawExponential, Return, DrawSequential, Draws
  <2>2. TypeOK' /\ counter' <= MaxKey /\ CountInv'
    BY <1>0, <2>1, CountStutter DEF vars, TypeOK
  <2>3. max \in [Threads -> Int] /\ from \in [Threads -> Int]
    BY DEF BoundInv, DrawInv
  <2>4. /\ countForZeta' \in 0..MaxKey
        /\ \A u \in Threads : max'[u] \in 0..MaxKey /\ from'[u] \in 0..MaxKey
    <3>1. /\ countForZeta' \in {countForZeta, max[t]}
          /\ \/ max' = max
             \/ max' = [max EXCEPT ![t] = limit]
             \/ max' = [max EXCEPT ![t] = 0]
          /\ \/ from' = from
             \/ from' = [from EXCEPT ![t] = countForZeta]
             \/ from' = [from EXCEPT ![t] = 0]
      BY <1>4
      DEF DrawStep, ReadLast, CheckCount, LockZeta, Recheck, StoreZetan, UnlockZeta,
          DrawLatest, DrawExponential, Return, DrawSequential, zetaVars
    <3> QED
      BY <1>0, <2>3, <3>1, BoundAssumption, SMT
  <2> QED
    BY <1>0, <1>1, <2>2, <2>4 DEF BoundInv, GenTypeOK, DrawStates
<1> QED
  BY <1>2, <1>3, <1>4 DEF GenNext

(* The counter, Zipfian's lock word and count, and the numbers of items of *)
(* the draws keep their types, also when the keys overrun the window.      *)
THEOREM GeneratorTypes == GenSpec => []GenTypeOK
<1>1. BoundInv => GenTypeOK
  BY DEF BoundInv
<1> QED
  BY <1>1, BoundInit, BoundNext, PTL DEF GenSpec

-----------------------------------------------------------------------------
(* Sequential. *)

Size == g.upper - g.lower + 1

(* After so many draws each key has been visited once a round, and once    *)
(* more where this round has come past it.                                 *)
RoundInv ==
    /\ g \in Choosers /\ taken \in Nat /\ visits \in [Terms -> Nat]
    /\ g.kind = "sequential" =>
         \A k \in g.lower..g.upper :
           visits[k] = (taken \div Size) + IF g.lower < k /\ k <= g.lower + (taken % Size)
                                           THEN 1 ELSE 0

(* The range of a sequential generator. *)
LEMMA SizeType ==
    ASSUME g \in Choosers, g.kind = "sequential"
    PROVE  /\ Size \in Nat \ {0} /\ g.lower \in Nat /\ g.upper = g.lower + Size - 1
           /\ g.lower..g.upper \subseteq Terms
<1>1. g.lower \in Nat /\ g.upper \in g.lower..(MaxKey - 1)
  BY ChooserAssumption
<1> QED
  BY <1>1, BoundAssumption, SMT DEF Size, Terms

(* A draw takes the round one key further, or around. *)
LEMMA RoundStep ==
    ASSUME RoundInv, g.kind = "sequential", g' = g, taken' = taken + 1, Visit(taken + 1)
    PROVE  RoundInv'
<1>1. /\ Size \in Nat \ {0} /\ g.lower \in Nat /\ g.upper = g.lower + Size - 1
      /\ g.lower..g.upper \subseteq Terms /\ taken \in Nat /\ visits \in [Terms -> Nat]
  BY SizeType DEF RoundInv
<1>2. PICK s \in Nat \ {0}, q \in Nat, r \in 0..(Size - 1) :
        s = Size /\ q = taken \div Size /\ r = taken % Size
  BY <1>1, QuotientAndRemainder
<1>3. PICK m \in 0..(s - 1) : m = (taken + 1) % Size
  <2>1. taken + 1 \in Nat
    BY <1>1, SMT
  <2> QED
    BY <1>1, <1>2, <2>1, QuotientAndRemainder
<1>4. PICK key \in g.lower..g.upper : key = g.lower + m
  BY <1>1, <1>2, SMT
<1>5. visits' = [visits EXCEPT ![key] = @ + 1] /\ key \in Terms
  BY <1>1, <1>3, <1>4 DEF Visit, SequentialNext, Size
<1>6. visits' \in [Terms -> Nat]
  BY <1>1, <1>5, SMT
<1>7. Size' = Size
  BY DEF Size
<1>8. \A k \in g.lower..g.upper :
        visits[k] = q + IF g.lower < k /\ k <= g.lower + r THEN 1 ELSE 0
  BY <1>2 DEF RoundInv
<1>9. \A k \in g.lower..g.upper :
        visits'[k] = IF k = key THEN visits[k] + 1 ELSE visits[k]
  BY <1>1, <1>5
<1>10. IF r + 1 < s THEN (taken + 1) \div Size = q /\ m = r + 1
                    ELSE (taken + 1) \div Size = q + 1 /\ m = 0
  BY <1>1, <1>2, <1>3, CountOn
<1>11. ASSUME NEW k \in g.lower..g.upper
       PROVE  visits'[k] = ((taken + 1) \div Size) + IF g.lower < k /\ k <= g.lower + m
                                                     THEN 1 ELSE 0
  <2>1. g.lower <= k /\ k <= g.lower + s - 1 /\ k \in Int /\ g.lower \in Int
    BY <1>1, <1>2, SMT
  <2>2. CASE r + 1 < s
    BY <1>2, <1>4, <1>8, <1>9, <1>10, <2>1, <2>2, SMT
  <2>3. CASE ~(r + 1 < s)
    BY <1>2, <1>4, <1>8, <1>9, <1>10, <2>1, <2>3, SMT
  <2> QED
    BY <2>2, <2>3
<1> QED
  BY <1>1, <1>3, <1>6, <1>7, <1>11, SMT DEF RoundInv

(* Threads that share a Sequential generator visit the keys of its range   *)
(* in turn: its Next is one atomic addition.                               *)
THEOREM SequentialTakesTurns == GenSpec => []SequentialVisitsAll
<1>1. GenInit => RoundInv
  <2> SUFFICES ASSUME GenInit PROVE RoundInv
    OBVIOUS
  <2>1. g \in Choosers /\ taken = 0 /\ visits = [k \in Terms |-> 0]
    BY DEF GenInit
  <2>2. ASSUME g.kind = "sequential", NEW k \in g.lower..g.upper
        PROVE  visits[k] = (taken \div Size) + IF g.lower < k /\ k <= g.lower + (taken % Size)
                                               THEN 1 ELSE 0
    <3>1. Size \in Nat \ {0} /\ g.lower \in Nat /\ k \in Terms
      BY <2>1, <2>2, SizeType
    <3>2. 0 \div Size = 0 /\ 0 % Size = 0
      BY <3>1, SMT
    <3> QED
      BY <2>1, <3>1, <3>2, SMT
  <2> QED
    BY <2>1, <2>2 DEF RoundInv
<1>2. RoundInv /\ [GenNext]_genVars => RoundInv'
  <2> SUFFICES ASSUME RoundInv, [GenNext]_genVars PROVE RoundInv'
    OBVIOUS
  <2>1. CASE UNCHANGED <<g, taken, visits>>
    BY <2>1 DEF RoundInv, Size
  <2>2. ASSUME NEW t \in Threads, DrawSequential(t) PROVE RoundInv'
    BY <2>2, RoundStep DEF DrawSequential, Draws
  <2> QED
    BY <2>1, <2>2
    DEF GenNext, InsertStep, genVars, drawVars, sequentialVars, DrawStep, ReadLast,
        CheckCount, LockZeta, Recheck, StoreZetan, UnlockZeta, DrawLatest,
        DrawExponential, Return, Draws
<1>3. RoundInv => SequentialVisitsAll
  <2> SUFFICES ASSUME RoundInv, g.kind = "sequential",
                      NEW k \in g.lower..g.upper, NEW l \in g.lower..g.upper
               PROVE  visits[k] <= visits[l] + 1
    BY DEF SequentialVisitsAll
  <2>1. Size \in Nat \ {0} /\ taken \in Nat
    BY SizeType DEF RoundInv
  <2>2. taken \div Size \in Nat
    BY <2>1, QuotientAndRemainder
  <2>3. \A j \in g.lower..g.upper : visits[j] \in {taken \div Size, (taken \div Size) + 1}
    BY <2>2, SMT DEF RoundInv
  <2> QED
    BY <2>2, <2>3, SMT
<1> QED
  BY <1>1, <1>2, <1>3, PTL DEF GenSpec

-----------------------------------------------------------------------------
(* The ranges of the generators without shared state. *)

(* The smaller and the larger of two bounds. *)
LEMMA MinMaxOfTwo ==
    ASSUME NEW a \in Int, NEW b \in Int
    PROVE  /\ Min({a, b}) = IF a <= b THEN a ELSE b
           /\ Max({a, b}) = IF a <= b THEN b ELSE a
  BY SMT DEF Min, Max

(* Hotspot splits its interval into hot and cold keys. *)
LEMMA HotspotCovers ==
    ASSUME NEW lb \in Int, NEW ub \in Int, NEW percent \in Int
    PROVE  LET h == NewHotspot(lb, ub, percent)
           IN  /\ HotKeys(h) \cap ColdKeys(h) = {}
               /\ HotKeys(h) \cup ColdKeys(h) = Min({lb, ub})..Max({lb, ub})
<1> DEFINE fraction == IF percent \in 0..100 THEN percent ELSE 0
           lower    == Min({lb, ub})
           interval == Max({lb, ub}) - lower + 1
           hot      == (interval * fraction) \div 100
           h        == [lower |-> lower, hot |-> hot, cold |-> interval - hot]
<1>1. /\ lower \in Int /\ interval \in Nat /\ Max({lb, ub}) = lower + interval - 1
      /\ fraction \in 0..100
  BY MinMaxOfTwo, SMT
<1>2. NewHotspot(lb, ub, percent) = h
  BY DEF NewHotspot
<1> HIDE DEF lower, interval, fraction
<1>3. \A i \in Nat, f \in 0..100 : i * f \in Nat /\ i * f <= i * 100
  BY SMT
<1>4. \A n \in Nat : n \div 100 \in Nat /\ 100 * (n \div 100) <= n
  BY SMT
<1>5. hot \in Nat /\ 100 * hot <= interval * 100
  BY <1>1, <1>3, <1>4, SMT
<1>6. hot \in 0..interval
  BY <1>1, <1>5, SMT
<1> HIDE DEF hot
<1>7. HotKeys(h) = lower..(lower + hot - 1)
  BY <1>1, <1>6, SMT DEF HotKeys
<1>8. ColdKeys(h) = (lower + hot)..(lower + interval - 1)
  <2>1. ColdKeys(h) = {lower + hot + n : n \in 0..(interval - hot - 1)}
    BY DEF ColdKeys
  <2>2. \A k \in (lower + hot)..(lower + interval - 1) :
          k - (lower + hot) \in 0..(interval - hot - 1) /\ k = lower + hot + (k - (lower + hot))
    BY <1>1, <1>6, SMT
  <2>3. \A n \in 0..(interval - hot - 1) : lower + hot + n \in (lower + hot)..(lower + interval - 1)
    BY <1>1, <1>6, SMT
  <2> QED
    BY <2>1, <2>2, <2>3
<1>9. HotKeys(h) \cap ColdKeys(h) = {} /\ HotKeys(h) \cup ColdKeys(h) = lower..(lower + interval - 1)
  BY <1>1, <1>6, <1>7, <1>8, SMT
<1> QED
  BY <1>1, <1>2, <1>9 DEF lower

(* Uniform returns every key of its range. *)
LEMMA UniformCovers ==
    ASSUME NEW lb \in Int, NEW ub \in Int
    PROVE  UniformNext(lb, ub) = lb..ub
<1>1. \A k \in lb..ub : k - lb \in 0..(ub - lb) /\ k = (k - lb) + lb
  BY SMT
<1> QED
  BY <1>1, SMT DEF UniformNext

(* So does ScrambledZipfian, by the remainder of a hash. *)
LEMMA ScrambledCovers ==
    ASSUME NEW lb \in Nat, NEW ub \in lb..(MaxKey - 1)
    PROVE  ScrambledNext(lb, ub) = lb..ub
<1>1. PICK s \in Nat \ {0} : s = ub - lb + 1
  BY BoundAssumption, SMT
<1>2. \A h \in Nat : h % s \in 0..(s - 1)
  BY QuotientAndRemainder
<1>3. \A h \in 0..(s - 1) : h % s = h
  BY SMT
<1>4. \A k \in lb..ub : k - lb \in 0..(s - 1) /\ k - lb \in 0..(2 * MaxKey) /\ k = lb + (k - lb)
  BY <1>1, BoundAssumption, SMT
<1>5. \A h \in 0..(2 * MaxKey) : lb + (h % s) \in lb..ub
  BY <1>1, <1>2, BoundAssumption, SMT
<1>6. \A k \in lb..ub : \E h \in 0..(2 * MaxKey) : k = lb + (h % s)
  BY <1>3, <1>4
<1> QED
  BY <1>1, <1>5, <1>6 DEF ScrambledNext

(* What the weights before the i-th of Discrete add up to. *)
Before(w, i) == SumFunction(SubSeq(w, 1, i - 1))

(* Folding a sequence with + is a sum over its positions. *)
LEMMA WeightsAreSummed == ASSUME NEW s PROVE SumFunction(s) = SumOver(s, DOMAIN s)
  BY DEF SumFunction, SumFunctionOnSet, FoldFunctionOnSet, SumOver, MapThenSumSet

(* The intervals of the weights follow one another, from 0 to their sum. *)
LEMMA WeightIntervals ==
    ASSUME NEW w \in Seq(Nat)
    PROVE  /\ Before(w, 1) = 0
           /\ \A i \in 1..(Len(w) + 1) : Before(w, i) \in Nat
           /\ \A i \in 1..Len(w) : Before(w, i + 1) = Before(w, i) + w[i]
           /\ Before(w, Len(w) + 1) = SumFunction(w)
<1>0. Len(w) \in Nat /\ DOMAIN w = 1..Len(w) /\ \A i \in 1..Len(w) : w[i] \in Nat
  BY SMT
<1>1. ASSUME NEW i \in 1..(Len(w) + 1)
      PROVE  Before(w, i) = SumOver(w, 1..(i - 1))
  <2>1. DOMAIN SubSeq(w, 1, i - 1) = 1..(i - 1) /\ \A j \in 1..(i - 1) : SubSeq(w, 1, i - 1)[j] = w[j]
    BY <1>0, SMT
  <2> QED
    BY <2>1, WeightsAreSummed, SumOfSame DEF Before
<1>2. Before(w, 1) = 0
  <2>1. 1..(1 - 1) = {} /\ 1 \in 1..(Len(w) + 1)
    BY <1>0, SMT
  <2> QED
    BY <1>1, <2>1, SumOfNone
<1>3. ASSUME NEW i \in 1..Len(w)
      PROVE  Before(w, i + 1) = Before(w, i) + w[i] /\ Before(w, i + 1) \in Int
  <2>1. /\ i \in 1..(Len(w) + 1) /\ i + 1 \in 1..(Len(w) + 1) /\ (i + 1) - 1 = i
        /\ (1..i) \ {i} = 1..(i - 1) /\ i \in 1..i /\ \A j \in 1..i : w[j] \in Int
    BY <1>0, SMT
  <2>2. IsFiniteSet(1..i)
    BY FS_Interval, SMT
  <2>3. SumOver(w, 1..i) \in Int /\ SumOver(w, 1..i) = w[i] + SumOver(w, 1..(i - 1))
    <3>1. SumOver(w, 1..i) \in Int /\ SumOver(w, 1..i) = w[i] + SumOver(w, (1..i) \ {i})
      BY <2>1, <2>2, SumOfRest
    <3> QED
      BY <2>1, <3>1
  <2>4. Before(w, i + 1) = SumOver(w, 1..i) /\ Before(w, i) = SumOver(w, 1..(i - 1))
    BY <1>1, <2>1
  <2>5. SumOver(w, 1..(i - 1)) \in Int
    <3>1. CASE i = 1
      BY <1>2, <2>4, <3>1, SMT
    <3>2. CASE i # 1
      <4>1. i - 1 \in 1..(i - 1) /\ \A j \in 1..(i - 1) : w[j] \in Int
        BY <1>0, <3>2, SMT
      <4>2. IsFiniteSet(1..(i - 1))
        BY FS_Interval, SMT
      <4> QED
        BY <4>1, <4>2, SumOfRest
    <3> QED
      BY <3>1, <3>2
  <2> QED
    BY <1>0, <2>3, <2>4, <2>5, SMT
<1>4. \A i \in 1..(Len(w) + 1) : Before(w, i) \in Nat
  <2> DEFINE T == {n \in 0..Len(w) : Before(w, n + 1) \in Nat}
  <2>1. 0 \in T
    BY <1>0, <1>2, SMT
  <2>2. \A n \in 0..(Len(w) - 1) : n \in T => n + 1 \in T
    <3> SUFFICES ASSUME NEW n \in 0..(Len(w) - 1), n \in T PROVE n + 1 \in T
      OBVIOUS
    <3>1. n + 1 \in 1..Len(w) /\ n + 1 \in 0..Len(w)
      BY <1>0, SMT
    <3>2. Before(w, (n + 1) + 1) = Before(w, n + 1) + w[n + 1] /\ w[n + 1] \in Nat
      BY <1>0, <1>3, <3>1
    <3> QED
      BY <3>1, <3>2, SMT
  <2>3. \A n \in 0..Len(w) : n \in T
    <3> HIDE DEF T
    <3> QED
      BY <1>0, <2>1, <2>2, CountUp
  <2>4. \A i \in 1..(Len(w) + 1) : i - 1 \in 0..Len(w) /\ (i - 1) + 1 = i
    BY <1>0, SMT
  <2> QED
    BY <2>3, <2>4
<1>5. Before(w, Len(w) + 1) = SumFunction(w)
  <2>1. Len(w) + 1 \in 1..(Len(w) + 1) /\ (Len(w) + 1) - 1 = Len(w)
    BY <1>0, SMT
  <2> QED
    BY <1>0, <1>1, <2>1, WeightsAreSummed
<1> QED
  BY <1>2, <1>3, <1>4, <1>5

(* An interval that leaves out its end has as many numbers as its length. *)
LEMMA LengthOfInterval ==
    ASSUME NEW x \in Nat, NEW y \in Nat, x <= y PROVE Cardinality(x..(y - 1)) = y - x
<1>1. y - 1 \in Int /\ x \in Int
  BY SMT
<1>2. Cardinality(x..(y - 1)) = IF x > y - 1 THEN 0 ELSE (y - 1) - x + 1
  BY <1>1, FS_Interval
<1> QED
  BY <1>2, SMT

(* The numbers drawn that fall into one interval. *)
LEMMA PartOfInterval ==
    ASSUME NEW x \in Nat, NEW y \in Nat, NEW z \in Nat, y <= z
    PROVE  {k \in 0..(z - 1) : x <= k /\ k < y} = x..(y - 1)
  BY SMT

(* Discrete returns the position whose interval holds the number drawn. *)
LEMMA DiscreteCovers ==
    ASSUME NEW w \in Seq(Nat)
    PROVE  LET values == 0..(SumFunction(w) - 1)
           IN  /\ \A i \in DOMAIN w :
                    Cardinality({k \in values : DiscreteNext(w, k) = i}) = w[i]
               /\ \A k \in values : DiscreteNext(w, k) # 0
<1> DEFINE n == Len(w)
<1>0. n \in Nat /\ DOMAIN w = 1..n /\ \A i \in 1..n : w[i] \in Nat
  BY SMT
<1>1. PICK b : b = [i \in 1..(n + 1) |-> Before(w, i)]
  OBVIOUS
<1>2. /\ b[1] = 0 /\ \A i \in 1..(n + 1) : b[i] \in Nat /\ b[i] = Before(w, i)
      /\ \A i \in 1..n : b[i + 1] = b[i] + w[i]
      /\ b[n + 1] = SumFunction(w)
  BY <1>0, <1>1, WeightIntervals, SMT
<1>3. \A i, j \in 1..(n + 1) : i <= j => b[i] <= b[j]
  <2> SUFFICES ASSUME NEW i \in 1..(n + 1) PROVE \A j \in 1..(n + 1) : i <= j => b[i] <= b[j]
    OBVIOUS
  <2>0. PICK N \in Nat : N = n + 1 - i
    BY <1>0, SMT
  <2> DEFINE T == {d \in 0..N : b[i] <= b[i + d]}
  <2>1. 0 \in T
    BY <1>0, <1>2, SMT
  <2>2. \A d \in 0..(N - 1) : d \in T => d + 1 \in T
    <3> SUFFICES ASSUME NEW d \in 0..(N - 1), d \in T PROVE d + 1 \in T
      OBVIOUS
    <3>1. i + d \in 1..n /\ i + d \in 1..(n + 1) /\ (i + d) + 1 = i + (d + 1) /\ d + 1 \in 0..N
      BY <1>0, <2>0, SMT
    <3>2. b[i + (d + 1)] = b[i + d] + w[i + d] /\ w[i + d] \in Nat /\ b[i + d] \in Nat
      BY <1>0, <1>2, <3>1
    <3>3. b[i] <= b[i + d] /\ b[i] \in Nat
      BY <1>2
    <3> QED
      BY <3>1, <3>2, <3>3, SMT
  <2>4. \A d \in 0..N : d \in T
    <3> HIDE DEF T
    <3> QED
      BY <2>1, <2>2, CountUp
  <2>5. \A j \in 1..(n + 1) : i <= j => j - i \in 0..N /\ i + (j - i) = j
    BY <1>0, <2>0, SMT
  <2> QED
    BY <2>4, <2>5
<1>4. ASSUME NEW k \in 0..(b[n + 1] - 1)
      PROVE  /\ DiscreteNext(w, k) \in 1..n
             /\ \A i \in 1..n : DiscreteNext(w, k) = i <=> b[i] <= k /\ k < b[i + 1]
  <2> DEFINE A == {i \in 1..n : k < b[i + 1]}
  <2>0. k \in Nat /\ k < b[n + 1]
    BY <1>0, <1>2, SMT
  <2>1. n \in A
    BY <1>0, <1>2, <2>0, SMT
  <2>2. {i \in DOMAIN w : k - SumFunction(SubSeq(w, 1, i - 1)) < w[i]} = A
    <3>1. \A i \in 1..n : /\ b[i] = SumFunction(SubSeq(w, 1, i - 1)) /\ b[i] \in Nat
                          /\ w[i] \in Nat /\ b[i + 1] = b[i] + w[i]
      BY <1>0, <1>2, SMT DEF Before
    <3>2. \A x, y \in Nat : (k - x < y) <=> (k < x + y)
      BY <2>0, SMT
    <3>3. \A i \in 1..n : (k - b[i] < w[i]) <=> (k < b[i + 1])
      BY <3>1, <3>2
    <3> QED
      BY <1>0, <3>1, <3>3
  <2>3. DiscreteNext(w, k) = Min(A)
    BY <2>1, <2>2 DEF DiscreteNext
  <2>4. PICK m \in A : \A i \in A : m <= i
    <3>1. A \subseteq Nat
      BY <1>0, SMT
    <3> HIDE DEF A
    <3> QED
      BY <2>1, <3>1, LeastNumber
  <2>5. Min(A) = m
    <3>1. \A i \in A : i \in Int
      BY <1>0, SMT
    <3>2. \A i \in A : (\A j \in A : i <= j) => i = m
      BY <2>4, <3>1, SMT
    <3> HIDE DEF A
    <3> QED
      BY <2>4, <3>2 DEF Min
  <2>6. b[m] <= k
    <3>1. CASE m = 1
      BY <1>2, <2>0, <3>1, SMT
    <3>2. CASE m # 1
      <4>1. m - 1 \in 1..n /\ (m - 1) + 1 = m /\ ~(m <= m - 1)
        BY <1>0, <2>4, <3>2, SMT
      <4>2. m - 1 \notin A
        BY <2>4, <4>1
      <4>3. b[m] \in Nat /\ ~(k < b[m])
        BY <1>0, <1>2, <4>1, <4>2, SMT
      <4> QED
        BY <2>0, <4>3, SMT
    <3> QED
      BY <3>1, <3>2
  <2>7. ASSUME NEW i \in 1..n, b[i] <= k, k < b[i + 1] PROVE i = m
    <3>1. i \in A /\ m <= i
      BY <2>4, <2>7
    <3>2. CASE m < i
      <4>1. m + 1 <= i /\ m + 1 \in 1..(n + 1) /\ i \in 1..(n + 1)
        BY <1>0, <3>2, SMT
      <4>2. b[m + 1] <= b[i] /\ k < b[m + 1] /\ b[m + 1] \in Nat /\ b[i] \in Nat
        BY <1>2, <1>3, <2>4, <4>1
      <4> QED
        BY <2>0, <2>7, <4>2, SMT
    <3> QED
      BY <1>0, <3>1, <3>2, SMT
  <2> QED
    BY <2>3, <2>4, <2>5, <2>6, <2>7
<1>5. ASSUME NEW i \in 1..n
      PROVE  Cardinality({k \in 0..(b[n + 1] - 1) : DiscreteNext(w, k) = i}) = w[i]
  <2>1. /\ i \in 1..(n + 1) /\ i + 1 \in 1..(n + 1) /\ n + 1 \in 1..(n + 1)
        /\ i + 1 <= n + 1
    BY <1>0, SMT
  <2>2. /\ b[i] \in Nat /\ b[i + 1] \in Nat /\ b[n + 1] \in Nat /\ b[i + 1] <= b[n + 1]
        /\ b[i + 1] = b[i] + w[i] /\ w[i] \in Nat
    BY <1>0, <1>2, <1>3, <2>1
  <2>3. {k \in 0..(b[n + 1] - 1) : DiscreteNext(w, k) = i} = b[i]..(b[i + 1] - 1)
    <3>1. {k \in 0..(b[n + 1] - 1) : DiscreteNext(w, k) = i}
            = {k \in 0..(b[n + 1] - 1) : b[i] <= k /\ k < b[i + 1]}
      BY <1>4
    <3> QED
      BY <2>2, <3>1, PartOfInterval
  <2>4. Cardinality(b[i]..(b[i + 1] - 1)) = b[i + 1] - b[i]
    <3>1. b[i] <= b[i + 1]
      BY <2>2, SMT
    <3> QED
      BY <2>2, <3>1, LengthOfInterval
  <2>5. b[i + 1] - b[i] = w[i]
    BY <2>2, SMT
  <2> QED
    BY <2>3, <2>4, <2>5, Zenon
<1>6. \A k \in 0..(b[n + 1] - 1) : DiscreteNext(w, k) # 0
  BY <1>0, <1>4, SMT
<1> HIDE DEF n
<1> QED
  BY <1>0, <1>2, <1>5, <1>6

(* Hotspot, Uniform, ScrambledZipfian and Discrete return what they were   *)
(* made for, whatever their bounds, fraction and weights.                  *)
THEOREM RangesAreCovered == GenSpec => []RangeIsCovered
<1>1. g \in Choosers => RangeIsCovered
  <2> SUFFICES ASSUME g \in Choosers PROVE RangeIsCovered
    OBVIOUS
  <2>1. CASE g.kind = "hotspot"
    BY <2>1, ChooserAssumption, HotspotCovers DEF RangeIsCovered
  <2>2. CASE g.kind = "uniform"
    <3>1. g.lower \in Int /\ g.upper \in Int
      BY <2>2, ChooserAssumption, BoundAssumption, SMT
    <3> QED
      BY <2>2, <3>1, UniformCovers DEF RangeIsCovered
  <2>3. CASE g.kind = "zipfian"
    BY <2>3, ChooserAssumption, ScrambledCovers DEF RangeIsCovered
  <2>4. CASE g.kind = "discrete"
    BY <2>4, ChooserAssumption, DiscreteCovers DEF RangeIsCovered
  <2> QED
    BY <2>1, <2>2, <2>3, <2>4 DEF RangeIsCovered
<1>2. GenInit => g \in Choosers
  BY DEF GenInit
<1>3. g \in Choosers /\ [GenNext]_genVars => (g \in Choosers)'
  BY DEF GenNext, InsertStep, genVars, DrawStep, ReadLast, CheckCount, LockZeta, Recheck,
         StoreZetan, UnlockZeta, DrawLatest, DrawExponential, Return, DrawSequential, Draws
<1> QED
  BY <1>1, <1>2, <1>3, PTL DEF GenSpec
=============================================================================
