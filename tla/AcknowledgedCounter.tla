------------------------ MODULE AcknowledgedCounter ------------------------
(***************************************************************************)
(* The counter that hands out keys to inserting transactions and reports,  *)
(* through Last, how far all of them are acknowledged                      *)
(* (pkg/generator/acknowledged_counter.go, with the try-lock of            *)
(* pkg/util/spinlock.go). Every worker goroutine calls it without further  *)
(* synchronisation, so each access to shared memory is a step of its own.  *)
(*                                                                         *)
(* A worker takes a key with Next, inserts the record and then calls       *)
(* Acknowledge; between the two it is "holding" the key.                   *)
(***************************************************************************)
EXTENDS Integers

CONSTANTS
  Threads,     \* the worker goroutines
  WindowSize,  \* number of slots of the window (2^20 in the code)
  Start,       \* first key (recordcount)
  MaxKey,      \* bound of the model: keys issued stay below it
  Span         \* how far the keys issued may run ahead of Last

ASSUME WindowAssumption == WindowSize \in Nat \ {0}
ASSUME StartAssumption  == Start \in Nat \ {0}
ASSUME BoundAssumption  == MaxKey \in Nat /\ Span \in Nat

VARIABLES
  counter,   \* c.counter: the next key
  limit,     \* limit: what Last returns
  window,    \* window[slot]: acknowledged and not yet swept
  lock,      \* SpinLock.f
  pc,        \* where each thread is in its insert
  value,     \* the key a thread took last
  index,     \* the loop variable of a thread's sweep
  acked,     \* history: the keys whose mark was written
  lostRace   \* history: the keys whose thread lost the TryLock

vars == <<counter, limit, window, lock, pc, value, index, acked, lostRace>>

Slot(key) == key % WindowSize

Sweeping == {"load", "test", "clear", "store", "unlock"}
Outside  == {"idle", "holding", "mark", "try", "panicked"}

\* A panic in any goroutine ends the process.
Running == \A t \in Threads : pc[t] # "panicked"

Goto(t, from, to) ==
  /\ Running
  /\ pc[t] = from
  /\ pc' = [pc EXCEPT ![t] = to]

-----------------------------------------------------------------------------
Init ==
  /\ counter = Start
  /\ limit = Start - 1
  /\ window = [s \in 0..(WindowSize - 1) |-> FALSE]
  /\ lock = 0
  /\ pc = [t \in Threads |-> "idle"]
  /\ value = [t \in Threads |-> Start]
  /\ index = [t \in Threads |-> Start]
  /\ acked = {}
  /\ lostRace = {}

\* Next: one atomic fetch-and-add. Span is no condition of the code: it bounds
\* how many keys the scheduler lets run ahead of the slowest insert.
TakeKey(t) ==
  /\ Goto(t, "idle", "holding")
  /\ counter < MaxKey
  /\ counter - limit <= Span
  /\ value' = [value EXCEPT ![t] = counter]
  /\ counter' = counter + 1
  /\ UNCHANGED <<limit, window, lock, index, acked, lostRace>>

\* The insert has returned and Acknowledge(value) looks at its slot.
CheckSlot(t) ==
  /\ Goto(t, "holding", IF window[Slot(value[t])] THEN "panicked" ELSE "mark")
  /\ UNCHANGED <<counter, limit, window, lock, value, index, acked, lostRace>>

MarkSlot(t) ==
  /\ Goto(t, "mark", "try")
  /\ window' = [window EXCEPT ![Slot(value[t])] = TRUE]
  /\ acked' = acked \union {value[t]}
  /\ UNCHANGED <<counter, limit, lock, value, index, lostRace>>

\* Mutant: the lock is taken whether or not it is free.
TryLockAlways(t) ==
  /\ Goto(t, "try", "load")
  /\ lock' = 1
  /\ UNCHANGED <<counter, limit, window, value, index, acked, lostRace>>

TryLock(t) ==
  \/ /\ lock = 0
     /\ Goto(t, "try", "load")
     /\ lock' = 1
     /\ UNCHANGED <<counter, limit, window, value, index, acked, lostRace>>
  \/ /\ lock = 1
     /\ Goto(t, "try", "idle")
     /\ lostRace' = lostRace \union {value[t]}
     /\ UNCHANGED <<counter, limit, window, lock, value, index, acked>>

LoadLimit(t) ==
  /\ Goto(t, "load", "test")
  /\ index' = [index EXCEPT ![t] = limit + 1]
  /\ UNCHANGED <<counter, limit, window, lock, value, acked, lostRace>>

\* Mutant: at an unmarked slot the loop continues instead of breaking.
TestSlotContinues(t) ==
  /\ Goto(t, "test", IF window[Slot(index[t])] THEN "clear" ELSE "test")
  /\ UNCHANGED <<counter, limit, window, lock, value, index, acked, lostRace>>

\* The loop condition compares the index with a slot number; limit is only
\* written by the holder of the lock, so it still is the limit loaded above.
TestSlot(t) ==
  /\ Goto(t, "test",
          IF index[t] # Slot(limit) /\ window[Slot(index[t])]
          THEN "clear" ELSE "store")
  /\ UNCHANGED <<counter, limit, window, lock, value, index, acked, lostRace>>

\* Mutant: the slot of a published key is left set.
ClearSlotForgotten(t) ==
  /\ Goto(t, "clear", "test")
  /\ index' = [index EXCEPT ![t] = @ + 1]
  /\ UNCHANGED <<counter, limit, window, lock, value, acked, lostRace>>

\* Mutant: the sweep stops after the first slot it clears.
ClearOneSlot(t) ==
  /\ Goto(t, "clear", "store")
  /\ window' = [window EXCEPT ![Slot(index[t])] = FALSE]
  /\ index' = [index EXCEPT ![t] = @ + 1]
  /\ UNCHANGED <<counter, limit, lock, value, acked, lostRace>>

ClearSlot(t) ==
  /\ Goto(t, "clear", "test")
  /\ window' = [window EXCEPT ![Slot(index[t])] = FALSE]
  /\ index' = [index EXCEPT ![t] = @ + 1]
  /\ UNCHANGED <<counter, limit, lock, value, acked, lostRace>>

\* Mutant: the key the sweep stopped at is published as well.
StoreLimitPast(t) ==
  /\ Goto(t, "store", "unlock")
  /\ limit' = index[t]
  /\ UNCHANGED <<counter, window, lock, value, index, acked, lostRace>>

StoreLimit(t) ==
  /\ Goto(t, "store", "unlock")
  /\ limit' = index[t] - 1
  /\ UNCHANGED <<counter, window, lock, value, index, acked, lostRace>>

Unlock(t) ==
  /\ Goto(t, "unlock", "idle")
  /\ lock' = 0
  /\ UNCHANGED <<counter, limit, window, value, index, acked, lostRace>>

\* The run is over: no more keys to take, or the process has panicked.
Finished ==
  /\ \/ ~Running
     \/ /\ \A t \in Threads : pc[t] = "idle"
        /\ counter = MaxKey \/ counter - limit > Span
  /\ UNCHANGED vars

Acknowledge(t) ==
  \/ MarkSlot(t) \/ TryLock(t) \/ LoadLimit(t) \/ TestSlot(t)
  \/ ClearSlot(t) \/ StoreLimit(t) \/ Unlock(t)

Step(t) == TakeKey(t) \/ CheckSlot(t) \/ Acknowledge(t)

Next == Finished \/ \E t \in Threads : Step(t)

Spec == Init /\ [][Next]_vars

\* The Go scheduler is preemptive: a goroutine inside Acknowledge, which never
\* blocks, keeps being scheduled. Nothing is assumed of the inserts.
FairSpec == Spec /\ \A t \in Threads : WF_vars(Acknowledge(t))

-----------------------------------------------------------------------------
\* Every variable has its type; in particular the lock word of the SpinLock is
\* never anything but 0 or 1, whoever releases it.
TypeOK ==
  /\ counter \in Int
  /\ limit \in Int
  /\ window \in [0..(WindowSize - 1) -> BOOLEAN]
  /\ lock \in {0, 1}
  /\ pc \in [Threads -> Sweeping \union Outside]
  /\ value \in [Threads -> Int]
  /\ index \in [Threads -> Int]
  /\ acked \in SUBSET Int
  /\ lostRace \in SUBSET Int

\* Last reports a key only after it, and every key before it, has been
\* acknowledged: the sweep of Acknowledge takes no slot of a later key for the
\* slot of a key that is still being inserted.
OnlyAcknowledged == Start..limit \subseteq acked

\* Acknowledge never finds its slot taken ("Too many unacknowledged insertion
\* keys."): the sweep has cleared it for every key a window back.
NeverPanics == Running

\* Two goroutines never sweep at once: TryLock lets one of them through and the
\* others return without waiting.
OneSweeper ==
  \A t, u \in Threads : pc[t] \in Sweeping /\ pc[u] \in Sweeping => t = u

\* Last never reports a key that was not issued, even when the keys issued
\* overrun the window: the sweep consumes one mark for each step of limit.
LastIsIssued == limit < counter

\* Last never goes back, even when the keys issued overrun the window: only the
\* holder of the lock writes limit, from the limit it loaded under the lock.
LastNeverRetreats == [][limit' >= limit]_vars

Quiescent == \A t \in Threads : pc[t] \in {"idle", "holding"}

\* When no goroutine is inside Acknowledge, the only acknowledged key that can
\* sit right after Last is one whose goroutine found the lock taken and left the
\* sweep to the holder; a goroutine that swept itself never leaves one behind.
StallOnlyAfterLostRace ==
  Quiescent /\ limit + 1 \in acked => limit + 1 \in lostRace

\* When no goroutine is inside Acknowledge, Last has reached every key whose
\* predecessors are acknowledged too ("Acknowledge makes a generated counter
\* vaailable via Last", acknowledged_counter.go:79).
AcknowledgedIsAvailable == Quiescent => limit + 1 \notin acked

\* Acknowledge returns: the sweep is never waited for, and it ends at the first
\* key that is not acknowledged.
AcknowledgeReturns ==
  \A t \in Threads : pc[t] \notin {"idle", "holding"} ~> pc[t] = "idle"

-----------------------------------------------------------------------------
\* The inductive invariant behind OnlyAcknowledged and NeverPanics, for keys
\* that stay within the window (Span <= WindowSize).

HoldsKey(t) == pc[t] \in {"holding", "mark"}
InSweep(t)  == pc[t] \in {"test", "clear", "store"}

\* A key in the window whose mark no sweep has consumed yet.
Pending(key) ==
  key \in acked /\ \A t \in Threads : InSweep(t) => index[t] <= key

KeyOrder ==
  /\ Start - 1 <= limit /\ limit < counter /\ counter <= limit + Span + 1
  /\ acked \subseteq Start..(counter - 1)

HeldKeys ==
  /\ \A t \in Threads :
       HoldsKey(t) => value[t] \in Start..(counter - 1) /\ value[t] \notin acked
  /\ \A t, u \in Threads :
       HoldsKey(t) /\ HoldsKey(u) /\ value[t] = value[u] => t = u

SweepOrder ==
  \A t \in Threads : InSweep(t) =>
    /\ limit < index[t] /\ index[t] <= counter
    /\ (limit + 1)..(index[t] - 1) \subseteq acked
    /\ pc[t] = "clear" => window[Slot(index[t])]

\* The flags of the window are exactly the marks still to be swept: the slots of
\* the WindowSize keys after Last are pairwise different.
WindowMatches ==
  \A key \in (limit + 1)..(limit + WindowSize) :
    window[Slot(key)] <=> Pending(key)

Inductive ==
  /\ TypeOK
  /\ NeverPanics
  /\ OneSweeper
  /\ \A t \in Threads : pc[t] \in Sweeping => lock = 1
  /\ KeyOrder
  /\ HeldKeys
  /\ OnlyAcknowledged
  /\ SweepOrder
  /\ WindowMatches

\* The window and the try-lock implement the published prefix: Last only moves
\* forward, and only over acknowledged keys.
Promise == INSTANCE PublishedPrefix WITH issued <- counter, last <- limit
ImplementsPromise == Promise!Spec
=============================================================================
