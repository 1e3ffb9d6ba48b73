-------------------------- MODULE PublishedPrefix --------------------------
(***************************************************************************)
(* What a counter with acknowledgements promises to the key choosers: keys *)
(* are issued in order, each one is acknowledged at most once, and "last"  *)
(* only ever moves forward over a contiguous run of acknowledged keys.     *)
(* Each operation is one atomic step; AcknowledgedCounter implements it    *)
(* with a window of flags and a try-lock.                                  *)
(***************************************************************************)
EXTENDS Integers

CONSTANTS
  Start,    \* first key the counter issues (recordcount)
  MaxKey    \* bound of the model: keys issued stay below it

VARIABLES
  issued,   \* next key to issue
  acked,    \* keys acknowledged so far
  last      \* what Last() returns

promiseVars == <<issued, acked, last>>

Init ==
  /\ issued = Start
  /\ acked = {}
  /\ last = Start - 1

Issue ==
  /\ issued < MaxKey
  /\ issued' = issued + 1
  /\ UNCHANGED <<acked, last>>

Acknowledge(key) ==
  /\ key \in Start..(issued - 1)
  /\ key \notin acked
  /\ acked' = acked \union {key}
  /\ UNCHANGED <<issued, last>>

Publish(key) ==
  /\ key > last
  /\ (last + 1)..key \subseteq acked
  /\ last' = key
  /\ UNCHANGED <<issued, acked>>

Next ==
  \/ Issue
  \/ \E key \in Start..(issued - 1) : Acknowledge(key) \/ Publish(key)

Spec == Init /\ [][Next]_promiseVars
=============================================================================
