---------------------------- MODULE CoreWorkload ----------------------------
(***************************************************************************)
(* The operations of the core workload (pkg/workload/core.go) as the       *)
(* worker goroutines interleave them: insertions of the load phase, and    *)
(* reads, updates, scans, read-modify-writes and insertions of the run     *)
(* phase, one at a time or in batches. The keys of the run phase come from *)
(* the counter with acknowledgements, here by its promise PublishedPrefix, *)
(* which AcknowledgedCounter is shown to implement.                        *)
(*                                                                         *)
(* With dataintegrity a value tells the key it was built for, so a buffer  *)
(* of the value pool and a row of the store hold a key number. The store   *)
(* is external: an insert or an update copies the value during the call,   *)
(* and an insert may fail; a batch may fail halfway.                       *)
(***************************************************************************)
EXTENDS Integers, FiniteSets

CONSTANTS
  Threads,        \* the worker goroutines
  Configurations, \* the settings tried: see Properties
  RecordCount,    \* recordcount: records 0..RecordCount-1 are loaded first
  Buffers,        \* the buffers of the value pool
  MaxKey          \* bound of the model: key numbers stay below it

Properties ==
  [load: BOOLEAN,            \* the load phase or the run phase
   batchSize: Nat \ {0},     \* batch.size
   operations: SUBSET {"read", "update", "insert", "scan", "readModifyWrite"},
   distribution: STRING,     \* requestdistribution
   retryLimit: Nat]          \* core_workload_insertion_retry_limit

ASSUME ConfigurationAssumption == \A c \in Configurations : c \in Properties
ASSUME RecordAssumption == RecordCount \in Nat \ {0} /\ MaxKey \in Nat /\ RecordCount <= MaxKey

VARIABLES
  p,            \* the properties of the workload
  keySequence,  \* next key of the load phase
  issued,       \* transactionInsertKeySequence: next key,
  acked,        \*   the keys acknowledged,
  last,         \*   and what Last returns
  store,        \* what each row holds, Absent for no row
  content,      \* what each buffer holds
  pool,         \* the free buffers of valuePool
  pc,           \* where each thread is
  keys,         \* the key numbers of a thread's operation
  values,       \* the buffer a thread has filled for each key it writes
  suspect,      \* threads whose read-modify-write read a wrong row
  retries,      \* numOfRetries
  failed,       \* history: keys whose insertion failed
  attempts,     \* history: calls of Insert for each key
  exit          \* "no", "fatal" after util.Fatalf, or "panic"

counterVars == <<issued, acked, last>>
storeVars   == <<store, failed, attempts>>
poolVars    == <<content, pool>>
vars == <<p, keySequence, counterVars, storeVars, poolVars, pc, keys, values,
          suspect, retries, exit>>

Counter == INSTANCE PublishedPrefix WITH Start <- RecordCount

Absent == -1
Keys   == 0..(MaxKey - 1)
None   == [k \in {} |-> 0]

States == {"idle", "read", "update", "readFirst", "scan", "take", "ack",
           "sweep", "loadTake", "load", "insert", "put", "putThenAck"}

Goto(t, from, to) ==
  /\ exit = "no"
  /\ pc[t] = from
  /\ UNCHANGED p
  /\ pc' = [pc EXCEPT ![t] = to]

\* Mutant: the choosers count back from the newest key, acknowledged or not.
KeyRangeIssued == 1..(issued - 1)

\* The keys a chooser may return. "latest" and "exponential" count back from
\* Last; "zipfian" also draws keys that are expected to be inserted.
KeyRange ==
  CASE p.distribution = "latest"      -> 1..last
    [] p.distribution = "exponential" -> 0..last
    [] p.distribution = "zipfian"     -> Keys
    [] OTHER                        -> 0..(RecordCount - 1)

\* Mutant: the buffer is put back as soon as it is filled.
BuildShared(t, key, b) ==
  /\ b \in pool
  /\ UNCHANGED pool
  /\ content' = [content EXCEPT ![b] = key]
  /\ values' = [values EXCEPT ![t] = [k \in DOMAIN @ \union {key} |->
                                        IF k = key THEN b ELSE @[k]]]

\* buildValues: a free buffer is taken and filled. An empty pool makes one.
Build(t, key, b) ==
  /\ b \in pool
  /\ pool' = pool \ {b}
  /\ content' = [content EXCEPT ![b] = key]
  /\ values' = [values EXCEPT ![t] = [k \in DOMAIN @ \union {key} |->
                                        IF k = key THEN b ELSE @[k]]]

-----------------------------------------------------------------------------
Init ==
  /\ p \in Configurations
  /\ keySequence = 0
  /\ Counter!Init
  /\ store = [k \in Keys |-> IF ~p.load /\ k < RecordCount THEN k ELSE Absent]
  /\ content = [b \in Buffers |-> Absent]
  /\ pool = Buffers
  /\ pc = [t \in Threads |-> IF p.load THEN "loadTake" ELSE "idle"]
  /\ keys = [t \in Threads |-> {}]
  /\ values = [t \in Threads |-> None]
  /\ suspect = {}
  /\ retries = [t \in Threads |-> 0]
  /\ failed = {}
  /\ attempts = [k \in Keys |-> 0]
  /\ exit = "no"

-----------------------------------------------------------------------------
(* DoInsert and DoBatchInsert: the load phase *)

LoadTake(t) ==
  /\ keySequence < MaxKey
  /\ Goto(t, "loadTake",
          IF Cardinality(keys[t]) + 1 < p.batchSize THEN "loadTake" ELSE "load")
  /\ keySequence' = keySequence + 1
  /\ keys' = [keys EXCEPT ![t] = @ \union {keySequence}]
  /\ \E b \in Buffers : Build(t, keySequence, b)
  /\ retries' = [retries EXCEPT ![t] = 0]
  /\ UNCHANGED <<counterVars, storeVars, suspect, exit>>

\* What an insertion writes when the rows of ok get through.
Write(t, ok) ==
  /\ store' = [k \in Keys |-> IF k \in ok THEN content[values[t][k]] ELSE store[k]]
  /\ failed' = failed \union (keys[t] \ ok)
  /\ attempts' = [k \in Keys |-> attempts[k] + IF k \in keys[t] THEN 1 ELSE 0]

\* Mutant: the limit counts the insertions, not the retries.
LoadInsertUnlimited(t) ==
  /\ pc[t] = "load" /\ Write(t, keys[t])
  /\ Goto(t, "load", IF retries[t] <= p.retryLimit THEN "load" ELSE "put")
  /\ retries' = [retries EXCEPT ![t] = @ + 1]
  /\ UNCHANGED <<keySequence, counterVars, poolVars, keys, values, suspect, exit>>

\* An insertion that got through is repeated until the limit is passed, or
\* until the context turns out to be cancelled.
LoadInsert(t) ==
  /\ pc[t] = "load" /\ Write(t, keys[t])
  /\ \/ Goto(t, "load", "put")
     \/ retries[t] < p.retryLimit /\ Goto(t, "load", "load")
  /\ retries' = [retries EXCEPT ![t] = @ + 1]
  /\ UNCHANGED <<keySequence, counterVars, poolVars, keys, values, suspect, exit>>

\* An insertion that failed ends the loop.
LoadInsertFails(t) ==
  /\ Goto(t, "load", "put")
  /\ \E ok \in (SUBSET keys[t]) \ {keys[t]} : Write(t, ok)
  /\ UNCHANGED <<keySequence, counterVars, poolVars, keys, values, suspect, retries, exit>>

-----------------------------------------------------------------------------
(* DoTransaction and DoBatchTransaction: the run phase *)

\* doTransactionRead, doTransactionScan and doBatchTransactionRead choose their
\* keys first. A batch chooses them one by one; Last only grows meanwhile.
ChooseRead(t) ==
  /\ "read" \in p.operations
  /\ \E chosen \in SUBSET KeyRange :
       /\ Cardinality(chosen) \in 1..p.batchSize
       /\ keys' = [keys EXCEPT ![t] = chosen]
  /\ Goto(t, "idle", "read")
  /\ UNCHANGED <<keySequence, counterVars, storeVars, poolVars, values, suspect, retries, exit>>

ChooseScan(t) ==
  /\ "scan" \in p.operations /\ p.batchSize = 1
  /\ \E key \in KeyRange : keys' = [keys EXCEPT ![t] = {key}]
  /\ Goto(t, "idle", "scan")
  /\ UNCHANGED <<keySequence, counterVars, storeVars, poolVars, values, suspect, retries, exit>>

\* Batches do not scan: DoBatchTransaction panics.
BatchScanPanics(t) ==
  /\ exit = "no" /\ pc[t] = "idle"
  /\ "scan" \in p.operations /\ p.batchSize > 1
  /\ exit' = "panic"
  /\ UNCHANGED <<p, keySequence, counterVars, storeVars, poolVars, pc, keys, values, suspect, retries>>

\* The key and the value of an update, or of a read-modify-write, which reads
\* first. A batch of read-modify-writes does nothing at all. One key stands for
\* the keys of a batch, which are updated by one call.
ChooseUpdate(t) ==
  /\ \E key \in KeyRange, b \in Buffers :
       /\ Build(t, key, b)
       /\ keys' = [keys EXCEPT ![t] = {key}]
  /\ \/ "update" \in p.operations /\ Goto(t, "idle", "update")
     \/ /\ "readModifyWrite" \in p.operations /\ p.batchSize = 1
        /\ Goto(t, "idle", "readFirst")
  /\ UNCHANGED <<keySequence, counterVars, storeVars, suspect, retries, exit>>

ChooseInsert(t) ==
  /\ "insert" \in p.operations
  /\ Goto(t, "idle", "take")
  /\ UNCHANGED <<keySequence, counterVars, storeVars, poolVars, keys, values, suspect, retries, exit>>

\* verifyRow, for the rows that exist, unless the read returned an error. A
\* batch is not verified, nor is a scan.
Mismatch(t) ==
  /\ p.batchSize = 1
  /\ \E key \in keys[t] : store[key] \notin {Absent, key}

Read(t) ==
  /\ Goto(t, "read", "idle")
  /\ keys' = [keys EXCEPT ![t] = {}]
  /\ exit' = IF Mismatch(t) THEN "fatal" ELSE exit
  /\ UNCHANGED <<keySequence, counterVars, storeVars, poolVars, values, suspect, retries>>

Scan(t) ==
  /\ Goto(t, "scan", "idle")
  /\ keys' = [keys EXCEPT ![t] = {}]
  /\ UNCHANGED <<keySequence, counterVars, storeVars, poolVars, values, suspect, retries, exit>>

\* The read of a read-modify-write; an error of the read ends the operation.
ReadFirst(t) ==
  /\ Goto(t, "readFirst", "update") \/ Goto(t, "readFirst", "put")
  /\ suspect' = IF Mismatch(t) THEN suspect \union {t} ELSE suspect
  /\ UNCHANGED <<keySequence, counterVars, storeVars, poolVars, keys, values, retries, exit>>

\* An update changes rows that exist, or fails and changes none. Only then is
\* the row that a read-modify-write read verified.
Update(t) ==
  /\ Goto(t, "update", "put")
  /\ \/ /\ store' = [k \in Keys |-> IF k \in keys[t] /\ store[k] # Absent
                                    THEN content[values[t][k]] ELSE store[k]]
        /\ exit' = IF t \in suspect THEN "fatal" ELSE exit
     \/ UNCHANGED <<store, exit>>
  /\ suspect' = suspect \ {t}
  /\ UNCHANGED <<keySequence, counterVars, failed, attempts, poolVars, keys, values, retries>>

\* A key is taken and its value built. A single insertion goes on to the store;
\* a batch acknowledges the key at once.
TakeKey(t) ==
  /\ Counter!Issue
  /\ Goto(t, "take", IF p.batchSize = 1 THEN "insert" ELSE "ack")
  /\ keys' = [keys EXCEPT ![t] = @ \union {issued}]
  /\ \E b \in Buffers : Build(t, issued, b)
  /\ UNCHANGED <<keySequence, storeVars, suspect, retries, exit>>

Insert(t) ==
  /\ Goto(t, "insert", IF p.batchSize = 1 THEN "putThenAck" ELSE "put")
  /\ \E ok \in SUBSET keys[t] : Write(t, ok)
  /\ UNCHANGED <<keySequence, counterVars, poolVars, keys, values, suspect, retries, exit>>

\* Mutant: the thread keeps the buffers it has put back.
ReleaseKeepsValues(t) ==
  /\ pool' = pool \union {values[t][k] : k \in DOMAIN values[t]}
  /\ UNCHANGED values

Release(t) ==
  /\ pool' = pool \union {values[t][k] : k \in DOMAIN values[t]}
  /\ values' = [values EXCEPT ![t] = None]

\* The deferred putValues ends an update, a batch and an insertion of the load.
PutValues(t) ==
  /\ Release(t)
  /\ Goto(t, "put", IF p.load THEN "loadTake" ELSE "idle")
  /\ keys' = [keys EXCEPT ![t] = {}]
  /\ suspect' = suspect \ {t}
  /\ UNCHANGED <<keySequence, counterVars, storeVars, content, retries, exit>>

\* doTransactionInsert deferred Acknowledge first, so it runs last, whether or
\* not the insertion failed.
PutValuesThenAck(t) ==
  /\ Release(t)
  /\ Goto(t, "putThenAck", "ack")
  /\ UNCHANGED <<keySequence, counterVars, storeVars, content, keys, suspect, retries, exit>>

Acknowledge(t) ==
  /\ \E key \in keys[t] \ acked : Counter!Acknowledge(key)
  /\ Goto(t, "ack", "sweep")
  /\ UNCHANGED <<keySequence, storeVars, poolVars, keys, values, suspect, retries, exit>>

\* The rest of Acknowledge may move Last. A batch takes its next key, or goes
\* on to the store with all of them.
Sweep(t) ==
  /\ \/ UNCHANGED counterVars
     \/ \E key \in Keys : Counter!Publish(key)
  /\ IF p.batchSize = 1
     THEN Goto(t, "sweep", "idle") /\ keys' = [keys EXCEPT ![t] = {}]
     ELSE /\ Goto(t, "sweep",
                  IF Cardinality(keys[t]) < p.batchSize THEN "take" ELSE "insert")
          /\ UNCHANGED keys
  /\ UNCHANGED <<keySequence, storeVars, poolVars, values, suspect, retries, exit>>

Step(t) ==
  \/ LoadTake(t) \/ LoadInsert(t) \/ LoadInsertFails(t)
  \/ ChooseRead(t) \/ ChooseScan(t) \/ BatchScanPanics(t) \/ ChooseUpdate(t)
  \/ ChooseInsert(t) \/ Read(t) \/ Scan(t) \/ ReadFirst(t) \/ Update(t)
  \/ TakeKey(t) \/ Insert(t) \/ PutValues(t) \/ PutValuesThenAck(t)
  \/ Acknowledge(t) \/ Sweep(t)

Next == \E t \in Threads : Step(t)

Spec == Init /\ [][Next]_vars

-----------------------------------------------------------------------------
\* Every variable has its type; in particular a row and a buffer hold the value
\* of one key, and exit is never reached by a value nobody wrote.
TypeOK ==
  /\ p \in Configurations
  /\ keySequence \in 0..MaxKey /\ issued \in Nat
  /\ acked \subseteq Keys /\ last \in Int
  /\ store \in [Keys -> Keys \union {Absent}]
  /\ content \in [Buffers -> Keys \union {Absent}]
  /\ pool \subseteq Buffers
  /\ pc \in [Threads -> States]
  /\ keys \in [Threads -> SUBSET Keys]
  /\ \A t \in Threads : values[t] \in [DOMAIN values[t] -> Buffers]
                        /\ DOMAIN values[t] \subseteq keys[t]
  /\ suspect \subseteq Threads
  /\ retries \in [Threads -> 0..(p.retryLimit + 1)]
  /\ failed \subseteq Keys
  /\ attempts \in [Keys -> Nat]
  /\ exit \in {"no", "fatal", "panic"}

\* The keys a batch has acknowledged before inserting them.
AckedEarly(key) ==
  \E t \in Threads : key \in keys[t] /\ pc[t] \in {"take", "ack", "sweep", "insert"}
                     /\ p.batchSize > 1

\* A key that "latest" or "exponential" chooses exists, unless its insertion
\* failed or it belongs to a batch that was acknowledged before being inserted.
ChosenKeyExists ==
  p.distribution \in {"latest", "exponential"} =>
    \A t \in Threads : pc[t] \in {"read", "scan", "update", "readFirst"} =>
      \A key \in keys[t] : store[key] # Absent \/ key \in failed \/ AckedEarly(key)

\* verifyRow never finds a row with the value of another key, however the
\* workers share the buffers of the pool.
RowsVerify == exit # "fatal"

\* Loading accounts for every key number it has drawn: between operations each
\* one is stored or its insertion failed, and no key was left out or drawn twice.
LoadAccountsForKeys ==
  p.load => \A key \in 0..(keySequence - 1) :
            \/ store[key] = key /\ attempts[key] \in 1..(p.retryLimit + 1)
            \/ key \in failed
            \/ \E t \in Threads : key \in keys[t]

\* "Retry if configured ... User can optionally configure an insertion retry
\* limit (default is 0) to enable retry" (core.go:287-289): an insertion is
\* given up only after that many retries.
FailureIsRetried ==
  p.load => \A key \in failed :
            (\E t \in Threads : key \in keys[t]) \/ attempts[key] > p.retryLimit
=============================================================================
