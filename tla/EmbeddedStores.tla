--------------------------- MODULE EmbeddedStores ---------------------------
(***************************************************************************)
(* The bindings of the stores that run inside the process, and of          *)
(* FoundationDB, whose rows go through the same row codec: db/badger,      *)
(* db/boltdb, db/rocksdb, db/sqlite and db/foundationdb.                   *)
(*                                                                         *)
(* Badger and bolt keep a reference to the slice given to Set or Put until *)
(* the transaction is committed, which happens after the closure that      *)
(* encoded the row into a pooled buffer has returned the buffer.           *)
(***************************************************************************)
EXTENDS RowStore

CONSTANT
    Buffers     \* the slices that circulate through the BufPool

VARIABLES
    content,    \* the row last encoded into each buffer
    entry,      \* the buffer the open transaction of a thread refers to
    writer      \* who holds bolt's or SQLite's write lock, a set of at most one

embeddedVars == <<content, entry, writer>>

ASSUME BuffersAssumption == IsFiniteSet(Buffers) /\ "none" \notin Buffers

EmbeddedInit ==
    /\ content = [b \in Buffers |-> NoRow]
    /\ entry = [t \in Threads |-> "none"]
    /\ writer = {}

-----------------------------------------------------------------------------
BadgerUpdate(t, keys, f) ==
    binding = "badger" /\ Call(t, "run", "patch", "patch", Given(keys, f))
BadgerInsert(t, keys) ==
    binding = "badger" /\ Call(t, "run", "replace", "replace", Whole(keys))
BadgerDelete(t, keys) ==
    binding = "badger" /\ Call(t, "run", "replace", "replace", Gone(keys))

BoltUpdate(t, keys, f) ==
    binding = "boltdb" /\ Call(t, "run", "patch", "patch", Given(keys, f))
BoltInsert(t, keys) ==
    binding = "boltdb" /\ Call(t, "run", "replace", "replace", Whole(keys))
BoltDelete(t, keys) ==
    binding = "boltdb" /\ Call(t, "run", "replace", "replace", Gone(keys))

FdbUpdate(t, keys, f) ==
    binding = "foundationdb" /\ Call(t, "run", "patch", "patch", Given(keys, f))
FdbInsert(t, keys) ==
    binding = "foundationdb" /\ Call(t, "run", "replace", "replace", Whole(keys))
FdbDelete(t, keys) ==
    binding = "foundationdb" /\ Call(t, "run", "replace", "replace", Gone(keys))

RocksUpdate(t, keys, f) ==
    binding = "rocksdb" /\ Call(t, "get", "merge", "replace", Given(keys, f))
RocksInsert(t, keys) ==
    binding = "rocksdb" /\ Call(t, "call", "replace", "replace", Whole(keys))
RocksDelete(t, keys) ==
    binding = "rocksdb" /\ Call(t, "call", "replace", "replace", Gone(keys))

SqliteUpdate(t, keys, f) ==
    binding = "sqlite" /\ Call(t, "run", "patch", "patch", Given(keys, f))
SqliteInsert(t, keys) ==
    binding = "sqlite" /\ Call(t, "run", "keep", "keep", Whole(keys))
SqliteDelete(t, keys) ==
    binding = "sqlite" /\ Call(t, "run", "replace", "replace", Gone(keys))

-----------------------------------------------------------------------------
(* The row the closure of an operation sets for its current key. *)
Encoded(t) == Effect(op[t].kind, store[CurrentKey(t)], op[t].values[CurrentKey(t)])
Missing(t) == op[t].kind = "patch" /\ store[CurrentKey(t)] = NoRow

(* The closure: read the row, encode the new one, leave the transaction    *)
(* with a reference to it.  A deletion encodes nothing.                    *)
RunClosure(t) ==
    /\ ~Missing(t)
    /\ Goto(t, "run", "commit")
    /\ op' = [op EXCEPT ![t].writes = For({CurrentKey(t)}, Encoded(t)), ![t].start = version]
    /\ NoWrite /\ UNCHANGED <<binding, ops>>

(* bufPool.Get, Encode, Set and the deferred bufPool.Put: the buffer is    *)
(* free again although the transaction still refers to it.                 *)
EncodeIntoBuffer(t) ==
    IF Encoded(t) = NoRow
    THEN entry' = [entry EXCEPT ![t] = "none"] /\ UNCHANGED content
    ELSE \E b \in Buffers : /\ content' = [content EXCEPT ![b] = Encoded(t)]
                            /\ entry' = [entry EXCEPT ![t] = b]

BadgerRun(t) ==
    /\ binding = "badger" /\ pc[t] = "run"
    /\ RunClosure(t) /\ EncodeIntoBuffer(t)
    /\ UNCHANGED writer

(* What the transaction stores when it commits: the buffer as it is now. *)
Referred(t) == IF entry[t] = "none" THEN NoRow ELSE content[entry[t]]

StoreReferred(t) ==
    LET k == CurrentKey(t)
    IN /\ Advance(t, "commit", "run")
       /\ Write(t, For({k}, Referred(t)), IF Referred(t) # op[t].writes[k] THEN {k} ELSE {})
       /\ entry' = [entry EXCEPT ![t] = "none"]

Conflict(t) ==
    op[t].kind = "patch" /\ version[CurrentKey(t)] # op[t].start[CurrentKey(t)]

(* A transaction that read a key committed meanwhile ends in ErrConflict. *)
BadgerCommit(t) ==
    /\ binding = "badger" /\ pc[t] = "commit"
    /\ ~Conflict(t)
    /\ StoreReferred(t)
    /\ UNCHANGED <<content, writer>>

(* bolt's db.Update holds the lock for writers until it has committed. *)
BoltRun(t) ==
    /\ binding = "boltdb" /\ pc[t] = "run" /\ writer = {}
    /\ RunClosure(t) /\ EncodeIntoBuffer(t)
    /\ writer' = {t}

BoltCommit(t) ==
    /\ binding = "boltdb" /\ pc[t] = "commit"
    /\ StoreReferred(t)
    /\ writer' = {}
    /\ UNCHANGED content

(* The closure given to Transact is run again after a conflict; Set copies *)
(* the row, so that the pooled buffer does not matter.                     *)
FdbRun(t) ==
    /\ binding = "foundationdb" /\ pc[t] = "run"
    /\ IF Missing(t) THEN Advance(t, "run", "run") /\ NoWrite ELSE RunClosure(t)
    /\ UNCHANGED embeddedVars

FdbCommit(t) ==
    /\ binding = "foundationdb" /\ pc[t] = "commit"
    /\ IF Conflict(t)
       THEN /\ Goto(t, "commit", "run")
            /\ NoWrite /\ UNCHANGED <<binding, ops, op>>
       ELSE Advance(t, "commit", "run") /\ Write(t, op[t].writes, {})
    /\ UNCHANGED embeddedVars

(* The closure of optimisticTx: the statements for all keys of the batch,  *)
(* of which the first takes the lock.                                      *)
SqliteRun(t) ==
    LET values == op[t].values
    IN /\ binding = "sqlite" /\ writer = {}
       /\ Goto(t, "run", "commit")
       /\ op' = [op EXCEPT ![t].writes =
                    [k \in DOMAIN values |-> Effect(op[t].how, store[k], values[k])]]
       /\ writer' = {t}
       /\ NoWrite /\ UNCHANGED <<binding, ops, content, entry>>

SqliteCommit(t) ==
    /\ binding = "sqlite"
    /\ Goto(t, "commit", "idle")
    /\ Write(t, op[t].writes, {})
    /\ Tell(t, Blank, DOMAIN op[t].writes)
    /\ writer' = {}
    /\ UNCHANGED <<binding, ops, content, entry>>

(* A Commit that finds readers is rolled back, and the closure run again. *)
SqliteBusy(t) ==
    /\ binding = "sqlite"
    /\ Goto(t, "commit", "run")
    /\ op' = [op EXCEPT ![t].writes = << >>]
    /\ writer' = {}
    /\ NoWrite /\ UNCHANGED <<binding, ops, content, entry>>

(* A missing row, a conflict, or any other error ends the operation with a *)
(* rollback; for SQLite also a statement that finds the lock taken.        *)
TransactionFails(t) ==
    /\ binding \in {"badger", "boltdb", "foundationdb", "sqlite"}
    /\ pc[t] \in {"run", "commit"}
    /\ Finish(t)
    /\ entry' = [entry EXCEPT ![t] = "none"]
    /\ writer' = writer \ {t}
    /\ UNCHANGED content

EmbeddedStep(t) ==
    \/ /\ pc[t] = "idle"
       /\ \E keys \in KeySets :
            \/ BadgerInsert(t, keys) \/ BadgerDelete(t, keys)
            \/ BoltInsert(t, keys) \/ BoltDelete(t, keys)
            \/ FdbInsert(t, keys) \/ FdbDelete(t, keys)
            \/ RocksInsert(t, keys) \/ RocksDelete(t, keys)
            \/ SqliteInsert(t, keys) \/ SqliteDelete(t, keys)
            \/ \E f \in SomeFields :
                \/ BadgerUpdate(t, keys, f) \/ BoltUpdate(t, keys, f)
                \/ FdbUpdate(t, keys, f) \/ RocksUpdate(t, keys, f)
                \/ SqliteUpdate(t, keys, f)
       /\ UNCHANGED embeddedVars
    \/ BadgerRun(t) \/ BadgerCommit(t) \/ BoltRun(t) \/ BoltCommit(t)
    \/ FdbRun(t) \/ FdbCommit(t)
    \/ SqliteRun(t) \/ SqliteCommit(t) \/ SqliteBusy(t) \/ TransactionFails(t)

-----------------------------------------------------------------------------
(* Read and Scan, in one transaction or call each. *)

BadgerRead(row, fields) == Select(row, fields)
BoltRead(row, fields) == Select(row, fields)
RocksRead(row, fields) == Select(row, fields)
FdbRead(row, fields) == Select(row, fields)
SqliteRead(row, fields) == Select(row, fields)

BadgerScan(start, count) == {Padded(FirstOf(count, From(start)), count)}
BoltScan(start, count) == {Padded(FirstOf(count, From(start)), count)}
RocksScan(start, count) == {Padded(FirstOf(count, From(start)), count)}

(* Mutant: the range begins after the start key. *)
FdbScanAfter(start, count) == {FirstOf(count, From(start + 1))}
FdbScan(start, count) == {FirstOf(count, From(start))}
SqliteScan(start, count) == AnyOf(count, From(start))
=============================================================================
