-------------------------------- MODULE Tikv --------------------------------
(***************************************************************************)
(* The TiKV binding, db/tikv/raw.go and db/tikv/txn.go: the operations of  *)
(* RowStore, one row at a time or in batches, while Count and Clean page   *)
(* through the same table.                                                 *)
(*                                                                         *)
(* tikvCreator.Create chooses one of the modes: raw with getput updates,   *)
(* raw with compare-and-swap updates, or transactions.                     *)
(***************************************************************************)
EXTENDS RowStore

CONSTANT
    BatchSize   \* batchSize of Count and Clean, 10000 in the code

ASSUME TikvAssumption == BatchSize \in Nat \ {0}

VARIABLE
    cache       \* rawDBState: the key and row of the thread's last Read

TikvModes == {"getput", "cas", "txn"}
Raw == binding \in {"getput", "cas"}
Txn == binding = "txn"

TikvInit == cache = [t \in Threads |-> [key |-> 0, row |-> NoRow]]

-----------------------------------------------------------------------------
(* rawDB: each step that touches the store is one call of the raw client. *)

(* Mutant: every mode caches what it reads. *)
RawReadAlwaysCaches(t, k) ==
    /\ Raw
    /\ Begin(t, "idle", Blank)
    /\ cache' = [cache EXCEPT ![t] = [key |-> k, row |-> store[k]]]
    /\ NoWrite

RawRead(t, k) ==
    /\ Raw
    /\ Begin(t, "idle", Blank)
    /\ cache' = [cache EXCEPT ![t] = IF binding = "cas" /\ store[k] # NoRow
                                     THEN [key |-> k, row |-> store[k]] ELSE @]
    /\ NoWrite

RawUpdate(t, k, fields) ==
    LET locals == [Blank EXCEPT !.kind = "merge", !.how = "replace",
                                !.values = For({k}, Row(ops + 1, fields))]
        hit == binding = "cas" /\ cache[t].key = k
    IN /\ Raw
       /\ Begin(t, IF hit THEN "cas" ELSE "get",
                IF hit THEN [locals EXCEPT !.row = cache[t].row] ELSE locals)
       /\ cache' = [cache EXCEPT ![t] = IF hit THEN [key |-> 0, row |-> NoRow] ELSE @]
       /\ NoWrite

(* Mutant: the row is not compared. *)
CompareAndSwapBlind(t) ==
    LET k == CurrentKey(t)
    IN /\ Goto(t, "cas", "idle")
       /\ Write(t, For({k}, Merge(op[t].row, op[t].values[k])), {})
       /\ Tell(t, Blank, {k})
       /\ UNCHANGED <<binding, ops>>

CompareAndSwap(t) ==
    LET k == CurrentKey(t)
    IN /\ pc[t] = "cas"
       /\ IF store[k] = op[t].row
          THEN /\ Goto(t, "cas", "idle")
               /\ Write(t, For({k}, Merge(op[t].row, op[t].values[k])), {})
               /\ Tell(t, Blank, {k})
          ELSE Goto(t, "cas", "get") /\ NoWrite /\ UNCHANGED op
       /\ UNCHANGED <<binding, ops>>

RawWrite(t, kind, values) ==
    /\ Raw
    /\ Begin(t, "apply", [Blank EXCEPT !.kind = kind, !.values = values, !.writes = values])
    /\ NoWrite

RawInsert(t, k) == RawWrite(t, "replace", For({k}, Row(ops + 1, Fields)))
RawDelete(t, k) == RawWrite(t, "replace", For({k}, NoRow))
RawBatchInsert(t) == RawWrite(t, "replace", For(Keys, Row(ops + 1, Fields)))
RawBatchDelete(t) == RawWrite(t, "replace", For(Keys, NoRow))
RawBatchUpdate(t, fields) == RawWrite(t, "merge", For(Keys, Row(ops + 1, fields)))

(* DeleteRange over the table's prefix. *)
RawClean(t) ==
    LET gone == For(Keys, NoRow)
    IN /\ Raw
       /\ Begin(t, "apply", [Blank EXCEPT !.kind = "clean", !.began = Present,
                                          !.values = gone, !.writes = gone])
       /\ NoWrite

(* The regions of a batch or a range are written one after the other. *)
Apply(t, k) ==
    LET rest == [j \in DOMAIN op[t].writes \ {k} |-> op[t].writes[j]]
        done == DOMAIN rest = {}
        clean == op[t].kind = "clean"
    IN /\ k \in DOMAIN op[t].writes
       /\ Goto(t, "apply", IF ~done THEN "apply" ELSE IF clean THEN "cleaned" ELSE "idle")
       /\ Write(t, For({k}, op[t].writes[k]), Truncated(t, op[t].writes) \cap {k})
       /\ Tell(t, IF done /\ ~clean THEN Blank ELSE [op[t] EXCEPT !.writes = rest], {k})
       /\ UNCHANGED <<binding, ops>>

-----------------------------------------------------------------------------
(* txnDB: a transaction reads the store as it was at Begin; Commit stores  *)
(* its writes at once, unless one of their keys was committed in between.  *)

TxnWrite(t, kind, values, writes) ==
    /\ Txn
    /\ Begin(t, "commit", [Blank EXCEPT !.kind = kind, !.values = values,
                                        !.writes = writes, !.start = version])
    /\ NoWrite

TxnPut(t, kind, values) == TxnWrite(t, kind, values, values)
TxnInsert(t, k) == TxnPut(t, "replace", For({k}, Row(ops + 1, Fields)))
TxnDelete(t, k) == TxnPut(t, "replace", For({k}, NoRow))
TxnBatchInsert(t) == TxnPut(t, "replace", For(Keys, Row(ops + 1, Fields)))
TxnBatchDelete(t) == TxnPut(t, "replace", For(Keys, NoRow))
TxnBatchUpdate(t, fields) == TxnPut(t, "merge", For(Keys, Row(ops + 1, fields)))

(* Update of a missing row returns without a write. *)
TxnUpdate(t, k, fields) ==
    LET values == For({k}, Row(ops + 1, fields))
    IN /\ store[k] # NoRow
       /\ TxnWrite(t, "merge", values, For({k}, Merge(store[k], values[k])))

NoConflict(t) == \A k \in DOMAIN op[t].writes : version[k] = op[t].start[k]

Commit(t) ==
    /\ Txn
    /\ Goto(t, "commit", "idle")
    /\ IF NoConflict(t)
       THEN /\ Write(t, op[t].writes, Truncated(t, op[t].writes))
            /\ Tell(t, Blank, DOMAIN op[t].writes)
       ELSE NoWrite /\ op' = [op EXCEPT ![t] = Blank]
    /\ UNCHANGED <<binding, ops>>

-----------------------------------------------------------------------------
(* Count and Clean page through the table, BatchSize keys at a time. *)

(* The first BatchSize keys of S from the cursor on. *)
Batch(S, cursor) ==
    {k \in S : k >= cursor /\ Cardinality({j \in S : cursor <= j /\ j < k}) < BatchSize}

(* Mutant: a key too far. *)
AfterSkips(batch, cursor) == IF batch = {} THEN cursor ELSE Max(batch) + 2
(* startKey after a batch: the last key of it and a zero byte. *)
After(batch, cursor) == IF batch = {} THEN cursor ELSE Max(batch) + 1

CountBegin(t) ==
    /\ binding \in TikvModes
    /\ Begin(t, "count", [Blank EXCEPT !.kind = "count", !.began = Present])
    /\ NoWrite

(* One Scan of the raw client, or one iterator over the transaction's      *)
(* snapshot, which is the table as it was when Count began.                *)
CountBatch(t) ==
    LET batch == Batch(IF Txn THEN op[t].began ELSE Present, op[t].cursor)
    IN /\ Goto(t, "count", IF Cardinality(batch) < BatchSize THEN "counted" ELSE "count")
       /\ op' = [op EXCEPT ![t].count = @ + Cardinality(batch),
                           ![t].cursor = After(batch, @)]
       /\ NoWrite /\ UNCHANGED <<binding, ops>>

TxnClean(t) ==
    /\ Txn
    /\ Begin(t, "clean", [Blank EXCEPT !.kind = "clean", !.began = Present])
    /\ NoWrite

(* Each batch is a transaction of its own. *)
CleanBatch(t) ==
    LET batch == Batch(Present, op[t].cursor)
        gone == For(batch, NoRow)
    IN /\ Goto(t, "clean", IF batch = {} THEN "cleaned" ELSE "cleanCommit")
       /\ op' = [op EXCEPT ![t].values = gone, ![t].writes = gone, ![t].start = version]
       /\ NoWrite /\ UNCHANGED <<binding, ops>>

(* A conflict ends Clean with the error; what was deleted stays deleted. *)
CleanCommit(t) ==
    LET batch == DOMAIN op[t].writes
    IN /\ pc[t] = "cleanCommit"
       /\ IF NoConflict(t)
          THEN /\ Goto(t, "cleanCommit",
                       IF Cardinality(batch) < BatchSize THEN "cleaned" ELSE "clean")
               /\ Write(t, op[t].writes, {})
               /\ Tell(t, [op[t] EXCEPT !.cursor = After(batch, @), !.writes = << >>], batch)
          ELSE /\ Goto(t, "cleanCommit", "idle")
               /\ NoWrite /\ op' = [op EXCEPT ![t] = Blank]
       /\ UNCHANGED <<binding, ops>>

Return(t) ==
    /\ pc[t] \in {"counted", "cleaned"}
    /\ Finish(t)

TikvCallFails(t) ==
    /\ binding \in TikvModes
    /\ pc[t] \in {"cas", "apply", "commit", "count", "clean", "cleanCommit"}
    /\ Finish(t)

-----------------------------------------------------------------------------
RawStep(t) ==
    \/ CompareAndSwap(t)
    \/ \E k \in Keys : RawInsert(t, k) \/ RawDelete(t, k) \/ Apply(t, k)
    \/ RawBatchInsert(t) \/ RawBatchDelete(t) \/ RawClean(t)
    \/ \E f \in SomeFields : RawBatchUpdate(t, f)

TxnStep(t) ==
    \/ \E k \in Keys : TxnInsert(t, k) \/ TxnDelete(t, k)
    \/ TxnBatchInsert(t) \/ TxnBatchDelete(t)
    \/ \E f \in SomeFields : TxnBatchUpdate(t, f)
    \/ \E k \in Keys, f \in SomeFields : TxnUpdate(t, k, f)
    \/ Commit(t)
    \/ TxnClean(t) \/ CleanBatch(t) \/ CleanCommit(t)

TikvStep(t) ==
    \/ \E k \in Keys : RawRead(t, k)
    \/ \E k \in Keys, f \in SomeFields : RawUpdate(t, k, f)
    \/ /\ \/ RawStep(t) \/ TxnStep(t)
          \/ CountBegin(t) \/ CountBatch(t) \/ Return(t) \/ TikvCallFails(t)
       /\ UNCHANGED cache

(* Read and Scan are one call, or one transaction that reads only. *)
TikvRead(row, fields) == Select(row, fields)
TikvScan(start, count) == {FirstOf(count, From(start))}

-----------------------------------------------------------------------------
(* Type correctness of the per-thread state of rawDBState; in particular   *)
(* only CAS mode ever caches a row.                                        *)
CacheTypeOK ==
    \A t \in Threads :
        /\ cache[t] \in [key : 0..MaxKey, row : Rows]
        /\ cache[t].key # 0 => binding = "cas" /\ cache[t].row # NoRow

(* What Count returns while the table changes: every key that was there    *)
(* when it began and was left alone is counted, no key is counted twice,   *)
(* and in a transaction the answer is that of one moment, exactly.         *)
CountIsBetween ==
    \A t \in Threads : pc[t] = "counted" =>
        /\ op[t].count >= Cardinality(op[t].began \ op[t].since)
        /\ op[t].count <= Cardinality(op[t].began \cup op[t].since)
        /\ Txn => op[t].count = Cardinality(op[t].began)

(* When Clean reports success no row is left but those other threads wrote *)
(* after it began, whatever number of batches it took.                     *)
CleanLeavesNothing ==
    \A t \in Threads : pc[t] = "cleaned" => Present \subseteq op[t].since
=============================================================================
