-------------------------- MODULE BindingsInvariant -------------------------
(***************************************************************************)
(* The inductive invariant of Bindings: for every binding and every point  *)
(* an operation can be at, why the write to come does to the table what    *)
(* the operation is to do.  BindingsProofs shows that it always holds.     *)
(***************************************************************************)
EXTENDS Bindings

Parts == {"kind", "how", "values", "writes", "row", "start", "cursor", "count",
          "page", "more", "out", "began", "since"}

(* What the caller passed for one key or more. *)
Batches == UNION {[keys -> Rows] : keys \in (SUBSET Keys) \ {{}}}

(* The labels at which a thread of some bindings can be; the others share  *)
(* theirs.                                                                 *)
LabelOf(b, label) ==
    /\ b \in {"boltdb", "sqlite"} => label \in {"idle", "run", "commit"}
    /\ b = "redisJson" => label \in {"idle", "call", "json"}
    /\ b = "elastic" => label \in {"idle", "closing", "closed"}
    /\ label = "commit" => b \in {"txn", "badger", "foundationdb", "boltdb", "sqlite"}
    /\ label = "json" => b = "redisJson"
    /\ label = "object" => b = "minio"
    /\ label = "closing" => b = "elastic"
    /\ label \in {"cas", "apply", "count", "counted", "cleaned"} => b \in TikvModes
    /\ label \in {"clean", "cleanCommit"} => b = "txn"
    /\ label \in {"list", "page", "scanned"} => b \in {"s3", "s3Rmw"}

(* What is sent makes of a row what was asked for, whatever the row, or    *)
(* the row is truncated.                                                   *)
CallInv(o) ==
    \/ o.how = o.kind
    \/ o.kind = "replace" /\ o.how = "merge"
       /\ \A k \in DOMAIN o.values : DOMAIN o.values[k] = Fields
    \/ o.kind = "merge" /\ o.how = "replace"

(* Read-modify-write sends the merged row. *)
UpdateInv(o) == o.kind \in {"merge", "patch"} /\ o.how \in {"merge", "replace"}

(* Since the operation began from it, the row has been written or is what  *)
(* it was.                                                                 *)
Fresh(start, k, unchanged) ==
    start[k] \in Int /\ start[k] <= version[k] /\ (start[k] = version[k] => unchanged)

PutInv(t) ==
    LET o == op[t]
        k == CurrentKey(t)
    IN /\ UpdateInv(o)
       /\ o.row \in Rows /\ (o.kind = "patch" => o.row # NoRow \/ o.start[k] # version[k])
       /\ Fresh(o.start, k, o.row = store[k])

(* The rows of a batch or a range are written as they were given. *)
ApplyInv(o) ==
    /\ o.kind \in {"replace", "merge", "clean"}
    /\ DOMAIN o.writes \subseteq DOMAIN o.values
    /\ \A k \in DOMAIN o.writes : o.writes[k] = o.values[k]

(* The closure of a transaction of an embedded store. *)
RunInv(b, o) ==
    /\ o.how = o.kind /\ o.kind \in {"patch", "keep", "replace"}
    /\ o.kind = "keep" => b = "sqlite"

TxnInv(o) ==
    /\ o.kind \in {"replace", "merge"}
    /\ DOMAIN o.writes \subseteq DOMAIN o.values
    /\ \A k \in DOMAIN o.writes :
         /\ o.writes[k] \in Rows
         /\ \/ o.writes[k] = o.values[k] /\ Fresh(o.start, k, TRUE)
            \/ o.kind = "merge" /\ Fresh(o.start, k, o.writes[k] = Merge(store[k], o.values[k]))

(* An optimistic transaction of one row: badger and foundationdb. *)
OptimisticInv(t) ==
    LET o == op[t]
        k == CurrentKey(t)
    IN /\ RunInv(binding, o)
       /\ DOMAIN o.writes = {k} /\ o.writes[k] \in Rows
       /\ o.kind = "replace" => o.writes[k] = o.values[k]
       /\ o.kind = "patch" =>
            Fresh(o.start, k, o.writes[k] = Effect("patch", store[k], o.values[k]))

(* One that holds the lock for writers: bolt and sqlite. *)
LockedInv(t) ==
    LET o == op[t]
    IN /\ RunInv(binding, o)
       /\ writer = {t}
       /\ CurrentKey(t) \in DOMAIN o.writes /\ DOMAIN o.writes \subseteq DOMAIN o.values
       /\ \A k \in DOMAIN o.writes : o.writes[k] = Effect(o.kind, store[k], o.values[k])

Writing == {"call", "callAll", "get", "put", "cas", "apply", "run", "commit",
            "cleanCommit", "json", "object"}

ThreadInv(t) ==
    /\ LabelOf(binding, pc[t])
    /\ pc[t] \in Writing => op[t].values \in Batches
    /\ pc[t] = "call" => CallInv(op[t])
    /\ pc[t] = "callAll" => op[t].how = op[t].kind
    /\ pc[t] = "get" => UpdateInv(op[t])
    /\ pc[t] = "put" => PutInv(t)
    /\ pc[t] = "cas" => op[t].kind = "merge" /\ op[t].how = "replace" /\ op[t].row \in Rows
    /\ pc[t] \in {"apply", "cleanCommit"} => ApplyInv(op[t])
    /\ pc[t] \in {"clean", "cleanCommit"} => op[t].kind = "clean"
    /\ pc[t] = "run" => RunInv(binding, op[t])
    /\ pc[t] = "commit" =>
         /\ binding = "txn" => TxnInv(op[t])
         /\ binding \in {"badger", "foundationdb"} => OptimisticInv(t)
         /\ binding \in {"boltdb", "sqlite"} => LockedInv(t)
    /\ pc[t] = "object" => op[t].kind \in {"merge", "replace"}

(* The table and its history. *)
TableInv == RowTypeOK /\ NoLostUpdate

(* The records of the threads have their parts. *)
ShapeInv ==
    /\ DOMAIN pc = Threads /\ DOMAIN op = Threads
    /\ \A t \in Threads : DOMAIN op[t] = Parts

(* While Create runs, no thread has begun. *)
SetupInv ==
    /\ Started => Created
    /\ ~Started => queue = {} /\ \A t \in Threads : pc[t] = "idle"

(* The buffers and references of the embedded stores. *)
EmbeddedInv ==
    /\ content \in [Buffers -> Rows] /\ entry \in [Threads -> Buffers \cup {"none"}]
    /\ writer = {} \/ \E t \in Threads : writer = {t}

(* The queued items of a key lead, one after the other, from the row the   *)
(* server has to the one it should have in the end.                        *)
Queued(k) == {item \in queue : item.key = k}

Leads(k, n, items, rows) ==
    /\ rows[0] = store[k] /\ rows[n] = ideal[k]
    /\ \A i \in 1..n : rows[i] = Document(items[i], rows[i - 1])
    /\ \A i, j \in 1..n : i < j => items[i].number < items[j].number
    /\ \A item \in Queued(k) : \E i \in 1..n : items[i] = item

Chain(k) ==
    \E n \in Nat : \E items \in [1..n -> Queued(k)], rows \in [0..n -> Rows] :
        Leads(k, n, items, rows)

ElasticInv ==
    /\ closers \subseteq Threads /\ panicked \subseteq Threads
    /\ binding # "elastic" => queue = {}
    /\ binding = "elastic" =>
         /\ \A item \in queue : /\ item.key \in Keys /\ item.row \in Rows
                                /\ item.number \in Nat /\ item.number <= ops
         /\ \A k \in Keys \ spoilt : Chain(k)

(* The inductive invariant. *)
Inv ==
    /\ TableInv /\ ShapeInv /\ CacheTypeOK /\ DOMAIN cache = Threads
    /\ EmbeddedInv /\ SetupInv /\ ElasticInv
    /\ \A t \in Threads : ThreadInv(t)
=============================================================================
