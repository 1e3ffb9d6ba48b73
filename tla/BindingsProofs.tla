--------------------------- MODULE BindingsProofs ---------------------------
(***************************************************************************)
(* For any number of threads, keys, fields and operations, in every        *)
(* binding: no update is lost but where the code leaves it open.           *)
(***************************************************************************)
EXTENDS BindingsInvariant, FiniteSetTheorems, TLAPS

\* Leaves are left to Zenon; those with arithmetic or functions cite SMT.
USE Zenon

-----------------------------------------------------------------------------
(* Rows, as what DecodeRow and EncodeRow make of them. *)

(* A row has some of the fields. *)
LEMMA RowsAre ==
    ASSUME NEW r \in Rows
    PROVE  DOMAIN r \in SUBSET Fields /\ r \in [DOMAIN r -> 0..MaxOps]
  BY DEF Rows

(* Any of the fields make a row. *)
LEMMA AreRows ==
    ASSUME NEW d \in SUBSET Fields, NEW r \in [d -> 0..MaxOps]
    PROVE  r \in Rows
  BY DEF Rows

(* The empty row is one. *)
LEMMA NoRowIsRow == NoRow \in Rows
<1>1. NoRow \in [{} -> 0..MaxOps]
  BY SMT DEF NoRow
<1> QED
  BY <1>1, AreRows

(* What an operation writes is a row. *)
LEMMA RowIsRow ==
    ASSUME NEW n \in 0..MaxOps, NEW fields \in SUBSET Fields
    PROVE  Row(n, fields) \in Rows /\ DOMAIN Row(n, fields) = fields
<1>1. Row(n, fields) \in [fields -> 0..MaxOps]
  BY DEF Row
<1> QED
  BY <1>1, AreRows

(* Overlaying a row with another gives a row, ... *)
LEMMA MergeRow ==
    ASSUME NEW a \in Rows, NEW b \in Rows
    PROVE  Merge(a, b) \in Rows /\ DOMAIN Merge(a, b) = DOMAIN a \cup DOMAIN b
<1>1. Merge(a, b) \in [DOMAIN b \cup DOMAIN a -> 0..MaxOps]
  BY RowsAre, SMT DEF Merge
<1>2. DOMAIN b \cup DOMAIN a \in SUBSET Fields
  BY RowsAre
<1> QED
  BY <1>1, <1>2, AreRows, SMT

(* ... which is the new one if that has all the fields, ... *)
LEMMA MergeWhole ==
    ASSUME NEW a \in Rows, NEW b \in Rows, DOMAIN b = Fields
    PROVE  Merge(a, b) = b
<1>1. DOMAIN b \cup DOMAIN a = DOMAIN b /\ b \in [DOMAIN b -> 0..MaxOps]
  BY RowsAre
<1>2. Merge(a, b) = [f \in DOMAIN b |-> b[f]]
  BY <1>1, SMT DEF Merge
<1> QED
  BY <1>1, <1>2, SMT

(* ... and the same when done twice. *)
LEMMA MergeTwice ==
    ASSUME NEW a \in Rows, NEW b \in Rows
    PROVE  Merge(a, Merge(a, b)) = Merge(a, b)
<1>1. DOMAIN Merge(a, b) = DOMAIN b \cup DOMAIN a
  BY DEF Merge
<1>2. DOMAIN Merge(a, Merge(a, b)) = DOMAIN b \cup DOMAIN a
  BY <1>1 DEF Merge
<1>3. \A f \in DOMAIN b \cup DOMAIN a : Merge(a, Merge(a, b))[f] = Merge(a, b)[f]
  BY <1>1, SMT DEF Merge
<1>4. /\ Merge(a, b) = [f \in DOMAIN b \cup DOMAIN a |-> Merge(a, b)[f]]
      /\ Merge(a, Merge(a, b)) = [f \in DOMAIN b \cup DOMAIN a |-> Merge(a, Merge(a, b))[f]]
  BY <1>1, <1>2, SMT DEF Merge
<1> QED
  BY <1>3, <1>4

(* The call of an operation makes a row of a row. *)
LEMMA EffectRow ==
    ASSUME NEW kind, NEW a \in Rows, NEW b \in Rows
    PROVE  Effect(kind, a, b) \in Rows
  BY MergeRow, NoRowIsRow DEF Effect

-----------------------------------------------------------------------------
(* A set of keys has a least one. *)
LEMMA LeastKey ==
    ASSUME NEW keys \in SUBSET Keys, keys # {}
    PROVE  Min(keys) \in keys
<1>1. keys \subseteq Nat
  BY RowStoreAssumption, SMT DEF Keys
<1>2. \E n \in keys : \A m \in keys : ~(<<m, n>> \in OpToRel(<, Nat))
  BY <1>1, NatLessThanWellFounded, WFMin
<1>3. \A m, n \in Nat : m < n => <<m, n>> \in OpToRel(<, Nat)
  BY DEF OpToRel
<1>4. \A m, n \in keys : ~(m < n) => n <= m
  BY <1>1, SMT
<1>5. \E n \in keys : \A m \in keys : n <= m
  BY <1>1, <1>2, <1>3, <1>4
<1> QED
  BY <1>5 DEF Min

(* The loop of an operation has a current key until it is done. *)
LEMMA CurrentIn ==
    ASSUME NEW t, op[t].values \in Batches
    PROVE  /\ CurrentKey(t) \in DOMAIN op[t].values /\ CurrentKey(t) \in Keys
           /\ DOMAIN op[t].values \subseteq Keys
           /\ \A k \in DOMAIN op[t].values : op[t].values[k] \in Rows
<1>1. PICK keys \in (SUBSET Keys) \ {{}} : op[t].values \in [keys -> Rows]
  BY DEF Batches
<1> QED
  BY <1>1, LeastKey DEF CurrentKey

(* A row that changes gets a new version. *)
Grows ==
    \A k \in Keys : \/ version'[k] > version[k]
                    \/ version'[k] = version[k] /\ store'[k] = store[k]

(* The effect of a write on the table: where it is not excused it has to   *)
(* be what the operation is to make of the row.                            *)
LEMMA WriteInv ==
    ASSUME NEW t \in Threads, TableInv, op[t].values \in Batches,
           NEW changed, NEW lossy, Write(t, changed, lossy),
           DOMAIN changed \subseteq DOMAIN op[t].values,
           \A k \in DOMAIN changed : changed[k] \in Rows,
           \A k \in DOMAIN changed \ lossy :
               changed[k] = Effect(op[t].kind, store[k], op[t].values[k]),
           binding' = binding, ops' \in Nat
    PROVE  TableInv' /\ Grows
<1>0. /\ store \in [Keys -> Rows] /\ ideal \in [Keys -> Rows] /\ version \in [Keys -> Nat]
      /\ binding' \in Bindings
  BY DEF TableInv, RowTypeOK
<1>1. /\ store' = [k \in Keys |-> IF k \in DOMAIN changed THEN changed[k] ELSE store[k]]
      /\ version' = [k \in Keys |-> version[k] + (IF k \in DOMAIN changed THEN 1 ELSE 0)]
      /\ ideal' = [k \in Keys |-> IF k \in DOMAIN changed
                                  THEN Effect(op[t].kind, ideal[k], op[t].values[k])
                                  ELSE ideal[k]]
      /\ excused' = [k \in Keys |->
            \/ k \in lossy
            \/ excused[k] /\ ~(/\ op[t].kind \notin {"merge", "patch", "keep"}
                               /\ k \in DOMAIN changed)]
  BY DEF Write
<1>2. store' \in [Keys -> Rows]
  BY <1>0, <1>1
<1>3. version' \in [Keys -> Nat]
  BY <1>0, <1>1, SMT
<1>4. ideal' \in [Keys -> Rows]
  <2> SUFFICES ASSUME NEW k \in Keys, k \in DOMAIN changed
               PROVE  Effect(op[t].kind, ideal[k], op[t].values[k]) \in Rows
    BY <1>0, <1>1
  <2> QED
    BY <1>0, EffectRow, CurrentIn
<1>5. excused' \in [Keys -> BOOLEAN]
  BY <1>1
<1>6. NoLostUpdate'
  <2> SUFFICES ASSUME NEW k \in Keys, ~excused'[k] PROVE store'[k] = ideal'[k]
    BY DEF NoLostUpdate
  <2>1. CASE k \notin DOMAIN changed
    BY <1>1, <2>1 DEF TableInv, NoLostUpdate
  <2>2. CASE k \in DOMAIN changed
    <3>1. /\ k \notin lossy
          /\ ~excused[k] \/ op[t].kind \notin {"merge", "patch", "keep"}
      BY <1>1, <2>2
    <3>2. /\ store'[k] = Effect(op[t].kind, store[k], op[t].values[k])
          /\ ideal'[k] = Effect(op[t].kind, ideal[k], op[t].values[k])
      BY <1>1, <2>2, <3>1
    <3>3. CASE ~excused[k]
      BY <3>2, <3>3 DEF TableInv, NoLostUpdate
    <3>4. CASE op[t].kind \notin {"merge", "patch", "keep"}
      <4>1. \A row : Effect(op[t].kind, row, op[t].values[k]) = op[t].values[k]
        BY <3>4 DEF Effect
      <4> QED
        BY <3>2, <4>1
    <3> QED
      BY <3>1, <3>3, <3>4
  <2> QED
    BY <2>1, <2>2
<1>7. Grows
  BY <1>0, <1>1, SMT DEF Grows
<1> QED
  BY <1>0, <1>2, <1>3, <1>4, <1>5, <1>6, <1>7 DEF TableInv, RowTypeOK

(* A step without a write. *)
LEMMA NoWriteInv ==
    ASSUME TableInv, NoWrite, binding' = binding, ops' \in Nat
    PROVE  TableInv' /\ Grows
<1>1. TableInv'
  BY DEF TableInv, RowTypeOK, NoLostUpdate, NoWrite
<1>2. Grows
  BY DEF Grows, NoWrite
<1> QED
  BY <1>1, <1>2

-----------------------------------------------------------------------------
(* What a step of one thread does to the operations of the others. *)

SameOp(a, b) ==
    /\ a.kind = b.kind /\ a.how = b.how /\ a.values = b.values
    /\ a.writes = b.writes /\ a.row = b.row /\ a.start = b.start

Others(t) ==
    \A u \in Threads : u # t => pc'[u] = pc[u] /\ SameOp(op'[u], op[u])

(* The lock for writers of bolt and sqlite keeps the table as it is. *)
LockKept(t) ==
    binding \in {"boltdb", "sqlite"} =>
        \A u \in Threads : u # t /\ writer = {u} => writer' = {u} /\ store' = store

(* What was read stays fresh, or its version tells that it is not. *)
LEMMA FreshStays ==
    ASSUME TableInv, version' \in [Keys -> Nat], Grows,
           NEW start, NEW k \in Keys, NEW P, NEW Q, Fresh(start, k, P),
           store'[k] = store[k] /\ P => Q
    PROVE  start[k] \in Int /\ start[k] <= version'[k] /\ (start[k] = version'[k] => Q)
<1>1. version[k] \in Nat /\ version'[k] \in Nat
  BY DEF TableInv, RowTypeOK
<1>2. start[k] \in Int /\ start[k] <= version[k] /\ (start[k] = version[k] => P)
  BY DEF Fresh
<1>3. CASE version'[k] > version[k]
  BY <1>1, <1>2, <1>3, SMT
<1>4. CASE version'[k] = version[k] /\ store'[k] = store[k]
  BY <1>1, <1>2, <1>4
<1> QED
  BY <1>3, <1>4 DEF Grows

(* The row that Update has read, until it is stored. *)
LEMMA PutStays ==
    ASSUME TableInv, TableInv', Grows, NEW u \in Threads,
           op[u].values \in Batches, SameOp(op'[u], op[u]), PutInv(u)
    PROVE  PutInv(u)'
<1> DEFINE o == op[u]
           k == CurrentKey(u)
<1>1. CurrentKey(u)' = k /\ k \in Keys
  BY CurrentIn DEF SameOp, CurrentKey
<1>2. UpdateInv(o) /\ o.row \in Rows /\ Fresh(o.start, k, o.row = store[k])
  BY DEF PutInv
<1>3. /\ o.start[k] \in Int /\ o.start[k] <= version'[k]
      /\ o.start[k] = version'[k] => o.row = store'[k]
  <2>1. version' \in [Keys -> Nat]
    BY DEF TableInv, RowTypeOK
  <2> QED
    BY <1>1, <1>2, <2>1, FreshStays
<1>4. o.kind = "patch" => o.row # NoRow \/ o.start[k] # version'[k]
  <2>1. o.kind = "patch" => o.row # NoRow \/ o.start[k] # version[k]
    BY DEF PutInv
  <2>2. version[k] \in Nat /\ version'[k] \in Nat
    BY <1>1 DEF TableInv, RowTypeOK
  <2>3. o.start[k] # version[k] => o.start[k] # version'[k]
    BY <1>1, <1>2, <2>2, SMT DEF Fresh, Grows
  <2> QED
    BY <2>1, <2>3
<1> HIDE DEF k
<1> QED
  BY <1>1, <1>2, <1>3, <1>4 DEF PutInv, UpdateInv, SameOp, Fresh

(* The writes of an open transaction of txnDB. *)
LEMMA TxnStays ==
    ASSUME TableInv, TableInv', Grows, NEW u \in Threads,
           op[u].values \in Batches, SameOp(op'[u], op[u]), TxnInv(op[u])
    PROVE  TxnInv(op[u])'
<1> DEFINE o == op[u]
<1>0. version' \in [Keys -> Nat]
  BY DEF TableInv, RowTypeOK
<1>1. ASSUME NEW k \in DOMAIN o.writes, o.writes[k] = o.values[k], Fresh(o.start, k, TRUE)
      PROVE  Fresh(o.start, k, TRUE)'
  <2>1. k \in Keys
    BY <1>1, CurrentIn DEF TxnInv
  <2>2. o.start[k] \in Int /\ o.start[k] <= version'[k]
    BY ONLY TableInv, <1>0, Grows, <2>1, <1>1, FreshStays
  <2> QED
    BY <2>2 DEF Fresh, SameOp
<1>2. ASSUME NEW k \in DOMAIN o.writes,
             Fresh(o.start, k, o.writes[k] = Merge(store[k], o.values[k]))
      PROVE  Fresh(o.start, k, o.writes[k] = Merge(store[k], o.values[k]))'
  <2>1. k \in Keys
    BY <1>2, CurrentIn DEF TxnInv
  <2>2. /\ o.start[k] \in Int /\ o.start[k] <= version'[k]
        /\ o.start[k] = version'[k] => o.writes[k] = Merge(store'[k], o.values[k])
    BY ONLY TableInv, <1>0, Grows, <2>1, <1>2, FreshStays
  <2> QED
    BY <2>2 DEF Fresh, SameOp
<1> QED
  BY <1>1, <1>2 DEF TxnInv, SameOp

(* Those of badger and foundationdb. *)
LEMMA OptimisticStays ==
    ASSUME TableInv, TableInv', Grows, NEW u \in Threads, binding' = binding,
           op[u].values \in Batches, SameOp(op'[u], op[u]), OptimisticInv(u)
    PROVE  OptimisticInv(u)'
<1> DEFINE o == op[u]
           k == CurrentKey(u)
<1>0. version' \in [Keys -> Nat]
  BY DEF TableInv, RowTypeOK
<1>1. CurrentKey(u)' = k /\ k \in Keys
  BY CurrentIn DEF SameOp, CurrentKey
<1>2. ASSUME o.kind = "patch"
      PROVE  /\ o.start[k] \in Int /\ o.start[k] <= version'[k]
             /\ o.start[k] = version'[k] =>
                  o.writes[k] = Effect("patch", store'[k], o.values[k])
  <2>1. Fresh(o.start, k, o.writes[k] = Effect("patch", store[k], o.values[k]))
    BY <1>2 DEF OptimisticInv
  <2> QED
    BY ONLY TableInv, <1>0, Grows, <1>1, <2>1, FreshStays
<1> HIDE DEF k
<1> QED
  BY <1>1, <1>2 DEF OptimisticInv, SameOp, Fresh, RunInv, k

(* Those of bolt and sqlite, while the table is locked. *)
LEMMA LockedStays ==
    ASSUME NEW u \in Threads, binding' = binding, writer' = {u}, store' = store,
           SameOp(op'[u], op[u]), LockedInv(u)
    PROVE  LockedInv(u)'
<1>1. CurrentKey(u)' = CurrentKey(u)
  BY DEF SameOp, CurrentKey
<1> QED
  BY <1>1 DEF LockedInv, SameOp, RunInv

(* The invariant of a thread stays true while its operation, and what the  *)
(* lock for writers protects, stay what they are.                          *)
LEMMA SameThread ==
    ASSUME NEW u \in Threads, TableInv, TableInv', pc'[u] = pc[u], SameOp(op'[u], op[u]),
           binding \in {"boltdb", "sqlite"} /\ writer = {u} => writer' = {u} /\ store' = store,
           binding' = binding, Grows \/ binding = "redisJson", ThreadInv(u)
    PROVE  ThreadInv(u)'
<1>1. pc'[u] = pc[u] /\ SameOp(op'[u], op[u])
  OBVIOUS
<1>2. LabelOf(binding, pc[u])'
  BY <1>1 DEF ThreadInv, LabelOf
<1>3. pc[u] \in Writing => op'[u].values \in Batches
  BY <1>1 DEF ThreadInv, SameOp, Writing
<1>4. pc[u] = "call" => CallInv(op[u])'
  BY <1>1 DEF ThreadInv, SameOp, CallInv
<1>5. pc[u] \in {"get", "callAll", "cas", "object", "clean", "cleanCommit"} =>
        /\ op'[u].kind = op[u].kind /\ op'[u].how = op[u].how /\ op'[u].row = op[u].row
        /\ UpdateInv(op[u]) => UpdateInv(op[u])'
  BY <1>1 DEF SameOp, UpdateInv
<1>6. pc[u] = "put" => PutInv(u)'
  <2> HAVE pc[u] = "put"
  <2>1. binding # "redisJson" /\ op[u].values \in Batches /\ PutInv(u)
    BY DEF ThreadInv, LabelOf, Writing
  <2> QED
    BY <1>1, <2>1, PutStays
<1>7. pc[u] \in {"apply", "cleanCommit"} => ApplyInv(op[u])'
  BY <1>1 DEF ThreadInv, SameOp, ApplyInv
<1>8. pc[u] = "run" => RunInv(binding, op[u])'
  BY <1>1 DEF ThreadInv, SameOp, RunInv
<1>9. pc[u] = "commit" =>
        /\ binding = "txn" => TxnInv(op[u])'
        /\ binding \in {"badger", "foundationdb"} => OptimisticInv(u)'
        /\ binding \in {"boltdb", "sqlite"} => LockedInv(u)'
  <2> HAVE pc[u] = "commit"
  <2>0. binding # "redisJson" /\ op[u].values \in Batches
    BY DEF ThreadInv, LabelOf, Writing
  <2>1. CASE binding = "txn"
    BY <1>1, <2>0, <2>1, TxnStays DEF ThreadInv
  <2>2. CASE binding \in {"badger", "foundationdb"}
    BY <1>1, <2>0, <2>2, OptimisticStays DEF ThreadInv
  <2>3. CASE binding \in {"boltdb", "sqlite"}
    <3>1. LockedInv(u) /\ writer' = {u} /\ store' = store
      BY <2>3 DEF ThreadInv, LockedInv
    <3> QED
      BY <1>1, <2>3, <3>1, LockedStays
  <2> QED
    BY <2>0, <2>1, <2>2, <2>3
<1>10. /\ pc[u] = "callAll" => op'[u].how = op'[u].kind
       /\ pc[u] = "get" => UpdateInv(op[u])'
       /\ pc[u] = "cas" => /\ op'[u].kind = "merge" /\ op'[u].how = "replace"
                           /\ op'[u].row \in Rows
       /\ pc[u] \in {"clean", "cleanCommit"} => op'[u].kind = "clean"
       /\ pc[u] = "object" => op'[u].kind \in {"merge", "replace"}
  BY <1>5 DEF ThreadInv
<1> QED
  BY <1>1, <1>2, <1>3, <1>4, <1>6, <1>7, <1>8, <1>9, <1>10 DEF ThreadInv

(* It holds after a step of another thread. *)
LEMMA OthersInv ==
    ASSUME NEW t \in Threads, TableInv, TableInv', Others(t), LockKept(t),
           binding' = binding, Grows \/ binding = "redisJson",
           NEW u \in Threads, u # t, ThreadInv(u)
    PROVE  ThreadInv(u)'
<1>1. pc'[u] = pc[u] /\ SameOp(op'[u], op[u])
  BY DEF Others
<1>2. binding \in {"boltdb", "sqlite"} /\ writer = {u} => writer' = {u} /\ store' = store
  BY DEF LockKept
<1> QED
  BY <1>1, <1>2, SameThread

-----------------------------------------------------------------------------
(* The records of the threads. *)

(* A thread between operations. *)
LEMMA BlankShape ==
    DOMAIN Blank = Parts /\ Blank.kind = "none"
  BY SMT DEF Blank, Parts

(* Goto and the end of an operation move one thread. *)
LEMMA GotoMoves ==
    ASSUME NEW t \in Threads, DOMAIN pc = Threads, NEW to, pc' = [pc EXCEPT ![t] = to]
    PROVE  DOMAIN pc' = Threads /\ pc'[t] = to /\ \A u \in Threads : u # t => pc'[u] = pc[u]
  OBVIOUS

(* A step changes the record of its thread, ... *)
LEMMA OwnRecord ==
    ASSUME NEW t \in Threads, ShapeInv, NEW mine, DOMAIN mine = Parts,
           op' = [op EXCEPT ![t] = mine]
    PROVE  /\ DOMAIN op' = Threads /\ op'[t] = mine
           /\ \A u \in Threads : DOMAIN op'[u] = Parts
           /\ \A u \in Threads : u # t => SameOp(op'[u], op[u])
  BY DEF ShapeInv, SameOp

(* ... and tells those that page through the table. *)
LEMMA TellRecord ==
    ASSUME NEW t \in Threads, ShapeInv, NEW mine, DOMAIN mine = Parts,
           NEW written, Tell(t, mine, written)
    PROVE  /\ DOMAIN op' = Threads /\ op'[t] = mine
           /\ \A u \in Threads : DOMAIN op'[u] = Parts
           /\ \A u \in Threads : u # t => SameOp(op'[u], op[u])
<1>1. DOMAIN op' = Threads /\ op'[t] = mine
  BY DEF Tell
<1>2. ASSUME NEW u \in Threads, u # t
      PROVE  DOMAIN op'[u] = Parts /\ SameOp(op'[u], op[u])
  <2>1. op'[u] = op[u] \/ op'[u] = [op[u] EXCEPT !.since = @ \cup written]
    BY <1>2 DEF Tell
  <2>2. DOMAIN op[u] = Parts
    BY DEF ShapeInv
  <2>3. CASE op'[u] = [op[u] EXCEPT !.since = @ \cup written]
    BY <2>2, <2>3, SMT DEF SameOp, Parts
  <2> QED
    BY <2>1, <2>2, <2>3 DEF SameOp
<1> QED
  BY <1>1, <1>2

-----------------------------------------------------------------------------
(* A step of one thread, as far as the invariant looks at it. *)

Moved(t) ==
    /\ DOMAIN pc' = Threads /\ DOMAIN op' = Threads
    /\ \A u \in Threads : DOMAIN op'[u] = Parts
    /\ Others(t)

(* A step of a binding other than elasticsearch. *)
LEMMA StepInv ==
    ASSUME NEW t \in Threads, Inv, Started, Moved(t), TableInv', Grows \/ binding = "redisJson",
           binding' = binding, ThreadInv(t)', LockKept(t),
           CacheTypeOK', DOMAIN cache' = Threads, EmbeddedInv',
           binding # "elastic", UNCHANGED elasticVars, UNCHANGED setupVars
    PROVE  Inv'
<1>1. ShapeInv'
  BY DEF Moved, ShapeInv
<1>2. \A u \in Threads : ThreadInv(u)'
  BY OthersInv DEF Inv, Moved
<1>3. SetupInv'
  BY DEF Inv, SetupInv, Started, Created, setupVars
<1>4. ElasticInv'
  BY DEF Inv, ElasticInv, elasticVars
<1> QED
  BY <1>1, <1>2, <1>3, <1>4 DEF Inv

(* One that leaves the caches and buffers of the bindings alone, and is    *)
(* not a write of a binding with a lock for writers.                       *)
LEMMA PlainInv ==
    ASSUME NEW t \in Threads, Inv, Started, Moved(t), TableInv', Grows \/ binding = "redisJson",
           binding' = binding, ThreadInv(t)',
           store' = store \/ binding \notin {"boltdb", "sqlite"},
           binding # "elastic",
           UNCHANGED <<cache, embeddedVars, elasticVars, setupVars>>
    PROVE  Inv'
<1>1. CacheTypeOK' /\ DOMAIN cache' = Threads
  BY DEF Inv, CacheTypeOK
<1>2. EmbeddedInv'
  BY DEF Inv, EmbeddedInv, embeddedVars
<1>3. LockKept(t)
  BY DEF LockKept, embeddedVars
<1> QED
  BY <1>1, <1>2, <1>3, StepInv

(* A thread that writes nothing has no more to say. *)
LEMMA IdleInv ==
    ASSUME NEW t \in Threads, LabelOf(binding, pc[t])', pc'[t] \notin Writing, pc'[t] # "clean"
    PROVE  ThreadInv(t)'
  BY DEF ThreadInv, Writing

(* The loop goes on with the keys that are left. *)
Advanced(t, from, again) ==
    /\ Moved(t) /\ pc[t] = from /\ binding' = binding /\ ops' = ops
    /\ \/ pc'[t] = "idle"
       \/ /\ pc'[t] = again /\ op'[t].values \in Batches
          /\ op'[t].kind = op[t].kind /\ op'[t].how = op[t].how
          /\ \A k \in DOMAIN op'[t].values :
               k \in DOMAIN op[t].values /\ op'[t].values[k] = op[t].values[k]

(* The end of a turn of the loop leaves a part of what the caller gave. *)
LEMMA AdvanceMoves ==
    ASSUME NEW t \in Threads, ShapeInv, op[t].values \in Batches,
           NEW from, NEW again, Advance(t, from, again)
    PROVE  Advanced(t, from, again)
<1> DEFINE left == DOMAIN op[t].values \ {CurrentKey(t)}
           next == [op[t] EXCEPT !.values = Remaining(t), !.row = NoRow, !.start = << >>]
           mine == IF Done(t) THEN Blank ELSE next
<1>1. Remaining(t) = [k \in left |-> op[t].values[k]]
  BY DEF Remaining
<1>2. DOMAIN op[t] = Parts
  BY DEF ShapeInv
<1>3. /\ DOMAIN next = Parts /\ next.kind = op[t].kind /\ next.how = op[t].how
      /\ next.values = Remaining(t)
  BY <1>2, SMT DEF Parts
<1>4. DOMAIN mine = Parts
  BY <1>3, BlankShape
<1>5. /\ Goto(t, from, IF Done(t) THEN "idle" ELSE again)
      /\ Tell(t, mine, {CurrentKey(t)})
      /\ binding' = binding /\ ops' = ops
  BY DEF Advance
<1> HIDE DEF mine
<1>6. /\ DOMAIN op' = Threads /\ op'[t] = mine
      /\ \A u \in Threads : DOMAIN op'[u] = Parts
      /\ \A u \in Threads : u # t => SameOp(op'[u], op[u])
  BY <1>4, <1>5, TellRecord
<1>7. /\ DOMAIN pc' = Threads /\ pc[t] = from
      /\ pc'[t] = IF Done(t) THEN "idle" ELSE again
      /\ \A u \in Threads : u # t => pc'[u] = pc[u]
  BY <1>5 DEF Goto, ShapeInv
<1>8. ASSUME ~Done(t)
      PROVE  /\ Remaining(t) \in Batches
             /\ \A k \in DOMAIN Remaining(t) :
                  k \in DOMAIN op[t].values /\ Remaining(t)[k] = op[t].values[k]
  <2>1. left # {}
    BY <1>1, <1>8 DEF Done
  <2>2. left \subseteq Keys /\ Remaining(t) \in [left -> Rows]
    BY <1>1, CurrentIn
  <2> QED
    BY <1>1, <2>1, <2>2 DEF Batches
<1> QED
  BY <1>3, <1>5, <1>6, <1>7, <1>8 DEF Advanced, Moved, Others, mine

(* A thread changes its own record and goes on. *)
LEMMA RecordMoves ==
    ASSUME NEW t \in Threads, ShapeInv, DOMAIN op' = Threads, DOMAIN op'[t] = Parts,
           \A u \in Threads : u # t => op'[u] = op[u],
           NEW to, pc' = [pc EXCEPT ![t] = to]
    PROVE  Moved(t) /\ pc'[t] = to
  BY DEF ShapeInv, Moved, Others, SameOp

(* The end of an operation. *)
LEMMA FinishMoves ==
    ASSUME NEW t \in Threads, ShapeInv, Finish(t)
    PROVE  Moved(t) /\ pc'[t] = "idle" /\ binding' = binding /\ ops' = ops /\ NoWrite
<1>1. op' = [op EXCEPT ![t] = Blank] /\ pc' = [pc EXCEPT ![t] = "idle"]
  BY DEF Finish
<1> QED
  BY <1>1, OwnRecord, BlankShape, GotoMoves DEF Finish, Moved, Others, ShapeInv

-----------------------------------------------------------------------------
(* The steps all bindings share. *)

(* What Exec sends to the server makes of a row what was asked for. *)
LEMMA CallEffect ==
    ASSUME NEW o, CallInv(o), NEW k \in DOMAIN o.values, NEW row \in Rows,
           o.values[k] \in Rows,
           ~(/\ o.kind = "merge" /\ Effect(o.how, row, o.values[k]) = o.values[k]
             /\ DOMAIN Effect(o.how, row, o.values[k]) # Fields)
    PROVE  Effect(o.how, row, o.values[k]) = Effect(o.kind, row, o.values[k])
<1>1. CASE o.kind = "replace" /\ o.how = "merge" /\ DOMAIN o.values[k] = Fields
  <2>1. Effect("merge", row, o.values[k]) = o.values[k]
    BY <1>1, MergeWhole DEF Effect
  <2>2. Effect("replace", row, o.values[k]) = o.values[k]
    BY DEF Effect
  <2> QED
    BY <1>1, <2>1, <2>2
<1>2. CASE o.kind = "merge" /\ o.how = "replace"
  <2>1. Effect("replace", row, o.values[k]) = o.values[k]
    BY DEF Effect
  <2>2. DOMAIN o.values[k] = Fields
    BY <1>2, <2>1
  <2>3. Effect("merge", row, o.values[k]) = o.values[k]
    BY <2>2, MergeWhole DEF Effect
  <2> QED
    BY <1>2, <2>1, <2>3
<1> QED
  BY <1>1, <1>2 DEF CallInv

(* A single operation writes one key. *)
LEMMA ForOne ==
    ASSUME NEW k, NEW row
    PROVE  DOMAIN For({k}, row) = {k} /\ For({k}, row)[k] = row
  BY DEF For

(* One call of the client library. *)
LEMMA ExecInv ==
    ASSUME NEW t \in Threads, Inv, Started, Exec(t),
           UNCHANGED <<cache, embeddedVars, elasticVars, setupVars>>
    PROVE  Inv'
<1> DEFINE k == CurrentKey(t)
           new == Effect(op[t].how, store[k], op[t].values[k])
           changed == For({k}, new)
<1>0. /\ pc[t] = "call" /\ Advance(t, "call", "call")
      /\ Write(t, changed, Truncated(t, changed))
  BY DEF Exec
<1>1. /\ TableInv /\ ShapeInv /\ LabelOf(binding, "call") /\ CallInv(op[t])
      /\ op[t].values \in Batches
  BY <1>0 DEF Inv, ThreadInv, Writing
<1>2. /\ k \in DOMAIN op[t].values /\ k \in Keys /\ op[t].values[k] \in Rows
      /\ store[k] \in Rows
  BY <1>1, CurrentIn DEF TableInv, RowTypeOK
<1>3. DOMAIN changed = {k} /\ changed[k] = new /\ new \in Rows
  BY <1>2, ForOne, EffectRow
<1>4. k \notin Truncated(t, changed) => new = Effect(op[t].kind, store[k], op[t].values[k])
  <2> HAVE k \notin Truncated(t, changed)
  <2>1. ~(op[t].kind = "merge" /\ new = op[t].values[k] /\ DOMAIN new # Fields)
    BY <1>3 DEF Truncated
  <2> QED
    BY <1>1, <1>2, <2>1, CallEffect
<1> HIDE DEF changed, new, k
<1>5. /\ Moved(t) /\ binding' = binding /\ ops' = ops
      /\ \/ pc'[t] = "idle"
         \/ /\ pc'[t] = "call" /\ op'[t].values \in Batches
            /\ op'[t].kind = op[t].kind /\ op'[t].how = op[t].how
            /\ \A j \in DOMAIN op'[t].values :
                 j \in DOMAIN op[t].values /\ op'[t].values[j] = op[t].values[j]
  <2>1. Advanced(t, "call", "call")
    BY <1>0, <1>1, AdvanceMoves
  <2> QED
    BY <2>1 DEF Advanced
<1>6. TableInv' /\ Grows
  <2>1. ops' \in Nat
    BY <1>1, <1>5 DEF TableInv, RowTypeOK
  <2> QED
    BY <1>0, <1>1, <1>2, <1>3, <1>4, <1>5, <2>1, WriteInv
<1>7. ThreadInv(t)'
  <2>1. CASE pc'[t] = "idle"
    BY <1>1, <1>5, <2>1, IdleInv DEF LabelOf, Writing
  <2>2. CASE pc'[t] = "call"
    BY <1>1, <1>5, <2>2 DEF LabelOf, ThreadInv, CallInv
  <2> QED
    BY <1>5, <2>1, <2>2
<1> QED
  BY <1>1, <1>5, <1>6, <1>7, PlainInv DEF LabelOf

(* One call for all rows of a batch. *)
LEMMA ExecAllInv ==
    ASSUME NEW t \in Threads, Inv, Started, ExecAll(t),
           UNCHANGED <<cache, embeddedVars, elasticVars, setupVars>>
    PROVE  Inv'
<1> DEFINE changed == [k \in DOMAIN op[t].values |->
                          Effect(op[t].how, store[k], op[t].values[k])]
<1>0. /\ Goto(t, "callAll", "idle") /\ Write(t, changed, {})
      /\ Tell(t, Blank, DOMAIN changed) /\ binding' = binding /\ ops' = ops
  BY DEF ExecAll
<1>1. /\ TableInv /\ ShapeInv /\ LabelOf(binding, "callAll") /\ op[t].how = op[t].kind
      /\ op[t].values \in Batches
  BY <1>0 DEF Inv, ThreadInv, Writing, Goto
<1>2. /\ DOMAIN changed = DOMAIN op[t].values
      /\ \A k \in DOMAIN changed : /\ changed[k] \in Rows
                                   /\ changed[k] = Effect(op[t].kind, store[k], op[t].values[k])
  BY <1>1, CurrentIn, EffectRow DEF TableInv, RowTypeOK
<1> HIDE DEF changed
<1>3. TableInv' /\ Grows
  <2>1. ops' \in Nat
    BY <1>0, <1>1 DEF TableInv, RowTypeOK
  <2> QED
    BY <1>0, <1>1, <1>2, <2>1, WriteInv
<1>4. Moved(t) /\ pc'[t] = "idle"
  BY <1>0, <1>1, TellRecord, BlankShape, GotoMoves DEF Goto, Moved, Others, ShapeInv
<1>5. ThreadInv(t)'
  BY <1>0, <1>1, <1>4, IdleInv DEF LabelOf, Writing
<1> QED
  BY <1>0, <1>1, <1>3, <1>4, <1>5, PlainInv DEF LabelOf

(* The read of a read-modify-write keeps the row and its version. *)
LEMMA GetRowInv ==
    ASSUME NEW t \in Threads, Inv, Started, GetRow(t),
           UNCHANGED <<cache, embeddedVars, elasticVars, setupVars>>
    PROVE  Inv'
<1> DEFINE k == CurrentKey(t)
           mine == [op[t] EXCEPT !.row = store[k], !.start = version]
<1>0. /\ Goto(t, "get", "put") /\ op' = [op EXCEPT ![t].row = store[k], ![t].start = version]
      /\ op[t].kind = "patch" => store[k] # NoRow
      /\ NoWrite /\ binding' = binding /\ ops' = ops
  BY DEF GetRow
<1>1. /\ TableInv /\ ShapeInv /\ LabelOf(binding, "get") /\ UpdateInv(op[t])
      /\ op[t].values \in Batches
  BY <1>0 DEF Inv, ThreadInv, Writing, Goto
<1>2. k \in Keys /\ store[k] \in Rows /\ version[k] \in Nat
  BY <1>1, CurrentIn DEF TableInv, RowTypeOK
<1>3. /\ DOMAIN mine = Parts /\ mine.kind = op[t].kind /\ mine.how = op[t].how
      /\ mine.values = op[t].values /\ mine.row = store[k] /\ mine.start = version
  BY <1>1, SMT DEF ShapeInv, Parts
<1>4. /\ DOMAIN op' = Threads /\ op'[t] = mine
      /\ \A u \in Threads : u # t => op'[u] = op[u]
  BY <1>0, <1>1, SMT DEF ShapeInv
<1> HIDE DEF mine
<1>5. Moved(t) /\ pc'[t] = "put" /\ op'[t] = mine
  BY <1>0, <1>1, <1>3, <1>4, RecordMoves DEF Goto
<1>6. TableInv' /\ Grows
  BY <1>0, <1>1, NoWriteInv DEF TableInv, RowTypeOK
<1>7. CurrentKey(t)' = k /\ store' = store /\ version' = version
  BY <1>0, <1>3, <1>5 DEF CurrentKey, NoWrite
<1>8. PutInv(t)'
  <2>1. version[k] \in Int /\ version[k] <= version[k]
    BY <1>2, SMT
  <2> HIDE DEF k
  <2> QED
    BY <1>0, <1>1, <1>2, <1>3, <1>5, <1>7, <2>1 DEF PutInv, UpdateInv, Fresh
<1>9. ThreadInv(t)'
  BY <1>0, <1>1, <1>3, <1>5, <1>8 DEF LabelOf, ThreadInv, Writing
<1> QED
  BY <1>0, <1>1, <1>5, <1>6, <1>7, <1>9, PlainInv DEF LabelOf

(* What is stored is the row overlaid with the values. *)
LEMMA PutEffect ==
    ASSUME NEW row \in Rows, NEW values \in Rows, NEW kind \in {"merge", "patch"},
           NEW how \in {"merge", "replace"}, kind = "patch" => row # NoRow
    PROVE  Effect(how, row, Merge(row, values)) = Effect(kind, row, values)
<1>1. Effect(kind, row, values) = Merge(row, values)
  BY DEF Effect
<1>2. Effect(how, row, Merge(row, values)) = Merge(row, values)
  BY MergeTwice DEF Effect
<1> QED
  BY <1>1, <1>2

(* The write loses another only if the version has changed. *)
LEMMA PutRowInv ==
    ASSUME NEW t \in Threads, Inv, Started, PutRow(t),
           UNCHANGED <<cache, embeddedVars, elasticVars, setupVars>>
    PROVE  Inv'
<1> DEFINE k == CurrentKey(t)
           merged == Merge(op[t].row, op[t].values[k])
           new == Effect(op[t].how, store[k], merged)
           changed == For({k}, new)
           lossy == IF version[k] # op[t].start[k] THEN {k} ELSE {}
<1>0. pc[t] = "put" /\ Advance(t, "put", "get") /\ Write(t, changed, lossy)
  BY DEF PutRow
<1>1. /\ TableInv /\ ShapeInv /\ LabelOf(binding, "put") /\ PutInv(t)
      /\ op[t].values \in Batches
  BY <1>0 DEF Inv, ThreadInv, Writing
<1>2. /\ k \in DOMAIN op[t].values /\ k \in Keys /\ op[t].values[k] \in Rows
      /\ store[k] \in Rows /\ op[t].row \in Rows /\ UpdateInv(op[t])
  BY <1>1, CurrentIn DEF TableInv, RowTypeOK, PutInv
<1>3. DOMAIN changed = {k} /\ changed[k] = new /\ new \in Rows
  BY <1>2, ForOne, EffectRow, MergeRow
<1>4. k \notin lossy => new = Effect(op[t].kind, store[k], op[t].values[k])
  <2> HAVE k \notin lossy
  <2>1. version[k] = op[t].start[k]
    OBVIOUS
  <2>2. /\ op[t].start[k] = version[k] => op[t].row = store[k]
        /\ op[t].kind = "patch" => op[t].row # NoRow \/ op[t].start[k] # version[k]
    BY <1>1 DEF PutInv, Fresh
  <2>3. /\ new = Effect(op[t].how, store[k], Merge(store[k], op[t].values[k]))
        /\ op[t].kind = "patch" => store[k] # NoRow
    BY <2>1, <2>2
  <2>4. op[t].kind \in {"merge", "patch"} /\ op[t].how \in {"merge", "replace"}
    BY <1>2 DEF UpdateInv
  <2> HIDE DEF new, merged, k
  <2>5. Effect(op[t].how, store[k], Merge(store[k], op[t].values[k]))
          = Effect(op[t].kind, store[k], op[t].values[k])
    BY <1>2, <2>3, <2>4, PutEffect
  <2> QED
    BY <2>3, <2>5
<1> HIDE DEF changed, new, k, lossy
<1>5. /\ Moved(t) /\ binding' = binding /\ ops' = ops
      /\ \/ pc'[t] = "idle"
         \/ /\ pc'[t] = "get" /\ op'[t].values \in Batches
            /\ op'[t].kind = op[t].kind /\ op'[t].how = op[t].how
            /\ \A j \in DOMAIN op'[t].values :
                 j \in DOMAIN op[t].values /\ op'[t].values[j] = op[t].values[j]
  <2>1. Advanced(t, "put", "get")
    BY <1>0, <1>1, AdvanceMoves
  <2> QED
    BY <2>1 DEF Advanced
<1>6. TableInv' /\ Grows
  <2>1. ops' \in Nat
    BY <1>1, <1>5 DEF TableInv, RowTypeOK
  <2> QED
    BY <1>0, <1>1, <1>2, <1>3, <1>4, <1>5, <2>1, WriteInv
<1>7. ThreadInv(t)'
  <2>1. CASE pc'[t] = "idle"
    BY <1>1, <1>5, <2>1, IdleInv DEF LabelOf, Writing
  <2>2. CASE pc'[t] = "get"
    BY <1>1, <1>2, <1>5, <2>2 DEF LabelOf, ThreadInv, UpdateInv
  <2> QED
    BY <1>5, <2>1, <2>2
<1> QED
  BY <1>1, <1>5, <1>6, <1>7, PlainInv DEF LabelOf

(* The end of an operation with an error, or of one that only reads. *)
LEMMA FinishInv ==
    ASSUME NEW t \in Threads, Inv, Started, Finish(t), binding # "elastic",
           UNCHANGED <<cache, embeddedVars, elasticVars, setupVars>>
    PROVE  Inv'
<1>1. Moved(t) /\ pc'[t] = "idle" /\ binding' = binding /\ ops' = ops /\ NoWrite
  BY FinishMoves DEF Inv
<1>2. TableInv' /\ Grows
  BY <1>1, NoWriteInv DEF Inv, TableInv, RowTypeOK
<1>3. ThreadInv(t)'
  BY <1>1, IdleInv DEF LabelOf, Writing
<1> QED
  BY <1>1, <1>2, <1>3, PlainInv DEF NoWrite

(* Any step of RowStore. *)
LEMMA CommonStepInv ==
    ASSUME NEW t \in Threads, Inv, Started, CommonStep(t),
           UNCHANGED <<cache, embeddedVars, elasticVars, setupVars>>
    PROVE  Inv'
<1>1. CASE CallFails(t)
  <2>1. Finish(t) /\ binding # "elastic"
    BY <1>1 DEF CallFails, Inv, ThreadInv, LabelOf
  <2> QED
    BY <2>1, FinishInv
<1> QED
  BY <1>1, ExecInv, ExecAllInv, GetRowInv, PutRowInv DEF CommonStep

-----------------------------------------------------------------------------
(* The beginning of an operation. *)

(* The rows an operation is given have the number of the operation. *)
LEMMA GivenBatch ==
    ASSUME NEW keys \in SUBSET Keys, keys # {}, TableInv, ops < MaxOps
    PROVE  /\ \A fields \in SUBSET Fields : Given(keys, fields) \in Batches
           /\ Gone(keys) \in Batches /\ Whole(keys) \in Batches
           /\ \A k \in DOMAIN Whole(keys) : DOMAIN Whole(keys)[k] = Fields
<1>1. ops + 1 \in 0..MaxOps
  BY RowStoreAssumption, SMT DEF TableInv, RowTypeOK
<1>2. ASSUME NEW row \in Rows PROVE For(keys, row) \in Batches
  <2>1. For(keys, row) \in [keys -> Rows]
    BY <1>2 DEF For
  <2> QED
    BY <2>1 DEF Batches
<1>3. \A fields \in SUBSET Fields : Given(keys, fields) \in Batches
  BY <1>1, <1>2, RowIsRow DEF Given
<1>4. Gone(keys) \in Batches
  BY <1>2, NoRowIsRow DEF Gone
<1>5. \A k \in DOMAIN Whole(keys) : DOMAIN Whole(keys)[k] = Fields
  BY DEF Whole, Given, For, Row
<1> QED
  BY <1>3, <1>4, <1>5 DEF Whole

(* An operation is about one key or more. *)
LEMMA KeySetsAre == \A keys \in KeySets : keys \in SUBSET Keys /\ keys # {}
<1>1. Keys # {}
  BY RowStoreAssumption, SMT DEF Keys
<1> QED
  BY <1>1 DEF KeySets

(* Begin moves one thread, and only so many of them do. *)
LEMMA BeginMoves ==
    ASSUME NEW t \in Threads, TableInv, ShapeInv, NEW where, NEW locals,
           DOMAIN locals = Parts, Begin(t, where, locals)
    PROVE  /\ Moved(t) /\ pc[t] = "idle" /\ pc'[t] = where /\ op'[t] = locals
           /\ binding' = binding /\ ops' \in Nat /\ ops < MaxOps
<1>1. op' = [op EXCEPT ![t] = locals] /\ pc' = [pc EXCEPT ![t] = where]
  BY DEF Begin
<1>2. ops' \in Nat /\ ops < MaxOps
  BY RowStoreAssumption, SMT DEF Begin, TableInv, RowTypeOK
<1> QED
  BY <1>1, <1>2, OwnRecord, GotoMoves DEF Begin, Moved, Others, ShapeInv

(* The operations that differ in their first call and in what it is given. *)
Fits(where, kind, how, values) ==
    /\ binding # "elastic" /\ LabelOf(binding, where)
    /\ where \in {"call", "callAll", "get", "run", "json", "object"}
    /\ where = "call" =>
         \/ how = kind
         \/ kind = "merge" /\ how = "replace"
         \/ kind = "replace" /\ how = "merge" /\ \A k \in DOMAIN values : DOMAIN values[k] = Fields
    /\ where = "callAll" => how = kind
    /\ where = "get" => kind \in {"merge", "patch"} /\ how \in {"merge", "replace"}
    /\ where = "run" => /\ how = kind /\ kind \in {"patch", "keep", "replace"}
                        /\ kind = "keep" => binding = "sqlite"
    /\ where = "object" => kind \in {"merge", "replace"}

(* An operation of a binding begins. *)
LEMMA CallStepInv ==
    ASSUME NEW t \in Threads, Inv, Started, NEW where, NEW kind, NEW how, NEW values,
           Call(t, where, kind, how, values), Fits(where, kind, how, values), values \in Batches,
           UNCHANGED <<cache, embeddedVars, elasticVars, setupVars>>
    PROVE  Inv'
<1> DEFINE locals == [Blank EXCEPT !.kind = kind, !.how = how, !.values = values]
<1>0. Begin(t, where, locals) /\ NoWrite
  BY DEF Call
<1>1. /\ DOMAIN locals = Parts /\ locals.kind = kind /\ locals.how = how
      /\ locals.values = values
  BY SMT DEF Blank, Parts
<1> HIDE DEF locals
<1>2. /\ Moved(t) /\ pc'[t] = where /\ op'[t] = locals /\ binding' = binding /\ ops' \in Nat
  BY <1>0, <1>1, BeginMoves DEF Inv
<1>3. TableInv' /\ Grows
  BY <1>0, <1>2, NoWriteInv DEF Inv
<1>4. ThreadInv(t)'
  BY <1>1, <1>2 DEF Fits, ThreadInv, CallInv, UpdateInv, RunInv
<1> QED
  BY <1>0, <1>2, <1>3, <1>4, PlainInv DEF Fits, NoWrite

(* The operations by what they give for each key. *)
SendsPart(t, keys, f) ==
    \/ Call(t, "call", "patch", "patch", Given(keys, f))
    \/ Call(t, "call", "merge", "merge", Given(keys, f))
    \/ Call(t, "call", "merge", "replace", Given(keys, f))
    \/ Call(t, "get", "merge", "replace", Given(keys, f))
    \/ Call(t, "get", "merge", "merge", Given(keys, f))
    \/ Call(t, "get", "patch", "replace", Given(keys, f))

SendsWhole(t, keys) ==
    \/ Call(t, "call", "keep", "keep", Whole(keys))
    \/ Call(t, "call", "replace", "replace", Whole(keys))
    \/ Call(t, "call", "replace", "merge", Whole(keys))
    \/ Call(t, "call", "replace", "replace", Gone(keys))
    \/ Call(t, "callAll", "keep", "keep", Whole(keys))
    \/ Call(t, "callAll", "replace", "replace", Gone(keys))

Runs(t, keys, f) ==
    \/ Call(t, "run", "patch", "patch", Given(keys, f))
    \/ Call(t, "run", "replace", "replace", Whole(keys))
    \/ Call(t, "run", "replace", "replace", Gone(keys))
    \/ Call(t, "run", "keep", "keep", Whole(keys)) /\ binding = "sqlite"

(* An operation over a set of keys begins. *)
LEMMA SendsInv ==
    ASSUME NEW t \in Threads, Inv, Started, NEW keys \in SUBSET Keys, keys # {},
           NEW f \in SUBSET Fields,
           \/ /\ SendsPart(t, keys, f) \/ SendsWhole(t, keys)
              /\ binding \notin {"boltdb", "sqlite", "elastic", "redisJson"}
           \/ Runs(t, keys, f) /\ binding \in {"badger", "foundationdb", "boltdb", "sqlite"}
           \/ /\ binding = "redisJson"
              /\ \/ Call(t, "json", "patch", "patch", Given(keys, f))
                 \/ Call(t, "call", "replace", "replace", Whole(keys))
                 \/ Call(t, "call", "replace", "replace", Gone(keys))
           \/ /\ binding = "minio"
              /\ \/ Call(t, "object", "merge", "replace", Given(keys, f))
                 \/ Call(t, "object", "replace", "replace", Whole(keys)),
           UNCHANGED <<cache, embeddedVars, elasticVars, setupVars>>
    PROVE  Inv'
<1>1. ops < MaxOps
  <2>1. ops < IF binding \in Longer THEN MaxOps ELSE MaxOps - 1
    BY DEF SendsPart, SendsWhole, Runs, Call, Begin
  <2> QED
    BY <2>1, RowStoreAssumption, SMT DEF Inv, TableInv, RowTypeOK
<1>2. /\ Given(keys, f) \in Batches /\ Gone(keys) \in Batches /\ Whole(keys) \in Batches
      /\ \A k \in DOMAIN Whole(keys) : DOMAIN Whole(keys)[k] = Fields
  BY <1>1, GivenBatch DEF Inv
<1>3. ASSUME NEW kind, NEW how, NEW values \in Batches,
             binding \notin {"boltdb", "sqlite", "elastic", "redisJson"}
      PROVE  /\ Call(t, "call", kind, kind, values) => Inv'
             /\ Call(t, "callAll", kind, kind, values) => Inv'
             /\ Call(t, "call", "merge", "replace", values) => Inv'
             /\ kind \in {"merge", "patch"} /\ how \in {"merge", "replace"}
                /\ Call(t, "get", kind, how, values) => Inv'
  <2>1. /\ Fits("call", kind, kind, values) /\ Fits("callAll", kind, kind, values)
        /\ Fits("call", "merge", "replace", values)
        /\ kind \in {"merge", "patch"} /\ how \in {"merge", "replace"} =>
             Fits("get", kind, how, values)
    BY <1>3 DEF Fits, LabelOf
  <2> QED
    BY <1>3, <2>1, CallStepInv
<1>4. CASE SendsPart(t, keys, f) /\ binding \notin {"boltdb", "sqlite", "elastic", "redisJson"}
  BY <1>2, <1>3, <1>4 DEF SendsPart
<1>5. CASE SendsWhole(t, keys) /\ binding \notin {"boltdb", "sqlite", "elastic", "redisJson"}
  <2>1. Fits("call", "replace", "merge", Whole(keys))
    BY <1>2, <1>5 DEF Fits, LabelOf
  <2>2. Call(t, "call", "replace", "merge", Whole(keys)) => Inv'
    BY <1>2, <2>1, CallStepInv
  <2> QED
    BY <1>2, <1>3, <1>5, <2>2 DEF SendsWhole
<1>6. CASE Runs(t, keys, f) /\ binding \in {"badger", "foundationdb", "boltdb", "sqlite"}
  <2>1. ASSUME NEW kind \in {"patch", "replace", "keep"}, NEW values \in Batches,
               kind = "keep" => binding = "sqlite", Call(t, "run", kind, kind, values)
        PROVE  Inv'
    <3>1. Fits("run", kind, kind, values)
      BY <1>6, <2>1 DEF Fits, LabelOf
    <3> QED
      BY <2>1, <3>1, CallStepInv
  <2> QED
    BY <1>2, <1>6, <2>1 DEF Runs
<1>7. CASE binding = "redisJson"
  <2>1. ASSUME NEW values \in Batches
        PROVE  /\ Call(t, "json", "patch", "patch", values) => Inv'
               /\ Call(t, "call", "replace", "replace", values) => Inv'
    <3>1. Fits("json", "patch", "patch", values) /\ Fits("call", "replace", "replace", values)
      BY <1>7 DEF Fits, LabelOf
    <3> QED
      BY <2>1, <3>1, CallStepInv
  <2> QED
    BY <1>2, <1>7, <2>1
<1>8. CASE binding = "minio" /\ \/ Call(t, "object", "merge", "replace", Given(keys, f))
                                \/ Call(t, "object", "replace", "replace", Whole(keys))
  <2>1. ASSUME NEW values \in Batches, NEW kind \in {"merge", "replace"}
        PROVE  Call(t, "object", kind, "replace", values) => Inv'
    <3>1. Fits("object", kind, "replace", values)
      BY <1>8 DEF Fits, LabelOf
    <3> QED
      BY <2>1, <3>1, CallStepInv
  <2> QED
    BY <1>2, <1>8, <2>1
<1> QED
  BY <1>4, <1>5, <1>6, <1>7, <1>8

(* The SQL and document stores. *)
LEMMA SqlStepInv ==
    ASSUME NEW t \in Threads, Inv, Started, SqlStep(t) \/ DocumentStep(t),
           UNCHANGED <<cache, embeddedVars, elasticVars, setupVars>>
    PROVE  Inv'
<1>0. \A f \in SomeFields : f \in SUBSET Fields
  BY DEF SomeFields
<1>1. Keys # {} /\ {} \in SUBSET Fields
  BY RowStoreAssumption, SMT DEF Keys
<1>2. ASSUME NEW keys \in SUBSET Keys, keys # {}, SendsWhole(t, keys),
             binding \notin {"boltdb", "sqlite", "elastic", "redisJson"}
      PROVE  Inv'
  BY <1>1, <1>2, SendsInv
<1>3. ASSUME NEW keys \in KeySets, NEW f \in SomeFields, SendsPart(t, keys, f),
             binding \notin {"boltdb", "sqlite", "elastic", "redisJson"}
      PROVE  Inv'
  BY <1>0, <1>3, KeySetsAre, SendsInv
<1>4. ASSUME NEW k \in Keys, MysqlInsert(t, k) \/ MysqlDelete(t, k) PROVE Inv'
  BY <1>2, <1>4 DEF MysqlInsert, MysqlDelete, SendsWhole
<1>5. CASE MysqlBatchInsert(t) \/ MysqlBatchDelete(t)
  BY <1>1, <1>2, <1>5 DEF MysqlBatchInsert, MysqlBatchDelete, SendsWhole
<1>6. ASSUME NEW keys \in KeySets,
             \/ PgInsert(t, keys) \/ PgDelete(t, keys)
             \/ CassandraInsert(t, keys) \/ CassandraDelete(t, keys)
             \/ SpannerInsert(t, keys) \/ SpannerDelete(t, keys)
             \/ MongoInsert(t, keys) \/ MongoDelete(t, keys)
             \/ DynamoInsert(t, keys) \/ DynamoDelete(t, keys)
             \/ EtcdInsert(t, keys) \/ EtcdDelete(t, keys)
             \/ PegasusInsert(t, keys) \/ PegasusDelete(t, keys)
             \/ AerospikeInsert(t, keys) \/ AerospikeDelete(t, keys)
      PROVE  Inv'
  <2>1. SendsWhole(t, keys) /\ binding \notin {"boltdb", "sqlite", "elastic", "redisJson"}
    BY <1>6 DEF PgInsert, PgDelete, CassandraInsert, CassandraDelete, SpannerInsert,
         SpannerDelete, MongoInsert, MongoDelete, DynamoInsert, DynamoDelete, EtcdInsert,
         EtcdDelete, PegasusInsert, PegasusDelete, AerospikeInsert, AerospikeDelete, SendsWhole
  <2> QED
    BY <1>2, <2>1, KeySetsAre
<1>7. ASSUME NEW keys \in KeySets, NEW f \in SomeFields,
             \/ MysqlUpdate(t, keys, f) \/ PgUpdate(t, keys, f)
             \/ CassandraUpdate(t, keys, f) \/ SpannerUpdate(t, keys, f)
             \/ MongoUpdate(t, keys, f) \/ DynamoUpdate(t, keys, f)
             \/ EtcdUpdate(t, keys, f) \/ PegasusUpdate(t, keys, f)
             \/ AerospikeUpdate(t, keys, f)
      PROVE  Inv'
  <2>1. SendsPart(t, keys, f) /\ binding \notin {"boltdb", "sqlite", "elastic", "redisJson"}
    BY <1>7 DEF MysqlUpdate, PgUpdate, CassandraUpdate, SpannerUpdate, MongoUpdate,
         DynamoUpdate, EtcdUpdate, PegasusUpdate, AerospikeUpdate, SendsPart
  <2> QED
    BY <1>3, <2>1
<1> QED
  BY <1>4, <1>5, <1>6, <1>7 DEF SqlStep, DocumentStep

(* A step that only reads, and goes on with reading. *)
LEMMA QuietInv ==
    ASSUME NEW t \in Threads, Inv, Started, NoWrite, Moved(t), binding' = binding, ops' \in Nat,
           LabelOf(binding, pc'[t]), pc'[t] \notin Writing \cup {"clean"}, binding # "elastic",
           UNCHANGED <<cache, embeddedVars, elasticVars, setupVars>>
    PROVE  Inv'
<1>1. TableInv' /\ Grows
  BY NoWriteInv DEF Inv
<1>2. LabelOf(binding, pc[t])'
  BY DEF LabelOf
<1>3. ThreadInv(t)'
  BY <1>2, IdleInv
<1> QED
  BY <1>1, <1>3, PlainInv DEF NoWrite

-----------------------------------------------------------------------------
(* redis *)

(* One command of the pipeline changes one field, of the row and of what   *)
(* the row should be.                                                      *)
LEMMA JsonSetInv ==
    ASSUME NEW t \in Threads, Inv, Started, NEW f \in Fields, JsonSet(t, f),
           UNCHANGED <<cache, embeddedVars, elasticVars, setupVars>>
    PROVE  Inv'
<1> DEFINE k == CurrentKey(t)
           values == op[t].values[k]
           left == DOMAIN values \ {f}
           rest == [g \in left |-> values[g]]
           part == Row(values[f], {f})
<1>0. /\ pc[t] = "json" /\ f \in DOMAIN values
      /\ store' = [store EXCEPT ![k] = Effect("patch", @, part)]
      /\ ideal' = [ideal EXCEPT ![k] = Effect("patch", @, part)]
      /\ version' = version /\ excused' = excused
      /\ \/ Advance(t, "json", "json")
         \/ op' = [op EXCEPT ![t].values[k] = rest] /\ binding' = binding /\ ops' = ops /\ pc' = pc
  BY DEF JsonSet
<1>1. /\ TableInv /\ ShapeInv /\ binding = "redisJson" /\ op[t].values \in Batches
  BY <1>0 DEF Inv, ThreadInv, Writing, LabelOf
<1>2. /\ k \in DOMAIN op[t].values /\ k \in Keys /\ values \in Rows
      /\ store \in [Keys -> Rows] /\ ideal \in [Keys -> Rows]
  BY <1>1, CurrentIn DEF TableInv, RowTypeOK
<1>3. part \in Rows /\ rest \in Rows
  <2>1. DOMAIN values \in SUBSET Fields /\ values \in [DOMAIN values -> 0..MaxOps]
    BY <1>2, RowsAre
  <2>2. values[f] \in 0..MaxOps /\ {f} \in SUBSET Fields
    BY <1>0, <2>1
  <2>3. left \in SUBSET Fields /\ rest \in [left -> 0..MaxOps]
    BY <2>1
  <2>4. part \in Rows
    BY <2>2, RowIsRow
  <2>5. rest \in Rows
    BY <2>3, AreRows
  <2> QED
    BY <2>4, <2>5
<1> HIDE DEF part, rest, values
<1>4. /\ Moved(t) /\ binding' = binding /\ ops' = ops
      /\ \/ pc'[t] = "idle"
         \/ pc'[t] = "json" /\ op'[t].values \in Batches
  <2>1. CASE Advance(t, "json", "json")
    <3>1. Advanced(t, "json", "json")
      BY <1>1, <2>1, AdvanceMoves
    <3> QED
      BY <3>1 DEF Advanced
  <2>2. CASE op' = [op EXCEPT ![t].values[k] = rest] /\ binding' = binding /\ ops' = ops /\ pc' = pc
    <3> DEFINE all == [op[t].values EXCEPT ![k] = rest]
               mine == [op[t] EXCEPT !.values = all]
    <3>1. PICK keys \in (SUBSET Keys) \ {{}} : op[t].values \in [keys -> Rows]
      BY <1>1 DEF Batches
    <3>2. all \in [keys -> Rows]
      BY <1>3, <3>1
    <3>3. all \in Batches
      BY <3>1, <3>2 DEF Batches
    <3> HIDE DEF k
    <3>4. /\ DOMAIN op' = Threads /\ op'[t] = mine
          /\ \A u \in Threads : u # t => op'[u] = op[u]
      BY <1>1, <2>2, SMT DEF ShapeInv
    <3>5. DOMAIN mine = Parts /\ mine.values = all
      BY <1>1, SMT DEF ShapeInv, Parts
    <3> HIDE DEF mine, all
    <3> QED
      BY <1>0, <1>1, <2>2, <3>3, <3>4, <3>5 DEF Moved, Others, SameOp, ShapeInv
  <2> QED
    BY <1>0, <2>1, <2>2
<1>5. TableInv'
  <2>1. store' \in [Keys -> Rows] /\ ideal' \in [Keys -> Rows]
    <3>1. Effect("patch", store[k], part) \in Rows /\ Effect("patch", ideal[k], part) \in Rows
      BY <1>2, <1>3, EffectRow
    <3> HIDE DEF k
    <3> QED
      BY <1>0, <1>2, <3>1
  <2>2. NoLostUpdate'
    <3> HIDE DEF k
    <3>1. \A j \in Keys : store[j] = ideal[j] => store'[j] = ideal'[j]
      BY <1>0, <1>2
    <3> QED
      BY <1>0, <1>1, <3>1 DEF TableInv, NoLostUpdate
  <2> QED
    BY <1>0, <1>1, <1>4, <2>1, <2>2 DEF TableInv, RowTypeOK
<1>6. ThreadInv(t)'
  BY <1>1, <1>4 DEF ThreadInv, LabelOf, Writing
<1> QED
  BY <1>1, <1>4, <1>5, <1>6, PlainInv

(* Any step of the redis binding. *)
LEMMA RedisStepInv ==
    ASSUME NEW t \in Threads, Inv, Started, RedisStep(t),
           UNCHANGED <<cache, embeddedVars, elasticVars, setupVars>>
    PROVE  Inv'
<1>0. \A f \in SomeFields : f \in SUBSET Fields
  BY DEF SomeFields
<1>1. {} \in SUBSET Fields
  OBVIOUS
<1>2. ASSUME NEW keys \in KeySets, \/ RedisHashInsert(t, keys) \/ RedisJsonInsert(t, keys)
                                   \/ RedisStringInsert(t, keys) \/ RedisDelete(t, keys)
      PROVE  Inv'
  <2>1. \/ SendsWhole(t, keys) /\ binding \notin {"boltdb", "sqlite", "elastic", "redisJson"}
        \/ /\ binding = "redisJson"
           /\ \/ Call(t, "call", "replace", "replace", Whole(keys))
              \/ Call(t, "call", "replace", "replace", Gone(keys))
    BY <1>2 DEF RedisHashInsert, RedisJsonInsert, RedisStringInsert, RedisDelete, SendsWhole
  <2> QED
    BY <1>1, <2>1, KeySetsAre, SendsInv
<1>3. ASSUME NEW keys \in KeySets, NEW f \in SomeFields,
             \/ RedisHashUpdate(t, keys, f) \/ RedisJsonUpdate(t, keys, f)
             \/ RedisStringUpdate(t, keys, f)
      PROVE  Inv'
  <2>1. \/ SendsPart(t, keys, f) /\ binding \notin {"boltdb", "sqlite", "elastic", "redisJson"}
        \/ binding = "redisJson" /\ Call(t, "json", "patch", "patch", Given(keys, f))
    BY <1>3 DEF RedisHashUpdate, RedisJsonUpdate, RedisStringUpdate, SendsPart
  <2> QED
    BY <1>0, <2>1, KeySetsAre, SendsInv
<1>4. CASE PipelineFails(t)
  <2>1. Finish(t) /\ binding # "elastic"
    BY <1>4 DEF PipelineFails, Inv, ThreadInv, LabelOf
  <2> QED
    BY <2>1, FinishInv
<1> QED
  BY <1>2, <1>3, <1>4, JsonSetInv DEF RedisStep

-----------------------------------------------------------------------------
(* s3 and minio *)

(* Update goes on with an empty row, whose version is no version. *)
LEMMA S3ReadFailsInv ==
    ASSUME NEW t \in Threads, Inv, Started, S3ReadFails(t),
           UNCHANGED <<cache, embeddedVars, elasticVars, setupVars>>
    PROVE  Inv'
<1> DEFINE k == CurrentKey(t)
           none == [j \in Keys |-> -1]
           mine == [op[t] EXCEPT !.row = NoRow, !.start = none]
<1>0. /\ binding = "s3Rmw" /\ Goto(t, "get", "put")
      /\ op' = [op EXCEPT ![t].row = NoRow, ![t].start = none]
      /\ NoWrite /\ binding' = binding /\ ops' = ops
  BY DEF S3ReadFails
<1>1. TableInv /\ ShapeInv /\ UpdateInv(op[t]) /\ op[t].values \in Batches
  BY <1>0 DEF Inv, ThreadInv, Writing, Goto
<1>2. k \in Keys /\ version[k] \in Nat /\ version' = version
  BY <1>0, <1>1, CurrentIn DEF TableInv, RowTypeOK, NoWrite
<1>3. /\ DOMAIN mine = Parts /\ mine.kind = op[t].kind /\ mine.how = op[t].how
      /\ mine.values = op[t].values /\ mine.row = NoRow /\ mine.start = none
  BY <1>1, SMT DEF ShapeInv, Parts
<1>4. /\ DOMAIN op' = Threads /\ op'[t] = mine
      /\ \A u \in Threads : u # t => op'[u] = op[u]
  BY <1>0, <1>1, SMT DEF ShapeInv
<1>5. none[k] \in Int /\ none[k] <= version[k] /\ none[k] # version[k]
  <2>1. none[k] = -1
    BY <1>2
  <2> HIDE DEF none
  <2> QED
    BY <1>2, <2>1, SMT
<1> HIDE DEF mine, none
<1>6. Moved(t) /\ pc'[t] = "put" /\ op'[t] = mine
  BY <1>0, <1>1, <1>3, <1>4, RecordMoves DEF Goto
<1>7. TableInv' /\ Grows
  BY <1>0, <1>1, NoWriteInv DEF TableInv, RowTypeOK
<1>8. CurrentKey(t)' = k
  BY <1>3, <1>6 DEF CurrentKey
<1>9. PutInv(t)'
  <2> HIDE DEF k
  <2> QED
    BY <1>1, <1>2, <1>3, <1>5, <1>6, <1>8, NoRowIsRow DEF PutInv, UpdateInv, Fresh
<1>10. ThreadInv(t)'
  BY <1>0, <1>1, <1>3, <1>6, <1>9 DEF LabelOf, ThreadInv, Writing
<1> QED
  BY <1>0, <1>6, <1>7, <1>10, PlainInv

(* Scan moves between labels at which nothing is written. *)
LEMMA S3ScanInv ==
    ASSUME NEW t \in Threads, Inv, Started, NEW start, NEW count, S3Scan(t, start, count),
           UNCHANGED <<cache, embeddedVars, elasticVars, setupVars>>
    PROVE  Inv'
<1>1. PICK unread, first :
        /\ S3 /\ NoWrite
        /\ Begin(t, IF Len(first) < count THEN "list" ELSE "scanned",
                 [Blank EXCEPT !.kind = "scan", !.cursor = start, !.count = count,
                               !.out = first, !.began = From(start), !.since = unread])
  BY DEF S3Scan
<1> DEFINE locals == [Blank EXCEPT !.kind = "scan", !.cursor = start, !.count = count,
                                   !.out = first, !.began = From(start), !.since = unread]
           where == IF Len(first) < count THEN "list" ELSE "scanned"
<1>2. DOMAIN locals = Parts
  BY SMT DEF Blank, Parts
<1>3. where \in {"list", "scanned"} /\ Begin(t, where, locals)
  BY <1>1
<1> HIDE DEF locals, where
<1>4. Moved(t) /\ pc'[t] = where /\ binding' = binding /\ ops' \in Nat
  BY <1>2, <1>3, BeginMoves DEF Inv
<1>5. LabelOf(binding, pc'[t]) /\ pc'[t] \notin Writing \cup {"clean"} /\ binding # "elastic"
  BY <1>1, <1>3, <1>4 DEF S3, LabelOf, Writing
<1> QED
  BY <1>1, <1>4, <1>5, QuietInv

(* A page of the listing. *)
LEMMA S3ListInv ==
    ASSUME NEW t \in Threads, Inv, Started, S3List(t),
           UNCHANGED <<cache, embeddedVars, elasticVars, setupVars>>
    PROVE  Inv'
<1> DEFINE keys == {k \in Present : k > op[t].cursor}
           page == FirstOf(Min({PageSize, Wanted(t)}), keys)
           more == Cardinality(keys) > Len(page)
           last == page[Len(page)]
           to == IF page = << >> THEN "scanned" ELSE "page"
<1>1. /\ Goto(t, "list", to)
      /\ op' = [op EXCEPT ![t].page = page, ![t].more = more,
                          ![t].cursor = IF page = << >> THEN @ ELSE last]
      /\ NoWrite /\ binding' = binding /\ ops' = ops
  BY DEF S3List
<1>2. to \in {"scanned", "page"}
  OBVIOUS
<1>3. ShapeInv /\ ops \in Nat /\ LabelOf(binding, "list")
  BY <1>1 DEF Inv, TableInv, RowTypeOK, ThreadInv, Goto
<1> HIDE DEF page, more, last, to
<1>4. /\ DOMAIN op' = Threads /\ DOMAIN op'[t] = Parts
      /\ \A u \in Threads : u # t => op'[u] = op[u]
  BY <1>1, <1>3, SMT DEF ShapeInv, Parts
<1>5. Moved(t) /\ pc'[t] = to
  BY <1>1, <1>3, <1>4, RecordMoves DEF Goto
<1>6. LabelOf(binding, pc'[t]) /\ pc'[t] \notin Writing \cup {"clean"} /\ binding # "elastic"
  BY <1>2, <1>3, <1>5 DEF LabelOf, Writing
<1> QED
  BY <1>1, <1>3, <1>5, <1>6, QuietInv

(* An object of the page is read. *)
LEMMA S3FetchInv ==
    ASSUME NEW t \in Threads, Inv, Started, pc[t] = "page", S3Fetch(t),
           UNCHANGED <<cache, embeddedVars, elasticVars, setupVars>>
    PROVE  Inv'
<1>1. PICK unread, out, to :
        /\ op' = [op EXCEPT ![t].out = out, ![t].page = Tail(@), ![t].since = @ \cup unread]
        /\ Goto(t, "page", to) /\ to \in {"page", "list", "scanned"}
        /\ NoWrite /\ binding' = binding /\ ops' = ops
  BY DEF S3Fetch
<1>2. ShapeInv /\ ops \in Nat /\ LabelOf(binding, "page")
  BY <1>1 DEF Inv, TableInv, RowTypeOK, ThreadInv
<1>3. /\ DOMAIN op' = Threads /\ DOMAIN op'[t] = Parts
      /\ \A u \in Threads : u # t => op'[u] = op[u]
  BY <1>1, <1>2, SMT DEF ShapeInv, Parts
<1>4. Moved(t) /\ pc'[t] = to
  BY <1>1, <1>2, <1>3, RecordMoves DEF Goto
<1>5. LabelOf(binding, pc'[t]) /\ pc'[t] \notin Writing \cup {"clean"} /\ binding # "elastic"
  BY <1>1, <1>2, <1>4 DEF LabelOf, Writing
<1> QED
  BY <1>1, <1>2, <1>4, <1>5, QuietInv

(* minio stores one field; where that is the whole row, it is the row. *)
LEMMA PutObjectInv ==
    ASSUME NEW t \in Threads, Inv, Started, NEW f \in Fields, PutObject(t, f),
           UNCHANGED <<cache, embeddedVars, elasticVars, setupVars>>
    PROVE  Inv'
<1> DEFINE k == CurrentKey(t)
           values == op[t].values[k]
           new == Row(values[f], {f})
           changed == For({k}, new)
           lossy == IF Fields = {f} THEN {} ELSE {k}
<1>0. /\ pc[t] = "object" /\ f \in DOMAIN values
      /\ Advance(t, "object", "object") /\ Write(t, changed, lossy)
  BY DEF PutObject
<1>1. /\ TableInv /\ ShapeInv /\ LabelOf(binding, "object")
      /\ op[t].kind \in {"merge", "replace"} /\ op[t].values \in Batches
  BY <1>0 DEF Inv, ThreadInv, Writing
<1>2. /\ k \in DOMAIN op[t].values /\ k \in Keys /\ values \in Rows /\ store[k] \in Rows
  BY <1>1, CurrentIn DEF TableInv, RowTypeOK
<1>3. DOMAIN values \in SUBSET Fields /\ values \in [DOMAIN values -> 0..MaxOps]
  BY <1>2, RowsAre
<1>4. DOMAIN changed = {k} /\ changed[k] = new /\ new \in Rows
  <2>1. values[f] \in 0..MaxOps /\ {f} \in SUBSET Fields
    BY <1>0, <1>3
  <2> QED
    BY <2>1, ForOne, RowIsRow
<1>5. k \notin lossy => new = Effect(op[t].kind, store[k], op[t].values[k])
  <2> HAVE k \notin lossy
  <2>1. Fields = {f} /\ DOMAIN values = {f}
    BY <1>0, <1>3
  <2>2. new = values
    BY <1>3, <2>1 DEF Row
  <2>3. \A kind \in {"merge", "replace"} : Effect(kind, store[k], values) = values
    <3>1. Effect("merge", store[k], values) = values
      BY <1>2, <2>1, MergeWhole DEF Effect
    <3>2. Effect("replace", store[k], values) = values
      BY DEF Effect
    <3> QED
      BY <3>1, <3>2
  <2> HIDE DEF new, values, k
  <2> QED
    BY <1>1, <2>2, <2>3 DEF values
<1> HIDE DEF changed, new, k, lossy
<1>6. /\ Moved(t) /\ binding' = binding /\ ops' = ops
      /\ \/ pc'[t] = "idle"
         \/ /\ pc'[t] = "object" /\ op'[t].values \in Batches /\ op'[t].kind = op[t].kind
  <2>1. Advanced(t, "object", "object")
    BY <1>0, <1>1, AdvanceMoves
  <2> QED
    BY <2>1 DEF Advanced
<1>7. TableInv' /\ Grows
  <2>1. ops' \in Nat
    BY <1>1, <1>6 DEF TableInv, RowTypeOK
  <2> QED
    BY <1>0, <1>1, <1>2, <1>4, <1>5, <1>6, <2>1, WriteInv
<1>8. ThreadInv(t)'
  BY <1>1, <1>6 DEF LabelOf, Writing, ThreadInv
<1> QED
  BY <1>1, <1>6, <1>7, <1>8, PlainInv DEF LabelOf

(* Any step of the s3 and minio bindings. *)
LEMMA ObjectStepInv ==
    ASSUME NEW t \in Threads, Inv, Started, ObjectStep(t),
           UNCHANGED <<cache, embeddedVars, elasticVars, setupVars>>
    PROVE  Inv'
<1>0. \A f \in SomeFields : f \in SUBSET Fields
  BY DEF SomeFields
<1>1. {} \in SUBSET Fields
  OBVIOUS
<1>2. ASSUME NEW keys \in KeySets, \/ S3Insert(t, keys) \/ S3Delete(t, keys)
                                   \/ MinioInsert(t, keys) \/ MinioDelete(t, keys)
      PROVE  Inv'
  <2>1. \/ SendsWhole(t, keys) /\ binding \notin {"boltdb", "sqlite", "elastic", "redisJson"}
        \/ binding = "minio" /\ Call(t, "object", "replace", "replace", Whole(keys))
    BY <1>2 DEF S3Insert, S3Delete, MinioInsert, MinioDelete, S3, SendsWhole
  <2> QED
    BY <1>1, <2>1, KeySetsAre, SendsInv
<1>3. ASSUME NEW keys \in KeySets, NEW f \in SomeFields,
             S3Update(t, keys, f) \/ MinioUpdate(t, keys, f)
      PROVE  Inv'
  <2>1. \/ SendsPart(t, keys, f) /\ binding \notin {"boltdb", "sqlite", "elastic", "redisJson"}
        \/ binding = "minio" /\ Call(t, "object", "merge", "replace", Given(keys, f))
    BY <1>3 DEF S3Update, MinioUpdate, SendsPart
  <2> QED
    BY <1>0, <2>1, KeySetsAre, SendsInv
<1>4. CASE S3ScanReturns(t) \/ PutObjectFails(t)
  <2>1. Finish(t) /\ binding # "elastic"
    BY <1>4 DEF S3ScanReturns, S3, PutObjectFails, Inv, ThreadInv, LabelOf
  <2> QED
    BY <2>1, FinishInv
<1> QED
  BY <1>2, <1>3, <1>4, S3ReadFailsInv, S3ScanInv, S3ListInv, S3FetchInv, PutObjectInv
     DEF ObjectStep

-----------------------------------------------------------------------------
(* TiKV *)

(* A thread changes its cached row, while it writes nothing. *)
LEMMA CacheInv ==
    ASSUME NEW t \in Threads, Inv, Started, NoWrite, Moved(t), binding' = binding, ops' \in Nat,
           ThreadInv(t)', binding # "elastic", NEW new, cache' = [cache EXCEPT ![t] = new],
           new \in [key : 0..MaxKey, row : Rows],
           new.key # 0 => binding = "cas" /\ new.row # NoRow,
           UNCHANGED <<embeddedVars, elasticVars, setupVars>>
    PROVE  Inv'
<1>1. TableInv' /\ Grows
  BY NoWriteInv DEF Inv
<1>2. CacheTypeOK' /\ DOMAIN cache' = Threads
  BY DEF Inv, CacheTypeOK
<1>3. EmbeddedInv' /\ LockKept(t)
  BY DEF Inv, EmbeddedInv, embeddedVars, LockKept, NoWrite
<1> QED
  BY <1>1, <1>2, <1>3, StepInv

(* Read of rawDB fills the cache in compare-and-swap mode. *)
LEMMA RawReadInv ==
    ASSUME NEW t \in Threads, Inv, Started, NEW k \in Keys, RawRead(t, k),
           UNCHANGED <<embeddedVars, elasticVars, setupVars>>
    PROVE  Inv'
<1> DEFINE found == binding = "cas" /\ store[k] # NoRow
           read == [key |-> k, row |-> store[k]]
           new == IF found THEN read ELSE cache[t]
<1>1. /\ Raw /\ Begin(t, "idle", Blank) /\ NoWrite
      /\ cache' = [cache EXCEPT ![t] = new]
  BY DEF RawRead
<1>2. Moved(t) /\ pc'[t] = "idle" /\ binding' = binding /\ ops' \in Nat
  BY <1>1, BeginMoves, BlankShape DEF Inv
<1>3. ThreadInv(t)'
  BY <1>2, IdleInv DEF LabelOf, Writing
<1>4. /\ new \in [key : 0..MaxKey, row : Rows]
      /\ new.key # 0 => binding = "cas" /\ new.row # NoRow
  <2>1. CASE found
    <3>1. store[k] \in Rows /\ k \in 0..MaxKey
      BY RowStoreAssumption, SMT DEF Keys, Inv, TableInv, RowTypeOK
    <3> QED
      BY <2>1, <3>1
  <2>2. CASE ~found
    BY <2>2 DEF Inv, CacheTypeOK
  <2> QED
    BY <2>1, <2>2
<1> HIDE DEF new
<1> QED
  BY <1>1, <1>2, <1>3, <1>4, CacheInv DEF Raw

(* Update takes the cached row, or reads the row first. *)
LEMMA RawUpdateInv ==
    ASSUME NEW t \in Threads, Inv, Started, NEW k \in Keys, NEW f \in SomeFields,
           RawUpdate(t, k, f), UNCHANGED <<embeddedVars, elasticVars, setupVars>>
    PROVE  Inv'
<1> DEFINE values == For({k}, Row(ops + 1, f))
           locals == [Blank EXCEPT !.kind = "merge", !.how = "replace", !.values = values]
           hit == binding = "cas" /\ cache[t].key = k
           swap == [locals EXCEPT !.row = cache[t].row]
           mine == IF hit THEN swap ELSE locals
           where == IF hit THEN "cas" ELSE "get"
           none == [key |-> 0, row |-> NoRow]
           new == IF hit THEN none ELSE cache[t]
<1>1. /\ Raw /\ Begin(t, where, mine) /\ NoWrite
      /\ cache' = [cache EXCEPT ![t] = new]
  BY DEF RawUpdate
<1>2. /\ DOMAIN locals = Parts /\ locals.kind = "merge" /\ locals.how = "replace"
      /\ locals.values = values
      /\ DOMAIN swap = Parts /\ swap.kind = "merge" /\ swap.how = "replace"
      /\ swap.values = values /\ swap.row = cache[t].row
  BY SMT DEF Blank, Parts
<1>3. cache[t] \in [key : 0..MaxKey, row : Rows] /\ cache[t].row \in Rows
      /\ (cache[t].key # 0 => binding = "cas" /\ cache[t].row # NoRow)
  BY DEF Inv, CacheTypeOK
<1>4. /\ new \in [key : 0..MaxKey, row : Rows]
      /\ new.key # 0 => binding = "cas" /\ new.row # NoRow
  <2>1. none \in [key : 0..MaxKey, row : Rows] /\ none.key = 0
    BY RowStoreAssumption, NoRowIsRow, SMT
  <2> HIDE DEF none
  <2> QED
    BY <1>3, <2>1
<1>5. /\ DOMAIN mine = Parts /\ mine.kind = "merge" /\ mine.how = "replace"
      /\ mine.values = values /\ (where = "cas" => mine.row \in Rows)
  <2> HIDE DEF locals, swap
  <2> QED
    BY <1>2, <1>3
<1>6. where \in {"cas", "get"}
  OBVIOUS
<1> HIDE DEF mine, where, new
<1>7. /\ Moved(t) /\ pc'[t] = where /\ op'[t] = mine /\ binding' = binding /\ ops' \in Nat
      /\ ops < MaxOps
  BY <1>1, <1>5, BeginMoves DEF Inv
<1>8. values \in Batches
  BY <1>7, GivenBatch DEF Given, Inv, SomeFields
<1>9. ThreadInv(t)'
  BY <1>1, <1>5, <1>6, <1>7, <1>8 DEF Raw, TikvModes, ThreadInv, UpdateInv, LabelOf
<1> QED
  BY <1>1, <1>4, <1>7, <1>9, CacheInv DEF Raw

(* The swap stores the merged row if the row is the one it was merged with. *)
LEMMA CompareAndSwapInv ==
    ASSUME NEW t \in Threads, Inv, Started, CompareAndSwap(t),
           UNCHANGED <<cache, embeddedVars, elasticVars, setupVars>>
    PROVE  Inv'
<1> DEFINE k == CurrentKey(t)
           new == Merge(op[t].row, op[t].values[k])
           changed == For({k}, new)
<1>0. /\ pc[t] = "cas" /\ binding' = binding /\ ops' = ops
      /\ \/ /\ store[k] = op[t].row /\ Goto(t, "cas", "idle")
            /\ Write(t, changed, {}) /\ Tell(t, Blank, {k})
         \/ Goto(t, "cas", "get") /\ NoWrite /\ op' = op
  BY DEF CompareAndSwap
<1>1. /\ TableInv /\ ShapeInv /\ LabelOf(binding, "cas") /\ op[t].values \in Batches
      /\ op[t].kind = "merge" /\ op[t].how = "replace" /\ op[t].row \in Rows
  BY <1>0 DEF Inv, ThreadInv, Writing
<1>2. k \in DOMAIN op[t].values /\ op[t].values[k] \in Rows /\ ops' \in Nat
  BY <1>0, <1>1, CurrentIn DEF TableInv, RowTypeOK
<1>3. DOMAIN changed = {k} /\ changed[k] = new /\ new \in Rows
  BY <1>1, <1>2, ForOne, MergeRow
<1>4. store[k] = op[t].row => new = Effect("merge", store[k], op[t].values[k])
  BY DEF Effect
<1> HIDE DEF changed, new, k
<1>5. CASE /\ store[k] = op[t].row /\ Goto(t, "cas", "idle")
           /\ Write(t, changed, {}) /\ Tell(t, Blank, {k})
  <2>1. TableInv' /\ Grows
    BY <1>0, <1>1, <1>2, <1>3, <1>4, <1>5, WriteInv
  <2>2. Moved(t) /\ pc'[t] = "idle"
    BY <1>1, <1>5, TellRecord, BlankShape, GotoMoves DEF Goto, Moved, Others, ShapeInv
  <2>3. ThreadInv(t)'
    BY <1>0, <1>1, <2>2, IdleInv DEF LabelOf, Writing
  <2> QED
    BY <1>0, <1>1, <2>1, <2>2, <2>3, PlainInv DEF LabelOf
<1>6. CASE Goto(t, "cas", "get") /\ NoWrite /\ op' = op
  <2>1. TableInv' /\ Grows
    BY <1>0, <1>1, <1>2, <1>6, NoWriteInv
  <2>2. Moved(t) /\ pc'[t] = "get"
    BY <1>1, <1>6, GotoMoves DEF Goto, Moved, Others, ShapeInv, SameOp
  <2>3. ThreadInv(t)'
    BY <1>0, <1>1, <1>6, <2>2 DEF LabelOf, ThreadInv, UpdateInv
  <2> QED
    BY <1>0, <1>1, <1>6, <2>1, <2>2, <2>3, PlainInv DEF LabelOf, NoWrite
<1> QED
  BY <1>0, <1>5, <1>6

(* A raw write or a Clean begins: the rows to write are those given. *)
LEMMA RawBeginInv ==
    ASSUME NEW t \in Threads, Inv, Started, Raw, NoWrite, NEW values \in Batches, NEW locals,
           DOMAIN locals = Parts, locals.values = values, locals.writes = values,
           locals.kind \in {"replace", "merge", "clean"}, Begin(t, "apply", locals),
           UNCHANGED <<cache, embeddedVars, elasticVars, setupVars>>
    PROVE  Inv'
<1>1. /\ Moved(t) /\ pc'[t] = "apply" /\ op'[t] = locals /\ binding' = binding /\ ops' \in Nat
  BY BeginMoves DEF Inv
<1>2. TableInv' /\ Grows
  BY <1>1, NoWriteInv DEF Inv
<1>3. ThreadInv(t)'
  BY <1>1 DEF ThreadInv, ApplyInv, LabelOf, Raw, TikvModes
<1> QED
  BY <1>1, <1>2, <1>3, PlainInv DEF NoWrite, Raw

(* Insert, Delete and the batches of rawDB, and its Clean. *)
LEMMA RawWriteInv ==
    ASSUME NEW t \in Threads, Inv, Started,
           \/ \E k \in Keys : RawInsert(t, k) \/ RawDelete(t, k)
           \/ RawBatchInsert(t) \/ RawBatchDelete(t) \/ RawClean(t)
           \/ \E f \in SomeFields : RawBatchUpdate(t, f),
           UNCHANGED <<cache, embeddedVars, elasticVars, setupVars>>
    PROVE  Inv'
<1>1. ASSUME NEW keys \in SUBSET Keys, keys # {}, ops < MaxOps
      PROVE  /\ \A fields \in SUBSET Fields : For(keys, Row(ops + 1, fields)) \in Batches
             /\ For(keys, NoRow) \in Batches
  BY <1>1, GivenBatch DEF Given, Gone, Inv
<1>2. Keys # {} /\ Fields \in SUBSET Fields /\ \A f \in SomeFields : f \in SUBSET Fields
  BY RowStoreAssumption, SMT DEF Keys, SomeFields
<1>3. ASSUME NEW where, NEW locals, Begin(t, where, locals) PROVE ops < MaxOps
  BY <1>3, RowStoreAssumption, SMT DEF Begin, Inv, TableInv, RowTypeOK
<1>4. ASSUME NEW kind \in {"replace", "merge"}, NEW values, RawWrite(t, kind, values),
             ops < MaxOps => values \in Batches
      PROVE  Inv'
  <2> DEFINE locals == [Blank EXCEPT !.kind = kind, !.values = values, !.writes = values]
  <2>1. Raw /\ Begin(t, "apply", locals) /\ NoWrite
    BY <1>4 DEF RawWrite
  <2>2. /\ DOMAIN locals = Parts /\ locals.values = values /\ locals.writes = values
        /\ locals.kind = kind
    BY SMT DEF Blank, Parts
  <2> HIDE DEF locals
  <2>3. values \in Batches
    BY <1>3, <1>4, <2>1
  <2> QED
    BY <1>4, <2>1, <2>2, <2>3, RawBeginInv
<1>5. ASSUME NEW k \in Keys, RawInsert(t, k) \/ RawDelete(t, k) PROVE Inv'
  <2>1. {k} \in SUBSET Keys /\ {k} # {}
    OBVIOUS
  <2>2. ops < MaxOps => For({k}, Row(ops + 1, Fields)) \in Batches /\ For({k}, NoRow) \in Batches
    BY <1>1, <1>2, <2>1
  <2> QED
    BY <1>4, <1>5, <2>2 DEF RawInsert, RawDelete
<1>6. ops < MaxOps => /\ \A fields \in SUBSET Fields : For(Keys, Row(ops + 1, fields)) \in Batches
                      /\ For(Keys, NoRow) \in Batches
  BY <1>1, <1>2
<1>7. CASE RawBatchInsert(t) \/ RawBatchDelete(t)
  BY <1>2, <1>4, <1>6, <1>7 DEF RawBatchInsert, RawBatchDelete
<1>8. ASSUME NEW f \in SomeFields, RawBatchUpdate(t, f) PROVE Inv'
  BY <1>2, <1>4, <1>6, <1>8 DEF RawBatchUpdate
<1>9. CASE RawClean(t)
  <2> DEFINE gone == For(Keys, NoRow)
             locals == [Blank EXCEPT !.kind = "clean", !.began = Present,
                                     !.values = gone, !.writes = gone]
  <2>1. Raw /\ Begin(t, "apply", locals) /\ NoWrite
    BY <1>9 DEF RawClean
  <2>2. /\ DOMAIN locals = Parts /\ locals.values = gone /\ locals.writes = gone
        /\ locals.kind = "clean"
    BY SMT DEF Blank, Parts
  <2> HIDE DEF locals
  <2>3. gone \in Batches
    BY <1>3, <1>6, <2>1
  <2> HIDE DEF gone
  <2> QED
    BY <2>1, <2>2, <2>3, RawBeginInv
<1> QED
  BY <1>5, <1>7, <1>8, <1>9

(* What an operation stores as it was given is what it is to make of the   *)
(* row, or the row is truncated.                                           *)
LEMMA GivenEffect ==
    ASSUME NEW kind \in {"replace", "merge", "clean"}, NEW row \in Rows, NEW values \in Rows,
           kind = "merge" => DOMAIN values = Fields
    PROVE  values = Effect(kind, row, values)
<1>1. CASE kind = "merge"
  BY <1>1, MergeWhole DEF Effect
<1>2. CASE kind \in {"replace", "clean"}
  BY <1>2 DEF Effect
<1> QED
  BY <1>1, <1>2

(* A region of a raw batch is written. *)
LEMMA ApplyStepInv ==
    ASSUME NEW t \in Threads, Inv, Started, NEW k \in Keys, Apply(t, k),
           UNCHANGED <<cache, embeddedVars, elasticVars, setupVars>>
    PROVE  Inv'
<1> DEFINE writes == op[t].writes
           rest == [j \in DOMAIN writes \ {k} |-> writes[j]]
           done == DOMAIN rest = {}
           clean == op[t].kind = "clean"
           to == IF ~done THEN "apply" ELSE IF clean THEN "cleaned" ELSE "idle"
           next == [op[t] EXCEPT !.writes = rest]
           mine == IF done /\ ~clean THEN Blank ELSE next
           changed == For({k}, writes[k])
           lossy == Truncated(t, writes) \cap {k}
<1>0. /\ k \in DOMAIN writes /\ Goto(t, "apply", to) /\ Write(t, changed, lossy)
      /\ Tell(t, mine, {k}) /\ binding' = binding /\ ops' = ops
  BY DEF Apply
<1>1. /\ TableInv /\ ShapeInv /\ LabelOf(binding, "apply") /\ op[t].values \in Batches
      /\ ApplyInv(op[t])
  BY <1>0 DEF Inv, ThreadInv, Writing, Goto
<1>2. /\ k \in DOMAIN op[t].values /\ op[t].values[k] \in Rows /\ ops' \in Nat
      /\ writes[k] = op[t].values[k] /\ store[k] \in Rows
      /\ op[t].kind \in {"replace", "merge", "clean"}
  BY <1>0, <1>1, CurrentIn DEF TableInv, RowTypeOK, ApplyInv
<1>3. DOMAIN changed = {k} /\ changed[k] = writes[k]
  BY ForOne
<1>4. k \notin lossy => writes[k] = Effect(op[t].kind, store[k], op[t].values[k])
  <2> HAVE k \notin lossy
  <2>1. op[t].kind = "merge" => DOMAIN op[t].values[k] = Fields
    BY <1>0, <1>2 DEF Truncated
  <2>2. op[t].values[k] = Effect(op[t].kind, store[k], op[t].values[k])
    BY <1>2, <2>1, GivenEffect
  <2> QED
    BY <1>2, <2>2
<1>5. /\ DOMAIN next = Parts /\ next.kind = op[t].kind /\ next.values = op[t].values
      /\ next.writes = rest
  BY <1>1, SMT DEF ShapeInv, Parts
<1>6. DOMAIN mine = Parts /\ (to = "apply" => mine = next)
  <2> HIDE DEF next
  <2> QED
    BY <1>5, BlankShape
<1>7. to \in {"apply", "cleaned", "idle"}
  OBVIOUS
<1>8. ApplyInv(next)
  <2>1. DOMAIN rest \subseteq DOMAIN writes /\ \A j \in DOMAIN rest : rest[j] = writes[j]
    OBVIOUS
  <2> HIDE DEF rest, next
  <2> QED
    BY <1>1, <1>5, <2>1 DEF ApplyInv
<1> HIDE DEF changed, lossy, mine, next, to
<1>9. TableInv' /\ Grows
  BY <1>0, <1>1, <1>2, <1>3, <1>4, WriteInv
<1>10. Moved(t) /\ pc'[t] = to /\ op'[t] = mine
  BY <1>0, <1>1, <1>6, TellRecord, GotoMoves DEF Goto, Moved, Others, ShapeInv
<1>11. ThreadInv(t)'
  <2>1. CASE to = "apply"
    <3>1. op'[t] = next
      BY <1>6, <1>10, <2>1
    <3> QED
      BY <1>0, <1>1, <1>5, <1>8, <1>10, <2>1, <3>1 DEF LabelOf, ThreadInv
  <2>2. CASE to \in {"cleaned", "idle"}
    BY <1>0, <1>1, <1>10, <2>2, IdleInv DEF LabelOf, Writing
  <2> QED
    BY <1>7, <2>1, <2>2
<1> QED
  BY <1>0, <1>1, <1>9, <1>10, <1>11, PlainInv DEF LabelOf

(* A transaction begins with the versions of that moment. *)
LEMMA TxnWriteInv ==
    ASSUME NEW t \in Threads, Inv, Started,
           NEW kind \in {"replace", "merge"}, NEW values, NEW writes,
           TxnWrite(t, kind, values, writes), ops < MaxOps => values \in Batches,
           DOMAIN writes \subseteq DOMAIN values,
           \A k \in DOMAIN writes :
               \/ writes[k] = values[k]
               \/ kind = "merge" /\ writes[k] = Merge(store[k], values[k]),
           UNCHANGED <<cache, embeddedVars, elasticVars, setupVars>>
    PROVE  Inv'
<1> DEFINE locals == [Blank EXCEPT !.kind = kind, !.values = values,
                                   !.writes = writes, !.start = version]
<1>1. Txn /\ Begin(t, "commit", locals) /\ NoWrite
  BY DEF TxnWrite
<1>2. /\ DOMAIN locals = Parts /\ locals.values = values /\ locals.writes = writes
      /\ locals.kind = kind /\ locals.start = version
  BY SMT DEF Blank, Parts
<1> HIDE DEF locals
<1>3. /\ Moved(t) /\ pc'[t] = "commit" /\ op'[t] = locals /\ binding' = binding /\ ops' \in Nat
      /\ ops < MaxOps
  <2>1. t \in Threads /\ TableInv /\ ShapeInv
    BY DEF Inv
  <2> QED
    BY ONLY <1>1, <1>2, <2>1, BeginMoves
<1>4. TableInv' /\ Grows /\ store' = store /\ version' = version
  BY <1>1, <1>3, NoWriteInv DEF Inv, NoWrite
<1>5. PICK keys \in (SUBSET Keys) \ {{}} : values \in [keys -> Rows]
  BY <1>3 DEF Batches
<1>6. ASSUME NEW k \in DOMAIN writes
      PROVE  /\ writes[k] \in Rows /\ version[k] \in Int /\ version[k] <= version[k]
  <2>1. k \in Keys /\ values[k] \in Rows
    BY <1>5, <1>6
  <2>2. store[k] \in Rows /\ version[k] \in Nat
    BY <2>1 DEF Inv, TableInv, RowTypeOK
  <2>3. version[k] \in Int /\ version[k] <= version[k]
    BY <2>2, SMT
  <2> QED
    BY <1>6, <2>1, <2>2, <2>3, MergeRow
<1>7. TxnInv(op[t])'
  BY <1>2, <1>3, <1>4, <1>6 DEF TxnInv, Fresh
<1>8. ThreadInv(t)'
  BY <1>1, <1>2, <1>3, <1>7 DEF ThreadInv, LabelOf, Txn
<1> QED
  BY <1>1, <1>3, <1>4, <1>8, PlainInv DEF Txn

(* The operations of txnDB. *)
LEMMA TxnBeginInv ==
    ASSUME NEW t \in Threads, Inv, Started,
           \/ \E k \in Keys : TxnInsert(t, k) \/ TxnDelete(t, k)
           \/ TxnBatchInsert(t) \/ TxnBatchDelete(t)
           \/ \E f \in SomeFields : TxnBatchUpdate(t, f)
           \/ \E k \in Keys, f \in SomeFields : TxnUpdate(t, k, f),
           UNCHANGED <<cache, embeddedVars, elasticVars, setupVars>>
    PROVE  Inv'
<1>1. ASSUME NEW keys \in SUBSET Keys, keys # {}, ops < MaxOps
      PROVE  /\ \A fields \in SUBSET Fields : For(keys, Row(ops + 1, fields)) \in Batches
             /\ For(keys, NoRow) \in Batches
  BY <1>1, GivenBatch DEF Given, Gone, Inv
<1>2. Keys # {} /\ Fields \in SUBSET Fields /\ \A f \in SomeFields : f \in SUBSET Fields
  BY RowStoreAssumption, SMT DEF Keys, SomeFields
<1>3. ASSUME NEW kind \in {"replace", "merge"}, NEW values, TxnPut(t, kind, values),
             ops < MaxOps => values \in Batches
      PROVE  Inv'
  BY <1>3, TxnWriteInv DEF TxnPut
<1>4. ASSUME NEW k \in Keys, NEW f \in SUBSET Fields
      PROVE  ops < MaxOps => For({k}, Row(ops + 1, f)) \in Batches /\ For({k}, NoRow) \in Batches
  <2>1. {k} \in SUBSET Keys /\ {k} # {}
    OBVIOUS
  <2> QED
    BY <1>1, <2>1
<1>5. ASSUME NEW k \in Keys, TxnInsert(t, k) \/ TxnDelete(t, k) PROVE Inv'
  BY <1>2, <1>3, <1>4, <1>5 DEF TxnInsert, TxnDelete
<1>6. ops < MaxOps => /\ \A fields \in SUBSET Fields : For(Keys, Row(ops + 1, fields)) \in Batches
                      /\ For(Keys, NoRow) \in Batches
  BY <1>1, <1>2
<1>7. CASE TxnBatchInsert(t) \/ TxnBatchDelete(t)
  BY <1>2, <1>3, <1>6, <1>7 DEF TxnBatchInsert, TxnBatchDelete
<1>8. ASSUME NEW f \in SomeFields, TxnBatchUpdate(t, f) PROVE Inv'
  BY <1>2, <1>3, <1>6, <1>8 DEF TxnBatchUpdate
<1>9. ASSUME NEW k \in Keys, NEW f \in SomeFields, TxnUpdate(t, k, f) PROVE Inv'
  <2> DEFINE values == For({k}, Row(ops + 1, f))
             writes == For({k}, Merge(store[k], values[k]))
  <2>1. TxnWrite(t, "merge", values, writes)
    BY <1>9 DEF TxnUpdate
  <2>2. ops < MaxOps => values \in Batches
    BY <1>2, <1>4
  <2>3. /\ DOMAIN values = {k} /\ DOMAIN writes = {k}
        /\ writes[k] = Merge(store[k], values[k])
    BY ForOne
  <2> HIDE DEF values, writes
  <2> QED
    BY <2>1, <2>2, <2>3, TxnWriteInv
<1> QED
  BY <1>5, <1>7, <1>8, <1>9

(* Commit stores all rows at once, if none was committed meanwhile. *)
LEMMA CommitInv ==
    ASSUME NEW t \in Threads, Inv, Started, Commit(t),
           UNCHANGED <<cache, embeddedVars, elasticVars, setupVars>>
    PROVE  Inv'
<1> DEFINE writes == op[t].writes
           values == op[t].values
           lossy == Truncated(t, writes)
<1>0. /\ Txn /\ Goto(t, "commit", "idle") /\ binding' = binding /\ ops' = ops
      /\ \/ NoConflict(t) /\ Write(t, writes, lossy) /\ Tell(t, Blank, DOMAIN writes)
         \/ NoWrite /\ op' = [op EXCEPT ![t] = Blank]
  BY DEF Commit
<1>1. TableInv /\ ShapeInv /\ values \in Batches /\ TxnInv(op[t]) /\ ops' \in Nat
  BY <1>0 DEF Inv, ThreadInv, Writing, Goto, Txn, TableInv, RowTypeOK
<1>2. ASSUME NoConflict(t), NEW k \in DOMAIN writes \ lossy
      PROVE  writes[k] = Effect(op[t].kind, store[k], values[k])
  <2>1. /\ k \in Keys /\ values[k] \in Rows /\ store[k] \in Rows
        /\ op[t].kind \in {"replace", "merge", "clean"} /\ version[k] = op[t].start[k]
    BY <1>1, <1>2, CurrentIn DEF TableInv, RowTypeOK, TxnInv, NoConflict
  <2>2. CASE writes[k] = values[k]
    <3>1. op[t].kind = "merge" => DOMAIN values[k] = Fields
      BY <1>2, <2>2 DEF Truncated
    <3>2. values[k] = Effect(op[t].kind, store[k], values[k])
      BY <2>1, <3>1, GivenEffect
    <3> QED
      BY <2>2, <3>2
  <2>3. CASE /\ op[t].kind = "merge"
             /\ Fresh(op[t].start, k, writes[k] = Merge(store[k], values[k]))
    BY <2>1, <2>3 DEF Fresh, Effect
  <2> QED
    BY <1>1, <1>2, <2>2, <2>3 DEF TxnInv
<1>3. DOMAIN writes \subseteq DOMAIN values /\ \A k \in DOMAIN writes : writes[k] \in Rows
  BY <1>1 DEF TxnInv
<1> HIDE DEF lossy
<1>4. TableInv' /\ Grows
  <2>1. CASE NoConflict(t) /\ Write(t, writes, lossy)
    BY <1>0, <1>1, <1>2, <1>3, <2>1, WriteInv
  <2>2. CASE NoWrite
    BY <1>0, <1>1, <2>2, NoWriteInv
  <2> QED
    BY <1>0, <2>1, <2>2
<1>5. Moved(t) /\ pc'[t] = "idle"
  BY <1>0, <1>1, TellRecord, OwnRecord, BlankShape, GotoMoves
     DEF Goto, Moved, Others, ShapeInv
<1>6. ThreadInv(t)'
  BY <1>0, <1>5, IdleInv DEF LabelOf, Writing, Txn
<1> QED
  BY <1>0, <1>4, <1>5, <1>6, PlainInv DEF Txn

(* Count goes through the table, and Clean in a transaction begins. *)
LEMMA CountInv ==
    ASSUME NEW t \in Threads, Inv, Started, CountBegin(t) \/ CountBatch(t),
           UNCHANGED <<cache, embeddedVars, elasticVars, setupVars>>
    PROVE  Inv'
<1>1. CASE CountBegin(t)
  <2> DEFINE locals == [Blank EXCEPT !.kind = "count", !.began = Present]
  <2>1. binding \in TikvModes /\ Begin(t, "count", locals) /\ NoWrite
    BY <1>1 DEF CountBegin
  <2>2. DOMAIN locals = Parts
    BY SMT DEF Blank, Parts
  <2> HIDE DEF locals
  <2>3. Moved(t) /\ pc'[t] = "count" /\ binding' = binding /\ ops' \in Nat
    BY <2>1, <2>2, BeginMoves DEF Inv
  <2>4. LabelOf(binding, pc'[t]) /\ pc'[t] \notin Writing \cup {"clean"} /\ binding # "elastic"
    BY <2>1, <2>3 DEF TikvModes, LabelOf, Writing
  <2> QED
    BY <2>1, <2>3, <2>4, QuietInv
<1>2. CASE CountBatch(t)
  <2> DEFINE batch == Batch(IF Txn THEN op[t].began ELSE Present, op[t].cursor)
             to == IF Cardinality(batch) < BatchSize THEN "counted" ELSE "count"
  <2>1. /\ Goto(t, "count", to)
        /\ op' = [op EXCEPT ![t].count = @ + Cardinality(batch), ![t].cursor = After(batch, @)]
        /\ NoWrite /\ binding' = binding /\ ops' = ops
    BY <1>2 DEF CountBatch
  <2>2. to \in {"counted", "count"}
    OBVIOUS
  <2>3. ShapeInv /\ ops \in Nat /\ LabelOf(binding, "count")
    BY <2>1 DEF Inv, TableInv, RowTypeOK, ThreadInv, Goto
  <2> HIDE DEF batch, to
  <2>4. /\ DOMAIN op' = Threads /\ DOMAIN op'[t] = Parts
        /\ \A u \in Threads : u # t => op'[u] = op[u]
    BY <2>1, <2>3, SMT DEF ShapeInv, Parts
  <2>5. Moved(t) /\ pc'[t] = to
    BY <2>1, <2>3, <2>4, RecordMoves DEF Goto
  <2>6. LabelOf(binding, pc'[t]) /\ pc'[t] \notin Writing \cup {"clean"} /\ binding # "elastic"
    BY <2>2, <2>3, <2>5 DEF LabelOf, Writing
  <2> QED
    BY <2>1, <2>3, <2>5, <2>6, QuietInv
<1> QED
  BY <1>1, <1>2

(* Clean of txnDB begins. *)
LEMMA TxnCleanInv ==
    ASSUME NEW t \in Threads, Inv, Started, TxnClean(t),
           UNCHANGED <<cache, embeddedVars, elasticVars, setupVars>>
    PROVE  Inv'
<1> DEFINE locals == [Blank EXCEPT !.kind = "clean", !.began = Present]
<1>1. Txn /\ Begin(t, "clean", locals) /\ NoWrite
  BY DEF TxnClean
<1>2. DOMAIN locals = Parts /\ locals.kind = "clean"
  BY SMT DEF Blank, Parts
<1> HIDE DEF locals
<1>3. Moved(t) /\ pc'[t] = "clean" /\ op'[t] = locals /\ binding' = binding /\ ops' \in Nat
  BY <1>1, <1>2, BeginMoves DEF Inv
<1>4. TableInv' /\ Grows
  BY <1>1, <1>3, NoWriteInv DEF Inv
<1>5. ThreadInv(t)'
  BY <1>1, <1>2, <1>3 DEF ThreadInv, LabelOf, Writing, Txn
<1> QED
  BY <1>1, <1>3, <1>4, <1>5, PlainInv DEF Txn, NoWrite

(* Clean lists a batch, ... *)
LEMMA CleanBatchInv ==
    ASSUME NEW t \in Threads, Inv, Started, CleanBatch(t),
           UNCHANGED <<cache, embeddedVars, elasticVars, setupVars>>
    PROVE  Inv'
<1> DEFINE batch == Batch(Present, op[t].cursor)
           gone == For(batch, NoRow)
           to == IF batch = {} THEN "cleaned" ELSE "cleanCommit"
           mine == [op[t] EXCEPT !.values = gone, !.writes = gone, !.start = version]
<1>1. /\ Goto(t, "clean", to)
      /\ op' = [op EXCEPT ![t].values = gone, ![t].writes = gone, ![t].start = version]
      /\ NoWrite /\ binding' = binding /\ ops' = ops
  BY DEF CleanBatch
<1>2. /\ ShapeInv /\ TableInv /\ ops' \in Nat /\ LabelOf(binding, "clean")
      /\ op[t].kind = "clean"
  BY <1>1 DEF Inv, TableInv, RowTypeOK, ThreadInv, Goto
<1>3. /\ DOMAIN mine = Parts /\ mine.kind = op[t].kind /\ mine.values = gone /\ mine.writes = gone
  BY <1>2, SMT DEF ShapeInv, Parts
<1>4. /\ DOMAIN op' = Threads /\ op'[t] = mine
      /\ \A u \in Threads : u # t => op'[u] = op[u]
  <2> HIDE DEF gone
  <2> QED
    BY <1>1, <1>2, SMT DEF ShapeInv
<1>5. batch # {} => gone \in Batches
  <2> HAVE batch # {}
  <2>1. batch \in SUBSET Keys
    BY DEF Batch, Present
  <2> HIDE DEF batch
  <2>2. gone \in [batch -> Rows]
    BY NoRowIsRow DEF For
  <2> QED
    BY <2>1, <2>2 DEF Batches
<1>6. to = "cleaned" \/ (to = "cleanCommit" /\ gone \in Batches)
  BY <1>5
<1> HIDE DEF mine, to, gone
<1>7. Moved(t) /\ pc'[t] = to /\ op'[t] = mine
  BY <1>1, <1>2, <1>3, <1>4, RecordMoves DEF Goto
<1>8. TableInv' /\ Grows
  BY <1>1, <1>2, NoWriteInv
<1>9. ThreadInv(t)'
  <2>1. CASE to = "cleaned"
    BY <1>1, <1>2, <1>7, <2>1, IdleInv DEF LabelOf, Writing, TikvModes
  <2>2. CASE to = "cleanCommit" /\ gone \in Batches
    BY <1>1, <1>2, <1>3, <1>7, <2>2 DEF LabelOf, Writing, ThreadInv, ApplyInv
  <2> QED
    BY <1>6, <2>1, <2>2
<1> QED
  BY <1>1, <1>2, <1>7, <1>8, <1>9, PlainInv DEF LabelOf, NoWrite

(* ... and deletes it in a transaction. *)
LEMMA CleanCommitInv ==
    ASSUME NEW t \in Threads, Inv, Started, CleanCommit(t),
           UNCHANGED <<cache, embeddedVars, elasticVars, setupVars>>
    PROVE  Inv'
<1> DEFINE writes == op[t].writes
           to == IF Cardinality(DOMAIN writes) < BatchSize THEN "cleaned" ELSE "clean"
           mine == [op[t] EXCEPT !.cursor = After(DOMAIN writes, @), !.writes = << >>]
<1>1. /\ pc[t] = "cleanCommit" /\ binding' = binding /\ ops' = ops
      /\ \/ /\ Goto(t, "cleanCommit", to) /\ Write(t, writes, {})
            /\ Tell(t, mine, DOMAIN writes)
         \/ Goto(t, "cleanCommit", "idle") /\ NoWrite /\ op' = [op EXCEPT ![t] = Blank]
  BY DEF CleanCommit
<1>2. /\ ShapeInv /\ TableInv /\ ops' \in Nat /\ LabelOf(binding, "cleanCommit")
      /\ op[t].kind = "clean" /\ op[t].values \in Batches /\ ApplyInv(op[t])
  BY <1>1 DEF Inv, TableInv, RowTypeOK, ThreadInv, Writing
<1>3. DOMAIN mine = Parts /\ mine.kind = op[t].kind
  BY <1>2, SMT DEF ShapeInv, Parts
<1>4. to \in {"cleaned", "clean"}
  OBVIOUS
<1>5. /\ DOMAIN writes \subseteq DOMAIN op[t].values
      /\ \A k \in DOMAIN writes : /\ writes[k] \in Rows
                                  /\ writes[k] = Effect(op[t].kind, store[k], op[t].values[k])
  <2>1. \A row, values : Effect(op[t].kind, row, values) = values
    BY <1>2 DEF Effect
  <2> QED
    BY <1>2, <2>1, CurrentIn DEF ApplyInv
<1> HIDE DEF mine, to
<1>6. CASE /\ Goto(t, "cleanCommit", to) /\ Write(t, writes, {}) /\ Tell(t, mine, DOMAIN writes)
  <2>1. TableInv' /\ Grows
    BY <1>1, <1>2, <1>5, <1>6, WriteInv
  <2>2. Moved(t) /\ pc'[t] = to /\ op'[t] = mine
    BY <1>2, <1>3, <1>6, TellRecord, GotoMoves DEF Goto, Moved, Others, ShapeInv
  <2>3. ThreadInv(t)'
    BY <1>1, <1>2, <1>3, <1>4, <2>2 DEF LabelOf, Writing, ThreadInv, TikvModes
  <2> QED
    BY <1>1, <1>2, <2>1, <2>2, <2>3, PlainInv DEF LabelOf
<1>7. CASE Goto(t, "cleanCommit", "idle") /\ NoWrite /\ op' = [op EXCEPT ![t] = Blank]
  <2>1. Moved(t) /\ pc'[t] = "idle"
    BY <1>2, <1>7, OwnRecord, BlankShape, GotoMoves DEF Goto, Moved, Others, ShapeInv
  <2>2. LabelOf(binding, pc'[t]) /\ pc'[t] \notin Writing \cup {"clean"} /\ binding # "elastic"
    BY <1>2, <2>1 DEF LabelOf, Writing
  <2> QED
    BY <1>1, <1>2, <1>7, <2>1, <2>2, QuietInv
<1> QED
  BY <1>1, <1>6, <1>7

(* Any step of the tikv binding. *)
LEMMA TikvStepInv ==
    ASSUME NEW t \in Threads, Inv, Started, TikvStep(t),
           UNCHANGED <<embeddedVars, elasticVars, setupVars>>
    PROVE  Inv'
<1>1. CASE \/ \E k \in Keys : RawRead(t, k)
           \/ \E k \in Keys, f \in SomeFields : RawUpdate(t, k, f)
  BY <1>1, RawReadInv, RawUpdateInv
<1>2. CASE RawStep(t) /\ cache' = cache
  BY <1>2, RawWriteInv, ApplyStepInv, CompareAndSwapInv DEF RawStep
<1>3. CASE TxnStep(t) /\ cache' = cache
  BY <1>3, TxnBeginInv, CommitInv, TxnCleanInv, CleanBatchInv, CleanCommitInv DEF TxnStep
<1>4. CASE (Return(t) \/ TikvCallFails(t)) /\ cache' = cache
  <2>1. Finish(t) /\ binding # "elastic"
    BY <1>4 DEF Return, TikvCallFails, TikvModes, Inv, ThreadInv, LabelOf
  <2> QED
    BY <1>4, <2>1, FinishInv
<1>5. CASE (CountBegin(t) \/ CountBatch(t)) /\ cache' = cache
  BY <1>5, CountInv
<1> QED
  BY <1>1, <1>2, <1>3, <1>4, <1>5 DEF TikvStep

-----------------------------------------------------------------------------
(* The embedded stores and foundationdb *)

(* The closure of a transaction has run: what it will store is what the    *)
(* operation makes of the row it read.                                     *)
LEMMA RunClosureInv ==
    ASSUME NEW t \in Threads, Inv, RunClosure(t),
           binding \in {"badger", "foundationdb"} \/ (binding = "boltdb" /\ writer' = {t})
    PROVE  /\ Moved(t) /\ binding' = binding /\ TableInv' /\ Grows /\ store' = store
           /\ ThreadInv(t)' /\ Encoded(t) \in Rows
<1> DEFINE k == CurrentKey(t)
           new == Encoded(t)
           writes == For({k}, new)
           mine == [op[t] EXCEPT !.writes = writes, !.start = version]
<1>0. /\ Goto(t, "run", "commit")
      /\ op' = [op EXCEPT ![t].writes = writes, ![t].start = version]
      /\ NoWrite /\ binding' = binding /\ ops' = ops
  BY DEF RunClosure
<1>1. /\ TableInv /\ ShapeInv /\ RunInv(binding, op[t]) /\ op[t].values \in Batches
      /\ ops' \in Nat
  BY <1>0 DEF Inv, ThreadInv, Writing, Goto, TableInv, RowTypeOK
<1>2. /\ k \in Keys /\ k \in DOMAIN op[t].values /\ op[t].values[k] \in Rows
      /\ store[k] \in Rows /\ version[k] \in Nat
  BY <1>1, CurrentIn DEF TableInv, RowTypeOK
<1>3. new = Effect(op[t].kind, store[k], op[t].values[k]) /\ new \in Rows
  BY <1>2, EffectRow DEF Encoded
<1>4. DOMAIN writes = {k} /\ writes[k] = new
  BY ForOne
<1>5. /\ DOMAIN mine = Parts /\ mine.kind = op[t].kind /\ mine.how = op[t].how
      /\ mine.values = op[t].values /\ mine.writes = writes /\ mine.start = version
  BY <1>1, SMT DEF ShapeInv, Parts
<1>6. /\ DOMAIN op' = Threads /\ op'[t] = mine
      /\ \A u \in Threads : u # t => op'[u] = op[u]
  <2> HIDE DEF writes
  <2> QED
    BY <1>0, <1>1, SMT DEF ShapeInv
<1> HIDE DEF mine, writes, new
<1>7. Moved(t) /\ pc'[t] = "commit" /\ op'[t] = mine
  BY <1>0, <1>1, <1>5, <1>6, RecordMoves DEF Goto
<1>8. TableInv' /\ Grows
  BY <1>0, <1>1, NoWriteInv
<1>9. CurrentKey(t)' = k /\ store' = store /\ version' = version
  BY <1>0, <1>5, <1>7 DEF CurrentKey, NoWrite
<1>10. op[t].kind = "replace" => new = op[t].values[k]
  BY <1>3 DEF Effect
<1>11. version[k] \in Int /\ version[k] <= version[k]
  BY <1>2, SMT
<1> HIDE DEF k
<1>12. ThreadInv(t)'
  <2>1. CASE binding \in {"badger", "foundationdb"}
    <3>1. OptimisticInv(t)'
      BY <1>0, <1>1, <1>3, <1>4, <1>5, <1>7, <1>9, <1>10, <1>11
         DEF OptimisticInv, RunInv, Fresh
    <3> QED
      BY <1>0, <1>1, <1>5, <1>7, <2>1, <3>1 DEF ThreadInv, LabelOf
  <2>2. CASE binding = "boltdb" /\ writer' = {t}
    <3>1. LockedInv(t)'
      BY <1>0, <1>1, <1>2, <1>3, <1>4, <1>5, <1>7, <1>9, <2>2 DEF LockedInv, RunInv
    <3> QED
      BY <1>0, <1>1, <1>5, <1>7, <2>2, <3>1 DEF ThreadInv, LabelOf
  <2> QED
    BY <2>1, <2>2
<1> QED
  BY <1>0, <1>3, <1>7, <1>8, <1>9, <1>12 DEF new

(* The row is committed, and the loop goes on. *)
LEMMA CommitRowInv ==
    ASSUME NEW t \in Threads, Inv, Advance(t, "commit", "run"), RunInv(binding, op[t]),
           NEW changed, NEW lossy, Write(t, changed, lossy), DOMAIN changed = {CurrentKey(t)},
           changed[CurrentKey(t)] \in Rows,
           CurrentKey(t) \notin lossy =>
               changed[CurrentKey(t)] =
                   Effect(op[t].kind, store[CurrentKey(t)], op[t].values[CurrentKey(t)])
    PROVE  /\ Moved(t) /\ binding' = binding /\ TableInv' /\ Grows /\ ThreadInv(t)'
<1>1. /\ TableInv /\ ShapeInv /\ LabelOf(binding, "commit") /\ op[t].values \in Batches
  BY DEF Inv, ThreadInv, Writing, Advance, Goto
<1>2. /\ Moved(t) /\ binding' = binding /\ ops' = ops
      /\ \/ pc'[t] = "idle"
         \/ /\ pc'[t] = "run" /\ op'[t].values \in Batches
            /\ op'[t].kind = op[t].kind /\ op'[t].how = op[t].how
  <2>1. Advanced(t, "commit", "run")
    BY <1>1, AdvanceMoves
  <2> QED
    BY <2>1 DEF Advanced
<1>3. TableInv' /\ Grows
  <2>1. ops' \in Nat /\ CurrentKey(t) \in DOMAIN op[t].values
    BY <1>1, <1>2, CurrentIn DEF TableInv, RowTypeOK
  <2> QED
    BY <1>1, <1>2, <2>1, WriteInv
<1>4. ThreadInv(t)'
  BY <1>1, <1>2 DEF LabelOf, Writing, ThreadInv, RunInv
<1> QED
  BY <1>2, <1>3, <1>4

(* A step of an embedded store. *)
LEMMA EmbeddedMoveInv ==
    ASSUME NEW t \in Threads, Inv, Started, Moved(t), TableInv', Grows, binding' = binding,
           ThreadInv(t)', LockKept(t), EmbeddedInv', binding # "elastic",
           UNCHANGED <<cache, elasticVars, setupVars>>
    PROVE  Inv'
<1>1. CacheTypeOK' /\ DOMAIN cache' = Threads
  BY DEF Inv, CacheTypeOK
<1> QED
  BY <1>1, StepInv

(* badger and bolt run the closure. *)
LEMMA EncodeInv ==
    ASSUME NEW t \in Threads, Inv, Encoded(t) \in Rows, EncodeIntoBuffer(t)
    PROVE  content' \in [Buffers -> Rows] /\ entry' \in [Threads -> Buffers \cup {"none"}]
<1>1. content \in [Buffers -> Rows] /\ entry \in [Threads -> Buffers \cup {"none"}]
  BY DEF Inv, EmbeddedInv
<1>2. CASE entry' = [entry EXCEPT ![t] = "none"] /\ content' = content
  BY <1>1, <1>2
<1>3. CASE \E b \in Buffers : /\ content' = [content EXCEPT ![b] = Encoded(t)]
                              /\ entry' = [entry EXCEPT ![t] = b]
  BY <1>1, <1>3
<1> QED
  BY <1>2, <1>3 DEF EncodeIntoBuffer

(* The closure of a transaction of badger or bolt is run. *)
LEMMA RunStepInv ==
    ASSUME NEW t \in Threads, Inv, Started, BadgerRun(t) \/ BoltRun(t),
           UNCHANGED <<cache, elasticVars, setupVars>>
    PROVE  Inv'
<1>1. /\ RunClosure(t) /\ EncodeIntoBuffer(t)
      /\ \/ binding = "badger" /\ writer' = writer
         \/ binding = "boltdb" /\ writer = {} /\ writer' = {t}
  BY DEF BadgerRun, BoltRun
<1>2. /\ Moved(t) /\ binding' = binding /\ TableInv' /\ Grows /\ store' = store
      /\ ThreadInv(t)' /\ Encoded(t) \in Rows
  BY <1>1, RunClosureInv
<1>3. content' \in [Buffers -> Rows] /\ entry' \in [Threads -> Buffers \cup {"none"}]
  BY <1>1, <1>2, EncodeInv
<1>4. EmbeddedInv'
  BY <1>1, <1>3 DEF Inv, EmbeddedInv
<1>5. LockKept(t) /\ binding # "elastic"
  BY <1>1 DEF LockKept
<1> QED
  BY <1>2, <1>4, <1>5, EmbeddedMoveInv

(* They commit what the buffer holds by now. *)
LEMMA ReferredInv ==
    ASSUME NEW t \in Threads, Inv, Started, BadgerCommit(t) \/ BoltCommit(t),
           UNCHANGED <<cache, elasticVars, setupVars>>
    PROVE  Inv'
<1> DEFINE k == CurrentKey(t)
           new == Referred(t)
           changed == For({k}, new)
           lossy == IF new # op[t].writes[k] THEN {k} ELSE {}
<1>1. /\ pc[t] = "commit" /\ Advance(t, "commit", "run") /\ Write(t, changed, lossy)
      /\ entry' = [entry EXCEPT ![t] = "none"] /\ content' = content
      /\ \/ binding = "badger" /\ ~Conflict(t) /\ writer' = writer
         \/ binding = "boltdb" /\ writer' = {}
  BY DEF BadgerCommit, BoltCommit, StoreReferred
<1>2. /\ TableInv /\ RunInv(binding, op[t]) /\ op[t].values \in Batches
      /\ binding = "badger" => OptimisticInv(t)
      /\ binding = "boltdb" => LockedInv(t)
  BY <1>1 DEF Inv, ThreadInv, Writing, OptimisticInv, LockedInv
<1>3. content \in [Buffers -> Rows] /\ entry \in [Threads -> Buffers \cup {"none"}]
  BY DEF Inv, EmbeddedInv
<1>4. new \in Rows
  BY <1>3, NoRowIsRow DEF Referred
<1>5. DOMAIN changed = {k} /\ changed[k] = new
  BY ForOne
<1>6. k \notin lossy => new = Effect(op[t].kind, store[k], op[t].values[k])
  <2> HAVE k \notin lossy
  <2>1. new = op[t].writes[k]
    OBVIOUS
  <2>2. CASE binding = "badger" /\ ~Conflict(t)
    <3>1. op[t].kind \in {"patch", "replace"}
      BY <1>2, <2>2 DEF RunInv
    <3>2. op[t].kind = "patch" => op[t].writes[k] = Effect("patch", store[k], op[t].values[k])
      BY <1>2, <2>2 DEF OptimisticInv, Conflict, Fresh
    <3>3. op[t].kind = "replace" => op[t].writes[k] = Effect("replace", store[k], op[t].values[k])
      BY <1>2, <2>2 DEF OptimisticInv, Effect
    <3> QED
      BY <2>1, <3>1, <3>2, <3>3
  <2>3. CASE binding = "boltdb"
    BY <1>2, <2>1, <2>3 DEF LockedInv
  <2> QED
    BY <1>1, <2>2, <2>3
<1> HIDE DEF changed, lossy, new
<1>7. Moved(t) /\ binding' = binding /\ TableInv' /\ Grows /\ ThreadInv(t)'
  <2>1. changed[k] \in Rows /\
        (k \notin lossy => changed[k] = Effect(op[t].kind, store[k], op[t].values[k]))
    BY <1>4, <1>5, <1>6
  <2> QED
    BY <1>1, <1>2, <1>5, <2>1, CommitRowInv
<1>8. EmbeddedInv'
  <2>1. content' \in [Buffers -> Rows] /\ entry' \in [Threads -> Buffers \cup {"none"}]
    BY <1>1, <1>3
  <2> QED
    BY <1>1, <2>1 DEF Inv, EmbeddedInv
<1>9. LockKept(t) /\ binding # "elastic"
  BY <1>1, <1>2 DEF LockKept, LockedInv
<1> QED
  BY <1>7, <1>8, <1>9, EmbeddedMoveInv

(* foundationdb runs the closure, and again after a conflict. *)
LEMMA FdbInv ==
    ASSUME NEW t \in Threads, Inv, Started, FdbRun(t) \/ FdbCommit(t),
           UNCHANGED <<cache, elasticVars, setupVars>>
    PROVE  Inv'
<1>0. binding = "foundationdb" /\ UNCHANGED embeddedVars
  BY DEF FdbRun, FdbCommit
<1>1. EmbeddedInv' /\ LockKept(t) /\ binding # "elastic"
  BY <1>0 DEF Inv, EmbeddedInv, embeddedVars, LockKept
<1>2. /\ TableInv /\ ShapeInv /\ ops \in Nat
      /\ pc[t] \in {"run", "commit"} => op[t].values \in Batches /\ RunInv(binding, op[t])
      /\ pc[t] = "commit" => OptimisticInv(t)
  BY <1>0 DEF Inv, ThreadInv, Writing, OptimisticInv, TableInv, RowTypeOK
<1>3. CASE RunClosure(t)
  BY <1>0, <1>1, <1>3, RunClosureInv, EmbeddedMoveInv
<1>4. CASE pc[t] = "run" /\ Advance(t, "run", "run") /\ NoWrite
  <2>1. /\ Moved(t) /\ binding' = binding /\ ops' = ops
        /\ \/ pc'[t] = "idle"
           \/ /\ pc'[t] = "run" /\ op'[t].values \in Batches
              /\ op'[t].kind = op[t].kind /\ op'[t].how = op[t].how
    <3>1. Advanced(t, "run", "run")
      BY <1>2, <1>4, AdvanceMoves
    <3> QED
      BY <3>1 DEF Advanced
  <2>2. TableInv' /\ Grows
    BY <1>2, <1>4, <2>1, NoWriteInv
  <2>3. ThreadInv(t)'
    BY <1>0, <1>2, <1>4, <2>1 DEF LabelOf, Writing, ThreadInv, RunInv
  <2> QED
    BY <1>1, <2>1, <2>2, <2>3, EmbeddedMoveInv
<1>5. CASE Goto(t, "commit", "run") /\ NoWrite /\ UNCHANGED <<binding, ops, op>>
  <2>1. Moved(t) /\ pc'[t] = "run"
    BY <1>2, <1>5, GotoMoves DEF Goto, Moved, Others, ShapeInv, SameOp
  <2>2. TableInv' /\ Grows
    BY <1>2, <1>5, NoWriteInv
  <2>3. ThreadInv(t)'
    BY <1>0, <1>2, <1>5, <2>1 DEF LabelOf, Writing, ThreadInv, RunInv, Goto
  <2> QED
    BY <1>1, <1>5, <2>1, <2>2, <2>3, EmbeddedMoveInv
<1>6. CASE /\ pc[t] = "commit" /\ ~Conflict(t)
           /\ Advance(t, "commit", "run") /\ Write(t, op[t].writes, {})
  <2> DEFINE k == CurrentKey(t)
  <2>1. /\ OptimisticInv(t) /\ RunInv(binding, op[t])
        /\ DOMAIN op[t].writes = {k} /\ op[t].writes[k] \in Rows
        /\ op[t].kind \in {"patch", "replace"}
    BY <1>0, <1>2, <1>6 DEF OptimisticInv, RunInv
  <2>2. op[t].kind = "patch" => op[t].writes[k] = Effect("patch", store[k], op[t].values[k])
    BY <1>6, <2>1 DEF OptimisticInv, Conflict, Fresh
  <2>3. op[t].kind = "replace" => op[t].writes[k] = Effect("replace", store[k], op[t].values[k])
    BY <2>1 DEF OptimisticInv, Effect
  <2>4. op[t].writes[k] = Effect(op[t].kind, store[k], op[t].values[k])
    BY <2>1, <2>2, <2>3
  <2>5. Moved(t) /\ binding' = binding /\ TableInv' /\ Grows /\ ThreadInv(t)'
    BY <1>6, <2>1, <2>4, CommitRowInv
  <2> QED
    BY <1>1, <2>5, EmbeddedMoveInv
<1> QED
  BY <1>3, <1>4, <1>5, <1>6 DEF FdbRun, FdbCommit

(* The statements of optimisticTx run once the lock is free. *)
LEMMA SqliteRunInv ==
    ASSUME NEW t \in Threads, Inv, Started, SqliteRun(t),
           UNCHANGED <<cache, elasticVars, setupVars>>
    PROVE  Inv'
<1> DEFINE values == op[t].values
           writes == [k \in DOMAIN values |-> Effect(op[t].how, store[k], values[k])]
           mine == [op[t] EXCEPT !.writes = writes]
<1>0. /\ binding = "sqlite" /\ writer = {} /\ Goto(t, "run", "commit")
      /\ op' = [op EXCEPT ![t].writes = writes] /\ writer' = {t}
      /\ NoWrite /\ binding' = binding /\ ops' = ops /\ content' = content /\ entry' = entry
  BY DEF SqliteRun
<1>1. /\ TableInv /\ ShapeInv /\ RunInv(binding, op[t]) /\ values \in Batches
      /\ ops' \in Nat
  BY <1>0 DEF Inv, ThreadInv, Writing, Goto, TableInv, RowTypeOK
<1>2. CurrentKey(t) \in DOMAIN values
  BY <1>1, CurrentIn
<1>3. /\ DOMAIN writes = DOMAIN values
      /\ \A k \in DOMAIN writes : writes[k] = Effect(op[t].kind, store[k], values[k])
  BY <1>1 DEF RunInv
<1>4. /\ DOMAIN mine = Parts /\ mine.kind = op[t].kind /\ mine.how = op[t].how
      /\ mine.values = values /\ mine.writes = writes
  BY <1>1, SMT DEF ShapeInv, Parts
<1>5. /\ DOMAIN op' = Threads /\ op'[t] = mine
      /\ \A u \in Threads : u # t => op'[u] = op[u]
  <2> HIDE DEF writes
  <2> QED
    BY <1>0, <1>1, SMT DEF ShapeInv
<1> HIDE DEF mine, writes
<1>6. Moved(t) /\ pc'[t] = "commit" /\ op'[t] = mine
  BY <1>0, <1>1, <1>4, <1>5, RecordMoves DEF Goto
<1>7. TableInv' /\ Grows
  BY <1>0, <1>1, NoWriteInv
<1>8. CurrentKey(t)' = CurrentKey(t) /\ store' = store
  BY <1>0, <1>4, <1>6 DEF CurrentKey, NoWrite
<1>9. LockedInv(t)'
  BY <1>0, <1>1, <1>2, <1>3, <1>4, <1>6, <1>8 DEF LockedInv, RunInv
<1>10. ThreadInv(t)'
  BY <1>0, <1>1, <1>4, <1>6, <1>9 DEF ThreadInv, LabelOf
<1>11. EmbeddedInv' /\ LockKept(t) /\ binding # "elastic"
  BY <1>0 DEF Inv, EmbeddedInv, LockKept
<1> QED
  BY <1>0, <1>6, <1>7, <1>10, <1>11, EmbeddedMoveInv

(* Commit stores the rows and frees the lock, or is rolled back. *)
LEMMA SqliteCommitInv ==
    ASSUME NEW t \in Threads, Inv, Started, SqliteCommit(t) \/ SqliteBusy(t),
           UNCHANGED <<cache, elasticVars, setupVars>>
    PROVE  Inv'
<1> DEFINE writes == op[t].writes
           mine == [op[t] EXCEPT !.writes = << >>]
<1>0. /\ binding = "sqlite" /\ writer' = {} /\ binding' = binding /\ ops' = ops
      /\ content' = content /\ entry' = entry
      /\ \/ /\ Goto(t, "commit", "idle") /\ Write(t, writes, {}) /\ Tell(t, Blank, DOMAIN writes)
         \/ /\ Goto(t, "commit", "run") /\ op' = [op EXCEPT ![t].writes = << >>] /\ NoWrite
  BY DEF SqliteCommit, SqliteBusy
<1>1. /\ TableInv /\ ShapeInv /\ LockedInv(t) /\ op[t].values \in Batches /\ ops' \in Nat
  BY <1>0 DEF Inv, ThreadInv, Writing, Goto, TableInv, RowTypeOK
<1>2. EmbeddedInv' /\ LockKept(t) /\ binding # "elastic"
  BY <1>0, <1>1 DEF Inv, EmbeddedInv, LockKept, LockedInv
<1>3. CASE /\ Goto(t, "commit", "idle") /\ Write(t, writes, {}) /\ Tell(t, Blank, DOMAIN writes)
  <2>1. /\ DOMAIN writes \subseteq DOMAIN op[t].values
        /\ \A k \in DOMAIN writes : writes[k] = Effect(op[t].kind, store[k], op[t].values[k])
    BY <1>1 DEF LockedInv
  <2>2. \A k \in DOMAIN writes : writes[k] \in Rows
    <3> SUFFICES ASSUME NEW k \in DOMAIN writes
                 PROVE  Effect(op[t].kind, store[k], op[t].values[k]) \in Rows
      BY <2>1
    <3>1. store[k] \in Rows /\ op[t].values[k] \in Rows
      BY <1>1, <2>1, CurrentIn DEF TableInv, RowTypeOK
    <3> QED
      BY <3>1, EffectRow
  <2>3. TableInv' /\ Grows
    BY <1>0, <1>1, <1>3, <2>1, <2>2, WriteInv
  <2>4. Moved(t) /\ pc'[t] = "idle"
    BY <1>1, <1>3, TellRecord, BlankShape, GotoMoves DEF Goto, Moved, Others, ShapeInv
  <2>5. ThreadInv(t)'
    BY <1>0, <2>4, IdleInv DEF LabelOf, Writing
  <2> QED
    BY <1>0, <1>2, <2>3, <2>4, <2>5, EmbeddedMoveInv
<1>4. CASE /\ Goto(t, "commit", "run") /\ op' = [op EXCEPT ![t].writes = << >>] /\ NoWrite
  <2>1. /\ DOMAIN mine = Parts /\ mine.kind = op[t].kind /\ mine.how = op[t].how
        /\ mine.values = op[t].values
    BY <1>1, SMT DEF ShapeInv, Parts
  <2>2. /\ DOMAIN op' = Threads /\ op'[t] = mine
        /\ \A u \in Threads : u # t => op'[u] = op[u]
    BY <1>1, <1>4, SMT DEF ShapeInv
  <2> HIDE DEF mine
  <2>3. Moved(t) /\ pc'[t] = "run" /\ op'[t] = mine
    BY <1>1, <1>4, <2>1, <2>2, RecordMoves DEF Goto
  <2>4. TableInv' /\ Grows
    BY <1>0, <1>1, <1>4, NoWriteInv
  <2>5. ThreadInv(t)'
    BY <1>0, <1>1, <2>1, <2>3 DEF LabelOf, Writing, ThreadInv, RunInv, LockedInv
  <2> QED
    BY <1>0, <1>2, <2>3, <2>4, <2>5, EmbeddedMoveInv
<1> QED
  BY <1>0, <1>3, <1>4

(* A transaction is rolled back. *)
LEMMA TransactionFailsInv ==
    ASSUME NEW t \in Threads, Inv, Started, TransactionFails(t),
           UNCHANGED <<cache, elasticVars, setupVars>>
    PROVE  Inv'
<1>0. /\ binding \in {"badger", "boltdb", "foundationdb", "sqlite"} /\ Finish(t)
      /\ entry' = [entry EXCEPT ![t] = "none"] /\ writer' = writer \ {t} /\ content' = content
  BY DEF TransactionFails
<1>1. Moved(t) /\ pc'[t] = "idle" /\ binding' = binding /\ ops' = ops /\ NoWrite
  BY <1>0, FinishMoves DEF Inv
<1>2. TableInv' /\ Grows
  BY <1>1, NoWriteInv DEF Inv, TableInv, RowTypeOK
<1>3. ThreadInv(t)'
  BY <1>0, <1>1, IdleInv DEF LabelOf, Writing
<1>4. \A u \in Threads : writer = {u} => writer' = {} \/ writer' = {u}
  BY <1>0
<1>5. \A u \in Threads : u # t /\ writer = {u} => writer' = {u}
  BY <1>0
<1>6. writer = {} => writer' = {}
  BY <1>0
<1>7. entry' \in [Threads -> Buffers \cup {"none"}]
  BY <1>0 DEF Inv, EmbeddedInv
<1>8. EmbeddedInv'
  BY <1>0, <1>4, <1>6, <1>7 DEF Inv, EmbeddedInv
<1>9. LockKept(t) /\ binding # "elastic"
  BY <1>0, <1>1, <1>5 DEF LockKept, NoWrite
<1> QED
  BY <1>1, <1>2, <1>3, <1>8, <1>9, EmbeddedMoveInv

(* Any step of the bindings with an embedded store. *)
LEMMA EmbeddedStepInv ==
    ASSUME NEW t \in Threads, Inv, Started, EmbeddedStep(t),
           UNCHANGED <<cache, elasticVars, setupVars>>
    PROVE  Inv'
<1>0. (\A f \in SomeFields : f \in SUBSET Fields) /\ {} \in SUBSET Fields
  BY DEF SomeFields
<1>1. ASSUME NEW keys \in KeySets, UNCHANGED embeddedVars,
             \/ BadgerInsert(t, keys) \/ BadgerDelete(t, keys)
             \/ BoltInsert(t, keys) \/ BoltDelete(t, keys)
             \/ FdbInsert(t, keys) \/ FdbDelete(t, keys)
             \/ RocksInsert(t, keys) \/ RocksDelete(t, keys)
             \/ SqliteInsert(t, keys) \/ SqliteDelete(t, keys)
      PROVE  Inv'
  <2>1. \/ SendsWhole(t, keys) /\ binding \notin {"boltdb", "sqlite", "elastic", "redisJson"}
        \/ Runs(t, keys, {}) /\ binding \in {"badger", "foundationdb", "boltdb", "sqlite"}
    BY <1>1 DEF BadgerInsert, BadgerDelete, BoltInsert, BoltDelete, FdbInsert, FdbDelete,
         RocksInsert, RocksDelete, SqliteInsert, SqliteDelete, SendsWhole, Runs
  <2> QED
    BY <1>0, <1>1, <2>1, KeySetsAre, SendsInv
<1>2. ASSUME NEW keys \in KeySets, NEW f \in SomeFields, UNCHANGED embeddedVars,
             \/ BadgerUpdate(t, keys, f) \/ BoltUpdate(t, keys, f)
             \/ FdbUpdate(t, keys, f) \/ RocksUpdate(t, keys, f)
             \/ SqliteUpdate(t, keys, f)
      PROVE  Inv'
  <2>1. \/ SendsPart(t, keys, f) /\ binding \notin {"boltdb", "sqlite", "elastic", "redisJson"}
        \/ Runs(t, keys, f) /\ binding \in {"badger", "foundationdb", "boltdb", "sqlite"}
    BY <1>2 DEF BadgerUpdate, BoltUpdate, FdbUpdate, RocksUpdate, SqliteUpdate, SendsPart, Runs
  <2> QED
    BY <1>0, <1>2, <2>1, KeySetsAre, SendsInv
<1> QED
  BY <1>1, <1>2, RunStepInv, ReferredInv, FdbInv, SqliteRunInv, SqliteCommitInv,
     TransactionFailsInv DEF EmbeddedStep

-----------------------------------------------------------------------------
(* elasticsearch *)

(* A document made of another is a row. *)
LEMMA DocumentRow ==
    ASSUME NEW item, item.row \in Rows, NEW row \in Rows
    PROVE  Document(item, row) \in Rows
  BY EffectRow DEF Document

(* Once nothing is queued, the row is what it should be. *)
LEMMA EmptyChain ==
    ASSUME NEW k, Chain(k)', Queued(k)' = {}
    PROVE  store'[k] = ideal'[k]
<1>0. PICK n \in Nat :
        \E items \in [1..n -> Queued(k)'], rows \in [0..n -> Rows] : Leads(k, n, items, rows)'
  BY DEF Chain
<1>1. PICK items \in [1..n -> Queued(k)'], rows \in [0..n -> Rows] : Leads(k, n, items, rows)'
  BY <1>0
<1>2. n = 0
  BY <1>1, SMT
<1> QED
  BY <1>1, <1>2 DEF Leads

(* A chain is about the items of its key only. *)
LEMMA SameChain ==
    ASSUME NEW k, Chain(k), Queued(k)' = Queued(k), store'[k] = store[k], ideal'[k] = ideal[k]
    PROVE  Chain(k)'
<1>0. PICK n \in Nat :
        \E items \in [1..n -> Queued(k)], rows \in [0..n -> Rows] : Leads(k, n, items, rows)
  BY DEF Chain
<1>1. PICK items \in [1..n -> Queued(k)], rows \in [0..n -> Rows] : Leads(k, n, items, rows)
  BY <1>0
<1>2. Leads(k, n, items, rows)'
  BY <1>1 DEF Leads
<1> QED
  BY <1>1, <1>2 DEF Chain

(* A new item comes last. *)
LEMMA AddChain ==
    ASSUME NEW k, Chain(k), NEW item, item.key = k, queue' = queue \cup {item}, store' = store,
           ideal'[k] = Document(item, ideal[k]), Document(item, ideal[k]) \in Rows,
           ops \in Nat, item.number = ops + 1,
           \A i \in queue : i.number \in Nat /\ i.number <= ops
    PROVE  Chain(k)'
<1>0. PICK n \in Nat :
        \E items \in [1..n -> Queued(k)], rows \in [0..n -> Rows] : Leads(k, n, items, rows)
  BY DEF Chain
<1>1. PICK items \in [1..n -> Queued(k)], rows \in [0..n -> Rows] : Leads(k, n, items, rows)
  BY <1>0
<1>11. PICK m \in Nat : m = n + 1
  BY SMT
<1>12. PICK row \in Rows : row = Document(item, ideal[k])
  OBVIOUS
<1> DEFINE items2 == [i \in 1..m |-> IF i = m THEN item ELSE items[i]]
           rows2 == [i \in 0..m |-> IF i = m THEN row ELSE rows[i]]
<1>2. Queued(k)' = Queued(k) \cup {item}
  BY DEF Queued
<1>3. /\ 0 \in 0..m /\ 0 # m /\ m \in 0..m /\ m \in 1..m
      /\ \A i \in 1..m : i = m \/ i \in 1..n
      /\ \A i \in 0..m : i = m \/ i \in 0..n
      /\ \A i \in 1..n : /\ i \in 1..m /\ i # m /\ i \in 0..m
                         /\ i - 1 \in 0..m /\ i - 1 # m
      /\ m - 1 = n /\ n \in 0..m /\ n # m
      /\ \A i, j \in 1..m : i < j => i \in 1..n
  BY <1>11, SMT
<1>4. /\ items2 \in [1..m -> Queued(k)'] /\ rows2 \in [0..m -> Rows]
  BY <1>2, <1>3
<1>5. /\ items2[m] = item /\ \A i \in 1..n : items2[i] = items[i]
      /\ rows2[m] = row /\ rows2[0] = rows[0] /\ rows2[n] = rows[n]
      /\ \A i \in 1..n : rows2[i] = rows[i] /\ rows2[i - 1] = rows[i - 1]
  BY <1>3
<1> HIDE DEF items2, rows2
<1>6. rows2[0] = store'[k] /\ rows2[m] = ideal'[k]
  BY <1>1, <1>5, <1>12 DEF Leads
<1>7. \A i \in 1..m : rows2[i] = Document(items2[i], rows2[i - 1])
  <2>1. \A i \in 1..n : rows2[i] = Document(items2[i], rows2[i - 1])
    BY <1>1, <1>5 DEF Leads
  <2>2. rows2[m] = Document(items2[m], rows2[m - 1])
    BY <1>1, <1>3, <1>5, <1>12 DEF Leads
  <2> QED
    BY <1>3, <2>1, <2>2
<1>8. \A i, j \in 1..m : i < j => items2[i].number < items2[j].number
  <2> SUFFICES ASSUME NEW i \in 1..m, NEW j \in 1..m, i < j
               PROVE  items2[i].number < items2[j].number
    OBVIOUS
  <2>1. i \in 1..n
    BY <1>3
  <2>2. CASE j \in 1..n
    BY <1>1, <1>5, <2>1, <2>2 DEF Leads
  <2>3. CASE j = m
    <3>1. items[i] \in queue
      BY <1>1, <2>1 DEF Queued
    <3>2. items[i].number < ops + 1
      BY <3>1, SMT
    <3> QED
      BY <1>5, <2>1, <2>3, <3>2
  <2> QED
    BY <1>3, <2>2, <2>3
<1>9. \A i \in Queued(k)' : \E j \in 1..m : items2[j] = i
  <2>1. \A i \in Queued(k) : \E j \in 1..n : items[j] = i
    BY <1>1 DEF Leads
  <2>2. \A i \in Queued(k) : \E j \in 1..m : items2[j] = i
    <3> TAKE i \in Queued(k)
    <3>1. PICK j \in 1..n : items[j] = i
      BY <2>1
    <3>2. j \in 1..m /\ items2[j] = i
      BY <3>1, <1>3, <1>5
    <3> QED
      BY <3>2
  <2>3. \E j \in 1..m : items2[j] = item
    BY ONLY <1>3, <1>5
  <2> QED
    BY ONLY <1>2, <2>2, <2>3
<1>10. Leads(k, m, items2, rows2)'
  BY <1>6, <1>7, <1>8, <1>9 DEF Leads
<1> QED
  BY <1>4, <1>10 DEF Chain

(* The item that overtakes none is the first one; its answer makes the     *)
(* chain shorter.                                                          *)
LEMMA FlushChain ==
    ASSUME NEW k, Chain(k), NEW item \in queue, item.key = k, queue' = queue \ {item},
           store'[k] = Document(item, store[k]), ideal'[k] = ideal[k],
           \A i \in queue : i.number \in Nat,
           \A i \in queue : i.key = k /\ i # item => ~(i.number < item.number)
    PROVE  Chain(k)'
<1>0. PICK n \in Nat :
        \E items \in [1..n -> Queued(k)], rows \in [0..n -> Rows] : Leads(k, n, items, rows)
  BY DEF Chain
<1>1. PICK items \in [1..n -> Queued(k)], rows \in [0..n -> Rows] : Leads(k, n, items, rows)
  BY <1>0
<1>2. Queued(k)' = Queued(k) \ {item} /\ item \in Queued(k)
  BY DEF Queued
<1>3. PICK m \in 1..n : items[m] = item
  BY <1>1, <1>2 DEF Leads
<1>4. \A i \in 1..n : items[i] \in queue /\ items[i].key = k /\ items[i].number \in Nat
  BY <1>1 DEF Queued
<1>5. /\ 1 \in 1..n /\ n - 1 \in Nat /\ n - 1 + 1 = n
      /\ \A i \in 1..n : i = 1 \/ (1 < i /\ i - 1 \in 1..(n - 1) /\ i - 1 + 1 = i)
      /\ \A i \in 1..(n - 1) : /\ i + 1 \in 1..n /\ 1 < i + 1 /\ i - 1 \in 0..(n - 1)
                               /\ i - 1 + 1 = i /\ i + 1 - 1 = i /\ i \in 0..(n - 1)
      /\ \A i \in 0..(n - 1) : i + 1 \in 0..n
      /\ \A i, j \in 1..(n - 1) : i < j => i + 1 < j + 1
      /\ 0 \in 0..(n - 1) /\ n - 1 \in 0..(n - 1) /\ 0 + 1 = 1 /\ 1 - 1 = 0
  BY <1>1, SMT
<1>6. items[1] = item
  <2>1. CASE 1 < m
    <3>1. items[1].number < item.number
      BY <1>1, <1>3, <1>5, <2>1 DEF Leads
    <3>2. items[1] = item
      BY <1>4, <1>5, <3>1
    <3> QED
      BY <3>2
  <2> QED
    BY <1>3, <1>5, <2>1
<1>7. \A i \in 1..n : 1 < i => items[i] # item
  <2> SUFFICES ASSUME NEW i \in 1..n, 1 < i, items[i] = item PROVE FALSE
    OBVIOUS
  <2>1. item.number < item.number /\ item.number \in Nat
    BY <1>1, <1>4, <1>5, <1>6 DEF Leads
  <2> QED
    BY <2>1, SMT
<1> DEFINE items2 == [i \in 1..(n - 1) |-> items[i + 1]]
           rows2 == [i \in 0..(n - 1) |-> rows[i + 1]]
<1>8. items2 \in [1..(n - 1) -> Queued(k)'] /\ rows2 \in [0..(n - 1) -> Rows]
  BY <1>2, <1>5, <1>7
<1>9. /\ \A i \in 1..(n - 1) : items2[i] = items[i + 1] /\ rows2[i] = rows[i + 1]
                               /\ rows2[i - 1] = rows[i]
      /\ rows2[0] = rows[1] /\ rows2[n - 1] = rows[n]
  BY <1>5
<1> HIDE DEF items2, rows2
<1>10. rows2[0] = store'[k] /\ rows2[n - 1] = ideal'[k]
  <2>1. rows[1] = Document(items[1], rows[0]) /\ rows[0] = store[k] /\ rows[n] = ideal[k]
    BY <1>1, <1>5 DEF Leads
  <2> QED
    BY <1>6, <1>9, <2>1
<1>11. \A i \in 1..(n - 1) : rows2[i] = Document(items2[i], rows2[i - 1])
  <2> SUFFICES ASSUME NEW i \in 1..(n - 1) PROVE rows2[i] = Document(items2[i], rows2[i - 1])
    OBVIOUS
  <2>1. PICK j \in 1..n : j = i + 1
    BY <1>5
  <2>2. j - 1 = i
    BY <2>1, SMT
  <2>3. rows[j] = Document(items[j], rows[j - 1])
    BY <1>1 DEF Leads
  <2> QED
    BY <1>9, <2>1, <2>2, <2>3
<1>12. \A i, j \in 1..(n - 1) : i < j => items2[i].number < items2[j].number
  <2> SUFFICES ASSUME NEW i \in 1..(n - 1), NEW j \in 1..(n - 1), i < j
               PROVE  items2[i].number < items2[j].number
    OBVIOUS
  <2>1. PICK a \in 1..n, b \in 1..n : a = i + 1 /\ b = j + 1
    BY <1>5
  <2>2. a < b
    BY <1>5, <2>1
  <2> QED
    BY <1>1, <1>9, <2>1, <2>2 DEF Leads
<1>13. \A i \in Queued(k)' : \E j \in 1..(n - 1) : items2[j] = i
  <2> SUFFICES ASSUME NEW i \in Queued(k), i # item PROVE \E j \in 1..(n - 1) : items2[j] = i
    BY <1>2
  <2>1. PICK j \in 1..n : items[j] = i
    BY <1>1 DEF Leads
  <2>2. j - 1 \in 1..(n - 1) /\ j - 1 + 1 = j
    BY <1>5, <1>6, <2>1
  <2> QED
    BY <1>9, <2>1, <2>2
<1>14. Leads(k, n - 1, items2, rows2)'
  BY <1>10, <1>11, <1>12, <1>13 DEF Leads
<1> QED
  BY <1>5, <1>8, <1>14 DEF Chain

(* A step of the bulk indexer or of a thread that uses it. *)
LEMMA ElasticMoveInv ==
    ASSUME Inv, Started, binding = "elastic", binding' = binding, ShapeInv', TableInv', ElasticInv',
           \A t \in Threads : pc'[t] \in {"idle", "closing", "closed"},
           UNCHANGED <<cache, embeddedVars, setupVars>>
    PROVE  Inv'
<1>1. CacheTypeOK' /\ DOMAIN cache' = Threads /\ EmbeddedInv'
  BY DEF Inv, CacheTypeOK, EmbeddedInv, embeddedVars
<1>2. SetupInv'
  BY DEF Inv, SetupInv, Started, Created, setupVars
<1>3. ASSUME NEW t \in Threads PROVE ThreadInv(t)'
  BY IdleInv DEF LabelOf, Writing
<1> QED
  BY <1>1, <1>2, <1>3 DEF Inv

(* Where its threads are. *)
LEMMA ElasticLabels ==
    ASSUME Inv, binding = "elastic"
    PROVE  \A t \in Threads : pc[t] \in {"idle", "closing", "closed"}
  BY DEF Inv, ThreadInv, LabelOf

(* Add puts an item behind all others and says what the row is to become. *)
LEMMA AddInv ==
    ASSUME NEW t \in Threads, Inv, Started, NEW item, Add(t, item),
           item.key \in Keys, item.row \in Rows, item.number = ops + 1,
           UNCHANGED <<cache, embeddedVars, setupVars>>
    PROVE  Inv'
<1>0. /\ binding = "elastic" /\ Begin(t, "idle", Blank) /\ store' = store /\ version' = version
      /\ spoilt' = spoilt /\ closers' = closers
      /\ \/ /\ queue' = queue \cup {item}
            /\ ideal' = [ideal EXCEPT ![item.key] = Document(item, @)]
            /\ excused' = [excused EXCEPT ![item.key] = TRUE] /\ panicked' = panicked
         \/ /\ panicked' = {t} /\ queue' = queue /\ ideal' = ideal /\ excused' = excused
  BY DEF Add
<1>1. /\ TableInv /\ ShapeInv /\ ElasticInv /\ store \in [Keys -> Rows]
      /\ ideal \in [Keys -> Rows] /\ excused \in [Keys -> BOOLEAN] /\ ops \in Nat
  BY DEF Inv, TableInv, RowTypeOK
<1>2. Moved(t) /\ pc'[t] = "idle" /\ binding' = binding /\ ops' \in Nat /\ ops' = ops + 1
  BY <1>0, <1>1, BeginMoves, BlankShape DEF Begin
<1>3. ShapeInv' /\ \A u \in Threads : pc'[u] \in {"idle", "closing", "closed"}
  BY <1>0, <1>2, ElasticLabels DEF Moved, ShapeInv, Others
<1>4. Document(item, ideal[item.key]) \in Rows
  BY <1>1, DocumentRow
<1>5. ideal' \in [Keys -> Rows] /\ excused' \in [Keys -> BOOLEAN]
  BY <1>0, <1>1, <1>4
<1>6. NoLostUpdate'
  BY <1>0, <1>1 DEF TableInv, NoLostUpdate
<1>7. TableInv'
  BY <1>0, <1>1, <1>2, <1>5, <1>6 DEF TableInv, RowTypeOK
<1>8. ElasticInv'
  <2>1. \A i \in queue : /\ i.key \in Keys /\ i.row \in Rows
                         /\ i.number \in Nat /\ i.number <= ops
    BY <1>0, <1>1 DEF ElasticInv
  <2>2. \A i \in queue' : /\ i.key \in Keys /\ i.row \in Rows
                          /\ i.number \in Nat /\ i.number <= ops'
    <3>1. \A i \in queue : i.number <= ops'
      BY <1>1, <1>2, <2>1, SMT
    <3>2. item.number \in Nat /\ item.number <= ops'
      BY <1>1, <1>2, SMT
    <3> QED
      BY <1>0, <2>1, <3>1, <3>2
  <2>3. ASSUME NEW k \in Keys \ spoilt' PROVE Chain(k)'
    <3>1. Chain(k)
      BY <1>0, <1>1, <2>3 DEF ElasticInv
    <3>2. CASE /\ k = item.key /\ queue' = queue \cup {item}
               /\ ideal' = [ideal EXCEPT ![item.key] = Document(item, @)]
      <4>1. ideal'[k] = Document(item, ideal[k]) /\ Document(item, ideal[k]) \in Rows
        BY <1>0, <1>1, <1>4, <3>2
      <4> QED
        BY <1>0, <1>1, <2>1, <3>1, <3>2, <4>1, AddChain
    <3>3. CASE k # item.key \/ (queue' = queue /\ ideal' = ideal)
      <4>1. Queued(k)' = Queued(k)
        BY <1>0, <3>3 DEF Queued
      <4>2. ideal'[k] = ideal[k]
        BY <1>0, <1>1, <3>3
      <4> QED
        BY <1>0, <3>1, <4>1, <4>2, SameChain
    <3> QED
      BY <1>0, <3>2, <3>3
  <2>4. closers' \subseteq Threads /\ panicked' \subseteq Threads
    BY <1>0, <1>1 DEF ElasticInv
  <2> QED
    BY <1>0, <1>2, <2>2, <2>3, <2>4 DEF ElasticInv
<1> QED
  BY <1>0, <1>2, <1>3, <1>7, <1>8, ElasticMoveInv

(* Close of the indexer. *)
LEMMA CloseInv ==
    ASSUME NEW t \in Threads, Inv, Started, ElasticCleanupThread(t) \/ CloseReturns(t),
           UNCHANGED <<cache, embeddedVars, setupVars>>
    PROVE  Inv'
<1>1. /\ binding = "elastic" /\ binding' = binding /\ ops' = ops /\ op' = op /\ NoWrite
      /\ queue' = queue /\ spoilt' = spoilt
      /\ closers' \in {closers, {t}} /\ panicked' \in {panicked, {t}}
      /\ \E to \in {"closing", "closed"} : pc' = [pc EXCEPT ![t] = to]
  BY DEF ElasticCleanupThread, CloseReturns, Goto, elasticVars, Inv, ThreadInv, LabelOf
<1>2. TableInv /\ ShapeInv /\ ElasticInv /\ ops \in Nat
  BY DEF Inv, TableInv, RowTypeOK
<1>3. ShapeInv' /\ \A u \in Threads : pc'[u] \in {"idle", "closing", "closed"}
  BY <1>1, <1>2, ElasticLabels DEF ShapeInv
<1>4. TableInv'
  BY <1>1, <1>2, NoWriteInv
<1>5. ElasticInv'
  <2>1. \A k \in Keys : Chain(k) => Chain(k)'
    BY <1>1, SameChain DEF Queued, NoWrite
  <2>2. closers' \subseteq Threads /\ panicked' \subseteq Threads
    BY <1>1, <1>2 DEF ElasticInv
  <2> QED
    BY <1>1, <1>2, <2>1, <2>2 DEF ElasticInv
<1> QED
  BY <1>1, <1>3, <1>4, <1>5, ElasticMoveInv

(* Any step of a thread of the elasticsearch binding. *)
LEMMA ElasticStepInv ==
    ASSUME NEW t \in Threads, Inv, Started, ElasticStep(t),
           UNCHANGED <<cache, embeddedVars, setupVars>>
    PROVE  Inv'
<1>1. ASSUME NEW action, NEW k \in Keys, NEW row, Add(t, Item(action, k, row)),
             ops < MaxOps => row \in Rows
      PROVE  Inv'
  <2> DEFINE item == Item(action, k, row)
  <2>1. item.key = k /\ item.row = row /\ item.number = ops + 1
    BY DEF Item
  <2>2. ops < MaxOps
    BY <1>1, RowStoreAssumption, SMT DEF Add, Begin, Inv, TableInv, RowTypeOK
  <2> HIDE DEF item
  <2> QED
    BY <1>1, <2>1, <2>2, AddInv DEF item
<1>2. ASSUME ops < MaxOps, NEW f \in SUBSET Fields PROVE Row(ops + 1, f) \in Rows
  <2>1. ops + 1 \in 0..MaxOps
    BY <1>2, RowStoreAssumption, SMT DEF Inv, TableInv, RowTypeOK
  <2> QED
    BY <2>1, RowIsRow
<1>3. ASSUME NEW k \in Keys, ElasticInsert(t, k) \/ ElasticDelete(t, k) PROVE Inv'
  BY <1>1, <1>2, <1>3, NoRowIsRow DEF ElasticInsert, ElasticDelete
<1>4. ASSUME NEW k \in Keys, NEW f \in SomeFields, ElasticUpdate(t, k, f) PROVE Inv'
  BY <1>1, <1>2, <1>4 DEF ElasticUpdate, SomeFields
<1> QED
  BY <1>3, <1>4, CloseInv DEF ElasticStep

(* The answer for an item: the row follows its chain, or is given up. *)
LEMMA FlushInv ==
    ASSUME Inv, NEW item \in queue, NEW success \in BOOLEAN, Flush(item, success),
           UNCHANGED <<cache, embeddedVars, setupVars>>
    PROVE  Inv'
<1> DEFINE k == item.key
           others == {i \in queue : i.key = k /\ i # item}
           overtakes == \E i \in others : i.number < item.number
<1>0. /\ queue' = queue \ {item}
      /\ store' = IF success THEN [store EXCEPT ![k] = Document(item, @)] ELSE store
      /\ spoilt' = IF success /\ ~overtakes THEN spoilt ELSE spoilt \cup {k}
      /\ excused' = [excused EXCEPT ![k] = others # {} \/ k \in spoilt']
      /\ binding' = binding /\ version' = version /\ ops' = ops /\ pc' = pc /\ op' = op
      /\ ideal' = ideal /\ closers' = closers /\ panicked' = panicked
  BY DEF Flush
<1>1. /\ TableInv /\ ShapeInv /\ ElasticInv /\ store \in [Keys -> Rows]
      /\ ideal \in [Keys -> Rows] /\ excused \in [Keys -> BOOLEAN] /\ ops \in Nat
  BY DEF Inv, TableInv, RowTypeOK
<1>2. binding = "elastic" /\ Started
  BY DEF Inv, ElasticInv, SetupInv
<1>3. /\ k \in Keys /\ item.row \in Rows
      /\ \A i \in queue : /\ i.key \in Keys /\ i.row \in Rows
                          /\ i.number \in Nat /\ i.number <= ops
  BY <1>1, <1>2 DEF ElasticInv
<1>4. Document(item, store[k]) \in Rows
  BY <1>1, <1>3, DocumentRow
<1> HIDE DEF overtakes
<1>5. store' \in [Keys -> Rows] /\ excused' \in [Keys -> BOOLEAN]
  <2>1. store' \in [Keys -> Rows]
    BY <1>0, <1>1, <1>4
  <2>2. (others # {} \/ k \in spoilt') \in BOOLEAN
    OBVIOUS
  <2> QED
    BY <1>0, <1>1, <2>1, <2>2
<1>6. /\ \A j \in Keys : j # k => store'[j] = store[j] /\ excused'[j] = excused[j]
                                 /\ Queued(j)' = Queued(j)
  <2>1. \A j \in Keys : j # k => store'[j] = store[j] /\ excused'[j] = excused[j]
    BY <1>0, <1>1, <1>3
  <2>2. \A j \in Keys : j # k => Queued(j)' = Queued(j)
    BY <1>0 DEF Queued
  <2> QED
    BY <2>1, <2>2
<1>7. ASSUME k \notin spoilt' PROVE Chain(k)'
  <2>1. success /\ ~overtakes /\ k \notin spoilt
    BY <1>0, <1>7
  <2>2. store'[k] = Document(item, store[k]) /\ ideal'[k] = ideal[k]
    BY <1>0, <1>1, <1>3, <2>1
  <2>3. Chain(k)
    BY <1>1, <1>2, <1>3, <2>1 DEF ElasticInv
  <2>4. \A i \in queue : i.key = k /\ i # item => ~(i.number < item.number)
    BY <2>1 DEF overtakes
  <2> QED
    BY <1>0, <1>3, <2>2, <2>3, <2>4, FlushChain
<1>8. ASSUME NEW j \in Keys \ spoilt' PROVE Chain(j)'
  <2>1. CASE j # k
    <3>1. Chain(j)
      BY <1>0, <1>1, <1>2, <1>8 DEF ElasticInv
    <3> QED
      BY <1>0, <1>6, <2>1, <3>1, SameChain
  <2> QED
    BY <1>7, <1>8, <2>1
<1>9. NoLostUpdate'
  <2> SUFFICES ASSUME NEW j \in Keys, ~excused'[j] PROVE store'[j] = ideal'[j]
    BY DEF NoLostUpdate
  <2>1. CASE j # k
    BY <1>0, <1>1, <1>6, <2>1 DEF TableInv, NoLostUpdate
  <2>2. CASE j = k
    <3>1. others = {} /\ k \notin spoilt'
      BY <1>0, <1>1, <1>3, <2>2
    <3>2. Queued(k)' = {}
      BY <1>0, <3>1 DEF Queued
    <3>3. Chain(k)'
      BY <1>7, <3>1
    <3>4. store'[k] = ideal'[k]
      BY <3>2, <3>3, EmptyChain
    <3> QED
      BY <2>2, <3>4
  <2> QED
    BY <2>1, <2>2
<1>10. TableInv'
  BY <1>0, <1>1, <1>5, <1>9 DEF TableInv, RowTypeOK
<1>11. ElasticInv'
  <2>1. \A i \in queue' : /\ i.key \in Keys /\ i.row \in Rows
                          /\ i.number \in Nat /\ i.number <= ops'
    BY <1>0, <1>3
  <2> QED
    BY <1>0, <1>1, <1>2, <1>8, <2>1 DEF ElasticInv
<1>12. ShapeInv' /\ \A t \in Threads : pc'[t] \in {"idle", "closing", "closed"}
  BY <1>0, <1>1, <1>2, ElasticLabels DEF ShapeInv
<1> QED
  BY <1>0, <1>2, <1>10, <1>11, <1>12, ElasticMoveInv

-----------------------------------------------------------------------------
(* Sessions with mysql and pg *)

(* What the threads do with their connections leaves the rows alone. *)
LEMMA SessionStepInv ==
    ASSUME NEW t \in Threads, Inv, Started, SessionStep(t),
           UNCHANGED <<cache, embeddedVars, elasticVars, setupVars>>
    PROVE  Inv'
<1>0. /\ binding = "sessions" /\ RowsAside
      /\ ops' = ops \/ ops' = ops + 1
      /\ pc' = pc \/ \E to \in {"prepare", "exec", "idle", "ended"} : pc' = [pc EXCEPT ![t] = to]
  <2>1. CASE SessionInitThread(t)
    BY <2>1 DEF SessionInitThread, Running
  <2>2. ASSUME NEW q \in Queries, BeginQuery(t, q) PROVE <1>0!:
    BY <2>2 DEF BeginQuery, Running, Goto
  <2>3. CASE GetAndCacheStmt(t)
    BY <2>3 DEF GetAndCacheStmt, Running, Goto, UseCached, PrepareHere, Rebuild, NilConn,
                PrepareFails
  <2>4. CASE ExecStmt(t)
    BY <2>4 DEF ExecStmt, Running, Goto
  <2>5. CASE ServerError(t)
    BY <2>5 DEF ServerError, Running, Goto
  <2>6. CASE Break(t)
    BY <2>6 DEF Break, Running
  <2>7. CASE SessionCleanupThread(t)
    BY <2>7 DEF SessionCleanupThread, Running, Goto
  <2> QED
    BY <2>1, <2>2, <2>3, <2>4, <2>5, <2>6, <2>7 DEF SessionStep
<1>1. NoWrite /\ binding' = binding /\ op' = op
  BY <1>0 DEF RowsAside
<1>2. ops' \in Nat
  BY <1>0, SMT DEF Inv, TableInv, RowTypeOK
<1>3. ShapeInv /\ TableInv
  BY DEF Inv
<1>4. CASE pc' = pc
  <2>1. Moved(t)
    BY <1>1, <1>3, <1>4 DEF Moved, ShapeInv, Others, SameOp
  <2>2. TableInv' /\ Grows
    BY <1>1, <1>2, <1>3, NoWriteInv
  <2>3. ThreadInv(t)'
    <3>1. ThreadInv(t) /\ pc'[t] = pc[t] /\ SameOp(op'[t], op[t])
      BY <1>1, <1>4 DEF Inv, SameOp
    <3>2. binding \notin {"boltdb", "sqlite"}
      BY <1>0
    <3> QED
      BY <1>1, <1>3, <2>2, <3>1, <3>2, SameThread
  <2> QED
    BY <1>0, <1>1, <2>1, <2>2, <2>3, PlainInv
<1>5. ASSUME NEW to \in {"prepare", "exec", "idle", "ended"}, pc' = [pc EXCEPT ![t] = to]
      PROVE  Inv'
  <2>1. Moved(t) /\ pc'[t] = to
    BY <1>1, <1>3, <1>5, RecordMoves DEF ShapeInv
  <2>2. LabelOf(binding, pc'[t]) /\ pc'[t] \notin Writing \cup {"clean"}
    BY <1>0, <2>1 DEF LabelOf, Writing
  <2> QED
    BY <1>0, <1>1, <1>2, <2>1, <2>2, QuietInv
<1> QED
  BY <1>0, <1>4, <1>5

-----------------------------------------------------------------------------
(* Setup *)

NoItems ==
    \A k \in Keys : queue = {} /\ store[k] = ideal[k] /\ store[k] \in Rows => Chain(k)

(* A chain with no items is a row that is what it should be. *)
LEMMA NoItemsChain == NoItems
<1> SUFFICES ASSUME NEW k \in Keys, queue = {}, store[k] = ideal[k], store[k] \in Rows
             PROVE  Chain(k)
  BY DEF NoItems
<1>1. PICK row \in Rows : row = store[k]
  OBVIOUS
<1> DEFINE rows == [i \in 0..0 |-> row]
           items == [i \in 1..0 |-> row]
<1>2. 1..0 = {} /\ 0 \in 0..0 /\ 0 \in Nat
  BY SMT
<1>3. Queued(k) = {}
  BY DEF Queued
<1>4. rows \in [0..0 -> Rows] /\ items \in [1..0 -> Queued(k)] /\ rows[0] = row
  BY <1>2
<1> HIDE DEF rows, items
<1>5. Leads(k, 0, items, rows)
  BY <1>1, <1>2, <1>3, <1>4 DEF Leads
<1> QED
  BY <1>2, <1>4, <1>5 DEF Chain

(* Create runs before the threads do: it may empty the table, and what the *)
(* table should be is then the empty one.                                  *)
LEMMA SetupStepInv ==
    ASSUME Inv, SetupStep, UNCHANGED <<cache, embeddedVars, elasticVars>>
    PROVE  Inv'
<1>1. /\ UNCHANGED <<binding, version, ops, pc, op, excused>>
      /\ binding' = binding /\ pc' = pc /\ op' = op /\ queue' = queue
  BY DEF SetupStep, elasticVars
<1>2. /\ ~Started
      /\ \/ UNCHANGED <<store, ideal>>
         \/ store' \in {store, NoRows} /\ ideal' = store'
      /\ command' = command \/ Created'
  <2>1. CASE StartThreads
    <3>1. outcome' = [p \in Processes |-> "ok"]
      BY <2>1 DEF StartThreads, All
    <3> QED
      BY <2>1, <3>1 DEF StartThreads, Created
  <2>2. ASSUME NEW p \in Processes, outcome[p] = "creating", command' = command,
               \/ \E call : CreateCall(p, call) \/ CreateFails(p, call)
               \/ CreateReturns(p)
        PROVE  <1>2!:
    <3>1. ~Started
      BY <2>2 DEF Inv, SetupInv, Created
    <3> QED
      BY <2>2, <3>1 DEF CreateCall, CreateFails, CreateReturns
  <2> QED
    BY <2>1, <2>2 DEF SetupStep
<1>3. queue = {} /\ \A t \in Threads : pc[t] = "idle"
  BY <1>2 DEF Inv, SetupInv
<1>4. store \in [Keys -> Rows] /\ ideal \in [Keys -> Rows] /\ NoRows \in [Keys -> Rows]
  BY NoRowIsRow DEF Inv, TableInv, RowTypeOK, NoRows
<1>5. store' \in [Keys -> Rows] /\ ideal' \in [Keys -> Rows]
  BY <1>2, <1>4
<1>6. TableInv'
  <2>1. NoLostUpdate'
    BY <1>1, <1>2 DEF Inv, TableInv, NoLostUpdate
  <2> QED
    BY <1>1, <1>5, <2>1 DEF Inv, TableInv, RowTypeOK
<1>7. ShapeInv' /\ CacheTypeOK' /\ DOMAIN cache' = Threads /\ EmbeddedInv'
  BY <1>1 DEF Inv, ShapeInv, CacheTypeOK, EmbeddedInv, embeddedVars
<1>8. SetupInv'
  BY <1>1, <1>2, <1>3 DEF SetupInv, Started
<1>9. ElasticInv'
  <2>1. \A k \in Keys \ spoilt : binding = "elastic" => Chain(k)'
    <3> SUFFICES ASSUME NEW k \in Keys \ spoilt, binding = "elastic" PROVE Chain(k)'
      OBVIOUS
    <3>1. CASE UNCHANGED <<store, ideal>>
      <4>1. Chain(k) /\ Queued(k)' = Queued(k)
        BY <1>1 DEF Inv, ElasticInv, Queued
      <4> QED
        BY <3>1, <4>1, SameChain
    <3>2. CASE ideal' = store'
      <4>1. NoItems'
        BY NoItemsChain, PTL
      <4> QED
        BY <1>1, <1>3, <1>5, <3>2, <4>1 DEF NoItems
    <3> QED
      BY <1>2, <3>1, <3>2
  <2>2. spoilt' = spoilt /\ closers' = closers /\ panicked' = panicked
    BY DEF elasticVars
  <2> QED
    BY <1>1, <1>3, <2>1, <2>2 DEF Inv, ElasticInv
<1>10. ASSUME NEW t \in Threads PROVE ThreadInv(t)'
  BY <1>1, <1>3, IdleInv DEF LabelOf, Writing
<1> QED
  BY <1>6, <1>7, <1>8, <1>9, <1>10 DEF Inv

-----------------------------------------------------------------------------
(* The invariant holds at first ... *)
LEMMA InitInv == Init => Inv
<1> SUFFICES ASSUME Init PROVE Inv
  OBVIOUS
<1>1. store \in [Keys -> Rows] /\ ideal = store
  <2>1. 0 \in 0..MaxOps
    BY RowStoreAssumption, SMT
  <2>2. Row(0, Fields) \in Rows
    BY <2>1, RowIsRow
  <2> QED
    BY <2>2, NoRowIsRow DEF Init, RowInit
<1>2. TableInv
  <2>1. version \in [Keys -> Nat] /\ ops \in Nat
    BY SMT DEF Init, RowInit
  <2>2. binding \in Bindings /\ excused \in [Keys -> BOOLEAN]
    BY DEF Init, RowInit
  <2> QED
    BY <1>1, <2>1, <2>2 DEF TableInv, RowTypeOK, NoLostUpdate
<1>3. ShapeInv /\ \A t \in Threads : pc[t] = "idle"
  BY BlankShape DEF Init, RowInit, ShapeInv
<1>4. CacheTypeOK /\ DOMAIN cache = Threads
  <2>1. [key |-> 0, row |-> NoRow] \in [key : 0..MaxKey, row : Rows]
    BY RowStoreAssumption, NoRowIsRow, SMT
  <2> QED
    BY <2>1 DEF Init, TikvInit, CacheTypeOK
<1>5. EmbeddedInv
  BY NoRowIsRow DEF Init, EmbeddedInit, EmbeddedInv
<1>6. SetupInv
  <2>1. CASE binding \in Creating
    <3>1. ~Started
      BY <2>1 DEF Init, SetupInit, Started
    <3> QED
      BY <1>3, <3>1 DEF Init, ElasticInit, SetupInv
  <2>2. CASE binding \notin Creating
    <3>1. Started /\ Created
      BY <2>2 DEF Init, SetupInit, Started, Created, All
    <3> QED
      BY <3>1 DEF SetupInv
  <2> QED
    BY <2>1, <2>2
<1>7. ElasticInv
  <2>1. queue = {} /\ closers = {} /\ panicked = {}
    BY DEF Init, ElasticInit
  <2>2. ASSUME NEW k \in Keys PROVE Chain(k)
    BY <1>1, <2>1, <2>2, NoItemsChain DEF NoItems
  <2> QED
    BY <2>1, <2>2 DEF ElasticInv
<1>8. ASSUME NEW t \in Threads PROVE ThreadInv(t)
  BY <1>3 DEF ThreadInv, LabelOf, Writing
<1> QED
  BY <1>2, <1>3, <1>4, <1>5, <1>6, <1>7, <1>8 DEF Inv

(* ... and every step of the bindings keeps it. *)
LEMMA NextInv == Inv /\ [Next]_vars => Inv'
<1> SUFFICES ASSUME Inv, [Next]_vars PROVE Inv'
  OBVIOUS
<1>1. CASE SetupStep /\ UNCHANGED <<cache, embeddedVars, elasticVars, sessionVars>>
  BY <1>1, SetupStepInv
<1>2. ASSUME Started, UNCHANGED setupVars, NEW t \in Threads,
             CommonStep(t) \/ RemoteStep(t),
             UNCHANGED <<cache, embeddedVars, elasticVars, sessionVars>>
      PROVE  Inv'
  BY <1>2, CommonStepInv, SqlStepInv, RedisStepInv, ObjectStepInv DEF RemoteStep
<1>3. ASSUME Started, UNCHANGED setupVars, NEW t \in Threads, TikvStep(t),
             UNCHANGED <<embeddedVars, elasticVars, sessionVars>>
      PROVE  Inv'
  BY <1>3, TikvStepInv
<1>4. ASSUME Started, UNCHANGED setupVars, NEW t \in Threads, EmbeddedStep(t),
             UNCHANGED <<cache, elasticVars, sessionVars>>
      PROVE  Inv'
  BY <1>4, EmbeddedStepInv
<1>5. ASSUME Started, UNCHANGED setupVars, NEW t \in Threads, ElasticStep(t),
             UNCHANGED <<cache, embeddedVars, sessionVars>>
      PROVE  Inv'
  BY <1>5, ElasticStepInv
<1>6. ASSUME Started, UNCHANGED setupVars, NEW t \in Threads, SessionStep(t),
             UNCHANGED <<cache, embeddedVars, elasticVars>>
      PROVE  Inv'
  BY <1>6, SessionStepInv
<1>7. ASSUME NEW item \in queue, NEW success \in BOOLEAN, Flush(item, success),
             UNCHANGED <<cache, embeddedVars, sessionVars, setupVars>>
      PROVE  Inv'
  BY <1>7, FlushInv
<1>8. CASE UNCHANGED vars
  <2>1. /\ UNCHANGED <<rowVars, cache, embeddedVars, elasticVars, setupVars>>
        /\ binding' = binding /\ store' = store /\ ideal' = ideal /\ version' = version
        /\ ops' = ops /\ excused' = excused /\ pc' = pc /\ op' = op /\ cache' = cache
        /\ queue' = queue /\ writer' = writer
    BY <1>8 DEF vars, rowVars, elasticVars, embeddedVars
  <2>2. /\ TableInv' /\ ShapeInv' /\ CacheTypeOK' /\ DOMAIN cache' = Threads
        /\ EmbeddedInv' /\ SetupInv' /\ Grows
    BY <2>1 DEF Inv, TableInv, RowTypeOK, NoLostUpdate, ShapeInv, CacheTypeOK, EmbeddedInv,
                embeddedVars, SetupInv, Started, Created, setupVars, Grows
  <2>3. ElasticInv'
    <3>1. ASSUME NEW k, Chain(k) PROVE Chain(k)'
      <4>1. Queued(k)' = Queued(k)
        BY <2>1 DEF Queued
      <4> QED
        BY <2>1, <3>1, <4>1, SameChain
    <3> QED
      BY <2>1, <3>1 DEF Inv, ElasticInv, elasticVars
  <2>4. ASSUME NEW t \in Threads PROVE ThreadInv(t)'
    <3>1. TableInv /\ ThreadInv(t) /\ SameOp(op'[t], op[t])
      BY <2>1 DEF Inv, SameOp
    <3> QED
      BY <2>1, <2>2, <3>1, SameThread
  <2> QED
    BY <2>2, <2>3, <2>4 DEF Inv
<1> QED
  BY <1>1, <1>2, <1>3, <1>4, <1>5, <1>6, <1>7, <1>8 DEF Next

(* The invariant of the bindings holds in every state. *)
THEOREM BindingsInv == Spec => []Inv
<1> QED
  BY InitInv, NextInv, PTL DEF Spec

(* In none of the bindings is the update of a row lost, however many       *)
(* threads, keys and operations there are and however their calls          *)
(* interleave, unless the code leaves it open: the row is what the         *)
(* successful Insert, Update and Delete calls made of it.                  *)
THEOREM NoUpdateIsLost == Spec => []NoLostUpdate
<1>1. Inv => NoLostUpdate
  BY DEF Inv, TableInv
<1> QED
  BY <1>1, BindingsInv, PTL

(* The table, the caches of rawDBState, the buffers of the BufPool, the    *)
(* lock for writers and the bulk indexer keep their types.                 *)
THEOREM BindingsTypeCorrect == Spec => []TypeOK
<1>1. Inv => TypeOK
  <2> SUFFICES ASSUME Inv PROVE TypeOK
    OBVIOUS
  <2>1. Cardinality(writer) <= 1
    <3>1. CASE writer = {}
      <4>1. Cardinality(writer) = 0
        BY <3>1, FS_EmptySet
      <4> QED
        BY <4>1, SMT
    <3>2. ASSUME NEW t \in Threads, writer = {t} PROVE Cardinality(writer) <= 1
      <4>1. Cardinality(writer) = 1
        BY <3>2, FS_Singleton
      <4> QED
        BY <4>1, SMT
    <3> QED
      BY <3>1, <3>2 DEF Inv, EmbeddedInv
  <2> QED
    BY <2>1 DEF TypeOK, Inv, TableInv, EmbeddedInv, ElasticInv
<1> QED
  BY <1>1, BindingsInv, PTL

-----------------------------------------------------------------------------
(* What Read returns *)

(* Some of the fields of a row, or all of them. *)
LEMMA SelectFields ==
    ASSUME NEW row, NEW fields, fields # {}
    PROVE  LET got == Select(row, fields)
           IN /\ DOMAIN got \subseteq DOMAIN row
              /\ fields \subseteq DOMAIN row =>
                   \A f \in fields : f \in DOMAIN got /\ got[f] = row[f]
<1> DEFINE got == [f \in DOMAIN row \cap fields |-> row[f]]
<1>1. Select(row, fields) = got
  BY DEF Select
<1>2. DOMAIN got = DOMAIN row \cap fields /\ \A f \in DOMAIN row \cap fields : got[f] = row[f]
  OBVIOUS
<1> HIDE DEF got
<1> QED
  BY <1>1, <1>2

(* Read returns the row, the fields that were asked for, or nothing where  *)
(* one of them is missing.                                                 *)
LEMMA ReadByIs ==
    ASSUME binding \notin Opaque, NEW row, NEW fields, fields # {}
    PROVE  \/ ReadBy(row, fields) \in {row, Select(row, fields)}
           \/ ReadBy(row, fields) = NoRow /\ ~(fields \subseteq DOMAIN row)
  BY DEF Opaque, ReadBy, TikvModes, TikvRead, BadgerRead, BoltRead, RocksRead, FdbRead,
         SqliteRead, MysqlRead, PgRead, CassandraRead, SpannerRead, MongoRead, DynamoRead,
         EtcdRead, AerospikeRead, S3, S3Read, RedisRead

(* A Read finds what the last successful write to each field left,         *)
(* whichever threads wrote the row and however their calls interleaved.    *)
THEOREM ReadsReturnLastWrite == Spec => []ReadReturnsLastWrite
<1>1. NoLostUpdate => ReadReturnsLastWrite
  <2> SUFFICES ASSUME NoLostUpdate, binding \notin Opaque, NEW k \in Keys,
                      NEW fields \in SomeFields
               PROVE  LET got == ReadBy(store[k], fields)
                      IN /\ DOMAIN got \subseteq DOMAIN store[k]
                         /\ ~excused[k] /\ fields \subseteq DOMAIN ideal[k] =>
                              \A f \in fields : f \in DOMAIN got /\ got[f] = ideal[k][f]
    BY DEF ReadReturnsLastWrite
  <2> DEFINE got == ReadBy(store[k], fields)
  <2>1. fields # {}
    BY DEF SomeFields
  <2>2. DOMAIN NoRow = {}
    BY SMT DEF NoRow
  <2>3. \/ got \in {store[k], Select(store[k], fields)}
        \/ got = NoRow /\ ~(fields \subseteq DOMAIN store[k])
    BY <2>1, ReadByIs
  <2> HIDE DEF got
  <2>4. /\ DOMAIN got \subseteq DOMAIN store[k]
        /\ fields \subseteq DOMAIN store[k] =>
             \A f \in fields : f \in DOMAIN got /\ got[f] = store[k][f]
    <3>1. CASE got = Select(store[k], fields)
      BY <2>1, <3>1, SelectFields
    <3> QED
      BY <2>2, <2>3, <3>1
  <2>5. ~excused[k] => store[k] = ideal[k]
    BY DEF NoLostUpdate
  <2> QED
    BY <2>4, <2>5 DEF got
<1> QED
  BY <1>1, NoUpdateIsLost, PTL
=============================================================================
