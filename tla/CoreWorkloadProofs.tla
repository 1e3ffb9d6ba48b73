------------------------- MODULE CoreWorkloadProofs -------------------------
(***************************************************************************)
(* For any number of workers, keys and buffers, any batch size and any     *)
(* settings of the core workload: rows hold the values of their own keys,  *)
(* chosen keys exist, and loading accounts for every key it drew.          *)
(***************************************************************************)
EXTENDS CoreWorkload, TLAPS

\* Leaves are left to Zenon; those with arithmetic or functions cite SMT.
USE Zenon

-----------------------------------------------------------------------------
(* Where a thread can be in each phase, and between operations it holds    *)
(* nothing.                                                                *)
PhaseInv ==
    \A t \in Threads :
      /\ IF p.load THEN pc[t] \in {"loadTake", "load", "put"}
                   ELSE pc[t] \notin {"loadTake", "load"}
      /\ pc[t] = "idle" => keys[t] = {}
      /\ pc[t] = "load" => retries[t] <= p.retryLimit
      /\ pc[t] = "putThenAck" => p.batchSize = 1

(* Whether a thread has a buffer for each of its keys, or none. *)
Filled(t) ==
    \/ pc[t] \in {"loadTake", "load", "put", "take", "insert", "putThenAck", "update", "readFirst"}
    \/ pc[t] \in {"ack", "sweep"} /\ p.batchSize > 1

(* A buffer is in the pool or belongs to one key of one thread, and then   *)
(* holds the value of that key.                                            *)
BufferInv ==
    /\ values = [t \in Threads |-> values[t]]
    /\ \A t \in Threads : DOMAIN values[t] = IF Filled(t) THEN keys[t] ELSE {}
    /\ \A t \in Threads : \A k \in DOMAIN values[t] :
         values[t][k] \notin pool /\ content[values[t][k]] = k
    /\ \A t, u \in Threads : \A k \in DOMAIN values[t], l \in DOMAIN values[u] :
         values[t][k] = values[u][l] => t = u /\ k = l

(* A row holds the value of its key, so no read finds another one. *)
RowInv ==
    /\ \A k \in Keys : store[k] \in {Absent, k}
    /\ suspect = {}
    /\ RowsVerify

(* What PublishedPrefix keeps of the counter. *)
CounterInv ==
    /\ issued \in RecordCount..MaxKey /\ last \in (RecordCount - 1)..(issued - 1)
    /\ acked \subseteq RecordCount..(issued - 1)
    /\ RecordCount..last \subseteq acked

(* The keys a chooser counting back from Last may have returned by now. *)
Known(k) == k < RecordCount \/ k \in acked

Settled(k) == store[k] # Absent \/ k \in failed

AckInv ==
    ~p.load =>
      /\ \A k \in Keys : Known(k) => Settled(k) \/ AckedEarly(k)
      /\ \A t \in Threads : \A k \in keys[t] :
           /\ pc[t] \in {"putThenAck", "ack"} /\ p.batchSize = 1 => Settled(k)
           /\ pc[t] \in {"read", "scan", "update", "readFirst"}
                /\ p.distribution \in {"latest", "exponential"} => Known(k)

(* In the load phase a key belongs to one thread until it is settled. *)
Accounted(k) ==
    \/ store[k] = k /\ attempts[k] \in 1..(p.retryLimit + 1)
    \/ k \in failed

LoadInv ==
    p.load =>
      /\ \A t \in Threads : \A k \in keys[t] :
           /\ k < keySequence
           /\ pc[t] = "loadTake" => attempts[k] = 0
           /\ pc[t] = "load" => attempts[k] = retries[t]
           /\ pc[t] = "put" => Accounted(k)
      /\ \A t, u \in Threads : keys[t] \cap keys[u] # {} => t = u
      /\ \A k \in keySequence..(MaxKey - 1) : attempts[k] = 0
      /\ LoadAccountsForKeys

CoreInv ==
    TypeOK /\ PhaseInv /\ BufferInv /\ RowInv /\ CounterInv /\ AckInv /\ LoadInv

-----------------------------------------------------------------------------
(* What the steps are made of. *)

(* The settings of a workload. *)
LEMMA SettingTypes ==
    ASSUME TypeOK
    PROVE  p.load \in BOOLEAN /\ p.batchSize \in Nat \ {0} /\ p.retryLimit \in Nat
  BY ConfigurationAssumption DEF TypeOK, Properties

(* buildValues takes a buffer from the pool, so nobody else has it. *)
LEMMA BuildKeeps ==
    ASSUME TypeOK, BufferInv, NEW t \in Threads, NEW key \in Keys, NEW b \in Buffers,
           Build(t, key, b)
    PROVE  /\ values' = [u \in Threads |-> values'[u]]
           /\ \A u \in Threads : values'[u] \in [DOMAIN values'[u] -> Buffers]
           /\ \A u \in Threads : u # t => values'[u] = values[u]
           /\ DOMAIN values'[t] = DOMAIN values[t] \union {key}
           /\ pool' \subseteq Buffers /\ content' \in [Buffers -> Keys \union {Absent}]
           /\ \A u \in Threads : \A k \in DOMAIN values'[u] :
                values'[u][k] \notin pool' /\ content'[values'[u][k]] = k
           /\ \A u, v \in Threads : \A k \in DOMAIN values'[u], l \in DOMAIN values'[v] :
                values'[u][k] = values'[v][l] => u = v /\ k = l
<1>1. /\ values' = [u \in Threads |-> values'[u]]
      /\ \A u \in Threads : u # t => values'[u] = values[u]
      /\ values'[t] = [k \in DOMAIN values[t] \union {key} |->
                         IF k = key THEN b ELSE values[t][k]]
  BY DEF Build, BufferInv
<1>2. /\ \A u \in Threads : values[u] \in [DOMAIN values[u] -> Buffers]
      /\ pool \subseteq Buffers /\ content \in [Buffers -> Keys \union {Absent}]
  BY DEF TypeOK
<1>3. b \in pool /\ pool' = pool \ {b} /\ content' = [content EXCEPT ![b] = key]
  BY DEF Build
<1>4. \A u \in Threads : values'[u] \in [DOMAIN values'[u] -> Buffers]
  BY <1>1, <1>2, SMT
<1>5. \A u \in Threads : \A k \in DOMAIN values[u] : values[u][k] # b
  BY <1>3, SMT DEF BufferInv
<1>6. \A u \in Threads : \A k \in DOMAIN values'[u] :
        \/ u = t /\ k = key /\ values'[u][k] = b
        \/ k \in DOMAIN values[u] /\ values'[u][k] = values[u][k]
  BY <1>1, SMT
<1>7. \A u \in Threads : \A k \in DOMAIN values'[u] :
        values'[u][k] \notin pool' /\ content'[values'[u][k]] = k
  BY <1>2, <1>3, <1>5, <1>6, SMT DEF BufferInv
<1>8. \A u, v \in Threads : \A k \in DOMAIN values'[u], l \in DOMAIN values'[v] :
        values'[u][k] = values'[v][l] => u = v /\ k = l
  BY <1>5, <1>6, SMT DEF BufferInv
<1>9. pool' \subseteq Buffers /\ content' \in [Buffers -> Keys \union {Absent}]
  BY <1>2, <1>3
<1> QED
  BY <1>1, <1>4, <1>7, <1>8, <1>9

(* putValues gives back what the thread has, which nobody else has. *)
LEMMA ReleaseKeeps ==
    ASSUME TypeOK, BufferInv, NEW t \in Threads, Release(t), content' = content
    PROVE  /\ values' = [u \in Threads |-> values'[u]]
           /\ \A u \in Threads : values'[u] \in [DOMAIN values'[u] -> Buffers]
           /\ \A u \in Threads : u # t => values'[u] = values[u]
           /\ DOMAIN values'[t] = {}
           /\ pool' \subseteq Buffers
           /\ \A u \in Threads : \A k \in DOMAIN values'[u] :
                values'[u][k] \notin pool' /\ content'[values'[u][k]] = k
           /\ \A u, v \in Threads : \A k \in DOMAIN values'[u], l \in DOMAIN values'[v] :
                values'[u][k] = values'[v][l] => u = v /\ k = l
<1>1. /\ values' = [u \in Threads |-> values'[u]]
      /\ \A u \in Threads : u # t => values'[u] = values[u]
      /\ values'[t] = None
  BY DEF Release, BufferInv
<1>2. DOMAIN None = {} /\ None \in [{} -> Buffers]
  BY DEF None
<1>3. \A u \in Threads : values[u] \in [DOMAIN values[u] -> Buffers]
  BY DEF TypeOK
<1>4. pool' = pool \union {values[t][k] : k \in DOMAIN values[t]}
  BY DEF Release
<1>5. pool' \subseteq Buffers
  BY <1>3, <1>4 DEF TypeOK
<1>6. \A u \in Threads : values'[u] \in [DOMAIN values'[u] -> Buffers]
  BY <1>1, <1>2, <1>3
<1>7. \A u \in Threads : \A k \in DOMAIN values'[u] :
        u # t /\ k \in DOMAIN values[u] /\ values'[u][k] = values[u][k]
  BY <1>1, <1>2
<1>8. \A u \in Threads : \A k \in DOMAIN values'[u] :
        values'[u][k] \notin pool' /\ content'[values'[u][k]] = k
  BY <1>4, <1>7, SMT DEF BufferInv
<1>9. \A u, v \in Threads : \A k \in DOMAIN values'[u], l \in DOMAIN values'[v] :
        values'[u][k] = values'[v][l] => u = v /\ k = l
  BY <1>7, SMT DEF BufferInv
<1> QED
  BY <1>1, <1>2, <1>5, <1>6, <1>8, <1>9

(* An insertion writes the value of each key that gets through, and counts *)
(* an attempt for each key.                                                *)
LEMMA WriteKeeps ==
    ASSUME TypeOK, BufferInv, NEW t \in Threads, Filled(t), NEW ok \in SUBSET keys[t],
           Write(t, ok)
    PROVE  /\ store' \in [Keys -> Keys \union {Absent}]
           /\ \A k \in Keys : store'[k] = IF k \in ok THEN k ELSE store[k]
           /\ failed' = failed \union (keys[t] \ ok) /\ failed' \subseteq Keys
           /\ attempts' \in [Keys -> Nat]
           /\ \A k \in Keys : attempts'[k] = attempts[k] + IF k \in keys[t] THEN 1 ELSE 0
<1>1. keys[t] \subseteq Keys /\ DOMAIN values[t] = keys[t]
  BY DEF TypeOK, BufferInv
<1>2. \A k \in ok : content[values[t][k]] = k
  BY <1>1 DEF BufferInv
<1>3. store' = [k \in Keys |-> IF k \in ok THEN k ELSE store[k]]
  BY <1>1, <1>2 DEF Write
<1>4. store \in [Keys -> Keys \union {Absent}] /\ failed \subseteq Keys /\ attempts \in [Keys -> Nat]
  BY DEF TypeOK
<1>5. store' \in [Keys -> Keys \union {Absent}]
  BY <1>3, <1>4
<1> QED
  BY <1>1, <1>3, <1>4, <1>5, SMT DEF Write

(* A chooser returns keys of the table. *)
LEMMA KeyRangeIsOfKeys ==
    ASSUME CounterInv
    PROVE  KeyRange \subseteq Keys
  BY RecordAssumption, SMT DEF CounterInv, KeyRange, Keys

-----------------------------------------------------------------------------
(* The counter is only touched by taking, acknowledging and sweeping. *)
LEMMA StepCounterInv ==
    ASSUME TypeOK, CounterInv, NEW t \in Threads, Step(t)
    PROVE  CounterInv'
<1> USE RecordAssumption DEF CounterInv, counterVars
<1>1. CASE LoadTake(t)
  BY <1>1 DEF LoadTake
<1>2. CASE LoadInsert(t)
  BY <1>2 DEF LoadInsert
<1>3. CASE LoadInsertFails(t)
  BY <1>3 DEF LoadInsertFails
<1>4. CASE ChooseRead(t)
  BY <1>4 DEF ChooseRead
<1>5. CASE ChooseScan(t)
  BY <1>5 DEF ChooseScan
<1>6. CASE BatchScanPanics(t)
  BY <1>6 DEF BatchScanPanics
<1>7. CASE ChooseUpdate(t)
  BY <1>7 DEF ChooseUpdate
<1>8. CASE ChooseInsert(t)
  BY <1>8 DEF ChooseInsert
<1>9. CASE Read(t)
  BY <1>9 DEF Read
<1>10. CASE Scan(t)
  BY <1>10 DEF Scan
<1>11. CASE ReadFirst(t)
  BY <1>11 DEF ReadFirst
<1>12. CASE Update(t)
  BY <1>12 DEF Update
<1>13. CASE TakeKey(t)
  BY <1>13, SMT DEF TakeKey, Counter!Issue
<1>14. CASE Insert(t)
  BY <1>14 DEF Insert
<1>15. CASE PutValues(t)
  BY <1>15 DEF PutValues
<1>16. CASE PutValuesThenAck(t)
  BY <1>16 DEF PutValuesThenAck
<1>17. CASE Acknowledge(t)
  BY <1>17 DEF Acknowledge, Counter!Acknowledge
<1>18. CASE Sweep(t)
  <2>1. CASE UNCHANGED counterVars
    BY <2>1
  <2>2. CASE \E key \in Keys : Counter!Publish(key)
    BY <2>2, SMT DEF Counter!Publish, Keys
  <2> QED
    BY <1>18, <2>1, <2>2 DEF Sweep
<1> QED
  BY <1>1, <1>2, <1>3, <1>4, <1>5, <1>6, <1>7, <1>8, <1>9, <1>10, <1>11, <1>12, <1>13, <1>14, <1>15, <1>16, <1>17, <1>18 DEF Step

(* Each step leaves a thread where its phase allows it to be. *)
LEMMA StepPhaseInv ==
    ASSUME TypeOK, PhaseInv, NEW t \in Threads, Step(t)
    PROVE  PhaseInv'
<1>0. /\ p.load \in BOOLEAN /\ p.batchSize \in Nat \ {0} /\ p.retryLimit \in Nat
      /\ pc \in [Threads -> States] /\ keys \in [Threads -> SUBSET Keys]
      /\ retries \in [Threads -> 0..(p.retryLimit + 1)]
  BY SettingTypes DEF TypeOK
<1> USE DEF PhaseInv, Goto
<1>1. CASE LoadTake(t)
  BY <1>0, <1>1, SMT DEF LoadTake
<1>2. CASE LoadInsert(t)
  BY <1>0, <1>2, SMT DEF LoadInsert
<1>3. CASE LoadInsertFails(t)
  BY <1>0, <1>3 DEF LoadInsertFails
<1>4. CASE ChooseRead(t)
  BY <1>0, <1>4 DEF ChooseRead
<1>5. CASE ChooseScan(t)
  BY <1>0, <1>5 DEF ChooseScan
<1>6. CASE BatchScanPanics(t)
  BY <1>0, <1>6 DEF BatchScanPanics
<1>7. CASE ChooseUpdate(t)
  BY <1>0, <1>7 DEF ChooseUpdate
<1>8. CASE ChooseInsert(t)
  BY <1>0, <1>8 DEF ChooseInsert
<1>9. CASE Read(t)
  BY <1>0, <1>9 DEF Read
<1>10. CASE Scan(t)
  BY <1>0, <1>10 DEF Scan
<1>11. CASE ReadFirst(t)
  BY <1>0, <1>11 DEF ReadFirst
<1>12. CASE Update(t)
  BY <1>0, <1>12 DEF Update
<1>13. CASE TakeKey(t)
  BY <1>0, <1>13 DEF TakeKey
<1>14. CASE Insert(t)
  BY <1>0, <1>14 DEF Insert
<1>15. CASE PutValues(t)
  BY <1>0, <1>15 DEF PutValues
<1>16. CASE PutValuesThenAck(t)
  BY <1>0, <1>16 DEF PutValuesThenAck
<1>17. CASE Acknowledge(t)
  BY <1>0, <1>17 DEF Acknowledge
<1>18. CASE Sweep(t)
  BY <1>0, <1>18 DEF Sweep
<1> QED
  BY <1>1, <1>2, <1>3, <1>4, <1>5, <1>6, <1>7, <1>8, <1>9, <1>10, <1>11, <1>12, <1>13, <1>14, <1>15, <1>16, <1>17, <1>18 DEF Step

(* Every step of the workload keeps the types. *)
LEMMA StepTypeOK ==
    ASSUME TypeOK, PhaseInv, BufferInv, CounterInv, NEW t \in Threads, Step(t)
    PROVE  TypeOK'
<1>0. /\ p.batchSize \in Nat \ {0} /\ p.retryLimit \in Nat /\ KeyRange \subseteq Keys
      /\ issued' \in Nat /\ acked' \subseteq Keys /\ last' \in Int /\ issued \in Nat
  BY StepCounterInv, SettingTypes, KeyRangeIsOfKeys, RecordAssumption, SMT DEF CounterInv, Keys
<1> USE DEF TypeOK, Goto, States, storeVars, poolVars
<1>1. CASE LoadTake(t)
  <2>1. keySequence \in Keys
    BY <1>1, RecordAssumption, SMT DEF LoadTake, Keys
  <2>2. PICK b \in Buffers : Build(t, keySequence, b)
    BY <1>1 DEF LoadTake
  <2> HIDE DEF TypeOK
  <2>3. /\ \A u \in Threads : values'[u] \in [DOMAIN values'[u] -> Buffers]
        /\ \A u \in Threads : u # t => values'[u] = values[u]
        /\ DOMAIN values'[t] = DOMAIN values[t] \union {keySequence}
        /\ pool' \subseteq Buffers /\ content' \in [Buffers -> Keys \union {Absent}]
    BY <2>1, <2>2, BuildKeeps
  <2> QED
    BY <1>0, <1>1, <2>1, <2>3, RecordAssumption, SMT DEF LoadTake, TypeOK
<1>2. CASE LoadInsert(t)
  <2>1. Write(t, keys[t]) /\ Filled(t)
    BY <1>2 DEF LoadInsert, Filled
  <2> HIDE DEF TypeOK
  <2>2. store' \in [Keys -> Keys \union {Absent}] /\ failed' \subseteq Keys /\ attempts' \in [Keys -> Nat]
    BY <2>1, WriteKeeps
  <2> QED
    BY <1>0, <1>2, <2>2, SMT DEF LoadInsert, TypeOK, PhaseInv
<1>3. CASE LoadInsertFails(t)
  <2>1. PICK ok \in SUBSET keys[t] : Write(t, ok)
    BY <1>3 DEF LoadInsertFails
  <2>2. Filled(t)
    BY <1>3 DEF LoadInsertFails, Filled
  <2> HIDE DEF TypeOK
  <2>3. store' \in [Keys -> Keys \union {Absent}] /\ failed' \subseteq Keys /\ attempts' \in [Keys -> Nat]
    BY <2>1, <2>2, WriteKeeps
  <2> QED
    BY <1>0, <1>3, <2>3 DEF LoadInsertFails, TypeOK
<1>4. CASE ChooseRead(t)
  <2>1. DOMAIN values[t] = {}
    BY <1>4 DEF ChooseRead, BufferInv, Filled
  <2> QED
    BY <1>0, <1>4, <2>1, SMT DEF ChooseRead
<1>5. CASE ChooseScan(t)
  <2>1. DOMAIN values[t] = {}
    BY <1>5 DEF ChooseScan, BufferInv, Filled
  <2> QED
    BY <1>0, <1>5, <2>1, SMT DEF ChooseScan
<1>6. CASE BatchScanPanics(t)
  BY <1>0, <1>6 DEF BatchScanPanics
<1>7. CASE ChooseUpdate(t)
  <2>1. PICK key \in KeyRange, b \in Buffers : Build(t, key, b) /\ keys' = [keys EXCEPT ![t] = {key}]
    BY <1>7 DEF ChooseUpdate
  <2>2. key \in Keys /\ DOMAIN values[t] = {}
    BY <1>0, <1>7 DEF ChooseUpdate, BufferInv, Filled
  <2> HIDE DEF TypeOK
  <2>3. /\ \A u \in Threads : values'[u] \in [DOMAIN values'[u] -> Buffers]
        /\ \A u \in Threads : u # t => values'[u] = values[u]
        /\ DOMAIN values'[t] = DOMAIN values[t] \union {key}
        /\ pool' \subseteq Buffers /\ content' \in [Buffers -> Keys \union {Absent}]
    BY <2>1, <2>2, BuildKeeps
  <2> QED
    BY <1>0, <1>7, <2>1, <2>2, <2>3 DEF ChooseUpdate, TypeOK
<1>8. CASE ChooseInsert(t)
  BY <1>0, <1>8 DEF ChooseInsert
<1>9. CASE Read(t)
  <2>1. DOMAIN values[t] = {}
    BY <1>9 DEF Read, BufferInv, Filled
  <2> QED
    BY <1>0, <1>9, <2>1 DEF Read
<1>10. CASE Scan(t)
  <2>1. DOMAIN values[t] = {}
    BY <1>10 DEF Scan, BufferInv, Filled
  <2> QED
    BY <1>0, <1>10, <2>1 DEF Scan
<1>11. CASE ReadFirst(t)
  BY <1>0, <1>11 DEF ReadFirst
<1>12. CASE Update(t)
  <2>1. keys[t] = DOMAIN values[t]
    BY <1>12 DEF Update, BufferInv, Filled
  <2>2. \A k \in keys[t] : content[values[t][k]] = k
    BY <2>1 DEF BufferInv
  <2>3. store' \in [Keys -> Keys \union {Absent}]
    BY <1>12, <2>2, SMT DEF Update
  <2> QED
    BY <1>0, <1>12, <2>3 DEF Update
<1>13. CASE TakeKey(t)
  <2>1. issued \in Keys
    BY <1>13, RecordAssumption, SMT DEF TakeKey, Counter!Issue, CounterInv, Keys
  <2>2. PICK b \in Buffers : Build(t, issued, b)
    BY <1>13 DEF TakeKey
  <2> HIDE DEF TypeOK
  <2>3. /\ \A u \in Threads : values'[u] \in [DOMAIN values'[u] -> Buffers]
        /\ \A u \in Threads : u # t => values'[u] = values[u]
        /\ DOMAIN values'[t] = DOMAIN values[t] \union {issued}
        /\ pool' \subseteq Buffers /\ content' \in [Buffers -> Keys \union {Absent}]
    BY <2>1, <2>2, BuildKeeps
  <2> QED
    BY <1>0, <1>13, <2>1, <2>3 DEF TakeKey, TypeOK
<1>14. CASE Insert(t)
  <2>1. PICK ok \in SUBSET keys[t] : Write(t, ok)
    BY <1>14 DEF Insert
  <2>2. Filled(t)
    BY <1>14 DEF Insert, Filled
  <2> HIDE DEF TypeOK
  <2>3. store' \in [Keys -> Keys \union {Absent}] /\ failed' \subseteq Keys /\ attempts' \in [Keys -> Nat]
    BY <2>1, <2>2, WriteKeeps
  <2> QED
    BY <1>0, <1>14, <2>3 DEF Insert, TypeOK
<1>15. CASE PutValues(t)
  <2> HIDE DEF TypeOK
  <2>1. /\ \A u \in Threads : values'[u] \in [DOMAIN values'[u] -> Buffers]
        /\ \A u \in Threads : u # t => values'[u] = values[u]
        /\ DOMAIN values'[t] = {} /\ pool' \subseteq Buffers
    BY <1>15, ReleaseKeeps DEF PutValues
  <2> QED
    BY <1>0, <1>15, <2>1 DEF PutValues, TypeOK
<1>16. CASE PutValuesThenAck(t)
  <2> HIDE DEF TypeOK
  <2>1. /\ \A u \in Threads : values'[u] \in [DOMAIN values'[u] -> Buffers]
        /\ \A u \in Threads : u # t => values'[u] = values[u]
        /\ DOMAIN values'[t] = {} /\ pool' \subseteq Buffers
    BY <1>16, ReleaseKeeps DEF PutValuesThenAck
  <2> QED
    BY <1>0, <1>16, <2>1 DEF PutValuesThenAck, TypeOK
<1>17. CASE Acknowledge(t)
  BY <1>0, <1>17 DEF Acknowledge
<1>18. CASE Sweep(t)
  <2>1. p.batchSize = 1 => DOMAIN values[t] = {}
    BY <1>18, SMT DEF Sweep, BufferInv, Filled
  <2> QED
    BY <1>0, <1>18, <2>1 DEF Sweep
<1> QED
  BY <1>1, <1>2, <1>3, <1>4, <1>5, <1>6, <1>7, <1>8, <1>9, <1>10, <1>11, <1>12, <1>13, <1>14, <1>15, <1>16, <1>17, <1>18 DEF Step

(* No step makes two threads share a buffer, or leaves a key without one. *)
LEMMA StepBufferInv ==
    ASSUME TypeOK, PhaseInv, BufferInv, CounterInv, NEW t \in Threads, Step(t)
    PROVE  BufferInv'
<1>0. p.load \in BOOLEAN /\ p.batchSize \in Nat \ {0}
  BY SettingTypes
<1>1. CASE LoadTake(t)
  <2>1. PICK b \in Buffers : Build(t, keySequence, b)
    BY <1>1 DEF LoadTake
  <2>2. keySequence \in Keys
    BY <1>1, RecordAssumption, SMT DEF LoadTake, Counter!Issue, CounterInv, Keys, TypeOK
  <2>3. /\ values' = [u \in Threads |-> values'[u]]
        /\ \A u \in Threads : u # t => values'[u] = values[u]
        /\ DOMAIN values'[t] = DOMAIN values[t] \union {keySequence}
        /\ \A u \in Threads : \A k \in DOMAIN values'[u] :
             values'[u][k] \notin pool' /\ content'[values'[u][k]] = k
        /\ \A u, v \in Threads : \A k \in DOMAIN values'[u], l \in DOMAIN values'[v] :
             values'[u][k] = values'[v][l] => u = v /\ k = l
    BY <2>1, <2>2, BuildKeeps
  <2>4. p' = p /\ \A u \in Threads : u # t => pc'[u] = pc[u] /\ keys'[u] = keys[u]
    BY <1>1 DEF LoadTake, Goto, TypeOK
  <2>5. DOMAIN values'[t] = IF Filled(t)' THEN keys'[t] ELSE {}
    BY <1>0, <2>3, <1>1, SMT DEF LoadTake, Filled, BufferInv, TypeOK, Goto, PhaseInv
  <2> QED
    BY <2>3, <2>4, <2>5 DEF BufferInv, Filled
<1>2. CASE LoadInsert(t)
  <2>1. UNCHANGED <<values, pool, content, p>> /\ \A u \in Threads : u # t => pc'[u] = pc[u] /\ keys'[u] = keys[u]
    BY <1>2 DEF LoadInsert, Goto, poolVars, TypeOK
  <2>2. DOMAIN values[t] = IF Filled(t)' THEN keys'[t] ELSE {}
    BY <1>2, <1>0, SMT DEF LoadInsert, Filled, BufferInv, TypeOK, Goto, PhaseInv
  <2> QED
    BY <2>1, <2>2, SMT DEF BufferInv, Filled
<1>3. CASE LoadInsertFails(t)
  <2>1. UNCHANGED <<values, pool, content, p>> /\ \A u \in Threads : u # t => pc'[u] = pc[u] /\ keys'[u] = keys[u]
    BY <1>3 DEF LoadInsertFails, Goto, poolVars, TypeOK
  <2>2. DOMAIN values[t] = IF Filled(t)' THEN keys'[t] ELSE {}
    BY <1>3, <1>0, SMT DEF LoadInsertFails, Filled, BufferInv, TypeOK, Goto, PhaseInv
  <2> QED
    BY <2>1, <2>2, SMT DEF BufferInv, Filled
<1>4. CASE ChooseRead(t)
  <2>1. UNCHANGED <<values, pool, content, p>> /\ \A u \in Threads : u # t => pc'[u] = pc[u] /\ keys'[u] = keys[u]
    BY <1>4 DEF ChooseRead, Goto, poolVars, TypeOK
  <2>2. DOMAIN values[t] = IF Filled(t)' THEN keys'[t] ELSE {}
    BY <1>4, <1>0 DEF ChooseRead, Filled, BufferInv, TypeOK, Goto, PhaseInv
  <2> QED
    BY <2>1, <2>2, SMT DEF BufferInv, Filled
<1>5. CASE ChooseScan(t)
  <2>1. UNCHANGED <<values, pool, content, p>> /\ \A u \in Threads : u # t => pc'[u] = pc[u] /\ keys'[u] = keys[u]
    BY <1>5 DEF ChooseScan, Goto, poolVars, TypeOK
  <2>2. DOMAIN values[t] = IF Filled(t)' THEN keys'[t] ELSE {}
    BY <1>5, <1>0 DEF ChooseScan, Filled, BufferInv, TypeOK, Goto, PhaseInv
  <2> QED
    BY <2>1, <2>2, SMT DEF BufferInv, Filled
<1>6. CASE BatchScanPanics(t)
  <2>1. UNCHANGED <<values, pool, content, p>> /\ \A u \in Threads : u # t => pc'[u] = pc[u] /\ keys'[u] = keys[u]
    BY <1>6 DEF BatchScanPanics, Goto, poolVars, TypeOK
  <2>2. DOMAIN values[t] = IF Filled(t)' THEN keys'[t] ELSE {}
    BY <1>6, <1>0 DEF BatchScanPanics, Filled, BufferInv, TypeOK, Goto, PhaseInv
  <2> QED
    BY <2>1, <2>2, SMT DEF BufferInv, Filled
<1>7. CASE ChooseUpdate(t)
  <2>1. PICK key \in KeyRange, b \in Buffers : Build(t, key, b) /\ keys' = [keys EXCEPT ![t] = {key}]
    BY <1>7 DEF ChooseUpdate
  <2>2. key \in Keys
    BY KeyRangeIsOfKeys
  <2>3. /\ values' = [u \in Threads |-> values'[u]]
        /\ \A u \in Threads : u # t => values'[u] = values[u]
        /\ DOMAIN values'[t] = DOMAIN values[t] \union {key}
        /\ \A u \in Threads : \A k \in DOMAIN values'[u] :
             values'[u][k] \notin pool' /\ content'[values'[u][k]] = k
        /\ \A u, v \in Threads : \A k \in DOMAIN values'[u], l \in DOMAIN values'[v] :
             values'[u][k] = values'[v][l] => u = v /\ k = l
    BY <2>1, <2>2, BuildKeeps
  <2>4. p' = p /\ \A u \in Threads : u # t => pc'[u] = pc[u] /\ keys'[u] = keys[u]
    BY <1>7 DEF ChooseUpdate, Goto, TypeOK
  <2>5. DOMAIN values'[t] = IF Filled(t)' THEN keys'[t] ELSE {}
    BY <1>0, <2>1, <2>3, <1>7, SMT DEF ChooseUpdate, Filled, BufferInv, TypeOK, Goto, PhaseInv
  <2> QED
    BY <2>3, <2>4, <2>5 DEF BufferInv, Filled
<1>8. CASE ChooseInsert(t)
  <2>1. UNCHANGED <<values, pool, content, p>> /\ \A u \in Threads : u # t => pc'[u] = pc[u] /\ keys'[u] = keys[u]
    BY <1>8 DEF ChooseInsert, Goto, poolVars, TypeOK
  <2>2. DOMAIN values[t] = IF Filled(t)' THEN keys'[t] ELSE {}
    BY <1>8, <1>0 DEF ChooseInsert, Filled, BufferInv, TypeOK, Goto, PhaseInv
  <2> QED
    BY <2>1, <2>2, SMT DEF BufferInv, Filled
<1>9. CASE Read(t)
  <2>1. UNCHANGED <<values, pool, content, p>> /\ \A u \in Threads : u # t => pc'[u] = pc[u] /\ keys'[u] = keys[u]
    BY <1>9 DEF Read, Goto, poolVars, TypeOK
  <2>2. DOMAIN values[t] = IF Filled(t)' THEN keys'[t] ELSE {}
    BY <1>9, <1>0 DEF Read, Filled, BufferInv, TypeOK, Goto, PhaseInv
  <2> QED
    BY <2>1, <2>2, SMT DEF BufferInv, Filled
<1>10. CASE Scan(t)
  <2>1. UNCHANGED <<values, pool, content, p>> /\ \A u \in Threads : u # t => pc'[u] = pc[u] /\ keys'[u] = keys[u]
    BY <1>10 DEF Scan, Goto, poolVars, TypeOK
  <2>2. DOMAIN values[t] = IF Filled(t)' THEN keys'[t] ELSE {}
    BY <1>10, <1>0 DEF Scan, Filled, BufferInv, TypeOK, Goto, PhaseInv
  <2> QED
    BY <2>1, <2>2, SMT DEF BufferInv, Filled
<1>11. CASE ReadFirst(t)
  <2>1. UNCHANGED <<values, pool, content, p>> /\ \A u \in Threads : u # t => pc'[u] = pc[u] /\ keys'[u] = keys[u]
    BY <1>11 DEF ReadFirst, Goto, poolVars, TypeOK
  <2>2. DOMAIN values[t] = IF Filled(t)' THEN keys'[t] ELSE {}
    BY <1>11, <1>0, SMT DEF ReadFirst, Filled, BufferInv, TypeOK, Goto, PhaseInv
  <2> QED
    BY <2>1, <2>2, SMT DEF BufferInv, Filled
<1>12. CASE Update(t)
  <2>1. UNCHANGED <<values, pool, content, p>> /\ \A u \in Threads : u # t => pc'[u] = pc[u] /\ keys'[u] = keys[u]
    BY <1>12 DEF Update, Goto, poolVars, TypeOK
  <2>2. DOMAIN values[t] = IF Filled(t)' THEN keys'[t] ELSE {}
    BY <1>12, <1>0 DEF Update, Filled, BufferInv, TypeOK, Goto, PhaseInv
  <2> QED
    BY <2>1, <2>2, SMT DEF BufferInv, Filled
<1>13. CASE TakeKey(t)
  <2>1. PICK b \in Buffers : Build(t, issued, b)
    BY <1>13 DEF TakeKey
  <2>2. issued \in Keys
    BY <1>13, RecordAssumption, SMT DEF TakeKey, Counter!Issue, CounterInv, Keys, TypeOK
  <2>3. /\ values' = [u \in Threads |-> values'[u]]
        /\ \A u \in Threads : u # t => values'[u] = values[u]
        /\ DOMAIN values'[t] = DOMAIN values[t] \union {issued}
        /\ \A u \in Threads : \A k \in DOMAIN values'[u] :
             values'[u][k] \notin pool' /\ content'[values'[u][k]] = k
        /\ \A u, v \in Threads : \A k \in DOMAIN values'[u], l \in DOMAIN values'[v] :
             values'[u][k] = values'[v][l] => u = v /\ k = l
    BY <2>1, <2>2, BuildKeeps
  <2>4. p' = p /\ \A u \in Threads : u # t => pc'[u] = pc[u] /\ keys'[u] = keys[u]
    BY <1>13 DEF TakeKey, Goto, TypeOK
  <2>5. DOMAIN values'[t] = IF Filled(t)' THEN keys'[t] ELSE {}
    <3>1. DOMAIN values[t] = keys[t] /\ keys'[t] = keys[t] \union {issued}
      BY <1>13 DEF TakeKey, Goto, BufferInv, Filled, TypeOK
    <3>2. Filled(t)'
      <4>1. p' = p /\ pc'[t] = IF p.batchSize = 1 THEN "insert" ELSE "ack"
        BY <1>13 DEF TakeKey, Goto, TypeOK
      <4> QED
        BY <1>0, <4>1, SMT DEF Filled
    <3> QED
      BY <2>3, <3>1, <3>2
  <2> QED
    BY <2>3, <2>4, <2>5 DEF BufferInv, Filled
<1>14. CASE Insert(t)
  <2>1. UNCHANGED <<values, pool, content, p>> /\ \A u \in Threads : u # t => pc'[u] = pc[u] /\ keys'[u] = keys[u]
    BY <1>14 DEF Insert, Goto, poolVars, TypeOK
  <2>2. DOMAIN values[t] = IF Filled(t)' THEN keys'[t] ELSE {}
    BY <1>14, <1>0 DEF Insert, Filled, BufferInv, TypeOK, Goto, PhaseInv
  <2> QED
    BY <2>1, <2>2, SMT DEF BufferInv, Filled
<1>15. CASE PutValues(t)
  <2>1. /\ values' = [u \in Threads |-> values'[u]]
        /\ \A u \in Threads : u # t => values'[u] = values[u]
        /\ DOMAIN values'[t] = {}
        /\ \A u \in Threads : \A k \in DOMAIN values'[u] :
             values'[u][k] \notin pool' /\ content'[values'[u][k]] = k
        /\ \A u, v \in Threads : \A k \in DOMAIN values'[u], l \in DOMAIN values'[v] :
             values'[u][k] = values'[v][l] => u = v /\ k = l
    BY <1>15, ReleaseKeeps DEF PutValues
  <2>2. p' = p /\ \A u \in Threads : u # t => pc'[u] = pc[u] /\ keys'[u] = keys[u]
    BY <1>15 DEF PutValues, Goto, TypeOK
  <2>3. DOMAIN values'[t] = IF Filled(t)' THEN keys'[t] ELSE {}
    BY <1>0, <2>1, <1>15 DEF PutValues, Filled, TypeOK, Goto, PhaseInv
  <2> QED
    BY <2>1, <2>2, <2>3 DEF BufferInv, Filled
<1>16. CASE PutValuesThenAck(t)
  <2>1. /\ values' = [u \in Threads |-> values'[u]]
        /\ \A u \in Threads : u # t => values'[u] = values[u]
        /\ DOMAIN values'[t] = {}
        /\ \A u \in Threads : \A k \in DOMAIN values'[u] :
             values'[u][k] \notin pool' /\ content'[values'[u][k]] = k
        /\ \A u, v \in Threads : \A k \in DOMAIN values'[u], l \in DOMAIN values'[v] :
             values'[u][k] = values'[v][l] => u = v /\ k = l
    BY <1>16, ReleaseKeeps DEF PutValuesThenAck
  <2>2. p' = p /\ \A u \in Threads : u # t => pc'[u] = pc[u] /\ keys'[u] = keys[u]
    BY <1>16 DEF PutValuesThenAck, Goto, TypeOK
  <2>3. DOMAIN values'[t] = IF Filled(t)' THEN keys'[t] ELSE {}
    BY <1>0, <2>1, <1>16, SMT DEF PutValuesThenAck, Filled, TypeOK, Goto, PhaseInv
  <2> QED
    BY <2>1, <2>2, <2>3 DEF BufferInv, Filled
<1>17. CASE Acknowledge(t)
  <2>1. UNCHANGED <<values, pool, content, p>> /\ \A u \in Threads : u # t => pc'[u] = pc[u] /\ keys'[u] = keys[u]
    BY <1>17 DEF Acknowledge, Goto, poolVars, TypeOK
  <2>2. DOMAIN values[t] = IF Filled(t)' THEN keys'[t] ELSE {}
    BY <1>17, <1>0 DEF Acknowledge, Filled, BufferInv, TypeOK, Goto, PhaseInv
  <2> QED
    BY <2>1, <2>2, SMT DEF BufferInv, Filled
<1>18. CASE Sweep(t)
  <2>1. UNCHANGED <<values, pool, content, p>> /\ \A u \in Threads : u # t => pc'[u] = pc[u] /\ keys'[u] = keys[u]
    BY <1>18 DEF Sweep, Goto, poolVars, TypeOK
  <2>2. DOMAIN values[t] = IF Filled(t)' THEN keys'[t] ELSE {}
    <3>1. CASE p.batchSize = 1
      <4>1. p' = p /\ pc[t] = "sweep" /\ pc'[t] = "idle"
        BY <1>18, <3>1 DEF Sweep, TypeOK, Goto
      <4>2. ~ Filled(t) /\ ~ Filled(t)'
        BY <3>1, <4>1, SMT DEF Filled
      <4> QED
        BY <4>2 DEF BufferInv
    <3>2. CASE p.batchSize > 1
      <4>1. DOMAIN values[t] = keys[t]
        BY <1>18, <3>2 DEF Sweep, Filled, BufferInv, Goto
      <4>2. Filled(t)' /\ keys' = keys
        BY <1>18, <3>2, SMT DEF Sweep, Filled, Goto, TypeOK
      <4> QED
        BY <4>1, <4>2
    <3> QED
      BY <1>0, <3>1, <3>2, SMT
  <2> QED
    BY <2>1, <2>2, SMT DEF BufferInv, Filled
<1> QED
  BY <1>1, <1>2, <1>3, <1>4, <1>5, <1>6, <1>7, <1>8, <1>9, <1>10, <1>11, <1>12, <1>13, <1>14, <1>15, <1>16, <1>17, <1>18 DEF Step

(* No step stores the value of one key under another, so verifyRow passes. *)
LEMMA StepRowInv ==
    ASSUME TypeOK, BufferInv, RowInv, NEW t \in Threads, Step(t)
    PROVE  RowInv'
<1> USE DEF RowsVerify, storeVars
<1>1. CASE LoadTake(t)
  BY <1>1 DEF LoadTake, RowInv
<1>2. CASE LoadInsert(t)
  <2>1. PICK ok \in SUBSET keys[t] : Write(t, ok)
    BY <1>2 DEF LoadInsert
  <2>2. \A k \in keys[t] : content[values[t][k]] = k
    BY <1>2 DEF LoadInsert, BufferInv, Filled, Goto
  <2>3. \A k \in Keys : store'[k] \in {Absent, k}
    BY <2>1, <2>2 DEF Write, RowInv
  <2> QED
    BY <1>2, <2>3 DEF LoadInsert, RowInv
<1>3. CASE LoadInsertFails(t)
  <2>1. PICK ok \in SUBSET keys[t] : Write(t, ok)
    BY <1>3 DEF LoadInsertFails
  <2>2. \A k \in keys[t] : content[values[t][k]] = k
    BY <1>3 DEF LoadInsertFails, BufferInv, Filled, Goto
  <2>3. \A k \in Keys : store'[k] \in {Absent, k}
    BY <2>1, <2>2 DEF Write, RowInv
  <2> QED
    BY <1>3, <2>3 DEF LoadInsertFails, RowInv
<1>4. CASE ChooseRead(t)
  BY <1>4 DEF ChooseRead, RowInv
<1>5. CASE ChooseScan(t)
  BY <1>5 DEF ChooseScan, RowInv
<1>6. CASE BatchScanPanics(t)
  BY <1>6 DEF BatchScanPanics, RowInv
<1>7. CASE ChooseUpdate(t)
  BY <1>7 DEF ChooseUpdate, RowInv
<1>8. CASE ChooseInsert(t)
  BY <1>8 DEF ChooseInsert, RowInv
<1>9. CASE Read(t)
  <2>1. ~ Mismatch(t)
    BY DEF Mismatch, RowInv, TypeOK
  <2> QED
    BY <1>9, <2>1 DEF Read, RowInv, storeVars
<1>10. CASE Scan(t)
  BY <1>10 DEF Scan, RowInv
<1>11. CASE ReadFirst(t)
  <2>1. ~ Mismatch(t)
    BY DEF Mismatch, RowInv, TypeOK
  <2> QED
    BY <1>11, <2>1 DEF ReadFirst, RowInv, storeVars
<1>12. CASE Update(t)
  <2>1. \A k \in keys[t] : content[values[t][k]] = k
    BY <1>12 DEF Update, BufferInv, Filled, Goto
  <2>2. \A k \in Keys : store'[k] \in {Absent, k}
    BY <1>12, <2>1 DEF Update, RowInv
  <2> QED
    BY <1>12, <2>2 DEF Update, RowInv
<1>13. CASE TakeKey(t)
  BY <1>13 DEF TakeKey, RowInv
<1>14. CASE Insert(t)
  <2>1. PICK ok \in SUBSET keys[t] : Write(t, ok)
    BY <1>14 DEF Insert
  <2>2. \A k \in keys[t] : content[values[t][k]] = k
    BY <1>14 DEF Insert, BufferInv, Filled, Goto
  <2>3. \A k \in Keys : store'[k] \in {Absent, k}
    BY <2>1, <2>2 DEF Write, RowInv
  <2> QED
    BY <1>14, <2>3 DEF Insert, RowInv
<1>15. CASE PutValues(t)
  BY <1>15 DEF PutValues, RowInv
<1>16. CASE PutValuesThenAck(t)
  BY <1>16 DEF PutValuesThenAck, RowInv
<1>17. CASE Acknowledge(t)
  BY <1>17 DEF Acknowledge, RowInv
<1>18. CASE Sweep(t)
  BY <1>18 DEF Sweep, RowInv
<1> QED
  BY <1>1, <1>2, <1>3, <1>4, <1>5, <1>6, <1>7, <1>8, <1>9, <1>10, <1>11, <1>12, <1>13, <1>14, <1>15, <1>16, <1>17, <1>18 DEF Step

-----------------------------------------------------------------------------
(* A step of one thread moves no other thread. *)
LEMMA StepFrame ==
    ASSUME TypeOK, NEW t \in Threads, Step(t)
    PROVE  p' = p /\ \A u \in Threads : u # t => pc'[u] = pc[u] /\ keys'[u] = keys[u]
<1> USE DEF TypeOK, Goto
<1>1. CASE LoadTake(t)
  BY <1>1 DEF LoadTake
<1>2. CASE LoadInsert(t)
  BY <1>2 DEF LoadInsert
<1>3. CASE LoadInsertFails(t)
  BY <1>3 DEF LoadInsertFails
<1>4. CASE ChooseRead(t)
  BY <1>4 DEF ChooseRead
<1>5. CASE ChooseScan(t)
  BY <1>5 DEF ChooseScan
<1>6. CASE BatchScanPanics(t)
  BY <1>6 DEF BatchScanPanics
<1>7. CASE ChooseUpdate(t)
  BY <1>7 DEF ChooseUpdate
<1>8. CASE ChooseInsert(t)
  BY <1>8 DEF ChooseInsert
<1>9. CASE Read(t)
  BY <1>9 DEF Read
<1>10. CASE Scan(t)
  BY <1>10 DEF Scan
<1>11. CASE ReadFirst(t)
  BY <1>11 DEF ReadFirst
<1>12. CASE Update(t)
  BY <1>12 DEF Update
<1>13. CASE TakeKey(t)
  BY <1>13 DEF TakeKey
<1>14. CASE Insert(t)
  BY <1>14 DEF Insert
<1>15. CASE PutValues(t)
  BY <1>15 DEF PutValues
<1>16. CASE PutValuesThenAck(t)
  BY <1>16 DEF PutValuesThenAck
<1>17. CASE Acknowledge(t)
  BY <1>17 DEF Acknowledge
<1>18. CASE Sweep(t)
  BY <1>18 DEF Sweep
<1> QED
  BY <1>1, <1>2, <1>3, <1>4, <1>5, <1>6, <1>7, <1>8, <1>9, <1>10, <1>11, <1>12, <1>13, <1>14, <1>15, <1>16, <1>17, <1>18 DEF Step

(* A chooser that counts back from Last returns a key of the load phase or *)
(* an acknowledged one.                                                    *)
LEMMA KeyRangeIsKnown ==
    ASSUME CounterInv, p.distribution \in {"latest", "exponential"}
    PROVE  \A k \in KeyRange : Known(k)
  BY RecordAssumption, SMT DEF CounterInv, KeyRange, Known

(* No step takes back an acknowledgement, a row or a failure. *)
LEMMA StepSettles ==
    ASSUME TypeOK, BufferInv, NEW t \in Threads, Step(t)
    PROVE  \A k \in Keys : (Known(k) => Known(k)') /\ (Settled(k) => Settled(k)')
<1> USE DEF Known, Settled, counterVars, storeVars
<1>1. CASE LoadTake(t)
  BY <1>1 DEF LoadTake
<1>2. CASE LoadInsert(t)
  <2>1. PICK ok \in SUBSET keys[t] : Write(t, ok)
    BY <1>2 DEF LoadInsert
  <2>2. Filled(t)
    BY <1>2 DEF LoadInsert, Goto, Filled
  <2>3. failed \subseteq failed' /\ \A k \in Keys : store'[k] = IF k \in ok THEN k ELSE store[k]
    BY <2>1, <2>2, WriteKeeps
  <2> QED
    BY <1>2, <2>3, RecordAssumption, SMT DEF LoadInsert, Absent, Keys
<1>3. CASE LoadInsertFails(t)
  <2>1. PICK ok \in SUBSET keys[t] : Write(t, ok)
    BY <1>3 DEF LoadInsertFails
  <2>2. Filled(t)
    BY <1>3 DEF LoadInsertFails, Goto, Filled
  <2>3. failed \subseteq failed' /\ \A k \in Keys : store'[k] = IF k \in ok THEN k ELSE store[k]
    BY <2>1, <2>2, WriteKeeps
  <2> QED
    BY <1>3, <2>3, RecordAssumption, SMT DEF LoadInsertFails, Absent, Keys
<1>4. CASE ChooseRead(t)
  BY <1>4 DEF ChooseRead
<1>5. CASE ChooseScan(t)
  BY <1>5 DEF ChooseScan
<1>6. CASE BatchScanPanics(t)
  BY <1>6 DEF BatchScanPanics
<1>7. CASE ChooseUpdate(t)
  BY <1>7 DEF ChooseUpdate
<1>8. CASE ChooseInsert(t)
  BY <1>8 DEF ChooseInsert
<1>9. CASE Read(t)
  BY <1>9 DEF Read
<1>10. CASE Scan(t)
  BY <1>10 DEF Scan
<1>11. CASE ReadFirst(t)
  BY <1>11 DEF ReadFirst
<1>12. CASE Update(t)
  <2>1. \A k \in keys[t] : content[values[t][k]] = k
    BY <1>12 DEF Update, BufferInv, Filled, Goto
  <2> QED
    BY <1>12, <2>1, RecordAssumption, SMT DEF Update, Absent, Keys
<1>13. CASE TakeKey(t)
  BY <1>13 DEF TakeKey, Counter!Issue
<1>14. CASE Insert(t)
  <2>1. PICK ok \in SUBSET keys[t] : Write(t, ok)
    BY <1>14 DEF Insert
  <2>2. Filled(t)
    BY <1>14 DEF Insert, Goto, Filled
  <2>3. failed \subseteq failed' /\ \A k \in Keys : store'[k] = IF k \in ok THEN k ELSE store[k]
    BY <2>1, <2>2, WriteKeeps
  <2> QED
    BY <1>14, <2>3, RecordAssumption, SMT DEF Insert, Absent, Keys
<1>15. CASE PutValues(t)
  BY <1>15 DEF PutValues
<1>16. CASE PutValuesThenAck(t)
  BY <1>16 DEF PutValuesThenAck
<1>17. CASE Acknowledge(t)
  BY <1>17 DEF Acknowledge, Counter!Acknowledge
<1>18. CASE Sweep(t)
  BY <1>18 DEF Sweep, Counter!Publish
<1> QED
  BY <1>1, <1>2, <1>3, <1>4, <1>5, <1>6, <1>7, <1>8, <1>9, <1>10, <1>11, <1>12, <1>13, <1>14, <1>15, <1>16, <1>17, <1>18 DEF Step

(* What a step of t owes to AckInv, the rest being untouched. *)
LEMMA AckInvKept ==
    ASSUME TypeOK, BufferInv, AckInv, NEW t \in Threads, Step(t), ~ p.load,
           \A k \in Keys : Known(k)' => Known(k) \/ Settled(k)' \/ AckedEarly(k)',
           p.batchSize > 1 /\ pc[t] \in {"take", "ack", "sweep", "insert"} =>
             \A k \in keys[t] : Settled(k)' \/ AckedEarly(k)',
           keys'[t] \subseteq Keys,
           \A k \in keys'[t] :
             /\ pc'[t] \in {"putThenAck", "ack"} /\ p.batchSize = 1 => Settled(k)'
             /\ pc'[t] \in {"read", "scan", "update", "readFirst"}
                  /\ p.distribution \in {"latest", "exponential"} => Known(k)'
    PROVE  AckInv'
<1>1. p' = p /\ \A u \in Threads : u # t => pc'[u] = pc[u] /\ keys'[u] = keys[u]
  BY StepFrame
<1>2. \A k \in Keys : (Known(k) => Known(k)') /\ (Settled(k) => Settled(k)')
  BY StepSettles
<1>3. \A k \in Keys : AckedEarly(k) => Settled(k)' \/ AckedEarly(k)'
  BY <1>1 DEF AckedEarly
<1>4. \A k \in Keys : Known(k)' => Settled(k)' \/ AckedEarly(k)'
  BY <1>2, <1>3 DEF AckInv
<1>5. \A u \in Threads : keys[u] \subseteq Keys
  BY DEF TypeOK
<1>6. ASSUME NEW u \in Threads, NEW k \in keys'[u]
      PROVE  /\ pc'[u] \in {"putThenAck", "ack"} /\ p.batchSize = 1 => Settled(k)'
             /\ pc'[u] \in {"read", "scan", "update", "readFirst"}
                  /\ p.distribution \in {"latest", "exponential"} => Known(k)'
  BY <1>1, <1>2, <1>5 DEF AckInv
<1> QED
  BY <1>1, <1>4, <1>6 DEF AckInv

(* A key that is acknowledged is settled or in a batch on its way. *)
LEMMA StepAckInv ==
    ASSUME TypeOK, PhaseInv, BufferInv, CounterInv, AckInv, NEW t \in Threads, Step(t)
    PROVE  AckInv'
<1> SUFFICES ASSUME ~ p.load
             PROVE  AckInv'
  BY StepFrame DEF AckInv
<1>0. p.batchSize \in Nat \ {0} /\ keys'[t] \subseteq Keys /\ ~ p.load
  BY SettingTypes, StepTypeOK DEF TypeOK
<1>1. CASE LoadTake(t)
  BY <1>0, <1>1 DEF LoadTake, PhaseInv, Goto
<1>2. CASE LoadInsert(t)
  BY <1>0, <1>2 DEF LoadInsert, PhaseInv, Goto
<1>3. CASE LoadInsertFails(t)
  BY <1>0, <1>3 DEF LoadInsertFails, PhaseInv, Goto
<1>4. CASE ChooseRead(t)
  <2>1. \A k \in Keys : Known(k)' => Known(k) \/ Settled(k)' \/ AckedEarly(k)'
    BY <1>4 DEF ChooseRead, Known, counterVars
  <2>2. p.batchSize > 1 /\ pc[t] \in {"take", "ack", "sweep", "insert"} =>
          \A k \in keys[t] : Settled(k)' \/ AckedEarly(k)'
    BY <1>0, <1>4 DEF ChooseRead, Goto, AckedEarly, TypeOK
  <2>3. \A k \in keys'[t] :
          /\ pc'[t] \in {"putThenAck", "ack"} /\ p.batchSize = 1 => Settled(k)'
          /\ pc'[t] \in {"read", "scan", "update", "readFirst"}
               /\ p.distribution \in {"latest", "exponential"} => Known(k)'
    <3>1. keys'[t] \subseteq KeyRange
      BY <1>4 DEF ChooseRead, TypeOK
    <3>2. pc'[t] \notin {"putThenAck", "ack"}
      BY <1>4 DEF ChooseRead, Goto, TypeOK
    <3>3. \A k : Known(k) => Known(k)'
      BY <1>4 DEF ChooseRead, Known, counterVars
    <3> QED
      BY <3>1, <3>2, <3>3, KeyRangeIsKnown
  <2> QED
    BY <1>0, <2>1, <2>2, <2>3, AckInvKept
<1>5. CASE ChooseScan(t)
  <2>1. \A k \in Keys : Known(k)' => Known(k) \/ Settled(k)' \/ AckedEarly(k)'
    BY <1>5 DEF ChooseScan, Known, counterVars
  <2>2. p.batchSize > 1 /\ pc[t] \in {"take", "ack", "sweep", "insert"} =>
          \A k \in keys[t] : Settled(k)' \/ AckedEarly(k)'
    BY <1>0, <1>5 DEF ChooseScan, Goto, AckedEarly, TypeOK
  <2>3. \A k \in keys'[t] :
          /\ pc'[t] \in {"putThenAck", "ack"} /\ p.batchSize = 1 => Settled(k)'
          /\ pc'[t] \in {"read", "scan", "update", "readFirst"}
               /\ p.distribution \in {"latest", "exponential"} => Known(k)'
    <3>1. keys'[t] \subseteq KeyRange
      BY <1>5, SMT DEF ChooseScan, TypeOK
    <3>2. pc'[t] \notin {"putThenAck", "ack"}
      BY <1>5 DEF ChooseScan, Goto, TypeOK
    <3>3. \A k : Known(k) => Known(k)'
      BY <1>5 DEF ChooseScan, Known, counterVars
    <3> QED
      BY <3>1, <3>2, <3>3, KeyRangeIsKnown
  <2> QED
    BY <1>0, <2>1, <2>2, <2>3, AckInvKept
<1>6. CASE BatchScanPanics(t)
  <2>1. \A k \in Keys : Known(k)' => Known(k) \/ Settled(k)' \/ AckedEarly(k)'
    BY <1>6 DEF BatchScanPanics, Known, counterVars
  <2>2. p.batchSize > 1 /\ pc[t] \in {"take", "ack", "sweep", "insert"} =>
          \A k \in keys[t] : Settled(k)' \/ AckedEarly(k)'
    BY <1>0, <1>6 DEF BatchScanPanics, Goto, AckedEarly, TypeOK
  <2>3. \A k \in keys'[t] :
          /\ pc'[t] \in {"putThenAck", "ack"} /\ p.batchSize = 1 => Settled(k)'
          /\ pc'[t] \in {"read", "scan", "update", "readFirst"}
               /\ p.distribution \in {"latest", "exponential"} => Known(k)'
    BY <1>0, <1>6 DEF BatchScanPanics, Goto, AckInv, TypeOK
  <2> QED
    BY <1>0, <2>1, <2>2, <2>3, AckInvKept
<1>7. CASE ChooseUpdate(t)
  <2>1. \A k \in Keys : Known(k)' => Known(k) \/ Settled(k)' \/ AckedEarly(k)'
    BY <1>7 DEF ChooseUpdate, Known, counterVars
  <2>2. p.batchSize > 1 /\ pc[t] \in {"take", "ack", "sweep", "insert"} =>
          \A k \in keys[t] : Settled(k)' \/ AckedEarly(k)'
    BY <1>0, <1>7 DEF ChooseUpdate, Goto, AckedEarly, TypeOK
  <2>3. \A k \in keys'[t] :
          /\ pc'[t] \in {"putThenAck", "ack"} /\ p.batchSize = 1 => Settled(k)'
          /\ pc'[t] \in {"read", "scan", "update", "readFirst"}
               /\ p.distribution \in {"latest", "exponential"} => Known(k)'
    <3>1. keys'[t] \subseteq KeyRange
      BY <1>7, SMT DEF ChooseUpdate, TypeOK
    <3>2. pc'[t] \notin {"putThenAck", "ack"}
      BY <1>7 DEF ChooseUpdate, Goto, TypeOK
    <3>3. \A k : Known(k) => Known(k)'
      BY <1>7 DEF ChooseUpdate, Known, counterVars
    <3> QED
      BY <3>1, <3>2, <3>3, KeyRangeIsKnown
  <2> QED
    BY <1>0, <2>1, <2>2, <2>3, AckInvKept
<1>8. CASE ChooseInsert(t)
  <2>1. \A k \in Keys : Known(k)' => Known(k) \/ Settled(k)' \/ AckedEarly(k)'
    BY <1>8 DEF ChooseInsert, Known, counterVars
  <2>2. p.batchSize > 1 /\ pc[t] \in {"take", "ack", "sweep", "insert"} =>
          \A k \in keys[t] : Settled(k)' \/ AckedEarly(k)'
    BY <1>0, <1>8 DEF ChooseInsert, Goto, AckedEarly, TypeOK
  <2>3. \A k \in keys'[t] :
          /\ pc'[t] \in {"putThenAck", "ack"} /\ p.batchSize = 1 => Settled(k)'
          /\ pc'[t] \in {"read", "scan", "update", "readFirst"}
               /\ p.distribution \in {"latest", "exponential"} => Known(k)'
    BY <1>0, <1>8 DEF ChooseInsert, Goto, AckInv, TypeOK
  <2> QED
    BY <1>0, <2>1, <2>2, <2>3, AckInvKept
<1>9. CASE Read(t)
  <2>1. \A k \in Keys : Known(k)' => Known(k) \/ Settled(k)' \/ AckedEarly(k)'
    BY <1>9 DEF Read, Known, counterVars
  <2>2. p.batchSize > 1 /\ pc[t] \in {"take", "ack", "sweep", "insert"} =>
          \A k \in keys[t] : Settled(k)' \/ AckedEarly(k)'
    BY <1>0, <1>9 DEF Read, Goto, AckedEarly, TypeOK
  <2>3. \A k \in keys'[t] :
          /\ pc'[t] \in {"putThenAck", "ack"} /\ p.batchSize = 1 => Settled(k)'
          /\ pc'[t] \in {"read", "scan", "update", "readFirst"}
               /\ p.distribution \in {"latest", "exponential"} => Known(k)'
    BY <1>0, <1>9 DEF Read, Goto, AckInv, TypeOK
  <2> QED
    BY <1>0, <2>1, <2>2, <2>3, AckInvKept
<1>10. CASE Scan(t)
  <2>1. \A k \in Keys : Known(k)' => Known(k) \/ Settled(k)' \/ AckedEarly(k)'
    BY <1>10 DEF Scan, Known, counterVars
  <2>2. p.batchSize > 1 /\ pc[t] \in {"take", "ack", "sweep", "insert"} =>
          \A k \in keys[t] : Settled(k)' \/ AckedEarly(k)'
    BY <1>0, <1>10 DEF Scan, Goto, AckedEarly, TypeOK
  <2>3. \A k \in keys'[t] :
          /\ pc'[t] \in {"putThenAck", "ack"} /\ p.batchSize = 1 => Settled(k)'
          /\ pc'[t] \in {"read", "scan", "update", "readFirst"}
               /\ p.distribution \in {"latest", "exponential"} => Known(k)'
    BY <1>0, <1>10 DEF Scan, Goto, AckInv, TypeOK
  <2> QED
    BY <1>0, <2>1, <2>2, <2>3, AckInvKept
<1>11. CASE ReadFirst(t)
  <2>1. \A k \in Keys : Known(k)' => Known(k) \/ Settled(k)' \/ AckedEarly(k)'
    BY <1>11 DEF ReadFirst, Known, counterVars
  <2>2. p.batchSize > 1 /\ pc[t] \in {"take", "ack", "sweep", "insert"} =>
          \A k \in keys[t] : Settled(k)' \/ AckedEarly(k)'
    BY <1>0, <1>11 DEF ReadFirst, Goto, AckedEarly, TypeOK
  <2>3. \A k \in keys'[t] :
          /\ pc'[t] \in {"putThenAck", "ack"} /\ p.batchSize = 1 => Settled(k)'
          /\ pc'[t] \in {"read", "scan", "update", "readFirst"}
               /\ p.distribution \in {"latest", "exponential"} => Known(k)'
    <3>1. keys' = keys /\ keys[t] \subseteq Keys
      BY <1>11 DEF ReadFirst, TypeOK
    <3> QED
      BY <1>0, <1>11, <3>1, StepSettles DEF ReadFirst, Goto, AckInv, TypeOK
  <2> QED
    BY <1>0, <2>1, <2>2, <2>3, AckInvKept
<1>12. CASE Update(t)
  <2>1. \A k \in Keys : Known(k)' => Known(k) \/ Settled(k)' \/ AckedEarly(k)'
    BY <1>12 DEF Update, Known, counterVars
  <2>2. p.batchSize > 1 /\ pc[t] \in {"take", "ack", "sweep", "insert"} =>
          \A k \in keys[t] : Settled(k)' \/ AckedEarly(k)'
    BY <1>0, <1>12 DEF Update, Goto, AckedEarly, TypeOK
  <2>3. \A k \in keys'[t] :
          /\ pc'[t] \in {"putThenAck", "ack"} /\ p.batchSize = 1 => Settled(k)'
          /\ pc'[t] \in {"read", "scan", "update", "readFirst"}
               /\ p.distribution \in {"latest", "exponential"} => Known(k)'
    BY <1>0, <1>12 DEF Update, Goto, AckInv, TypeOK
  <2> QED
    BY <1>0, <2>1, <2>2, <2>3, AckInvKept
<1>13. CASE TakeKey(t)
  <2>1. \A k \in Keys : Known(k)' => Known(k) \/ Settled(k)' \/ AckedEarly(k)'
    BY <1>13 DEF TakeKey, Known, Counter!Issue
  <2>2. p.batchSize > 1 /\ pc[t] \in {"take", "ack", "sweep", "insert"} =>
          \A k \in keys[t] : Settled(k)' \/ AckedEarly(k)'
    BY <1>0, <1>13 DEF TakeKey, Goto, AckedEarly, TypeOK
  <2>3. \A k \in keys'[t] :
          /\ pc'[t] \in {"putThenAck", "ack"} /\ p.batchSize = 1 => Settled(k)'
          /\ pc'[t] \in {"read", "scan", "update", "readFirst"}
               /\ p.distribution \in {"latest", "exponential"} => Known(k)'
    BY <1>0, <1>13 DEF TakeKey, Goto, TypeOK
  <2> QED
    BY <1>0, <2>1, <2>2, <2>3, AckInvKept
<1>14. CASE Insert(t)
  <2>1. \A k \in Keys : Known(k)' => Known(k) \/ Settled(k)' \/ AckedEarly(k)'
    BY <1>14 DEF Insert, Known, counterVars
  <2>2. PICK ok \in SUBSET keys[t] : Write(t, ok)
    BY <1>14 DEF Insert
  <2>3. Filled(t) /\ keys' = keys /\ keys[t] \subseteq Keys
    BY <1>14 DEF Insert, Goto, Filled, TypeOK
  <2>4. failed' = failed \union (keys[t] \ ok) /\ \A k \in Keys : store'[k] = IF k \in ok THEN k ELSE store[k]
    BY <2>2, <2>3, WriteKeeps
  <2>5. \A k \in keys[t] : Settled(k)'
    BY <2>3, <2>4, SMT DEF Settled, Absent, Keys
  <2>6. pc'[t] \notin {"read", "scan", "update", "readFirst"}
    BY <1>0, <1>14 DEF Insert, Goto, TypeOK
  <2>7. \A k \in keys'[t] :
          /\ pc'[t] \in {"putThenAck", "ack"} /\ p.batchSize = 1 => Settled(k)'
          /\ pc'[t] \in {"read", "scan", "update", "readFirst"}
               /\ p.distribution \in {"latest", "exponential"} => Known(k)'
    BY <2>3, <2>5, <2>6
  <2> QED
    BY <1>0, <2>1, <2>3, <2>5, <2>7, AckInvKept
<1>15. CASE PutValues(t)
  <2>1. \A k \in Keys : Known(k)' => Known(k) \/ Settled(k)' \/ AckedEarly(k)'
    BY <1>15 DEF PutValues, Known, counterVars
  <2>2. p.batchSize > 1 /\ pc[t] \in {"take", "ack", "sweep", "insert"} =>
          \A k \in keys[t] : Settled(k)' \/ AckedEarly(k)'
    BY <1>0, <1>15 DEF PutValues, Goto, AckedEarly, TypeOK
  <2>3. \A k \in keys'[t] :
          /\ pc'[t] \in {"putThenAck", "ack"} /\ p.batchSize = 1 => Settled(k)'
          /\ pc'[t] \in {"read", "scan", "update", "readFirst"}
               /\ p.distribution \in {"latest", "exponential"} => Known(k)'
    BY <1>0, <1>15 DEF PutValues, Goto, AckInv, TypeOK
  <2> QED
    BY <1>0, <2>1, <2>2, <2>3, AckInvKept
<1>16. CASE PutValuesThenAck(t)
  <2>1. \A k \in Keys : Known(k)' => Known(k) \/ Settled(k)' \/ AckedEarly(k)'
    BY <1>16 DEF PutValuesThenAck, Known, counterVars
  <2>2. p.batchSize > 1 /\ pc[t] \in {"take", "ack", "sweep", "insert"} =>
          \A k \in keys[t] : Settled(k)' \/ AckedEarly(k)'
    BY <1>0, <1>16 DEF PutValuesThenAck, Goto, AckedEarly, TypeOK
  <2>3. \A k \in keys'[t] :
          /\ pc'[t] \in {"putThenAck", "ack"} /\ p.batchSize = 1 => Settled(k)'
          /\ pc'[t] \in {"read", "scan", "update", "readFirst"}
               /\ p.distribution \in {"latest", "exponential"} => Known(k)'
    <3>1. keys' = keys /\ keys[t] \subseteq Keys
      BY <1>16 DEF PutValuesThenAck, TypeOK
    <3> QED
      BY <1>0, <1>16, <3>1, StepSettles DEF PutValuesThenAck, Goto, AckInv, TypeOK
  <2> QED
    BY <1>0, <2>1, <2>2, <2>3, AckInvKept
<1>17. CASE Acknowledge(t)
  <2>0. /\ pc[t] = "ack" /\ pc'[t] = "sweep" /\ p' = p /\ keys' = keys
    BY <1>17 DEF Acknowledge, Goto, TypeOK
  <2>1. PICK key \in keys[t] : acked' = acked \union {key}
    BY <1>17 DEF Acknowledge, Counter!Acknowledge
  <2>2. p.batchSize > 1 /\ pc[t] \in {"take", "ack", "sweep", "insert"} =>
          \A k \in keys[t] : Settled(k)' \/ AckedEarly(k)'
    BY <2>0 DEF AckedEarly
  <2>3. Settled(key)' \/ AckedEarly(key)'
    <3>1. CASE p.batchSize = 1
      <4>1. key \in Keys /\ Settled(key)
        BY <1>0, <2>0, <3>1 DEF AckInv, TypeOK
      <4> QED
        BY <4>1, StepSettles
    <3> QED
      BY <1>0, <2>0, <2>2, <3>1, SMT
  <2>4. \A k \in Keys : Known(k)' => Known(k) \/ Settled(k)' \/ AckedEarly(k)'
    BY <2>1, <2>3 DEF Known
  <2> QED
    BY <1>0, <2>0, <2>2, <2>4, AckInvKept
<1>18. CASE Sweep(t)
  <2>1. \A k \in Keys : Known(k)' => Known(k) \/ Settled(k)' \/ AckedEarly(k)'
    BY <1>18 DEF Sweep, Known, counterVars, Counter!Publish
  <2>2. p.batchSize > 1 /\ pc[t] \in {"take", "ack", "sweep", "insert"} =>
          \A k \in keys[t] : Settled(k)' \/ AckedEarly(k)'
    BY <1>0, <1>18, SMT DEF Sweep, Goto, AckedEarly, TypeOK
  <2>3. \A k \in keys'[t] :
          /\ pc'[t] \in {"putThenAck", "ack"} /\ p.batchSize = 1 => Settled(k)'
          /\ pc'[t] \in {"read", "scan", "update", "readFirst"}
               /\ p.distribution \in {"latest", "exponential"} => Known(k)'
    BY <1>0, <1>18 DEF Sweep, Goto, TypeOK
  <2> QED
    BY <1>0, <2>1, <2>2, <2>3, AckInvKept
<1> QED
  BY <1>1, <1>2, <1>3, <1>4, <1>5, <1>6, <1>7, <1>8, <1>9, <1>10, <1>11, <1>12, <1>13, <1>14, <1>15, <1>16, <1>17, <1>18 DEF Step

(* What the invariant of loading says, part by part. *)
LEMMA LoadFacts ==
    ASSUME TypeOK, LoadInv, p.load
    PROVE  /\ keySequence \in Nat /\ MaxKey \in Nat /\ keySequence <= MaxKey
           /\ \A k \in Keys : attempts[k] \in Nat
           /\ \A u \in Threads : \A k \in keys[u] : k \in Keys /\ k \in Nat /\ k < keySequence
           /\ \A u \in Threads : \A k \in keys[u] : pc[u] = "loadTake" => attempts[k] = 0
           /\ \A u \in Threads : \A k \in keys[u] : pc[u] = "load" => attempts[k] = retries[u]
           /\ \A u \in Threads : \A k \in keys[u] : pc[u] = "put" => Accounted(k)
           /\ \A u, v \in Threads : \A k \in keys[u] : k \in keys[v] => u = v
           /\ \A k \in keySequence..(MaxKey - 1) : k \in Keys /\ attempts[k] = 0
           /\ \A k \in 0..(keySequence - 1) :
                k \in Keys /\ (Accounted(k) \/ \E u \in Threads : k \in keys[u])
<1>1. keySequence \in Nat /\ MaxKey \in Nat /\ keySequence <= MaxKey
  BY RecordAssumption, SMT DEF TypeOK
<1>2. \A k \in Keys : attempts[k] \in Nat
  BY DEF TypeOK
<1>3. \A u \in Threads : \A k \in keys[u] : k \in Keys /\ k \in Nat
  BY SMT DEF TypeOK, Keys
<1>4. LoadAccountsForKeys => \A k \in 0..(keySequence - 1) :
        Accounted(k) \/ \E u \in Threads : k \in keys[u]
  BY DEF LoadAccountsForKeys, Accounted
<1>5. \A k \in 0..(MaxKey - 1) : k \in Keys
  BY <1>1 DEF Keys
<1>6. \A k \in keySequence..(MaxKey - 1) : k \in 0..(MaxKey - 1)
  BY <1>1, SMT
<1>7. \A k \in 0..(keySequence - 1) : k \in 0..(MaxKey - 1)
  BY <1>1, SMT
<1> QED
  BY <1>1, <1>2, <1>3, <1>4, <1>5, <1>6, <1>7 DEF LoadInv

(* And what shows that it holds after a step. *)
LEMMA LoadShown ==
    ASSUME p' = p,
           \A u \in Threads : \A k \in keys'[u] :
             /\ k < keySequence'
             /\ pc'[u] = "loadTake" => attempts'[k] = 0
             /\ pc'[u] = "load" => attempts'[k] = retries'[u]
             /\ pc'[u] = "put" => Accounted(k)',
           \A u, v \in Threads : \A k \in keys'[u] : k \in keys'[v] => u = v,
           \A k \in keySequence'..(MaxKey - 1) : attempts'[k] = 0,
           \A k \in 0..(keySequence' - 1) : Accounted(k)' \/ \E u \in Threads : k \in keys'[u]
    PROVE  LoadInv'
<1>1. LoadAccountsForKeys'
  BY DEF LoadAccountsForKeys, Accounted
<1>2. \A u, v \in Threads : keys'[u] \cap keys'[v] # {} => u = v
  OBVIOUS
<1> QED
  BY <1>1, <1>2 DEF LoadInv

(* A call of BatchInsert or Insert settles the keys it is made for. *)
LEMMA LoadWriteInv ==
    ASSUME TypeOK, PhaseInv, BufferInv, LoadInv, p.load, p' = p, NEW t \in Threads,
           NEW ok \in SUBSET keys[t], Write(t, ok),
           pc[t] = "load", pc'[t] \in {"load", "put"},
           pc'[t] = "load" => retries'[t] = retries[t] + 1,
           \A u \in Threads : u # t => pc'[u] = pc[u] /\ retries'[u] = retries[u],
           keys' = keys, keySequence' = keySequence
    PROVE  LoadInv'
<1>1. /\ keySequence \in Nat /\ MaxKey \in Nat /\ keySequence <= MaxKey
      /\ \A k \in Keys : attempts[k] \in Nat
  BY LoadFacts
<1>2. \A u \in Threads : \A k \in keys[u] : k \in Keys /\ k \in Nat /\ k < keySequence
  BY LoadFacts
<1>3. \A u, v \in Threads : \A k \in keys[u] : k \in keys[v] => u = v
  BY LoadFacts
<1>4. p.retryLimit \in Nat /\ retries[t] \in 0..p.retryLimit
  BY SettingTypes, SMT DEF TypeOK, PhaseInv
<1>5. Filled(t) /\ keys[t] \subseteq Keys
  BY <1>2 DEF Filled
<1>6. /\ \A k \in Keys : store'[k] = IF k \in ok THEN k ELSE store[k]
      /\ failed' = failed \union (keys[t] \ ok)
      /\ \A k \in Keys : attempts'[k] = attempts[k] + IF k \in keys[t] THEN 1 ELSE 0
  BY <1>5, WriteKeeps, SMT
<1>7. \A k \in keys[t] : attempts'[k] = retries[t] + 1
  <2>1. \A k \in keys[t] : attempts[k] = retries[t]
    BY LoadFacts
  <2> QED
    BY <1>5, <1>6, <2>1
<1>8. \A k \in keys[t] : Accounted(k)'
  <2> SUFFICES ASSUME NEW k \in keys[t] PROVE Accounted(k)'
    OBVIOUS
  <2>1. attempts'[k] \in 1..(p.retryLimit + 1)
    BY <1>4, <1>7, SMT
  <2>2. k \in ok => store'[k] = k
    BY <1>5, <1>6
  <2> QED
    BY <1>6, <2>1, <2>2 DEF Accounted
<1>9. \A k \in Keys : k \notin keys[t] =>
        attempts'[k] = attempts[k] /\ (Accounted(k) => Accounted(k)')
  <2> SUFFICES ASSUME NEW k \in Keys, k \notin keys[t]
               PROVE  attempts'[k] = attempts[k] /\ (Accounted(k) => Accounted(k)')
    OBVIOUS
  <2>1. attempts'[k] = attempts[k] /\ store'[k] = store[k]
    BY <1>1, <1>6, SMT
  <2> QED
    BY <1>6, <2>1 DEF Accounted
<1>10. ASSUME NEW u \in Threads, NEW k \in keys[u]
       PROVE  /\ k < keySequence
              /\ pc'[u] = "loadTake" => attempts'[k] = 0
              /\ pc'[u] = "load" => attempts'[k] = retries'[u]
              /\ pc'[u] = "put" => Accounted(k)'
  <2>1. CASE u = t
    BY <1>2, <1>7, <1>8, <2>1
  <2>2. CASE u # t
    <3>1. k \in Keys /\ k \notin keys[t]
      BY <1>2, <1>3, <2>2
    <3>2. /\ pc[u] = "loadTake" => attempts[k] = 0
          /\ pc[u] = "load" => attempts[k] = retries[u]
          /\ pc[u] = "put" => Accounted(k)
      BY LoadFacts
    <3> QED
      BY <1>2, <1>9, <2>2, <3>1, <3>2
  <2> QED
    BY <2>1, <2>2
<1>11. ASSUME NEW k \in keySequence..(MaxKey - 1) PROVE attempts'[k] = 0
  <2>1. k \in Keys /\ attempts[k] = 0
    BY LoadFacts
  <2>2. k \notin keys[t]
    BY <1>1, <1>2, SMT
  <2> QED
    BY <1>9, <2>1, <2>2
<1>12. ASSUME NEW k \in 0..(keySequence - 1)
       PROVE  Accounted(k)' \/ \E u \in Threads : k \in keys[u]
  <2>1. k \in Keys /\ (Accounted(k) \/ \E u \in Threads : k \in keys[u])
    BY LoadFacts
  <2> QED
    BY <1>9, <2>1
<1> QED
  BY <1>3, <1>10, <1>11, <1>12, LoadShown, SMT

(* Loading draws each key once, and settles it before letting go of it. *)
LEMMA StepLoadInv ==
    ASSUME TypeOK, PhaseInv, BufferInv, LoadInv, NEW t \in Threads, Step(t)
    PROVE  LoadInv'
<1> SUFFICES ASSUME p.load
             PROVE  LoadInv'
  BY StepFrame DEF LoadInv
<1>0. p' = p /\ p.load /\ p.retryLimit \in Nat /\ pc[t] \in {"loadTake", "load", "put"}
  BY SettingTypes, StepFrame DEF PhaseInv
<1>1. CASE LoadTake(t)
  <2>1. /\ keySequence < MaxKey /\ keySequence' = keySequence + 1 /\ pc[t] = "loadTake"
        /\ pc'[t] \in {"loadTake", "load"} /\ retries'[t] = 0
        /\ keys'[t] = keys[t] \union {keySequence}
        /\ \A u \in Threads : u # t => /\ pc'[u] = pc[u] /\ keys'[u] = keys[u]
                                       /\ retries'[u] = retries[u]
        /\ UNCHANGED <<store, failed, attempts>>
    BY <1>1 DEF LoadTake, Goto, TypeOK, storeVars
  <2>2. keySequence \in Nat /\ MaxKey \in Nat /\ \A k \in keySequence..(MaxKey - 1) : attempts[k] = 0
    BY LoadFacts
  <2>3. \A u \in Threads : \A k \in keys[u] : k \in Nat /\ k < keySequence
    BY LoadFacts
  <2>4. \A k : Accounted(k)' <=> Accounted(k)
    BY <1>0, <2>1 DEF Accounted
  <2>5. ASSUME NEW u \in Threads, NEW k \in keys'[u]
        PROVE  /\ k < keySequence'
               /\ pc'[u] = "loadTake" => attempts'[k] = 0
               /\ pc'[u] = "load" => attempts'[k] = retries'[u]
               /\ pc'[u] = "put" => Accounted(k)'
    <3>1. CASE u = t /\ k = keySequence
      BY <2>1, <2>2, <3>1, SMT
    <3>2. CASE u = t /\ k \in keys[t]
      <4>1. attempts[k] = 0
        BY <2>1, <3>2, LoadFacts
      <4> QED
        BY <2>1, <2>2, <2>3, <3>2, <4>1, SMT
    <3>3. CASE u # t
      <4>1. k \in keys[u]
        BY <2>1, <3>3
      <4>2. /\ pc[u] = "loadTake" => attempts[k] = 0
            /\ pc[u] = "load" => attempts[k] = retries[u]
            /\ pc[u] = "put" => Accounted(k)
        BY <4>1, LoadFacts
      <4> QED
        BY <2>1, <2>2, <2>3, <2>4, <3>3, <4>1, <4>2, SMT
    <3> QED
      BY <2>1, <3>1, <3>2, <3>3
  <2>6. \A u, v \in Threads : \A k \in keys'[u] : k \in keys'[v] => u = v
    <3>1. \A u, v \in Threads : \A k \in keys[u] : k \in keys[v] => u = v
      BY LoadFacts
    <3>2. \A u \in Threads : keySequence \notin keys[u]
      BY <2>2, <2>3, SMT
    <3>3. \A u \in Threads : keys'[u] = IF u = t THEN keys[t] \union {keySequence} ELSE keys[u]
      BY <2>1
    <3> QED
      BY <3>1, <3>2, <3>3
  <2>7. \A k \in keySequence'..(MaxKey - 1) : attempts'[k] = 0
    BY <2>1, <2>2, SMT
  <2>8. ASSUME NEW k \in 0..(keySequence' - 1)
        PROVE  Accounted(k)' \/ \E u \in Threads : k \in keys'[u]
    <3>1. CASE k = keySequence
      BY <2>1, <3>1
    <3>2. CASE k # keySequence
      <4>1. k \in 0..(keySequence - 1)
        BY <2>1, <2>2, <3>2, SMT
      <4>2. Accounted(k) \/ \E u \in Threads : k \in keys[u]
        BY <4>1, LoadFacts
      <4> QED
        BY <2>1, <2>4, <4>2
    <3> QED
      BY <3>1, <3>2
  <2> QED
    BY <1>0, <2>5, <2>6, <2>7, <2>8, LoadShown
<1>2. CASE LoadInsert(t)
  <2>1. PICK ok \in SUBSET keys[t] : ok = keys[t] /\ Write(t, ok)
    BY <1>2 DEF LoadInsert
  <2>2. pc[t] = "load" /\ keys' = keys /\ keySequence' = keySequence
    BY <1>2 DEF LoadInsert, Goto
  <2>3. /\ pc'[t] \in {"load", "put"} /\ retries'[t] = retries[t] + 1
        /\ \A u \in Threads : u # t => pc'[u] = pc[u] /\ retries'[u] = retries[u]
    BY <1>0, <1>2, <2>2 DEF LoadInsert, Goto, TypeOK
  <2> QED
    BY <1>0, <2>1, <2>2, <2>3, LoadWriteInv
<1>3. CASE LoadInsertFails(t)
  <2>1. PICK ok \in SUBSET keys[t] : Write(t, ok)
    BY <1>3 DEF LoadInsertFails
  <2>2. pc[t] = "load" /\ keys' = keys /\ keySequence' = keySequence
    BY <1>3 DEF LoadInsertFails, Goto
  <2>3. /\ pc'[t] = "put"
        /\ \A u \in Threads : u # t => pc'[u] = pc[u] /\ retries'[u] = retries[u]
    BY <1>0, <1>3, <2>2 DEF LoadInsertFails, Goto, TypeOK
  <2> QED
    BY <1>0, <2>1, <2>2, <2>3, LoadWriteInv
<1>4. CASE ChooseRead(t)
  BY <1>0, <1>4 DEF ChooseRead, Goto
<1>5. CASE ChooseScan(t)
  BY <1>0, <1>5 DEF ChooseScan, Goto
<1>6. CASE BatchScanPanics(t)
  BY <1>0, <1>6 DEF BatchScanPanics, Goto
<1>7. CASE ChooseUpdate(t)
  BY <1>0, <1>7 DEF ChooseUpdate, Goto
<1>8. CASE ChooseInsert(t)
  BY <1>0, <1>8 DEF ChooseInsert, Goto
<1>9. CASE Read(t)
  BY <1>0, <1>9 DEF Read, Goto
<1>10. CASE Scan(t)
  BY <1>0, <1>10 DEF Scan, Goto
<1>11. CASE ReadFirst(t)
  BY <1>0, <1>11 DEF ReadFirst, Goto
<1>12. CASE Update(t)
  BY <1>0, <1>12 DEF Update, Goto
<1>13. CASE TakeKey(t)
  BY <1>0, <1>13 DEF TakeKey, Goto
<1>14. CASE Insert(t)
  BY <1>0, <1>14 DEF Insert, Goto
<1>15. CASE PutValues(t)
  <2>1. /\ pc[t] = "put" /\ keys'[t] = {}
        /\ \A u \in Threads : u # t => pc'[u] = pc[u] /\ keys'[u] = keys[u]
        /\ UNCHANGED <<store, failed, attempts, keySequence, retries>>
    BY <1>15 DEF PutValues, Goto, TypeOK, storeVars
  <2>2. \A k : Accounted(k)' <=> Accounted(k)
    BY <1>0, <2>1 DEF Accounted
  <2>3. ASSUME NEW u \in Threads, NEW k \in keys'[u]
        PROVE  /\ k < keySequence'
               /\ pc'[u] = "loadTake" => attempts'[k] = 0
               /\ pc'[u] = "load" => attempts'[k] = retries'[u]
               /\ pc'[u] = "put" => Accounted(k)'
    <3>1. u # t /\ k \in keys[u]
      BY <2>1
    <3>2. /\ k < keySequence
          /\ pc[u] = "loadTake" => attempts[k] = 0
          /\ pc[u] = "load" => attempts[k] = retries[u]
          /\ pc[u] = "put" => Accounted(k)
      BY <3>1, LoadFacts
    <3> QED
      BY <2>1, <2>2, <3>1, <3>2
  <2>4. \A u, v \in Threads : \A k \in keys'[u] : k \in keys'[v] => u = v
    <3>1. \A u, v \in Threads : \A k \in keys[u] : k \in keys[v] => u = v
      BY LoadFacts
    <3> QED
      BY <2>1, <3>1
  <2>5. \A k \in keySequence'..(MaxKey - 1) : attempts'[k] = 0
    BY <2>1, LoadFacts
  <2>6. ASSUME NEW k \in 0..(keySequence' - 1)
        PROVE  Accounted(k)' \/ \E u \in Threads : k \in keys'[u]
    <3>1. Accounted(k) \/ \E u \in Threads : k \in keys[u]
      BY <2>1, LoadFacts
    <3>2. \A l \in keys[t] : Accounted(l)
      BY <2>1, LoadFacts
    <3> QED
      BY <2>1, <2>2, <3>1, <3>2
  <2> QED
    BY <1>0, <2>3, <2>4, <2>5, <2>6, LoadShown
<1>16. CASE PutValuesThenAck(t)
  BY <1>0, <1>16 DEF PutValuesThenAck, Goto
<1>17. CASE Acknowledge(t)
  BY <1>0, <1>17 DEF Acknowledge, Goto
<1>18. CASE Sweep(t)
  BY <1>0, <1>18 DEF Sweep, Goto
<1> QED
  BY <1>1, <1>2, <1>3, <1>4, <1>5, <1>6, <1>7, <1>8, <1>9, <1>10, <1>11, <1>12, <1>13, <1>14, <1>15, <1>16, <1>17, <1>18 DEF Step

-----------------------------------------------------------------------------
(* The invariant holds when the workload starts. *)
LEMMA CoreInit ==
    ASSUME Init
    PROVE  CoreInv
<1> USE RecordAssumption, ConfigurationAssumption
<1>0. p.load \in BOOLEAN /\ p.retryLimit \in Nat
  BY DEF Init, Properties
<1>1. DOMAIN None = {} /\ None \in [{} -> Buffers]
  BY DEF None
<1>2. TypeOK
  BY <1>0, <1>1, SMT DEF Init, TypeOK, Counter!Init, States, Keys
<1>3. PhaseInv
  BY <1>0 DEF Init, PhaseInv
<1>4. BufferInv
  BY <1>0, <1>1 DEF Init, BufferInv, Filled
<1>5. RowInv
  BY DEF Init, RowInv, RowsVerify
<1>6. CounterInv
  BY SMT DEF Init, CounterInv, Counter!Init
<1>7. AckInv
  BY SMT DEF Init, AckInv, Counter!Init, Known, Settled, Keys, Absent
<1>8. LoadInv
  BY SMT DEF Init, LoadInv, LoadAccountsForKeys, Keys
<1> QED
  BY <1>2, <1>3, <1>4, <1>5, <1>6, <1>7, <1>8 DEF CoreInv

(* Every step of every worker keeps it. *)
LEMMA CoreNext ==
    ASSUME CoreInv, [Next]_vars
    PROVE  CoreInv'
<1>1. CASE Next
  <2>1. PICK t \in Threads : Step(t)
    BY <1>1 DEF Next
  <2> QED
    BY <2>1, StepTypeOK, StepPhaseInv, StepBufferInv, StepRowInv, StepCounterInv,
       StepAckInv, StepLoadInv DEF CoreInv
<1>2. CASE UNCHANGED vars
  <2> USE <1>2 DEF vars, counterVars, storeVars, poolVars
  <2>1. TypeOK' /\ PhaseInv' /\ RowInv' /\ CounterInv'
    BY DEF CoreInv, TypeOK, PhaseInv, RowInv, RowsVerify, CounterInv
  <2>2. BufferInv'
    BY SMT DEF CoreInv, BufferInv, Filled
  <2>3. AckInv'
    BY DEF CoreInv, AckInv, Known, Settled, AckedEarly
  <2>4. LoadInv'
    BY DEF CoreInv, LoadInv, Accounted, LoadAccountsForKeys
  <2> QED
    BY <2>1, <2>2, <2>3, <2>4 DEF CoreInv
<1> QED
  BY <1>1, <1>2

(* The invariant gives ChosenKeyExists. *)
LEMMA ChosenKeysSettled ==
    ASSUME CoreInv
    PROVE  ChosenKeyExists
<1> SUFFICES ASSUME p.distribution \in {"latest", "exponential"}, NEW t \in Threads,
                    pc[t] \in {"read", "scan", "update", "readFirst"}, NEW k \in keys[t]
             PROVE  store[k] # Absent \/ k \in failed \/ AckedEarly(k)
  BY DEF ChosenKeyExists
<1>1. ~ p.load /\ k \in Keys
  BY SettingTypes DEF CoreInv, PhaseInv, TypeOK
<1>2. Known(k)
  BY <1>1 DEF CoreInv, AckInv
<1> QED
  BY <1>1, <1>2 DEF CoreInv, AckInv, Settled

-----------------------------------------------------------------------------
(* Rows, buffers, keys and the counter of core.go keep their types. *)
THEOREM CoreTypeCorrect == Spec => []TypeOK
<1>1. Init => CoreInv
  BY CoreInit
<1>2. CoreInv /\ [Next]_vars => CoreInv'
  BY CoreNext
<1>3. CoreInv => TypeOK
  BY DEF CoreInv
<1> QED
  BY <1>1, <1>2, <1>3, PTL DEF Spec

(* A key that the latest or exponential chooser of core.go returns is in   *)
(* the store, unless its insertion failed or doBatchTransactionInsert      *)
(* acknowledged it early.                                                  *)
THEOREM ChosenKeysExist == Spec => []ChosenKeyExists
<1>1. Init => CoreInv
  BY CoreInit
<1>2. CoreInv /\ [Next]_vars => CoreInv'
  BY CoreNext
<1>3. CoreInv => ChosenKeyExists
  BY ChosenKeysSettled
<1> QED
  BY <1>1, <1>2, <1>3, PTL DEF Spec

(* verifyRow never ends the process: although the workers share the        *)
(* buffers of valuePool, no row gets the value of another key.             *)
THEOREM RowsAreVerified == Spec => []RowsVerify
<1>1. Init => CoreInv
  BY CoreInit
<1>2. CoreInv /\ [Next]_vars => CoreInv'
  BY CoreNext
<1>3. CoreInv => RowsVerify
  BY DEF CoreInv, RowInv
<1> QED
  BY <1>1, <1>2, <1>3, PTL DEF Spec

(* DoInsert and DoBatchInsert account for every key drawn from             *)
(* keySequence, through retries, failures and batches.                     *)
THEOREM LoadingAccounts == Spec => []LoadAccountsForKeys
<1>1. Init => CoreInv
  BY CoreInit
<1>2. CoreInv /\ [Next]_vars => CoreInv'
  BY CoreNext
<1>3. CoreInv => LoadAccountsForKeys
  BY DEF CoreInv, LoadInv, LoadAccountsForKeys
<1> QED
  BY <1>1, <1>2, <1>3, PTL DEF Spec
=============================================================================
