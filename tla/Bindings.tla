------------------------------ MODULE Bindings ------------------------------
(***************************************************************************)
(* The bindings under db/ that main may be started with, each in the same  *)
(* surroundings: threads calling the operations of ycsb.DB on one table.   *)
(* Init chooses the binding.                                               *)
(***************************************************************************)
EXTENDS Tikv, EmbeddedStores, RemoteStores, ElasticStore, SqlSessions, Setup

vars == <<rowVars, cache, embeddedVars, elasticVars, sessionVars, setupVars>>

Init == RowInit /\ TikvInit /\ EmbeddedInit /\ ElasticInit /\ SessionInit /\ SetupInit

Next ==
    \/ SetupStep /\ UNCHANGED <<cache, embeddedVars, elasticVars, sessionVars>>
    \/ /\ Started
       /\ \E t \in Threads :
            \/ /\ CommonStep(t) \/ RemoteStep(t)
               /\ UNCHANGED <<cache, embeddedVars, elasticVars, sessionVars>>
            \/ TikvStep(t) /\ UNCHANGED <<embeddedVars, elasticVars, sessionVars>>
            \/ EmbeddedStep(t) /\ UNCHANGED <<cache, elasticVars, sessionVars>>
            \/ ElasticStep(t) /\ UNCHANGED <<cache, embeddedVars, sessionVars>>
            \/ SessionStep(t) /\ UNCHANGED <<cache, embeddedVars, elasticVars>>
       /\ UNCHANGED setupVars
    \/ /\ \E item \in queue, success \in BOOLEAN : Flush(item, success)
       /\ UNCHANGED <<cache, embeddedVars, sessionVars, setupVars>>

Spec == Init /\ [][Next]_vars

-----------------------------------------------------------------------------
(* Type correctness, of the table and of the state the bindings keep. *)
TypeOK ==
    /\ RowTypeOK
    /\ CacheTypeOK
    /\ content \in [Buffers -> Rows] /\ entry \in [Threads -> Buffers \cup {"none"}]
    /\ Cardinality(writer) <= 1
    /\ closers \subseteq Threads /\ panicked \subseteq Threads

(* What the binding's Read makes of a row. *)
ReadBy(row, f) ==
    CASE binding \in TikvModes    -> TikvRead(row, f)
      [] binding = "badger"       -> BadgerRead(row, f)
      [] binding = "boltdb"       -> BoltRead(row, f)
      [] binding = "rocksdb"      -> RocksRead(row, f)
      [] binding = "foundationdb" -> FdbRead(row, f)
      [] binding = "sqlite"       -> SqliteRead(row, f)
      [] binding = "mysql"        -> MysqlRead(row, f)
      [] binding = "pg"           -> PgRead(row, f)
      [] binding = "cassandra"    -> CassandraRead(row, f)
      [] binding = "spanner"      -> SpannerRead(row, f)
      [] binding = "mongodb"      -> MongoRead(row, f)
      [] binding = "dynamodb"     -> DynamoRead(row, f)
      [] binding = "etcd"         -> EtcdRead(row, f)
      [] binding = "aerospike"    -> AerospikeRead(row, f)
      [] binding = "pegasus"      -> PegasusRead(row, f)
      [] binding = "minio"        -> MinioRead(row, f)
      [] S3                       -> S3Read(row, f)
      [] OTHER                    -> RedisRead(row, f)

(* The results the binding's Scan may have, {} where it is not supported   *)
(* or ends with an error.                                                  *)
ScanBy(start, count) ==
    CASE binding \in TikvModes    -> TikvScan(start, count)
      [] binding = "badger"       -> BadgerScan(start, count)
      [] binding = "boltdb"       -> BoltScan(start, count)
      [] binding = "rocksdb"      -> RocksScan(start, count)
      [] binding = "foundationdb" -> FdbScan(start, count)
      [] binding = "sqlite"       -> SqliteScan(start, count)
      [] binding = "mysql"        -> MysqlScan(start, count)
      [] binding = "pg"           -> PgScan(start, count)
      [] binding = "spanner"      -> SpannerScan(start, count)
      [] binding = "mongodb"      -> MongoScan(start, count)
      [] binding = "aerospike"    -> AerospikeScan(start, count)
      [] binding = "minio"        -> MinioScan(start, count)
      [] binding = "etcd"         -> EtcdScan(start, count)
      [] OTHER                    -> {}

(* Bindings whose Read does not give back what was written: pegasus        *)
(* decodes into a copy, minio has one nameless field, elastic and redis's  *)
(* JSON documents come back wrapped.                                       *)
Opaque == {"pegasus", "minio", "elastic", "redisJson"}

(* A Read that follows finds, for every field it asks for, what the last   *)
(* successful write to it left, and no field that is not there, whichever  *)
(* threads wrote the row and however their calls interleaved.              *)
ReadReturnsLastWrite ==
    binding \notin Opaque =>
        \A k \in Keys, fields \in SomeFields :
            LET got == ReadBy(store[k], fields)
            IN /\ DOMAIN got \subseteq DOMAIN store[k]
               /\ ~excused[k] /\ fields \subseteq DOMAIN ideal[k] =>
                    \A f \in fields : f \in DOMAIN got /\ got[f] = ideal[k][f]

Unordered == {"mysql", "pg", "sqlite", "spanner"}

(* The rows of a result, without the empty entries etcd puts before them.  *)
Entries(result) ==
    LET place == InOrder({i \in DOMAIN result : result[i] # 0})
    IN [i \in DOMAIN place |-> result[place[i]]]

(* A Scan returns each row once, as many as were asked for if there are    *)
(* so many, none before the start key, and without a gap unless the        *)
(* statement leaves the order open.  aerospike ignores the start key and   *)
(* minio lists a prefix.                                                   *)
ScanReturnsRange ==
    \A start, count \in Keys : \A result \in ScanBy(start, count) :
        LET rows == Entries(result)
        IN /\ IsInjective(rows)
           /\ Range(rows) \subseteq (IF binding = "aerospike" THEN Present ELSE From(start))
           /\ binding \notin {"aerospike", "minio"} =>
                Len(rows) = Min({count, Cardinality(From(start))})
           /\ binding \notin Unordered \cup {"aerospike", "minio"} =>
                rows = FirstOf(count, From(start))

(* What the interface promises of a binding that writes each row on its    *)
(* own: no row ever differs from what the successful writes made of it.    *)
RowsAsWritten == \A k \in Keys : store[k] = ideal[k]
=============================================================================
