---------------------------- MODULE RemoteStores ----------------------------
(***************************************************************************)
(* The bindings of remote databases that keep no state of their own between*)
(* two calls: db/mysql, db/pg, db/cassandra, db/spanner, db/mongodb,       *)
(* db/dynamodb, db/redis, db/etcd, db/aerospike, db/pegasus, db/s3 and     *)
(* db/minio.  What a server does with one call is external; what the       *)
(* binding asks of it, and with how many calls, is the code.               *)
(***************************************************************************)
EXTENDS RowStore

CONSTANT
    PageSize    \* keys ListObjectsV2 returns at once, 1000 in the code

ASSUME PageAssumption == PageSize \in Nat \ {0}

-----------------------------------------------------------------------------
(* SQL: UPDATE sets the named columns of a row that exists; the insertions *)
(* ignore a row that exists already.  mysql sends a batch of insertions or *)
(* deletions as one statement.                                             *)

MysqlUpdate(t, keys, f) ==
    binding = "mysql" /\ Call(t, "call", "patch", "patch", Given(keys, f))
MysqlInsert(t, k) ==
    binding = "mysql" /\ Call(t, "call", "keep", "keep", Whole({k}))
MysqlBatchInsert(t) ==
    binding = "mysql" /\ Call(t, "callAll", "keep", "keep", Whole(Keys))
MysqlDelete(t, k) ==
    binding = "mysql" /\ Call(t, "call", "replace", "replace", Gone({k}))
MysqlBatchDelete(t) ==
    binding = "mysql" /\ Call(t, "callAll", "replace", "replace", Gone(Keys))

PgUpdate(t, keys, f) ==
    binding = "pg" /\ Call(t, "call", "patch", "patch", Given(keys, f))
PgInsert(t, keys) == binding = "pg" /\ Call(t, "call", "keep", "keep", Whole(keys))
PgDelete(t, keys) == binding = "pg" /\ Call(t, "call", "replace", "replace", Gone(keys))

(* In CQL both UPDATE and INSERT write the named columns of any row. *)
CassandraUpdate(t, keys, f) ==
    binding = "cassandra" /\ Call(t, "call", "merge", "merge", Given(keys, f))
CassandraInsert(t, keys) ==
    binding = "cassandra" /\ Call(t, "call", "replace", "merge", Whole(keys))
CassandraDelete(t, keys) ==
    binding = "cassandra" /\ Call(t, "call", "replace", "replace", Gone(keys))

(* The mutations Update, InsertOrUpdate and Delete. *)
SpannerUpdate(t, keys, f) ==
    binding = "spanner" /\ Call(t, "call", "patch", "patch", Given(keys, f))
SpannerInsert(t, keys) ==
    binding = "spanner" /\ Call(t, "call", "replace", "merge", Whole(keys))
SpannerDelete(t, keys) ==
    binding = "spanner" /\ Call(t, "call", "replace", "replace", Gone(keys))

SqlStep(t) ==
    \/ \E k \in Keys : MysqlInsert(t, k) \/ MysqlDelete(t, k)
    \/ MysqlBatchInsert(t) \/ MysqlBatchDelete(t)
    \/ \E keys \in KeySets :
        \/ PgInsert(t, keys) \/ PgDelete(t, keys)
        \/ CassandraInsert(t, keys) \/ CassandraDelete(t, keys)
        \/ SpannerInsert(t, keys) \/ SpannerDelete(t, keys)
        \/ \E f \in SomeFields :
            \/ MysqlUpdate(t, keys, f) \/ PgUpdate(t, keys, f)
            \/ CassandraUpdate(t, keys, f) \/ SpannerUpdate(t, keys, f)

-----------------------------------------------------------------------------
(* InsertOne refuses a key that exists, $set one that does not. *)
MongoUpdate(t, keys, f) ==
    binding = "mongodb" /\ Call(t, "call", "patch", "patch", Given(keys, f))
MongoInsert(t, keys) ==
    binding = "mongodb" /\ Call(t, "call", "keep", "keep", Whole(keys))
MongoDelete(t, keys) ==
    binding = "mongodb" /\ Call(t, "call", "replace", "replace", Gone(keys))

DynamoUpdate(t, keys, f) ==
    binding = "dynamodb" /\ Call(t, "call", "merge", "merge", Given(keys, f))
DynamoInsert(t, keys) ==
    binding = "dynamodb" /\ Call(t, "call", "replace", "replace", Whole(keys))
DynamoDelete(t, keys) ==
    binding = "dynamodb" /\ Call(t, "call", "replace", "replace", Gone(keys))

(* The whole document is what the update was given. *)
EtcdUpdate(t, keys, f) ==
    binding = "etcd" /\ Call(t, "call", "merge", "replace", Given(keys, f))
EtcdInsert(t, keys) ==
    binding = "etcd" /\ Call(t, "call", "replace", "replace", Whole(keys))
EtcdDelete(t, keys) ==
    binding = "etcd" /\ Call(t, "call", "replace", "replace", Gone(keys))

PegasusUpdate(t, keys, f) ==
    binding = "pegasus" /\ Call(t, "call", "merge", "replace", Given(keys, f))
PegasusInsert(t, keys) ==
    binding = "pegasus" /\ Call(t, "call", "replace", "replace", Whole(keys))
PegasusDelete(t, keys) ==
    binding = "pegasus" /\ Call(t, "call", "replace", "replace", Gone(keys))

(* Get, overlay, Put of all bins.  The write policy that would compare the *)
(* generation is a variable of an inner block: Put is given nil.           *)
AerospikeUpdate(t, keys, f) ==
    binding = "aerospike" /\ Call(t, "get", "merge", "merge", Given(keys, f))
AerospikeInsert(t, keys) ==
    binding = "aerospike" /\ Call(t, "call", "replace", "merge", Whole(keys))
AerospikeDelete(t, keys) ==
    binding = "aerospike" /\ Call(t, "call", "replace", "replace", Gone(keys))

DocumentStep(t) ==
    \E keys \in KeySets :
        \/ MongoInsert(t, keys) \/ MongoDelete(t, keys)
        \/ DynamoInsert(t, keys) \/ DynamoDelete(t, keys)
        \/ EtcdInsert(t, keys) \/ EtcdDelete(t, keys)
        \/ PegasusInsert(t, keys) \/ PegasusDelete(t, keys)
        \/ AerospikeInsert(t, keys) \/ AerospikeDelete(t, keys)
        \/ \E f \in SomeFields :
            \/ MongoUpdate(t, keys, f) \/ DynamoUpdate(t, keys, f)
            \/ EtcdUpdate(t, keys, f) \/ PegasusUpdate(t, keys, f)
            \/ AerospikeUpdate(t, keys, f)

-----------------------------------------------------------------------------
(* db/redis keeps a row as a hash, as a JSON document or as a string. *)

RedisHashUpdate(t, keys, f) ==
    binding = "redisHash" /\ Call(t, "call", "merge", "merge", Given(keys, f))
RedisHashInsert(t, keys) ==
    binding = "redisHash" /\ Call(t, "call", "replace", "merge", Whole(keys))

RedisJsonUpdate(t, keys, f) ==
    binding = "redisJson" /\ Call(t, "json", "patch", "patch", Given(keys, f))
RedisJsonInsert(t, keys) ==
    binding = "redisJson" /\ Call(t, "call", "replace", "replace", Whole(keys))

(* The pipeline is one JSON.SET for each field of the row, in the order of *)
(* a Go map; commands of other connections come between.                   *)
JsonSet(t, f) ==
    LET k == CurrentKey(t)
        left == DOMAIN op[t].values[k] \ {f}
        rest == [g \in left |-> op[t].values[k][g]]
        part == Row(op[t].values[k][f], {f})
    IN /\ pc[t] = "json" /\ f \in DOMAIN op[t].values[k]
       /\ store' = [store EXCEPT ![k] = Effect("patch", @, part)]
       /\ ideal' = [ideal EXCEPT ![k] = Effect("patch", @, part)]
       /\ IF left = {}
          THEN Advance(t, "json", "json")
          ELSE /\ op' = [op EXCEPT ![t].values[k] = rest]
               /\ UNCHANGED <<binding, ops, pc>>
       /\ UNCHANGED <<version, excused>>

(* A string that all fields are given for is overwritten; otherwise it is  *)
(* read, merged and set by separate commands.                              *)
RedisStringUpdate(t, keys, f) ==
    /\ binding = "redisString"
    /\ IF f = Fields THEN Call(t, "call", "merge", "replace", Given(keys, f))
                     ELSE Call(t, "get", "patch", "replace", Given(keys, f))
RedisStringInsert(t, keys) ==
    binding = "redisString" /\ Call(t, "call", "replace", "replace", Whole(keys))

RedisDelete(t, keys) ==
    /\ binding \in {"redisHash", "redisJson", "redisString"}
    /\ Call(t, "call", "replace", "replace", Gone(keys))

(* Exec of the pipeline fails, some commands having taken effect. *)
PipelineFails(t) == pc[t] = "json" /\ Finish(t)

RedisStep(t) ==
    \/ \E keys \in KeySets :
        \/ RedisHashInsert(t, keys) \/ RedisJsonInsert(t, keys)
        \/ RedisStringInsert(t, keys) \/ RedisDelete(t, keys)
        \/ \E f \in SomeFields :
            \/ RedisHashUpdate(t, keys, f) \/ RedisJsonUpdate(t, keys, f)
            \/ RedisStringUpdate(t, keys, f)
    \/ \E f \in Fields : JsonSet(t, f)
    \/ PipelineFails(t)

-----------------------------------------------------------------------------
(* db/s3 and db/minio keep a row as one object. *)

S3 == binding \in {"s3", "s3Rmw"}

S3Update(t, keys, f) ==
    \/ binding = "s3" /\ Call(t, "call", "merge", "replace", Given(keys, f))
    \/ binding = "s3Rmw" /\ Call(t, "get", "merge", "replace", Given(keys, f))
S3Insert(t, keys) == S3 /\ Call(t, "call", "replace", "replace", Whole(keys))
S3Delete(t, keys) == S3 /\ Call(t, "call", "replace", "replace", Gone(keys))

(* Update goes on when its Read fails, as if the object were empty. *)
S3ReadFails(t) ==
    /\ binding = "s3Rmw"
    /\ Goto(t, "get", "put")
    /\ op' = [op EXCEPT ![t].row = NoRow, ![t].start = [k \in Keys |-> -1]]
    /\ NoWrite /\ UNCHANGED <<binding, ops>>

(* Scan reads the start key, then lists pages of the keys after it and     *)
(* reads each of them.  Key 0 is one that no row has.                      *)
S3Scan(t, start, count) ==
    \E unread \in SUBSET {start} :
        LET first == IF start \in Present \ unread THEN <<start>> ELSE << >>
        IN /\ S3
           /\ Begin(t, IF Len(first) < count THEN "list" ELSE "scanned",
                    [Blank EXCEPT !.kind = "scan", !.cursor = start, !.count = count,
                                  !.out = first, !.began = From(start), !.since = unread])
           /\ NoWrite

Wanted(t) == op[t].count - Len(op[t].out)

(* Mutant: each page begins with the last key of the one before. *)
S3ListInclusive(t) ==
    LET keys == {k \in Present : k >= op[t].cursor}
        page == FirstOf(Min({PageSize, Wanted(t)}), keys)
    IN /\ Goto(t, "list", IF page = << >> THEN "scanned" ELSE "page")
       /\ op' = [op EXCEPT ![t].page = page, ![t].more = Cardinality(keys) > Len(page),
                           ![t].cursor = IF page = << >> THEN @ ELSE page[Len(page)]]
       /\ NoWrite /\ UNCHANGED <<binding, ops>>

S3List(t) ==
    LET keys == {k \in Present : k > op[t].cursor}
        page == FirstOf(Min({PageSize, Wanted(t)}), keys)
    IN /\ Goto(t, "list", IF page = << >> THEN "scanned" ELSE "page")
       /\ op' = [op EXCEPT ![t].page = page, ![t].more = Cardinality(keys) > Len(page),
                           ![t].cursor = IF page = << >> THEN @ ELSE page[Len(page)]]
       /\ NoWrite /\ UNCHANGED <<binding, ops>>

(* An object that cannot be read, deleted since it was listed or not, is   *)
(* skipped.                                                                *)
S3Fetch(t) ==
    \E unread \in SUBSET {Head(op[t].page)} :
        LET k == Head(op[t].page)
            out == IF k \in Present \ unread THEN Append(op[t].out, k) ELSE op[t].out
            more == op[t].more /\ Len(out) < op[t].count
        IN /\ op' = [op EXCEPT ![t].out = out, ![t].page = Tail(@),
                               ![t].since = @ \cup unread]
           /\ Goto(t, "page", IF Len(op[t].page) > 1 THEN "page"
                              ELSE IF more THEN "list" ELSE "scanned")
           /\ NoWrite /\ UNCHANGED <<binding, ops>>

S3ScanReturns(t) == pc[t] \in {"list", "scanned"} /\ S3 /\ Finish(t)

(* One of the fields, whichever the map yields first, becomes the object. *)
MinioUpdate(t, keys, f) ==
    binding = "minio" /\ Call(t, "object", "merge", "replace", Given(keys, f))
MinioInsert(t, keys) ==
    binding = "minio" /\ Call(t, "object", "replace", "replace", Whole(keys))
MinioDelete(t, keys) ==
    binding = "minio" /\ Call(t, "call", "replace", "replace", Gone(keys))

PutObject(t, f) ==
    LET k == CurrentKey(t)
        values == op[t].values[k]
    IN /\ pc[t] = "object" /\ f \in DOMAIN values
       /\ Advance(t, "object", "object")
       /\ Write(t, For({k}, Row(values[f], {f})), IF Fields = {f} THEN {} ELSE {k})

PutObjectFails(t) == pc[t] = "object" /\ Finish(t)

ObjectStep(t) ==
    \/ \E keys \in KeySets :
        \/ S3Insert(t, keys) \/ S3Delete(t, keys)
        \/ MinioInsert(t, keys) \/ MinioDelete(t, keys)
        \/ \E f \in SomeFields : S3Update(t, keys, f) \/ MinioUpdate(t, keys, f)
    \/ \E start \in 0..MaxKey, count \in Keys : S3Scan(t, start, count)
    \/ S3ReadFails(t) \/ S3List(t) \/ (pc[t] = "page" /\ S3Fetch(t)) \/ S3ScanReturns(t)
    \/ (\E f \in Fields : PutObject(t, f)) \/ PutObjectFails(t)

RemoteStep(t) ==
    \/ pc[t] = "idle" /\ (SqlStep(t) \/ DocumentStep(t))
    \/ RedisStep(t) \/ ObjectStep(t)

-----------------------------------------------------------------------------
(* What Read makes of the row, and the results a Scan may have. *)

MysqlRead(row, fields) == Select(row, fields)
PgRead(row, fields) == Select(row, fields)
CassandraRead(row, fields) == Select(row, fields)
SpannerRead(row, fields) == Select(row, fields)
MongoRead(row, fields) == Select(row, fields)
RedisRead(row, fields) ==       \* a hash has all the fields asked for, or is empty
    IF binding = "redisString" THEN row
    ELSE IF fields # {} /\ fields \subseteq DOMAIN row THEN Select(row, fields) ELSE NoRow
DynamoRead(row, fields) == row  \* with the key as a further attribute
EtcdRead(row, fields) == row
AerospikeRead(row, fields) == row
S3Read(row, fields) == Select(row, fields)
PegasusRead(row, fields) == NoRow       \* decoded into a map passed by value
MinioRead(row, fields) ==
    IF row = NoRow THEN NoRow ELSE "field0" :> row[CHOOSE f \in DOMAIN row : TRUE]

(* The SQL statements have a LIMIT and no ORDER BY. *)
MongoScan(start, count) == {FirstOf(count, From(start))}
MysqlScan(start, count) == AnyOf(count, From(start))
PgScan(start, count) == AnyOf(count, From(start))
SpannerScan(start, count) == AnyOf(count, From(start))
AerospikeScan(start, count) == AnyOf(count, Present)
MinioScan(start, count) ==      \* the keys that have the start key as a prefix
    {Padded(FirstOf(count, s), count) :
        s \in {s \in SUBSET From(start) : start \in Present => start \in s}}
EtcdScan(start, count) ==       \* an error unless the range has count rows
    IF Cardinality(From(start)) # count THEN {}
    ELSE {[i \in 1..count |-> 0] \o InOrder(From(start))}

-----------------------------------------------------------------------------
(* s3's Scan while other threads insert and delete: the keys come in order *)
(* and none twice, none that was never there, and none that was there all  *)
(* along and could be read is passed over, however the pages fall.         *)
ScanIsBetween ==
    \A t \in Threads : pc[t] = "scanned" =>
        LET out == op[t].out
            stable == op[t].began \ op[t].since
        IN /\ Len(out) <= op[t].count
           /\ \A i, j \in 1..Len(out) : i < j => out[i] < out[j]
           /\ Range(out) \subseteq op[t].began \cup op[t].since
           /\ \A k \in stable : \/ k \in Range(out)
                                 \/ (Len(out) = op[t].count /\ out[Len(out)] < k)
=============================================================================
