------------------------------- MODULE Setup --------------------------------
(***************************************************************************)
(* What the creators of the bindings do to the table before the threads    *)
(* start, when one process or two at a time are started with the same      *)
(* command.  A creator is a sequence of calls to the server; what a call   *)
(* does to the table is external.                                          *)
(***************************************************************************)
EXTENDS RowStore

VARIABLES
    command,    \* the command the processes were started with, "none" once done
    dropdata,   \* the dropdata property, or ensure.clean.table of dynamodb
    table,      \* whether the table, index or directory exists
    todo,       \* the calls each process still has to make
    saw,        \* what each process knows of the table's existence
    outcome     \* how Create ended

setupVars == <<command, dropdata, table, todo, saw, outcome>>

Processes == {"p1", "p2"}
When(condition, call) == IF condition THEN <<call>> ELSE << >>

-----------------------------------------------------------------------------
MysqlCreate(cmd, drop) == When(drop /\ cmd = "load", "drop") \o <<"ensure">>
PgCreate(cmd, drop) == When(drop, "drop") \o <<"ensure">>
CassandraCreate(cmd, drop) == When(drop, "drop") \o <<"ensure">>
SqliteCreate(cmd, drop) == When(drop, "drop") \o <<"ensure">>
BadgerCreate(cmd, drop) == When(drop, "drop") \o <<"ensure">>
BoltCreate(cmd, drop) == When(drop, "drop") \o <<"ensure">>
RocksCreate(cmd, drop) == When(drop, "drop") \o <<"ensure">>
RedisCreate(cmd, drop) == <<"ensure">> \o When(drop, "flush")
S3Create(cmd, drop) == <<"check", "ensure">>

(* Mutant: a table that was dropped still counts as existing. *)
SpannerCreateStale(cmd, drop) == <<"check">> \o When(drop, "drop") \o <<"createUnseen">>

(* existed is what was seen before, and false after the drop. *)
SpannerCreate(cmd, drop) == <<"check">> \o When(drop, "dropSeen") \o <<"createUnseen">>

(* The error of the deletion is ignored. *)
DynamoCreate(cmd, drop) ==
    IF cmd = "load" THEN <<"check">> \o When(drop, "tryDrop") \o <<"createUnseen">>
                    ELSE <<"check", "need">>
ElasticCreate(cmd, drop) == IF cmd = "load" THEN <<"drop", "create">> ELSE << >>

Embedded == {"sqlite", "badger", "boltdb", "rocksdb"}
Creating == Embedded \cup
    {"mysql", "pg", "cassandra", "spanner", "dynamodb", "elastic", "s3", "redisHash"}

Calls(cmd, drop) ==
    CASE binding = "mysql"      -> MysqlCreate(cmd, drop)
      [] binding = "pg"         -> PgCreate(cmd, drop)
      [] binding = "cassandra"  -> CassandraCreate(cmd, drop)
      [] binding = "sqlite"     -> SqliteCreate(cmd, drop)
      [] binding = "badger"     -> BadgerCreate(cmd, drop)
      [] binding = "boltdb"     -> BoltCreate(cmd, drop)
      [] binding = "rocksdb"    -> RocksCreate(cmd, drop)
      [] binding = "redisHash" -> RedisCreate(cmd, drop)
      [] binding = "s3"         -> S3Create(cmd, drop)
      [] binding = "spanner"    -> SpannerCreate(cmd, drop)
      [] binding = "dynamodb"   -> DynamoCreate(cmd, drop)
      [] OTHER                  -> ElasticCreate(cmd, drop)

-----------------------------------------------------------------------------
All(value) == [p \in Processes |-> value]
NoRows == [k \in Keys |-> NoRow]

SetupInit ==
    /\ saw = All(FALSE)
    /\ IF binding \in Creating
       THEN /\ command \in {"load", "run"}
            /\ dropdata \in BOOLEAN
            /\ table \in (IF Present = {} THEN BOOLEAN ELSE {TRUE})
            /\ todo = All(Calls(command, dropdata))
            /\ outcome = [p \in Processes |-> IF p = "p2" /\ binding \in Embedded
                                              THEN "ok" ELSE "creating"]
       ELSE /\ command = "none" /\ dropdata = FALSE /\ table = TRUE
            /\ todo = All(<< >>) /\ outcome = All("ok")

Started == command = "none"

(* A call that removes the table, one that makes it, and one that fails:   *)
(* the statements without IF EXISTS and IF NOT EXISTS, and log.Fatalf.     *)
Drops(p, call) == call = "drop" \/ (call \in {"dropSeen", "tryDrop"} /\ saw[p])
Makes(p, call) == call \in {"ensure", "create"} \/ (call = "createUnseen" /\ ~saw[p])
Refused(p, call) ==
    \/ call = "dropSeen" /\ saw[p] /\ ~table
    \/ call = "createUnseen" /\ ~saw[p] /\ table
    \/ call = "create" /\ table
    \/ call = "need" /\ ~saw[p]

(* The next call of Create.  Elasticsearch's "create" may go on after an   *)
(* error, as failOnCreate says.                                            *)
CreateCall(p, call) ==
    /\ ~Refused(p, call) \/ call = "create"
    /\ todo' = [todo EXCEPT ![p] = Tail(@)]
    /\ table' = ((table /\ ~Drops(p, call)) \/ Makes(p, call))
    /\ saw' = [saw EXCEPT ![p] = CASE call = "check" -> table
                                   [] call \in {"dropSeen", "tryDrop"} -> FALSE
                                   [] OTHER -> @]
    /\ store' = IF Drops(p, call) \/ call = "flush" THEN NoRows ELSE store
    /\ ideal' = store'
    /\ UNCHANGED outcome

CreateFails(p, call) ==
    /\ Refused(p, call)
    /\ outcome' = [outcome EXCEPT ![p] = "failed"]
    /\ UNCHANGED <<store, ideal, table, todo, saw>>

CreateReturns(p) ==
    /\ todo[p] = << >>
    /\ outcome' = [outcome EXCEPT ![p] = "ok"]
    /\ UNCHANGED <<store, ideal, table, todo, saw>>

Created == \A p \in Processes : outcome[p] # "creating"

(* main goes on to start the threads of the processes that have a DB. *)
StartThreads ==
    /\ ~Started /\ Created /\ \E p \in Processes : outcome[p] = "ok"
    /\ command' = "none" /\ dropdata' = FALSE /\ table' = TRUE /\ saw' = All(FALSE)
    /\ todo' = All(<< >>) /\ outcome' = All("ok")
    /\ UNCHANGED <<store, ideal>>

SetupStep ==
    /\ \/ \E p \in Processes :
            /\ outcome[p] = "creating"
            /\ \/ /\ todo[p] # << >>
                  /\ CreateCall(p, Head(todo[p])) \/ CreateFails(p, Head(todo[p]))
               \/ CreateReturns(p)
            /\ UNCHANGED <<command, dropdata>>
       \/ StartThreads
    /\ UNCHANGED <<binding, version, ops, pc, op, excused>>

-----------------------------------------------------------------------------
(* When the creators have returned, and one of them has a database to work *)
(* with, the table is there, also if two processes looked for it, dropped  *)
(* it and created it at the same time.                                     *)
TableReady ==
    Created /\ (\E p \in Processes : outcome[p] = "ok") => table \/ command = "run"
=============================================================================
