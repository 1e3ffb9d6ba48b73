----------------------------- MODULE MCBindings -----------------------------
(* Bindings with the sets its configurations use. *)
EXTENDS Bindings

AllBindings ==
    {"getput", "cas", "txn", "badger", "boltdb", "rocksdb", "foundationdb", "sqlite",
     "mysql", "pg", "cassandra", "spanner", "mongodb", "dynamodb", "etcd", "aerospike",
     "pegasus", "redisHash", "redisJson", "redisString", "s3", "s3Rmw", "minio",
     "elastic", "sessions"}
LongerBindings == {"cas", "txn"}
OnlyBadger == {"badger"}

Symmetry == Permutations(Threads) \cup Permutations(Fields)
=============================================================================
