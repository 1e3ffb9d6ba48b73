---------------------------- MODULE SqlSessions -----------------------------
(***************************************************************************)
(* How the threads of db/mysql and db/pg hold on to a connection and to    *)
(* the statements they have prepared on it (mysqlState, pgState), while    *)
(* connections break.  As a value of "binding", "sessions" stands for both *)
(* of them, seen without their rows.                                       *)
(*                                                                         *)
(* External is database/sql: a call on a connection that broke fails and   *)
(* closes it, and a call on a closed one, also through a statement that    *)
(* was prepared on it, fails with ErrConnDone.                             *)
(***************************************************************************)
EXTENDS RowStore

CONSTANTS
    Queries,    \* the texts of the statements
    MaxQueries, \* bound on the queries of one behaviour
    MaxLosses   \* bound on the connections that break

VARIABLES
    conn,       \* state.conn: its number (0 for nil), and whether it works
    stmts,      \* stmtCache: the connection each query is prepared on, or 0
    query,      \* the query a thread is running
    held,       \* connections each thread has taken and not given back
    losses,     \* connections broken so far
    failures,   \* history: failures of each query since it last worked, less
                \* the connections its thread has lost since
    fault       \* history: "none", or why the process ended

sessionVars == <<conn, stmts, query, held, losses, failures, fault>>

SessionInit ==
    /\ conn = [t \in Threads |-> [number |-> 0, status |-> "absent"]]
    /\ stmts = [t \in Threads |-> [q \in Queries |-> 0]]
    /\ query = [t \in Threads |-> "none"]
    /\ held = [t \in Threads |-> 0]
    /\ losses = 0
    /\ failures = [t \in Threads |-> [q \in Queries |-> 0]]
    /\ fault = "none"

Running == binding = "sessions" /\ fault = "none"
RowsAside == NoWrite /\ UNCHANGED <<binding, op>>
SetConn(t, number, status) == conn' = [conn EXCEPT ![t] = [number |-> number, status |-> status]]

(* SetMaxOpenConns(threads * 2) *)
MaxOpen == 2 * Cardinality(Threads)
Open == SumFunction(held)

(* InitThread takes a connection, and panics when there is none to have. *)
SessionInitThread(t) ==
    /\ Running /\ conn[t].status = "absent"
    /\ \/ /\ Open < MaxOpen
          /\ SetConn(t, 1, "works")
          /\ held' = [held EXCEPT ![t] = @ + 1]
          /\ UNCHANGED fault
       \/ fault' = "noConn" /\ UNCHANGED <<conn, held>>
    /\ RowsAside /\ UNCHANGED <<ops, pc, stmts, query, losses, failures>>

BeginQuery(t, q) ==
    /\ Running /\ conn[t].status # "absent"
    /\ ops < MaxQueries
    /\ ops' = ops + 1
    /\ Goto(t, "idle", "prepare")
    /\ query' = [query EXCEPT ![t] = q]
    /\ RowsAside /\ UNCHANGED <<conn, stmts, held, losses, failures, fault>>

(* The operation returns an error. *)
Fail(t) == failures' = [failures EXCEPT ![t][query[t]] = @ + 1]

UseCached(t) ==
    /\ stmts[t][query[t]] # 0
    /\ Goto(t, "prepare", "exec")
    /\ UNCHANGED <<conn, stmts, held, failures, fault>>

PrepareFails(t) ==
    /\ Goto(t, "prepare", "idle")
    /\ Fail(t)
    /\ UNCHANGED stmts

(* PrepareContext on the connection the thread has. *)
PrepareHere(t) ==
    /\ stmts[t][query[t]] = 0
    /\ \/ /\ conn[t].status = "works"
          /\ Goto(t, "prepare", "exec")
          /\ stmts' = [stmts EXCEPT ![t][query[t]] = conn[t].number]
          /\ UNCHANGED <<conn, held, failures>>
       \/ /\ conn[t].status = "broke"
          /\ PrepareFails(t)
          /\ SetConn(t, conn[t].number, "done")
          /\ held' = [held EXCEPT ![t] = @ - 1]
    /\ UNCHANGED fault

(* Mutant: any error of PrepareContext makes a new connection. *)
RebuildAlways(t) ==
    /\ stmts[t][query[t]] = 0 /\ conn[t].status \in {"broke", "done"}
    /\ \/ /\ Open < MaxOpen
          /\ SetConn(t, conn[t].number + 1, "works")
          /\ held' = [held EXCEPT ![t] = @ + 1]
          /\ UNCHANGED <<pc, stmts, failures>>
       \/ PrepareFails(t) /\ SetConn(t, 0, "nil") /\ UNCHANGED held
    /\ UNCHANGED fault

(* ErrConnDone: a new connection, on which PrepareContext is called again. *)
(* If there is none to have, state.conn is left nil.                       *)
Rebuild(t) ==
    /\ stmts[t][query[t]] = 0 /\ conn[t].status = "done"
    /\ \/ /\ Open < MaxOpen
          /\ SetConn(t, conn[t].number + 1, "works")
          /\ held' = [held EXCEPT ![t] = @ + 1]
          /\ UNCHANGED <<pc, stmts, failures>>
       \/ PrepareFails(t) /\ SetConn(t, 0, "nil") /\ UNCHANGED held
    /\ UNCHANGED fault

NilConn(t) ==
    /\ stmts[t][query[t]] = 0 /\ conn[t].status = "nil"
    /\ fault' = "nilConn"
    /\ UNCHANGED <<pc, conn, stmts, held, failures>>

GetAndCacheStmt(t) ==
    /\ Running /\ pc[t] = "prepare"
    /\ UseCached(t) \/ PrepareHere(t) \/ Rebuild(t) \/ NilConn(t)
    /\ RowsAside /\ UNCHANGED <<ops, query, losses>>

(* Mutant: the statement that failed stays in the cache. *)
ClearCacheKeeps(t, failed) == UNCHANGED stmts

(* clearCacheIfFailed *)
ClearCache(t, failed) ==
    stmts' = IF failed THEN [stmts EXCEPT ![t][query[t]] = 0] ELSE stmts

ExecStmt(t) ==
    LET usable == stmts[t][query[t]] = conn[t].number /\ conn[t].status = "works"
        breaks == stmts[t][query[t]] = conn[t].number /\ conn[t].status = "broke"
    IN /\ Running
       /\ Goto(t, "exec", "idle")
       /\ ClearCache(t, ~usable)
       /\ IF usable THEN failures' = [failures EXCEPT ![t][query[t]] = 0] ELSE Fail(t)
       /\ IF breaks
          THEN /\ SetConn(t, conn[t].number, "done")
               /\ held' = [held EXCEPT ![t] = @ - 1]
          ELSE UNCHANGED <<conn, held>>
       /\ RowsAside /\ UNCHANGED <<ops, query, losses, fault>>

(* The server refuses to prepare or to run the statement. *)
ServerError(t) ==
    /\ Running /\ conn[t].status = "works"
    /\ \/ /\ Goto(t, "prepare", "idle")
          /\ stmts[t][query[t]] = 0
          /\ UNCHANGED stmts
       \/ Goto(t, "exec", "idle") /\ ClearCache(t, TRUE)
    /\ RowsAside /\ UNCHANGED <<ops, conn, query, held, losses, failures, fault>>

Break(t) ==
    /\ Running /\ conn[t].status = "works" /\ losses < MaxLosses
    /\ SetConn(t, conn[t].number, "broke")
    /\ losses' = losses + 1
    /\ failures' = [failures EXCEPT ![t] = [q \in Queries |-> @[q] - 1]]
    /\ RowsAside /\ UNCHANGED <<ops, pc, stmts, query, held, fault>>

(* CleanupThread closes the statements and the connection. *)
SessionCleanupThread(t) ==
    /\ Running /\ conn[t].status # "absent"
    /\ Goto(t, "idle", "ended")
    /\ stmts' = [stmts EXCEPT ![t] = [q \in Queries |-> 0]]
    /\ IF conn[t].status = "nil"
       THEN fault' = "nilConn" /\ UNCHANGED <<conn, held>>
       ELSE /\ SetConn(t, conn[t].number, "closed")
            /\ held' = [held EXCEPT ![t] = IF conn[t].status \in {"works", "broke"}
                                            THEN @ - 1 ELSE @]
            /\ UNCHANGED fault
    /\ RowsAside /\ UNCHANGED <<ops, query, losses, failures>>

SessionStep(t) ==
    \/ SessionInitThread(t) \/ (\E q \in Queries : BeginQuery(t, q))
    \/ GetAndCacheStmt(t) \/ ExecStmt(t) \/ ServerError(t)
    \/ Break(t) \/ SessionCleanupThread(t)

-----------------------------------------------------------------------------
(* Each connection a thread loses costs each of its queries at most one    *)
(* failure before it works again: the cache never holds a statement that   *)
(* keeps failing, also when the queries find out about a loss one by one,  *)
(* and about the next one in between.                                      *)
FailsOncePerLoss ==
    \A t \in Threads : conn[t].status # "nil" => \A q \in Queries : failures[t][q] <= 0

(* The connection that replaces a lost one never adds to it: a thread      *)
(* holds exactly the one it works with, so that the threads together stay  *)
(* below the limit of the pool and never wait for each other in it.        *)
OneConnectionEach ==
    \A t \in Threads : held[t] = IF conn[t].status \in {"works", "broke"} THEN 1 ELSE 0

(* The process ends by a nil connection only after a thread lost one: with *)
(* no connection lost, no order of queries, failures and ends of threads   *)
(* leads there.                                                            *)
NilConnNeedsLoss == fault = "nilConn" => losses > 0
=============================================================================
