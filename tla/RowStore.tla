------------------------------ MODULE RowStore ------------------------------
(***************************************************************************)
(* What the bindings under db/ have in common: worker threads that call    *)
(* the operations of ycsb.DB on one table, each operation a short sequence *)
(* of calls to a client library, with other threads' calls in between.     *)
(*                                                                         *)
(* "binding" is the creator main looked up, with the option of it that     *)
(* changes how rows are written.  A row is a function from the fields it   *)
(* has to values; a value carries the number of the operation that wrote   *)
(* it, so no two writes are alike.                                         *)
(***************************************************************************)
EXTENDS Integers, Sequences, FiniteSets, Functions, FiniteSetsExt, TLC

CONSTANTS
    Threads,    \* the worker goroutines
    MaxKey,     \* row keys are 1..MaxKey, in the order the stores scan them
    Fields,     \* the field names of a whole row
    Bindings,   \* the bindings to check
    MaxOps,     \* bound on the operations of one behaviour,
    Longer      \* with these bindings, and one less with the others

ASSUME RowStoreAssumption == MaxKey \in Nat \ {0} /\ MaxOps \in Nat

VARIABLES
    binding,
    store,      \* the rows the database holds
    version,    \* how often each row was written: commit timestamps
    ops,        \* operations begun so far
    pc,         \* where each thread is
    op,         \* the local variables of each thread's operation
    ideal,      \* history: the table, had each write taken effect at once
    excused     \* history: keys whose row is allowed to differ from ideal

rowVars == <<binding, store, version, ops, pc, op, ideal, excused>>

Keys == 1..MaxKey
NoRow == << >>     \* the empty row, which DecodeRow cannot tell from none
Present == {k \in Keys : store[k] # NoRow}
SomeFields == (SUBSET Fields) \ {{}}

(* The whole row, and the part of a row, that operation n writes. *)
Row(n, fields) == [f \in fields |-> n]

(* Decode, overlay the new values, Encode. *)
Merge(row, values) ==
    [f \in DOMAIN values \cup DOMAIN row |->
        IF f \in DOMAIN values THEN values[f] ELSE row[f]]

(* Mutant: the fields that were asked for are the ones left out. *)
SelectInverted(row, fields) == [f \in DOMAIN row \ fields |-> row[f]]

(* Decode with a list of fields: the empty list stands for all of them. *)
Select(row, fields) ==
    IF fields = {} THEN row ELSE [f \in DOMAIN row \cap fields |-> row[f]]

(* What an operation makes of the row it finds.  "merge" overlays, "patch" *)
(* only overlays a row that is there, "keep" only stores where none is.    *)
Effect(kind, row, values) ==
    CASE kind = "merge" -> Merge(row, values)
      [] kind = "patch" -> IF row = NoRow THEN NoRow ELSE Merge(row, values)
      [] kind = "keep"  -> IF row = NoRow THEN values ELSE row
      [] OTHER          -> values

(* Local variables.  values: what the caller passed for each key; kind:    *)
(* what the operation is to make of a row, how: what the call it sends     *)
(* makes of it; writes: the rows the operation will store; start: the      *)
(* versions it began from; cursor, page, more and out: where an operation  *)
(* that pages through the table is, what it has listed and what it has     *)
(* found; began and since are history: the keys present when it began and  *)
(* the keys other threads have written since.                              *)
Blank == [kind |-> "none", how |-> "none", values |-> << >>, writes |-> << >>,
          row |-> NoRow, start |-> << >>, cursor |-> 1, count |-> 0,
          page |-> << >>, more |-> FALSE, out |-> << >>, began |-> {}, since |-> {}]

-----------------------------------------------------------------------------
RowInit ==
    /\ binding \in Bindings
    /\ store \in [Keys -> {NoRow, Row(0, Fields)}]
    /\ version = [k \in Keys |-> 0]
    /\ ops = 0
    /\ pc = [t \in Threads |-> "idle"]
    /\ op = [t \in Threads |-> Blank]
    /\ ideal = store
    /\ excused = [k \in Keys |-> FALSE]

(* A thread enters an operation. *)
Begin(t, where, locals) ==
    /\ pc[t] = "idle"
    /\ ops < IF binding \in Longer THEN MaxOps ELSE MaxOps - 1
    /\ ops' = ops + 1
    /\ pc' = [pc EXCEPT ![t] = where]
    /\ op' = [op EXCEPT ![t] = locals]
    /\ UNCHANGED binding

Goto(t, from, to) == pc[t] = from /\ pc' = [pc EXCEPT ![t] = to]

NoWrite == UNCHANGED <<store, version, ideal, excused>>

(* The rows of "changed", a function from keys to rows, replace those of   *)
(* the store; "lossy" are the keys where this is allowed to lose a write.  *)
Write(t, changed, lossy) ==
    LET replaces == op[t].kind \notin {"merge", "patch", "keep"}
    IN /\ store' = [k \in Keys |-> IF k \in DOMAIN changed THEN changed[k] ELSE store[k]]
       /\ version' = [k \in Keys |-> version[k] + (IF k \in DOMAIN changed THEN 1 ELSE 0)]
       /\ ideal' = [k \in Keys |-> IF k \in DOMAIN changed
                                   THEN Effect(op[t].kind, ideal[k], op[t].values[k])
                                   ELSE ideal[k]]
       /\ excused' = [k \in Keys |-> \/ k \in lossy
                                     \/ excused[k] /\ ~(replaces /\ k \in DOMAIN changed)]

(* The operation record of t becomes "mine"; the operations that page      *)
(* through the table remember the keys written meanwhile.                  *)
Tell(t, mine, written) ==
    op' = [u \in Threads |-> IF u = t THEN mine
                             ELSE IF op[u].kind \in {"count", "clean", "scan"}
                                  THEN [op[u] EXCEPT !.since = @ \cup written]
                                  ELSE op[u]]

Finish(t) ==
    /\ pc' = [pc EXCEPT ![t] = "idle"]
    /\ op' = [op EXCEPT ![t] = Blank]
    /\ NoWrite /\ UNCHANGED <<binding, ops>>

(* The rows an operation of t stores give up fields it was to keep. *)
Truncated(t, changed) ==
    {k \in DOMAIN changed : /\ op[t].kind = "merge"
                            /\ changed[k] = op[t].values[k]
                            /\ DOMAIN changed[k] # Fields}
-----------------------------------------------------------------------------
(* An operation that is one call for each key: the loop of the wrapper's   *)
(* BatchInsert, BatchUpdate and BatchDelete for a binding without batches, *)
(* which a single operation runs through once.                             *)

KeySets == {{k} : k \in Keys} \cup {Keys}
For(keys, row) == [k \in keys |-> row]
Given(keys, fields) == For(keys, Row(ops + 1, fields))
Whole(keys) == Given(keys, Fields)
Gone(keys) == For(keys, NoRow)

Call(t, where, kind, how, values) ==
    /\ Begin(t, where, [Blank EXCEPT !.kind = kind, !.how = how, !.values = values])
    /\ NoWrite

CurrentKey(t) == Min(DOMAIN op[t].values)
Remaining(t) == [k \in DOMAIN op[t].values \ {CurrentKey(t)} |-> op[t].values[k]]
Done(t) == DOMAIN Remaining(t) = {}

(* The loop goes on with the next key, or the operation returns. *)
Advance(t, from, again) ==
    LET k == CurrentKey(t)
    IN /\ Goto(t, from, IF Done(t) THEN "idle" ELSE again)
       /\ Tell(t, IF Done(t) THEN Blank
                  ELSE [op[t] EXCEPT !.values = Remaining(t), !.row = NoRow, !.start = << >>],
               {k})
       /\ UNCHANGED <<binding, ops>>

(* mongodb reports a key that exists already and one that does not exist,  *)
(* spanner an update of one that does not, as an error.                    *)
Rejected(t) ==
    LET found == store[CurrentKey(t)] # NoRow
    IN \/ binding = "mongodb" /\ found = (op[t].how = "keep")
       \/ binding = "spanner" /\ op[t].how = "patch" /\ ~found

(* One call of the client library changes the row on the server. *)
Exec(t) ==
    LET k == CurrentKey(t)
        changed == For({k}, Effect(op[t].how, store[k], op[t].values[k]))
    IN /\ pc[t] = "call"
       /\ ~Rejected(t)
       /\ Advance(t, "call", "call")
       /\ Write(t, changed, Truncated(t, changed))

(* One call that changes all rows of the operation at once. *)
ExecAll(t) ==
    LET changed == [k \in DOMAIN op[t].values |->
                        Effect(op[t].how, store[k], op[t].values[k])]
    IN /\ Goto(t, "callAll", "idle")
       /\ Write(t, changed, {})
       /\ Tell(t, Blank, DOMAIN changed)
       /\ UNCHANGED <<binding, ops>>

(* Read-modify-write: the row is read by one call ... *)
GetRow(t) ==
    /\ Goto(t, "get", "put")
    /\ op' = [op EXCEPT ![t].row = store[CurrentKey(t)], ![t].start = version]
    /\ op[t].kind = "patch" => store[CurrentKey(t)] # NoRow
    /\ NoWrite /\ UNCHANGED <<binding, ops>>

(* ... and the merged row stored by another.  A write that came between is *)
(* lost: the code gives no guard against it.                               *)
PutRow(t) ==
    LET k == CurrentKey(t)
        merged == Merge(op[t].row, op[t].values[k])
    IN /\ pc[t] = "put"
       /\ Advance(t, "put", "get")
       /\ Write(t, For({k}, Effect(op[t].how, store[k], merged)),
                IF version[k] # op[t].start[k] THEN {k} ELSE {})

(* Any call of the client may fail: the operation returns the error, and   *)
(* the calls it has made keep their effect.  This is also what an update   *)
(* does that asks for a row which is not there.                            *)
CallFails(t) ==
    /\ pc[t] \in {"call", "callAll", "get", "put"}
    /\ Finish(t)

CommonStep(t) == Exec(t) \/ ExecAll(t) \/ GetRow(t) \/ PutRow(t) \/ CallFails(t)

-----------------------------------------------------------------------------
(* What a Scan returns is a sequence of keys; 0 stands for a nil entry. *)

InOrder(keys) ==
    CHOOSE s \in [1..Cardinality(keys) -> keys] : \A i, j \in DOMAIN s : i < j => s[i] < s[j]
From(start) == {k \in Present : k >= start}
FirstOf(count, keys) ==
    LET all == InOrder(keys) IN SubSeq(all, 1, Min({count, Len(all)}))

(* A result made with "count" entries and filled from the front. *)
Padded(result, count) == [i \in 1..count |-> IF i <= Len(result) THEN result[i] ELSE 0]

(* "count" of the keys, in any order: the statement asks for none. *)
AnyOf(count, keys) ==
    {s \in [1..Min({count, Cardinality(keys)}) -> keys] : IsInjective(s)}

-----------------------------------------------------------------------------
Rows == UNION {[fields -> 0..MaxOps] : fields \in SUBSET Fields}

(* Type correctness of the table and of its history. *)
RowTypeOK ==
    /\ binding \in Bindings
    /\ store \in [Keys -> Rows] /\ ideal \in [Keys -> Rows]
    /\ version \in [Keys -> Nat]
    /\ ops \in Nat
    /\ excused \in [Keys -> BOOLEAN]

(* No update is lost: every row is what it would be, had each successful   *)
(* Insert, Update and Delete taken effect at once, whatever the threads    *)
(* interleave.  "excused" names the only exceptions, which the code leaves *)
(* open: a key whose Get and Put had another write in between, one whose   *)
(* row an update replaced by some of its fields, and a row encoded into a  *)
(* buffer that another thread took before the commit.                      *)
NoLostUpdate ==
    \A k \in Keys : ~excused[k] => store[k] = ideal[k]
=============================================================================
