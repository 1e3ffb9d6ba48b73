---------------------------- MODULE ElasticStore ----------------------------
(***************************************************************************)
(* The Elasticsearch binding, db/elasticsearch: writes go into one bulk    *)
(* indexer all threads share, and succeed as soon as they are queued.      *)
(* Several workers of the indexer send the queue on.                       *)
(***************************************************************************)
EXTENDS RowStore

VARIABLES
    queue,      \* the items added and not yet answered for
    spoilt,     \* history: keys with an item that failed or was overtaken
    closers,    \* the threads that have closed the indexer
    panicked    \* the threads that panicked, which ends the process

elasticVars == <<queue, spoilt, closers, panicked>>

ElasticInit == queue = {} /\ spoilt = {} /\ closers = {} /\ panicked = {}

(* A bulk action: "index" replaces the document, "update" needs one. *)
Item(action, k, row) == [action |-> action, key |-> k, row |-> row, number |-> ops + 1]
Document(item, row) == Effect(IF item.action = "update" THEN "patch" ELSE "replace", row, item.row)

(* bi.Add: an item is queued; on an indexer that is closed it panics. *)
Add(t, item) ==
    /\ binding = "elastic" /\ panicked = {}
    /\ Begin(t, "idle", Blank)
    /\ IF closers = {}
       THEN /\ queue' = queue \cup {item}
            /\ ideal' = [ideal EXCEPT ![item.key] = Document(item, @)]
            /\ excused' = [excused EXCEPT ![item.key] = TRUE]
            /\ UNCHANGED <<spoilt, closers, panicked>>
       ELSE /\ panicked' = {t}
            /\ UNCHANGED <<queue, spoilt, closers, ideal, excused>>
    /\ UNCHANGED <<store, version>>

ElasticInsert(t, k) == Add(t, Item("index", k, Row(ops + 1, Fields)))
ElasticUpdate(t, k, f) == Add(t, Item("update", k, Row(ops + 1, f)))
ElasticDelete(t, k) == Add(t, Item("delete", k, NoRow))

(* A worker of the indexer has an item's answer from the server.  A failed *)
(* item is printed and dropped; the workers keep no order between them.    *)
Flush(item, success) ==
    LET k == item.key
        others == {i \in queue : i.key = k /\ i # item}
        overtakes == \E i \in others : i.number < item.number
    IN /\ panicked = {}
       /\ queue' = queue \ {item}
       /\ store' = IF success THEN [store EXCEPT ![k] = Document(item, @)] ELSE store
       /\ spoilt' = IF success /\ ~overtakes THEN spoilt ELSE spoilt \cup {k}
       /\ excused' = [excused EXCEPT ![k] = others # {} \/ k \in spoilt']
       /\ UNCHANGED <<binding, version, ops, pc, op, ideal, closers, panicked>>

(* CleanupThread closes the indexer that all threads share: it returns     *)
(* when the queue is empty, and panics when another thread closed it.      *)
ElasticCleanupThread(t) ==
    /\ binding = "elastic" /\ panicked = {}
    /\ IF closers = {}
       THEN Goto(t, "idle", "closing") /\ closers' = {t} /\ UNCHANGED panicked
       ELSE Goto(t, "idle", "closed") /\ panicked' = {t} /\ UNCHANGED closers
    /\ NoWrite /\ UNCHANGED <<binding, ops, op, queue, spoilt>>

CloseReturns(t) ==
    /\ panicked = {} /\ queue = {}
    /\ Goto(t, "closing", "closed")
    /\ NoWrite /\ UNCHANGED <<binding, ops, op, elasticVars>>

ElasticStep(t) ==
    \/ \E k \in Keys : ElasticInsert(t, k) \/ ElasticDelete(t, k)
    \/ \E k \in Keys, f \in SomeFields : ElasticUpdate(t, k, f)
    \/ ElasticCleanupThread(t) \/ CloseReturns(t)
=============================================================================
