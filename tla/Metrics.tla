------------------------------- MODULE Metrics -------------------------------
(***************************************************************************)
(* From a measured operation to the report of a benchmark                  *)
(* (pkg/measurement, measure of pkg/client/dbwrapper.go): the threads of   *)
(* several processes measure, each process pushes its series to one        *)
(* Prometheus server when it ends, and "--statistic" queries the server    *)
(* and aggregates the series of a benchmark number.                        *)
(*                                                                         *)
(* The name of a series is the sequence of its parts between underscores.  *)
(* Time is the number of operations ended; a rate is counted per Scale of  *)
(* it.  External is the server: a series is identified by its name and     *)
(* labels, holds its latest sample, and is forgotten after a while.        *)
(***************************************************************************)
EXTENDS Integers, Sequences, SequencesExt, FiniteSetsExt, TLC

CONSTANTS
    Instances,      \* the processes
    Threads,        \* their worker goroutines
    Latencies,
    Configurations, \* what Init chooses from
    Scale           \* a common multiple of the times an operation can take

ASSUME MetricsAssumption ==
    /\ IsFiniteSet(Threads)
    /\ \A c \in Configurations :
         /\ c.home \in [Threads -> Instances]
         /\ c.processes \in [Instances ->
                [bench : STRING, random : STRING, warmUp : BOOLEAN, type : {"histogram", "raw"},
                 operations : SUBSET {"READ", "UPDATE", "READ_MODIFY_WRITE"}]]

VARIABLES
    p,       \* per process: bench and random number, operations, measurement type
    maxOps,  \* bound on the operations measured
    home,    \* the process of each thread
    warmUp,  \* per process: the warm-up flag
    hist,    \* per process: the histogram of each operation measured so far
    todo,    \* per thread: the calls of Measure its operation still has to make
    ops,     \* operations ended
    phase,   \* per process: "measuring", "pushing" or "ended"
    server,  \* the series pushed, by bench and random number
    clash,   \* history: two processes have pushed the same series
    report   \* the outcome of the query

vars == <<p, maxOps, home, warmUp, hist, todo, ops, phase, server, clash, report>>

None == <<>>
Percentiles == {"p90", "p95", "p99", "p999", "p9999"}

\* strings.ReplaceAll(benchNo, "-", "_"), and the parts this leaves.
Safe(bench) == CASE bench = "7" -> <<"7">> [] OTHER -> <<"7", "8">>
Numbers     == {"7", "8"} \cup {p[i].random : i \in Instances}

\* strings.ToLower, in parts.
OpParts == [READ |-> <<"read">>, UPDATE |-> <<"update">>,
            READ_ERROR |-> <<"read", "error">>, UPDATE_ERROR |-> <<"update", "error">>,
            READ_MODIFY_WRITE |-> <<"read", "modify", "write">>,
            TOTAL |-> <<"all">>, CALCULATED |-> <<"calculated">>]
MetricParts(m) == CASE m = "total_time" -> <<"total", "time">>
                    [] m = "oper_count" -> <<"oper", "count">>
                    [] m = "total_ops"  -> <<"total", "ops">>
                    [] OTHER -> <<m>>

Init ==
    /\ \E c \in Configurations : p = c.processes /\ maxOps = c.maxOps /\ home = c.home
    /\ warmUp = [i \in Instances |-> p[i].warmUp]
    /\ hist = [i \in Instances |-> <<>>]
    /\ todo = [t \in Threads |-> None]
    /\ ops = 0
    /\ phase = [i \in Instances |-> "measuring"]
    /\ server = <<>> /\ clash = FALSE
    /\ report = None

-----------------------------------------------------------------------------
(* Measuring *)

Error == [READ |-> "READ_ERROR", UPDATE |-> "UPDATE_ERROR"]

(* Mutant: an operation that failed counts in the total, too. *)
CallsTotalAlways(op, ok) ==
    IF ok THEN <<op, "TOTAL">> ELSE <<Error[op], "TOTAL">>

(* What the wrapper measures of one call of the database. *)
Calls(op, ok) == IF ok THEN <<op, "TOTAL">> ELSE <<Error[op]>>

(* The calls of Measure for one operation of the workload: a read, an      *)
(* update, or one after the other for a read-modify-write.                 *)
Operations(op) ==
    IF op = "READ_MODIFY_WRITE"
    THEN {Calls("READ", FALSE) \o <<op>>}
         \cup {Calls("READ", TRUE) \o Calls("UPDATE", ok) \o <<op>> : ok \in BOOLEAN}
    ELSE {Calls(op, ok) : ok \in BOOLEAN}

EndOperation(t) ==
    /\ report = None /\ phase[home[t]] = "measuring" /\ todo[t] = None
    /\ ops < maxOps
    /\ ops' = ops + 1
    /\ \E op \in p[home[t]].operations, l \in Latencies : \E calls \in Operations(op) :
          todo' = [todo EXCEPT ![t] = [calls |-> calls, latency |-> l]]
    /\ UNCHANGED <<p, maxOps, home, warmUp, hist, phase, server, clash, report>>

\* RecordValue; the latencies are kept in order.
Record(s, l) == InsertAt(s, Cardinality({j \in DOMAIN s : s[j] <= l}) + 1, l)

Recorded(i, op, l) ==
    LET h   == hist[i]
        old == IF op \in DOMAIN h THEN h[op] ELSE [start |-> ops, latencies |-> <<>>]
        new == [old EXCEPT !.latencies = Record(@, l)]
    IN [hist EXCEPT ![i] = [o \in DOMAIN h \cup {op} |-> IF o = op THEN new ELSE h[o]]]

(* Measure: the flag is read for each call on its own. *)
Measure(t) ==
    LET i == home[t]
        c == todo[t]
    IN /\ report = None /\ todo[t] # None
       /\ hist' = IF warmUp[i] THEN hist ELSE Recorded(i, Head(c.calls), c.latency)
       /\ todo' = [todo EXCEPT ![t] = IF Len(c.calls) = 1 THEN None
                                      ELSE [c EXCEPT !.calls = Tail(@)]]
       /\ UNCHANGED <<p, maxOps, home, warmUp, ops, phase, server, clash, report>>

EndWarmUp(i) ==
    /\ report = None /\ warmUp[i]
    /\ warmUp' = [warmUp EXCEPT ![i] = FALSE]
    /\ UNCHANGED <<p, maxOps, home, hist, todo, ops, phase, server, clash, report>>

-----------------------------------------------------------------------------
(* Pushing *)

(* output: the threads have ended, the goroutine that pushes starts. *)
Output(i) ==
    /\ report = None /\ phase[i] = "measuring"
    /\ \A t \in Threads : home[t] = i => todo[t] = None
    /\ phase' = [phase EXCEPT ![i] = "pushing"]
    /\ UNCHANGED <<p, maxOps, home, warmUp, hist, todo, ops, server, clash, report>>

\* ValueAtPercentile: the rank is rounded to the nearest.
AtPercentile(s, per) ==
    LET rank == (2 * per * Len(s) + 10000) \div 20000
    IN s[IF rank < 1 THEN 1 ELSE rank]

GetInfo(h) ==
    LET s     == h.latencies
        taken == ops + 1 - h.start
    IN [total_time |-> taken, oper_count |-> Len(s), ops |-> (Len(s) * Scale) \div taken,
        avg |-> FoldSeq(+, 0, s) \div Len(s), min |-> s[1], max |-> s[Len(s)],
        p90 |-> AtPercentile(s, 9000), p95 |-> AtPercentile(s, 9500),
        p99 |-> AtPercentile(s, 9900), p999 |-> AtPercentile(s, 9990),
        p9999 |-> AtPercentile(s, 9999)]

\* readmodifywriteproportion > 0
WorkloadF(i) == "READ_MODIFY_WRITE" \in p[i].operations

(* Mutant: the calculated total counts read-modify-writes again. *)
BuildTimeSeriesAll(i) ==
    LET kept == DOMAIN hist[i] \ (IF WorkloadF(i) THEN {"READ_MODIFY_WRITE"} ELSE {})
        info == [op \in DOMAIN hist[i] |-> GetInfo(hist[i][op])]
        sum  == MapThenSumSet(LAMBDA op : info[op].ops, DOMAIN info \ {"TOTAL"})
    IN ("CALCULATED" :> [total_ops |-> sum]) @@ [op \in kept |-> info[op]]

(* The series of a process, by operation and metric. *)
BuildTimeSeries(i) ==
    LET kept == DOMAIN hist[i] \ (IF WorkloadF(i) THEN {"READ_MODIFY_WRITE"} ELSE {})
        info == [op \in kept |-> GetInfo(hist[i][op])]
        sum  == MapThenSumSet(LAMBDA op : info[op].ops, kept \ {"TOTAL"})
    IN ("CALCULATED" :> [total_ops |-> sum]) @@ info

SameNames(x, y) == Safe(x.bench) = Safe(y.bench) /\ x.random = y.random

(* A sample replaces the earlier one of its series. *)
RemoteWrite(id, series) ==
    /\ server' = (id :> IF id \in DOMAIN server THEN series @@ server[id] ELSE series) @@ server
    /\ clash' = (clash \/ \E x \in DOMAIN server : SameNames(x, id))

(* WriteMetrics refuses raw measurements.  The request may fail before or  *)
(* after it has reached the server.                                        *)
WriteMetrics(i) ==
    /\ report = None /\ phase[i] = "pushing"
    /\ phase' = [phase EXCEPT ![i] = "ended"]
    /\ \/ /\ p[i].type = "histogram"
          /\ RemoteWrite([bench |-> p[i].bench, random |-> p[i].random], BuildTimeSeries(i))
       \/ UNCHANGED <<server, clash>>
    /\ UNCHANGED <<p, maxOps, home, warmUp, hist, todo, ops, report>>

(* The server's instant queries look back for a few minutes only. *)
Forget(id) ==
    /\ report = None
    /\ server' = [x \in DOMAIN server \ {id} |-> server[x]]
    /\ UNCHANGED <<p, maxOps, home, warmUp, hist, todo, ops, phase, clash, report>>

-----------------------------------------------------------------------------
(* Querying *)

Name(id, op, m) == <<"ycsb">> \o Safe(id.bench) \o <<id.random>> \o OpParts[op] \o MetricParts(m)

(* The samples of one process as the server returns them. *)
Samples(id) ==
    UNION {{<<Name(id, op, m), server[id][op][m]>> : m \in DOMAIN server[id][op]}
             : op \in DOMAIN server[id]}

IsPrefixOf(s, t) == Len(s) < Len(t) /\ SubSeq(t, 1, Len(s)) = s

(* queryMetrics: the positive samples whose name begins with the bench     *)
(* number, by name; of two with the same name the last one returned.       *)
QueryMetrics(bench, order) ==
    LET Mapped(id) ==
            LET kept == {s \in Samples(id) :
                           s[2] > 0 /\ IsPrefixOf(<<"ycsb">> \o Safe(bench), s[1])}
            IN [n \in {s[1] : s \in kept} |-> (CHOOSE s \in kept : s[1] = n)[2]]
    IN FoldLeft(LAMBDA metrics, id : Mapped(id) @@ metrics, <<>>, order)

Sums     == {"oper_count", "total_time", "ops"}
Averages == {"avg"} \cup Percentiles

(* Mutant: the operation is the one part before the metric. *)
AggKeyShort(name, safe) == SubSeq(name, Len(name) - 1, Len(name))

(* The parts after the random number: those of the operation, of which the *)
(* pattern takes as many as it can, and the one left for the metric.       *)
AggKey(name, safe) == SubSeq(name, Len(safe) + 3, Len(name))

(* aggregateMetrics, with an average as its sum and its count. *)
AggregateMetrics(metrics, safe) ==
    LET matches == {n \in DOMAIN metrics :
                      /\ n[Len(safe) + 2] \in Numbers
                      /\ Len(n) >= Len(safe) + 4
                      /\ Front(AggKey(n, safe)) # <<"calculated">>
                      /\ Last(n) \in Sums \cup {"min", "max"} \cup Averages}
        Of(key) == {n \in matches : AggKey(n, safe) = key}
        Values(key) == {metrics[n] : n \in Of(key)}
        Sum(key) == MapThenSumSet(LAMBDA n : metrics[n], Of(key))
    IN [key \in {AggKey(n, safe) : n \in matches} |->
          CASE Last(key) \in Sums -> <<Sum(key), 1>>
            [] Last(key) = "min"  -> <<Min(Values(key)), 1>>
            [] Last(key) = "max"  -> <<Max(Values(key)), 1>>
            [] OTHER -> <<Sum(key), Cardinality(Of(key))>>]

(* QueryOnly writes a file, unless it finds no metric. *)
QueryAndAggregate(bench) ==
    /\ report = None
    /\ \E order \in SetToSeqs(DOMAIN server) :
          LET raw == QueryMetrics(bench, order)
          IN /\ raw # <<>>
             /\ report' = [bench |-> bench, found |-> server, raw |-> raw,
                           rows |-> AggregateMetrics(raw, Safe(bench))]
    /\ UNCHANGED <<p, maxOps, home, warmUp, hist, todo, ops, phase, server, clash>>

Next ==
    \/ \E t \in Threads : EndOperation(t) \/ Measure(t)
    \/ \E i \in Instances :
          \/ EndWarmUp(i) \/ Output(i) \/ WriteMetrics(i)
          \/ QueryAndAggregate(p[i].bench)
    \/ \E id \in DOMAIN server : Forget(id)

Spec == Init /\ [][Next]_vars

-----------------------------------------------------------------------------
Count(i, op) == IF op \in DOMAIN hist[i] THEN Len(hist[i][op].latencies) ELSE 0

(* At any moment, so in every summary, the total counts each operation     *)
(* measured once, although measure makes two calls: it lacks those of      *)
(* threads between the two, and has at most one per thread too many, which *)
(* was between them when the warm-up ended.  Failures and                  *)
(* read-modify-writes never count.                                         *)
TotalIsSum ==
    \A i \in Instances :
        LET mine == {t \in Threads : home[t] = i}
            between == {t \in mine : todo[t] # None /\ Head(todo[t].calls) = "TOTAL"}
            excess == Count(i, "TOTAL") - Count(i, "READ") - Count(i, "UPDATE")
        IN /\ -Cardinality(between) <= excess
           /\ excess <= IF p[i].warmUp THEN Cardinality(mine) ELSE 0

(* A row of the report is the sum, minimum, maximum or average of what the *)
(* processes of that benchmark pushed and the server still has, and of     *)
(* nothing else: no process of a benchmark whose number starts with this   *)
(* one adds to it.  Values of zero are left out of all four.  (Of two      *)
(* processes whose series have the same names only one can be found.)      *)
AggregateIsOfBench ==
    report # None =>
        LET ids == {id \in DOMAIN report.found : Safe(id.bench) = Safe(report.bench)}
        IN (\A x, y \in ids : SameNames(x, y) => x = y) =>
           \A op \in DOMAIN OpParts \ {"CALCULATED"}, m \in {"ops", "min", "max"} \cup Averages :
            LET of == {id \in ids : op \in DOMAIN report.found[id] /\ report.found[id][op][m] > 0}
                values == {report.found[id][op][m] : id \in of}
                sum == MapThenSumSet(LAMBDA id : report.found[id][op][m], of)
                key == OpParts[op] \o <<m>>
            IN IF of = {} THEN key \notin DOMAIN report.rows
               ELSE /\ key \in DOMAIN report.rows
                    /\ report.rows[key] = CASE m = "ops" -> <<sum, 1>>
                                            [] m = "min" -> <<Min(values), 1>>
                                            [] m = "max" -> <<Max(values), 1>>
                                            [] OTHER -> <<sum, Cardinality(of)>>

Row(key) == IF key \in DOMAIN report.rows THEN report.rows[key][1] ELSE 0

(* In the report, too, the rates of the operations add up to               *)
(* calculated_total_ops ("READ_OPS + UPDATE_OPS + ... =                    *)
(* calculated_total_ops", prometheus.go:220), unless two processes drew    *)
(* the same random number and overwrote part of each other's series.       *)
TotalsAgree ==
    report # None /\ ~clash =>
        Row(<<"calculated", "total", "ops">>) =
            MapThenSumSet(LAMBDA op : Row(OpParts[op] \o <<"ops">>),
                          DOMAIN OpParts \ {"TOTAL", "CALCULATED"})

(* "Sum for count/time/ops metrics" (prometheus.go:417): the report has    *)
(* the number of operations all processes of the benchmark counted.        *)
CountsAreSummed ==
    report # None =>
        \A op \in DOMAIN OpParts \ {"CALCULATED"} :
            LET ids == {id \in DOMAIN report.found : Safe(id.bench) = Safe(report.bench)
                                                     /\ op \in DOMAIN report.found[id]}
            IN Row(OpParts[op] \o <<"oper", "count">>) =
                 MapThenSumSet(LAMBDA id : report.found[id][op].oper_count, ids)
=============================================================================
