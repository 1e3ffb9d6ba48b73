------------------------------ MODULE MCMetrics ------------------------------
(* Instances of Metrics for TLC. *)
EXTENDS Metrics

CONSTANTS t1, t2

Process(bench, random, operations) ==
    [bench |-> bench, random |-> random, operations |-> operations,
     warmUp |-> FALSE, type |-> "histogram"]

(* Two processes with one thread each: benchmarks of one number, of a      *)
(* number and one it starts, of two that read the same in a metric's name, *)
(* and two processes that drew the same random number.                     *)
Pair(p1, p2, max) == [processes |-> <<p1, p2>>, home |-> t1 :> 1 @@ t2 :> 2, maxOps |-> max]
TwoProcesses ==
    {Pair(Process("7", "5", {"READ"}), Process("7", "6", {"READ_MODIFY_WRITE"}), 3),
     Pair(Process("7", "5", {"READ"}), Process("7-8", "6", {"READ"}), 3),
     Pair(Process("7-8", "5", {"READ"}), Process("7_8", "6", {"READ"}), 2),
     Pair(Process("7-8", "5", {"READ"}), Process("7_8", "5", {"READ"}), 2),
     Pair(Process("7", "5", {"READ"}), Process("7", "5", {"READ", "UPDATE"}), 2)}

(* One process with two threads and a warm-up; the other writes raw        *)
(* measurements and has no thread.                                         *)
Raw == [Process("7", "6", {"READ"}) EXCEPT !.type = "raw"]
OneProcess ==
    {[processes |-> <<[Process("7", "5", operations) EXCEPT !.warmUp = warm], Raw>>,
      home |-> t1 :> 1 @@ t2 :> 1, maxOps |-> 2]
        : operations \in {{"READ", "UPDATE"}, {"READ_MODIFY_WRITE"}}, warm \in BOOLEAN}

AllConfigurations == TwoProcesses \cup OneProcess
SumConfigurations == TwoProcesses
=============================================================================
