------------------------------- MODULE Client -------------------------------
(***************************************************************************)
(* Client.Run (pkg/client/client.go): the worker goroutines, the goroutine *)
(* that ends the warm-up and prints summaries, and the caller that waits   *)
(* for all of them. The workers read the warm-up flag of                   *)
(* pkg/measurement/measurement.go twice for each operation, once inside    *)
(* the database wrapper and once in their own loop, while the measuring    *)
(* goroutine resets it.                                                    *)
(*                                                                         *)
(* Time is abstracted: a sleep, the throttle and a timer take any time.    *)
(***************************************************************************)
EXTENDS Integers, FiniteSetsExt

CONSTANTS
  ThreadCount,     \* threadcount
  OpCounts,        \* the operationcount, insertcount or recordcount tried
  BatchSizes,      \* the values of batch.size tried
  MaxWasted        \* bound of the model: operations a worker does in warm-up

ASSUME ThreadAssumption == ThreadCount \in Nat \ {0}
ASSUME CountAssumption  == OpCounts \subseteq Nat
ASSUME BatchAssumption  == BatchSizes \subseteq Nat \ {0}
ASSUME WastedAssumption == MaxWasted \in Nat

VARIABLES
  p,           \* the properties: which phase, how many operations, which batch
  exit,        \* "no" while the process lives, else how it ended
  canceled,    \* ctx.Done() is closed
  warmUp,      \* the warm-up flag, 1 while warming up
  wpc,         \* where each worker is
  opsDone,     \* worker.opsDone
  measured,    \* history: rounds whose last call the wrapper measured
  wasted,      \* history: rounds a worker did not count
  late,        \* history: rounds a worker began after the cancellation
  run,         \* where the caller of Run is
  mpc,         \* where the measuring goroutine is
  measureDone, \* measureCancel() was called
  measureCh    \* number of messages in measureCh

workerVars  == <<wpc, opsDone, measured, wasted, late>>
measureVars == <<mpc, measureCh>>
vars == <<p, exit, canceled, warmUp, workerVars, run, measureVars, measureDone>>

Workers == 0..(ThreadCount - 1)

\* doTransactions is 1 for the run phase and 0 for the load phase. batchDB is 0
\* when the binding has no batch operations, which matters for batches only. (A
\* batch of read-modify-writes calls nothing and is left out here.)
Properties ==
  {c \in [totalOpCount: OpCounts, batchSize: BatchSizes, batchDB: {0, 1},
          doTransactions: {0, 1}, warmUpTime: {0, 1}] :
     c.batchSize = 1 => c.batchDB = 1}

WorkerStates  == {"start", "loop", "operating", "count", "poll", "cleanup", "done"}
RunStates     == {"wait", "analyze", "cancel", "drain", "returned"}
MeasureStates == {"warming", "enable", "ticking", "send", "gone"}

\* The process ends in newWorker, in main or by a signal (see Process).
ExitStates == {"no", "tooFewOperations", "mainReturned", "outputFailed",
               "secondSignal", "gracePeriodOver"}

\* Mutant: the remainder of the division is not handed out.
OpCountNoRemainder(w) == p.totalOpCount \div ThreadCount

\* The share of worker w: the first p.totalOpCount % ThreadCount workers do one more.
OpCount(w) ==
  (p.totalOpCount \div ThreadCount) + (IF w < (p.totalOpCount % ThreadCount) THEN 1 ELSE 0)

WorkerGoto(w, from, to) ==
  /\ exit = "no"
  /\ wpc[w] = from
  /\ UNCHANGED p
  /\ wpc' = [wpc EXCEPT ![w] = to]

RunGoto(from, to) ==
  /\ exit = "no"
  /\ run = from
  /\ UNCHANGED p
  /\ run' = to

MeasureGoto(from, to) ==
  /\ exit = "no"
  /\ mpc = from
  /\ UNCHANGED p
  /\ mpc' = to

-----------------------------------------------------------------------------
(* InitMeasure has set the flag before Run is called. *)
Init ==
  /\ p \in Properties
  /\ exit = "no"
  /\ canceled = 0
  /\ warmUp = (IF p.warmUpTime > 0 THEN 1 ELSE 0)
  /\ wpc = [w \in Workers |-> "start"]
  /\ opsDone = [w \in Workers |-> 0]
  /\ measured = [w \in Workers |-> 0]
  /\ wasted = [w \in Workers |-> 0]
  /\ late = [w \in Workers |-> 0]
  /\ run = "wait"
  /\ mpc = (IF p.doTransactions = 1 THEN "warming" ELSE "enable")
  /\ measureDone = 0
  /\ measureCh = 0

\* The context of Run may be cancelled at any time.
Cancel ==
  /\ exit = "no"
  /\ canceled = 0
  /\ canceled' = 1
  /\ UNCHANGED <<p, exit, warmUp, workerVars, run, measureVars, measureDone>>

-----------------------------------------------------------------------------
(* A worker *)

\* newWorker gives up on the whole process when there are too few operations;
\* otherwise the thread is initialised and sleeps for a while.
StartWorker(w) ==
  /\ IF p.totalOpCount < ThreadCount
     THEN /\ exit = "no" /\ wpc[w] = "start"
          /\ exit' = "tooFewOperations"
          /\ UNCHANGED <<p, wpc>>
     ELSE /\ WorkerGoto(w, "start", "loop")
          /\ UNCHANGED exit
  /\ UNCHANGED <<canceled, warmUp, opsDone, measured, wasted, late,
                 run, measureVars, measureDone>>

\* The loop condition, then the call of the workload. MaxWasted only bounds how
\* long the warm-up is: it never stops a worker once the warm-up is over.
BeginRound(w) ==
  /\ OpCount(w) = 0 \/ opsDone[w] < OpCount(w)
  /\ warmUp = 1 /\ canceled = 0 => wasted[w] < MaxWasted
  /\ WorkerGoto(w, "loop", "operating")
  /\ late' = [late EXCEPT ![w] = @ + canceled]
  /\ UNCHANGED <<exit, canceled, warmUp, opsDone, measured, wasted,
                 run, measureVars, measureDone>>

LeaveLoop(w) ==
  /\ ~(OpCount(w) = 0 \/ opsDone[w] < OpCount(w))
  /\ WorkerGoto(w, "loop", "cleanup")
  /\ UNCHANGED <<exit, canceled, warmUp, opsDone, measured, wasted, late,
                 run, measureVars, measureDone>>

\* Mutant: Measure does not look at the warm-up flag.
EndOperationAlwaysMeasured(w) ==
  /\ WorkerGoto(w, "operating", "count")
  /\ measured' = [measured EXCEPT ![w] = @ + 1]
  /\ UNCHANGED <<exit, canceled, warmUp, opsDone, wasted, late,
                 run, measureVars, measureDone>>

\* The operation returns, with or without an error, through the wrapper's
\* deferred measure, which drops it during the warm-up. The loop that stands in
\* for a batch operation the binding lacks measures nothing.
EndOperation(w) ==
  /\ WorkerGoto(w, "operating", "count")
  /\ measured' = IF warmUp = 0 /\ p.batchDB = 1
                 THEN [measured EXCEPT ![w] = @ + 1]
                 ELSE measured
  /\ UNCHANGED <<exit, canceled, warmUp, opsDone, wasted, late,
                 run, measureVars, measureDone>>

\* The worker reads the flag again; the throttle returns sooner or later.
CountRound(w) ==
  /\ WorkerGoto(w, "count", "poll")
  /\ IF warmUp = 0
     THEN /\ opsDone' = [opsDone EXCEPT ![w] = @ + p.batchSize]
          /\ UNCHANGED wasted
     ELSE /\ wasted' = [wasted EXCEPT ![w] = @ + 1]
          /\ UNCHANGED opsDone
  /\ UNCHANGED <<exit, canceled, warmUp, measured, late,
                 run, measureVars, measureDone>>

\* Mutant: the worker does not look at the context.
PollBlind(w) ==
  /\ WorkerGoto(w, "poll", "loop")
  /\ UNCHANGED <<exit, canceled, warmUp, opsDone, measured, wasted, late,
                 run, measureVars, measureDone>>

Poll(w) ==
  /\ WorkerGoto(w, "poll", IF canceled = 1 THEN "cleanup" ELSE "loop")
  /\ UNCHANGED <<exit, canceled, warmUp, opsDone, measured, wasted, late,
                 run, measureVars, measureDone>>

\* db.CleanupThread, workload.CleanupThread and wg.Done.
CleanupWorker(w) ==
  /\ WorkerGoto(w, "cleanup", "done")
  /\ UNCHANGED <<exit, canceled, warmUp, opsDone, measured, wasted, late,
                 run, measureVars, measureDone>>

Worker(w) ==
  \/ StartWorker(w) \/ BeginRound(w) \/ LeaveLoop(w) \/ EndOperation(w)
  \/ CountRound(w) \/ Poll(w) \/ CleanupWorker(w)

-----------------------------------------------------------------------------
(* The measuring goroutine *)

\* The cancellation comes first: the deferred send is all that is left to do.
WarmUpInterrupted ==
  /\ canceled = 1
  /\ MeasureGoto("warming", "send")
  /\ UNCHANGED <<exit, canceled, warmUp, workerVars, run, measureCh, measureDone>>

WarmUpTimer ==
  /\ MeasureGoto("warming", "enable")
  /\ UNCHANGED <<exit, canceled, warmUp, workerVars, run, measureCh, measureDone>>

FinishWarmUp ==
  /\ MeasureGoto("enable", "ticking")
  /\ warmUp' = 0
  /\ UNCHANGED <<exit, canceled, workerVars, run, measureCh, measureDone>>

\* measureCtx is done when its parent is. A tick only prints a summary.
StopTicking ==
  /\ canceled = 1 \/ measureDone = 1
  /\ MeasureGoto("ticking", "send")
  /\ UNCHANGED <<exit, canceled, warmUp, workerVars, run, measureCh, measureDone>>

\* Mutant: the message is sent at the end of the goroutine's body, which the
\* interrupted warm-up returns before.
SendDoneNotDeferred ==
  /\ MeasureGoto("send", "gone")
  /\ measureCh' = IF warmUp = 0 THEN measureCh + 1 ELSE measureCh
  /\ UNCHANGED <<exit, canceled, warmUp, workerVars, run, measureDone>>

SendDone ==
  /\ measureCh < 1
  /\ MeasureGoto("send", "gone")
  /\ measureCh' = measureCh + 1
  /\ UNCHANGED <<exit, canceled, warmUp, workerVars, run, measureDone>>

Measuring ==
  WarmUpInterrupted \/ WarmUpTimer \/ FinishWarmUp \/ StopTicking \/ SendDone

-----------------------------------------------------------------------------
(* The caller of Run *)

\* Mutant: the caller goes on as soon as one worker is done.
WaitForOne ==
  /\ \E w \in Workers : wpc[w] = "done"
  /\ RunGoto("wait", IF p.doTransactions = 1 THEN "cancel" ELSE "analyze")
  /\ UNCHANGED <<exit, canceled, warmUp, workerVars, measureVars, measureDone>>

WaitForWorkers ==
  /\ \A w \in Workers : wpc[w] = "done"
  /\ RunGoto("wait", IF p.doTransactions = 1 THEN "cancel" ELSE "analyze")
  /\ UNCHANGED <<exit, canceled, warmUp, workerVars, measureVars, measureDone>>

AnalyzeTable ==
  /\ RunGoto("analyze", "cancel")
  /\ UNCHANGED <<exit, canceled, warmUp, workerVars, measureVars, measureDone>>

MeasureCancel ==
  /\ RunGoto("cancel", "drain")
  /\ measureDone' = 1
  /\ UNCHANGED <<exit, canceled, warmUp, workerVars, measureVars>>

DrainMeasure ==
  /\ measureCh > 0
  /\ RunGoto("drain", "returned")
  /\ measureCh' = measureCh - 1
  /\ UNCHANGED <<exit, canceled, warmUp, workerVars, mpc, measureDone>>

Caller == WaitForWorkers \/ AnalyzeTable \/ MeasureCancel \/ DrainMeasure

Goroutines == Measuring \/ Caller \/ \E w \in Workers : Worker(w)

Next == Cancel \/ Goroutines

Spec == Init /\ [][Next]_vars

\* Every goroutine keeps running, timers fire and database calls return.
\* Nothing is assumed of the cancellation.
FairSpec ==
  /\ Spec
  /\ WF_vars(Measuring)
  /\ WF_vars(Caller)
  /\ \A w \in Workers : WF_vars(Worker(w))

-----------------------------------------------------------------------------
\* Every variable has its type; in particular measureCh, whose buffer holds one
\* message, never makes the deferred send wait.
TypeOK ==
  /\ p \in Properties
  /\ exit \in ExitStates
  /\ canceled \in {0, 1} /\ warmUp \in {0, 1} /\ measureDone \in {0, 1}
  /\ wpc \in [Workers -> WorkerStates]
  /\ opsDone \in [Workers -> Nat] /\ measured \in [Workers -> Nat]
  /\ wasted \in [Workers -> Nat] /\ late \in [Workers -> Nat]
  /\ run \in RunStates
  /\ mpc \in MeasureStates
  /\ measureCh \in {0, 1}

\* When Run returns without having been cancelled, the shares of the workers
\* add up to the operations asked for, and each worker has gone past its share
\* by less than one batch (newWorker divides, run counts whole batches).
AllWorkDone ==
  run = "returned" /\ canceled = 0 =>
    MapThenSumSet(LAMBDA w : opsDone[w], Workers)
      \in p.totalOpCount..(p.totalOpCount + ThreadCount * (p.batchSize - 1))

\* The wrapper and the worker read the warm-up flag at different moments, so a
\* round that straddles the end of the warm-up is counted without having been
\* measured: one round of each worker at most, and never the other way.
MeasuredAsCounted ==
  p.batchDB = 1 =>
    \A w \in Workers :
      LET counted == opsDone[w] \div p.batchSize
      IN measured[w] \in (counted - 1)..(counted + IF wpc[w] = "count" THEN 1 ELSE 0)

\* After the cancellation a worker begins at most one more round: the context
\* is looked at after every round, not before it.
OneRoundAfterCancel == \A w \in Workers : late[w] <= 1

\* When Run returns no goroutine of it is left: measurement.Output, which
\* reads the measurer without a lock, runs alone; and the table is analyzed
\* only when every worker has been cleaned up.
NothingLeftBehind ==
  /\ run # "wait" => \A w \in Workers : wpc[w] = "done"
  /\ run = "returned" => mpc = "gone" /\ measureCh = 0

\* Run ends: whatever the warm-up, the cancellation and the batches, the caller
\* gets the message of the measuring goroutine ("blocks until all workers end").
RunReturns == <>(run = "returned" \/ exit # "no")
=============================================================================
