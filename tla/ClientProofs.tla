---------------------------- MODULE ClientProofs ----------------------------
(***************************************************************************)
(* For any number of workers, operations, batch sizes and signals: when    *)
(* Client.Run returns nothing of it is left running and the work asked for *)
(* is done, a cancellation costs one round, and what is measured is what   *)
(* is counted.  All of this holds inside the process, whatever cancels the *)
(* run or ends it, and the database is closed and the measurements are     *)
(* printed only when no goroutine of the run is left.                      *)
(***************************************************************************)
EXTENDS Process, SumLemmas, TLAPS

\* Leaves are left to Zenon; those with arithmetic or functions cite SMT.
USE Zenon

-----------------------------------------------------------------------------
(* The inductive invariant, one conjunct per theorem. *)

(* Who has to be finished where the caller is, and where the one message   *)
(* of the measuring goroutine is: not sent, in the channel, or received.   *)
CallerInv ==
    /\ run # "wait" => \A w \in Workers : wpc[w] = "done"
    /\ mpc # "gone" => measureCh = 0 /\ run # "returned"
    /\ mpc = "gone" /\ measureCh = 0 => run = "returned"
    /\ run = "returned" => measureCh = 0

(* A late round is the only one, and no worker can begin another after it. *)
CancelInv ==
    /\ OneRoundAfterCancel
    /\ canceled = 0 => \A w \in Workers : late[w] = 0
    /\ \A w \in Workers : wpc[w] \in {"start", "loop"} => late[w] = 0

(* How far a worker may be when it is at each point of its loop. *)
ShareInv ==
    \A w \in Workers :
      /\ wpc[w] # "start" => p.totalOpCount >= ThreadCount
      /\ wpc[w] = "start" => opsDone[w] = 0
      /\ wpc[w] \in {"operating", "count"} => opsDone[w] < OpCount(w)
      /\ opsDone[w] < OpCount(w) + p.batchSize
      /\ canceled = 0 /\ wpc[w] \in {"cleanup", "done"} => opsDone[w] >= OpCount(w)

(* Nothing is measured or counted before the warm-up ends, and afterwards  *)
(* a round that is not counted yet keeps the two apart.                    *)
Rounds(w) == opsDone[w] \div p.batchSize

MeasureInv ==
    /\ warmUp = 1 => \A w \in Workers : opsDone[w] = 0 /\ measured[w] = 0
    /\ p.batchDB = 1 => \A w \in Workers :
         IF wpc[w] = "count" THEN measured[w] \in Rounds(w)..(Rounds(w) + 1)
                             ELSE measured[w] \in (Rounds(w) - 1)..Rounds(w)

ClientInv == TypeOK /\ CallerInv /\ CancelInv /\ ShareInv /\ MeasureInv

-----------------------------------------------------------------------------

(* The properties of a run are numbers. *)
LEMMA PropertyTypes ==
    ASSUME TypeOK
    PROVE  p.totalOpCount \in Nat /\ p.batchSize \in Nat \ {0} /\ p.batchDB \in {0, 1}
  BY CountAssumption, BatchAssumption DEF TypeOK, Properties

(* Every step of a goroutine of Run keeps the types. *)
LEMMA GoroutinesTypeOK ==
    ASSUME TypeOK, CallerInv, Goroutines
    PROVE  TypeOK'
<1> USE DEF TypeOK, CallerInv, WorkerStates, RunStates, MeasureStates, ExitStates,
           Properties, workerVars, measureVars
<1>1. ASSUME NEW w \in Workers, Worker(w) PROVE TypeOK'
  <2>1. CASE StartWorker(w)
    BY <2>1 DEF StartWorker, WorkerGoto
  <2>2. CASE BeginRound(w)
    BY <2>2, SMT DEF BeginRound, WorkerGoto
  <2>3. CASE LeaveLoop(w)
    BY <2>3 DEF LeaveLoop, WorkerGoto
  <2>4. CASE EndOperation(w)
    BY <2>4, SMT DEF EndOperation, WorkerGoto
  <2>5. CASE CountRound(w)
    BY <2>5, PropertyTypes, SMT DEF CountRound, WorkerGoto
  <2>6. CASE Poll(w)
    BY <2>6 DEF Poll, WorkerGoto
  <2>7. CASE CleanupWorker(w)
    BY <2>7 DEF CleanupWorker, WorkerGoto
  <2> QED
    BY <1>1, <2>1, <2>2, <2>3, <2>4, <2>5, <2>6, <2>7 DEF Worker
<1>2. CASE Measuring
  <2>1. CASE WarmUpInterrupted
    BY <2>1 DEF WarmUpInterrupted, MeasureGoto
  <2>2. CASE WarmUpTimer
    BY <2>2 DEF WarmUpTimer, MeasureGoto
  <2>3. CASE FinishWarmUp
    BY <2>3 DEF FinishWarmUp, MeasureGoto
  <2>4. CASE StopTicking
    BY <2>4 DEF StopTicking, MeasureGoto
  <2>5. CASE SendDone
    BY <2>5, SMT DEF SendDone, MeasureGoto
  <2> QED
    BY <1>2, <2>1, <2>2, <2>3, <2>4, <2>5 DEF Measuring
<1>3. CASE Caller
  <2>1. CASE WaitForWorkers
    BY <2>1 DEF WaitForWorkers, RunGoto
  <2>2. CASE AnalyzeTable
    BY <2>2 DEF AnalyzeTable, RunGoto
  <2>3. CASE MeasureCancel
    BY <2>3 DEF MeasureCancel, RunGoto
  <2>4. CASE DrainMeasure
    BY <2>4, SMT DEF DrainMeasure, RunGoto
  <2> QED
    BY <1>3, <2>1, <2>2, <2>3, <2>4 DEF Caller
<1> QED
  BY <1>1, <1>2, <1>3 DEF Goroutines

(* Run returns only after it has received the message, which is sent once. *)
LEMMA GoroutinesCallerInv ==
    ASSUME TypeOK, CallerInv, Goroutines
    PROVE  CallerInv'
<1> USE DEF TypeOK, CallerInv, WorkerStates, RunStates, MeasureStates,
           workerVars, measureVars
<1>1. ASSUME NEW w \in Workers, Worker(w) PROVE CallerInv'
  <2>1. CASE StartWorker(w)
    BY <2>1 DEF StartWorker, WorkerGoto
  <2>2. CASE BeginRound(w)
    BY <2>2 DEF BeginRound, WorkerGoto
  <2>3. CASE LeaveLoop(w)
    BY <2>3 DEF LeaveLoop, WorkerGoto
  <2>4. CASE EndOperation(w)
    BY <2>4 DEF EndOperation, WorkerGoto
  <2>5. CASE CountRound(w)
    BY <2>5 DEF CountRound, WorkerGoto
  <2>6. CASE Poll(w)
    BY <2>6 DEF Poll, WorkerGoto
  <2>7. CASE CleanupWorker(w)
    BY <2>7 DEF CleanupWorker, WorkerGoto
  <2> QED
    BY <1>1, <2>1, <2>2, <2>3, <2>4, <2>5, <2>6, <2>7 DEF Worker
<1>2. CASE Measuring
  <2>1. CASE WarmUpInterrupted
    BY <2>1 DEF WarmUpInterrupted, MeasureGoto
  <2>2. CASE WarmUpTimer
    BY <2>2 DEF WarmUpTimer, MeasureGoto
  <2>3. CASE FinishWarmUp
    BY <2>3 DEF FinishWarmUp, MeasureGoto
  <2>4. CASE StopTicking
    BY <2>4 DEF StopTicking, MeasureGoto
  <2>5. CASE SendDone
    BY <2>5, SMT DEF SendDone, MeasureGoto
  <2> QED
    BY <1>2, <2>1, <2>2, <2>3, <2>4, <2>5 DEF Measuring
<1>3. CASE Caller
  <2>1. CASE WaitForWorkers
    BY <2>1 DEF WaitForWorkers, RunGoto
  <2>2. CASE AnalyzeTable
    BY <2>2 DEF AnalyzeTable, RunGoto
  <2>3. CASE MeasureCancel
    BY <2>3 DEF MeasureCancel, RunGoto
  <2>4. CASE DrainMeasure
    BY <2>4, SMT DEF DrainMeasure, RunGoto
  <2> QED
    BY <1>3, <2>1, <2>2, <2>3, <2>4 DEF Caller
<1> QED
  BY <1>1, <1>2, <1>3 DEF Goroutines

(* A worker looks at the context after every round. *)
LEMMA GoroutinesCancelInv ==
    ASSUME TypeOK, CancelInv, Goroutines
    PROVE  CancelInv'
<1> USE DEF TypeOK, CancelInv, OneRoundAfterCancel, WorkerStates, workerVars, measureVars
<1>1. ASSUME NEW w \in Workers, Worker(w) PROVE CancelInv'
  <2>1. CASE StartWorker(w)
    BY <2>1 DEF StartWorker, WorkerGoto
  <2>2. CASE BeginRound(w)
    BY <2>2, SMT DEF BeginRound, WorkerGoto
  <2>3. CASE LeaveLoop(w)
    BY <2>3 DEF LeaveLoop, WorkerGoto
  <2>4. CASE EndOperation(w)
    BY <2>4 DEF EndOperation, WorkerGoto
  <2>5. CASE CountRound(w)
    BY <2>5 DEF CountRound, WorkerGoto
  <2>6. CASE Poll(w)
    BY <2>6 DEF Poll, WorkerGoto
  <2>7. CASE CleanupWorker(w)
    BY <2>7 DEF CleanupWorker, WorkerGoto
  <2> QED
    BY <1>1, <2>1, <2>2, <2>3, <2>4, <2>5, <2>6, <2>7 DEF Worker
<1>2. CASE Measuring
  <2>1. CASE WarmUpInterrupted
    BY <2>1 DEF WarmUpInterrupted, MeasureGoto
  <2>2. CASE WarmUpTimer
    BY <2>2 DEF WarmUpTimer, MeasureGoto
  <2>3. CASE FinishWarmUp
    BY <2>3 DEF FinishWarmUp, MeasureGoto
  <2>4. CASE StopTicking
    BY <2>4 DEF StopTicking, MeasureGoto
  <2>5. CASE SendDone
    BY <2>5 DEF SendDone, MeasureGoto
  <2> QED
    BY <1>2, <2>1, <2>2, <2>3, <2>4, <2>5 DEF Measuring
<1>3. CASE Caller
  <2>1. CASE WaitForWorkers
    BY <2>1 DEF WaitForWorkers, RunGoto
  <2>2. CASE AnalyzeTable
    BY <2>2 DEF AnalyzeTable, RunGoto
  <2>3. CASE MeasureCancel
    BY <2>3 DEF MeasureCancel, RunGoto
  <2>4. CASE DrainMeasure
    BY <2>4 DEF DrainMeasure, RunGoto
  <2> QED
    BY <1>3, <2>1, <2>2, <2>3, <2>4 DEF Caller
<1> QED
  BY <1>1, <1>2, <1>3 DEF Goroutines

(* The share of a worker is a number, and none is empty when there are at  *)
(* least as many operations as workers.                                    *)
LEMMA ShareType ==
    ASSUME TypeOK, NEW w \in Workers
    PROVE  /\ OpCount(w) \in Nat
           /\ p.totalOpCount >= ThreadCount => OpCount(w) > 0
<1>1. p.totalOpCount \in Nat /\ ThreadCount \in Nat \ {0} /\ w \in Nat
  BY PropertyTypes, ThreadAssumption, SMT DEF Workers
<1>2. ASSUME NEW n \in Nat, NEW k \in Nat \ {0}
      PROVE  n \div k \in Nat /\ (n >= k => n \div k > 0)
  <2>1. n \div k \in Nat
    BY SMT
  <2>2. n < k * (n \div k) + k
    BY SMT
  <2>3. n \div k = 0 => n < k
    BY <2>2, SMT
  <2> QED
    BY <2>1, <2>3, SMT
<1> QED
  BY <1>1, <1>2, SMT DEF OpCount

(* Nothing but the loop changes how far a worker is, and the workers that  *)
(* do not take the step stay where they are.                               *)
LEMMA GoroutinesShareInv ==
    ASSUME TypeOK, ShareInv, Goroutines
    PROVE  ShareInv'
<1> USE DEF ShareInv, workerVars, measureVars
<1>0. /\ \A w \in Workers : OpCount(w) \in Nat /\ opsDone[w] \in Nat
      /\ \A w \in Workers : p.totalOpCount >= ThreadCount => OpCount(w) > 0
      /\ p.batchSize \in Nat \ {0} /\ p.totalOpCount \in Nat /\ ThreadCount \in Nat
      /\ wpc \in [Workers -> WorkerStates] /\ opsDone \in [Workers -> Nat]
  BY ShareType, PropertyTypes, ThreadAssumption DEF TypeOK
<1>1. p' = p /\ \A w \in Workers : OpCount(w)' = OpCount(w)
  <2>1. p' = p
    BY DEF Goroutines, Worker, Measuring, Caller, WorkerGoto, RunGoto, MeasureGoto,
           StartWorker, BeginRound, LeaveLoop, EndOperation, CountRound, Poll, CleanupWorker,
           WarmUpInterrupted, WarmUpTimer, FinishWarmUp, StopTicking, SendDone,
           WaitForWorkers, AnalyzeTable, MeasureCancel, DrainMeasure
  <2> QED
    BY <2>1 DEF OpCount
<1>2. ASSUME NEW w \in Workers, Worker(w) PROVE ShareInv'
  <2>1. CASE StartWorker(w)
    BY <1>0, <1>1, <2>1, SMT DEF StartWorker, WorkerGoto
  <2>2. CASE BeginRound(w)
    BY <1>0, <1>1, <2>2, SMT DEF BeginRound, WorkerGoto
  <2>3. CASE LeaveLoop(w)
    BY <1>0, <1>1, <2>3, SMT DEF LeaveLoop, WorkerGoto
  <2>4. CASE EndOperation(w)
    BY <1>0, <1>1, <2>4 DEF EndOperation, WorkerGoto
  <2>5. CASE CountRound(w)
    BY <1>0, <1>1, <2>5, SMT DEF CountRound, WorkerGoto
  <2>6. CASE Poll(w)
    BY <1>0, <1>1, <2>6, SMT DEF Poll, WorkerGoto
  <2>7. CASE CleanupWorker(w)
    BY <1>0, <1>1, <2>7 DEF CleanupWorker, WorkerGoto
  <2> QED
    BY <1>2, <2>1, <2>2, <2>3, <2>4, <2>5, <2>6, <2>7 DEF Worker
<1>3. CASE Measuring \/ Caller
  <2>1. UNCHANGED <<canceled, wpc, opsDone>>
    BY <1>3 DEF Measuring, Caller, WarmUpInterrupted, WarmUpTimer, FinishWarmUp, StopTicking,
                SendDone, WaitForWorkers, AnalyzeTable, MeasureCancel, DrainMeasure
  <2> QED
    BY <1>1, <2>1
<1> QED
  BY <1>2, <1>3 DEF Goroutines

(* A round is measured and counted once, and the flag never comes back.   *)
LEMMA GoroutinesMeasureInv ==
    ASSUME TypeOK, MeasureInv, Goroutines
    PROVE  MeasureInv'
<1> USE DEF MeasureInv, workerVars, measureVars
<1>0. /\ \A w \in Workers : opsDone[w] \in Nat /\ measured[w] \in Nat
      /\ p.batchSize \in Nat \ {0} /\ p.batchDB \in {0, 1} /\ warmUp \in {0, 1}
      /\ wpc \in [Workers -> WorkerStates] /\ opsDone \in [Workers -> Nat]
      /\ measured \in [Workers -> Nat]
  BY PropertyTypes DEF TypeOK
<1>1. \A w \in Workers :
        /\ Rounds(w) \in Nat
        /\ opsDone[w] = 0 => Rounds(w) = 0
        /\ (opsDone[w] + p.batchSize) \div p.batchSize = Rounds(w) + 1
  <2> TAKE w \in Workers
  <2>1. opsDone[w] \in Nat /\ p.batchSize \in Nat \ {0}
    BY <1>0
  <2> HIDE DEF MeasureInv
  <2> QED
    BY <2>1, OneMoreRound DEF Rounds
<1>2. ASSUME NEW w \in Workers, Worker(w) PROVE MeasureInv'
  <2>0. p' = p /\ warmUp' = warmUp
    BY <1>2 DEF Worker, WorkerGoto, StartWorker, BeginRound, LeaveLoop, EndOperation,
                CountRound, Poll, CleanupWorker
  <2>1. CASE CountRound(w)
    <3>1. CASE warmUp = 0
      <4>1. \A v \in Workers : Rounds(v)' = IF v = w THEN Rounds(w) + 1 ELSE Rounds(v)
        BY <1>0, <1>1, <2>0, <2>1, <3>1 DEF CountRound, WorkerGoto, Rounds
      <4> QED
        BY <1>0, <1>1, <2>0, <2>1, <3>1, <4>1, SMT DEF CountRound, WorkerGoto
    <3>2. CASE warmUp = 1
      <4>1. \A v \in Workers : Rounds(v)' = Rounds(v)
        BY <2>0, <2>1, <3>2, SMT DEF CountRound, Rounds
      <4> QED
        BY <1>0, <1>1, <2>0, <2>1, <3>2, <4>1, SMT DEF CountRound, WorkerGoto
    <3> QED
      BY <1>0, <3>1, <3>2
  <2>2. CASE ~CountRound(w)
    <3>1. opsDone' = opsDone
      BY <1>2, <2>2 DEF Worker, StartWorker, BeginRound, LeaveLoop, EndOperation,
                        Poll, CleanupWorker
    <3>2. \A v \in Workers : Rounds(v)' = Rounds(v)
      BY <2>0, <3>1 DEF Rounds
    <3>3. CASE EndOperation(w)
      BY <1>0, <1>1, <2>0, <3>1, <3>2, <3>3, SMT DEF EndOperation, WorkerGoto
    <3>4. CASE ~EndOperation(w)
      <4>1. /\ measured' = measured
            /\ \A v \in Workers : (wpc'[v] = "count") <=> (wpc[v] = "count")
        BY <1>0, <1>2, <2>2, <3>4 DEF Worker, StartWorker, BeginRound, LeaveLoop, Poll,
                                      CleanupWorker, WorkerGoto
      <4> QED
        BY <2>0, <3>1, <3>2, <4>1
    <3> QED
      BY <3>3, <3>4
  <2> QED
    BY <2>1, <2>2
<1>3. CASE Measuring \/ Caller
  <2>1. /\ UNCHANGED <<p, wpc, opsDone, measured>>
        /\ warmUp' = warmUp \/ warmUp' = 0
    BY <1>3 DEF Measuring, Caller, WarmUpInterrupted, WarmUpTimer, FinishWarmUp, StopTicking,
                SendDone, WaitForWorkers, AnalyzeTable, MeasureCancel, DrainMeasure,
                MeasureGoto, RunGoto
  <2>2. \A v \in Workers : Rounds(v)' = Rounds(v)
    BY <2>1 DEF Rounds
  <2> QED
    BY <2>1, <2>2, SMT
<1> QED
  BY <1>2, <1>3 DEF Goroutines

-----------------------------------------------------------------------------
(* The invariant holds at the start: InitMeasure has set the flag. *)
LEMMA ClientInit == Init => ClientInv
<1> SUFFICES ASSUME Init PROVE ClientInv
  OBVIOUS
<1>1. TypeOK
  BY DEF Init, TypeOK, Properties, WorkerStates, RunStates, MeasureStates, ExitStates
<1>2. CallerInv /\ CancelInv
  BY SMT DEF Init, CallerInv, CancelInv, OneRoundAfterCancel
<1>3. ShareInv
  <2>1. \A w \in Workers : OpCount(w) \in Nat
    BY <1>1, ShareType
  <2> QED
    BY <1>1, <2>1, PropertyTypes, SMT DEF Init, ShareInv
<1>4. MeasureInv
  <2>1. \A w \in Workers : Rounds(w) = 0
    BY <1>1, PropertyTypes, OneMoreRound DEF Init, Rounds
  <2> QED
    BY <2>1, SMT DEF Init, MeasureInv
<1> QED
  BY <1>1, <1>2, <1>3, <1>4 DEF ClientInv

(* A step of a goroutine keeps it. *)
LEMMA GoroutinesInv ==
    ASSUME ClientInv, Goroutines
    PROVE  ClientInv'
  BY GoroutinesTypeOK, GoroutinesCallerInv, GoroutinesCancelInv, GoroutinesShareInv,
     GoroutinesMeasureInv DEF ClientInv

(* So does whatever cancels the context or ends the process. *)
LEMMA OutsideInv ==
    ASSUME ClientInv,
           UNCHANGED <<p, warmUp, workerVars, run, measureVars, measureDone>>,
           canceled' = canceled \/ canceled' = 1, exit' \in ExitStates
    PROVE  ClientInv'
<1> USE DEF ClientInv, workerVars, measureVars
<1>1. TypeOK' /\ CallerInv' /\ CancelInv'
  BY DEF TypeOK, CallerInv, CancelInv, OneRoundAfterCancel
<1>2. \A w \in Workers : OpCount(w)' = OpCount(w) /\ Rounds(w)' = Rounds(w)
  BY DEF OpCount, Rounds
<1>3. ShareInv'
  BY <1>2, SMT DEF ShareInv
<1>4. MeasureInv'
  BY <1>2 DEF MeasureInv
<1> QED
  BY <1>1, <1>3, <1>4

(* Every step of the workers, the measuring goroutine, Run and the caller  *)
(* that cancels keeps the invariant.                                       *)
LEMMA NextInv == ClientInv /\ [Next]_vars => ClientInv'
<1> SUFFICES ASSUME ClientInv, [Next]_vars PROVE ClientInv'
  OBVIOUS
<1>1. exit \in ExitStates
  BY DEF ClientInv, TypeOK
<1>2. CASE Cancel
  BY <1>1, <1>2, OutsideInv DEF Cancel
<1>3. CASE Goroutines
  BY <1>3, GoroutinesInv
<1>4. CASE UNCHANGED vars
  BY <1>1, <1>4, OutsideInv DEF vars
<1> QED
  BY <1>2, <1>3, <1>4 DEF Next

-----------------------------------------------------------------------------
(* When Run returns, no worker and no measuring goroutine is left, and the *)
(* table is analyzed after all workers have cleaned up.                    *)
THEOREM RunLeavesNothing == Spec => []NothingLeftBehind
<1>1. ClientInv => NothingLeftBehind
  BY DEF ClientInv, CallerInv, TypeOK, NothingLeftBehind
<1> QED
  BY ClientInit, NextInv, <1>1, PTL DEF Spec

(* A worker that is cancelled finishes the round it is in and begins one   *)
(* more at most.                                                           *)
THEOREM CancelStopsWorkers == Spec => []OneRoundAfterCancel
<1>1. ClientInv => OneRoundAfterCancel
  BY DEF ClientInv, CancelInv
<1> QED
  BY ClientInit, NextInv, <1>1, PTL DEF Spec

(* What the invariant says of rounds is what the property says. *)
LEMMA MeasuredInv == ASSUME ClientInv PROVE MeasuredAsCounted
<1>1. \A w \in Workers : Rounds(w) \in Nat /\ measured[w] \in Nat
  <2>1. \A w \in Workers : opsDone[w] \in Nat /\ measured[w] \in Nat
    BY DEF ClientInv, TypeOK
  <2>2. p.batchSize \in Nat \ {0}
    BY PropertyTypes DEF ClientInv
  <2> QED
    BY <2>1, <2>2, OneMoreRound DEF Rounds
<1>2. p.batchDB = 1 => \A w \in Workers :
        measured[w] \in (Rounds(w) - 1)..(Rounds(w) + IF wpc[w] = "count" THEN 1 ELSE 0)
  BY <1>1, SMT DEF ClientInv, MeasureInv
<1> QED
  BY <1>2 DEF MeasuredAsCounted, Rounds

(* Each worker misses at most one of the rounds it counts in the           *)
(* measurements, and the wrapper measures none that is not counted.        *)
THEOREM RoundsAreMeasured == Spec => []MeasuredAsCounted
<1>1. ClientInv => MeasuredAsCounted
  BY MeasuredInv
<1> QED
  BY ClientInit, NextInv, <1>1, PTL DEF Spec

-----------------------------------------------------------------------------
(* The shares newWorker hands out to the first n workers. *)
FirstShares(n) ==
    n * (p.totalOpCount \div ThreadCount)
      + IF n < p.totalOpCount % ThreadCount THEN n ELSE p.totalOpCount % ThreadCount

(* All shares together are the operations asked for. *)
LEMMA SharesAddUp ==
    ASSUME TypeOK
    PROVE  /\ \A n \in 0..ThreadCount : FirstShares(n) \in Int
           /\ FirstShares(0) = 0
           /\ \A n \in 0..(ThreadCount - 1) : FirstShares(n + 1) = FirstShares(n) + OpCount(n)
           /\ FirstShares(ThreadCount) = p.totalOpCount
<1>1. PICK q, r, N : q = p.totalOpCount \div ThreadCount /\ r = p.totalOpCount % ThreadCount
                     /\ N = ThreadCount
  OBVIOUS
<1>2. q \in Nat /\ r \in 0..(N - 1) /\ p.totalOpCount = N * q + r /\ N \in Nat \ {0}
  BY <1>1, PropertyTypes, ThreadAssumption, QuotientAndRemainder
<1>3. ASSUME NEW n \in Nat
      PROVE  n * q \in Nat /\ (n + 1) * q = n * q + q /\ 0 * q = 0
  BY <1>2, SMT
<1>4. \A n \in Nat : FirstShares(n) = n * q + IF n < r THEN n ELSE r
  BY <1>1 DEF FirstShares
<1>5. \A n \in 0..(N - 1) : OpCount(n) = q + IF n < r THEN 1 ELSE 0
  BY <1>1 DEF OpCount
<1>6. \A n \in 0..N : FirstShares(n) \in Int
  BY <1>2, <1>3, <1>4, SMT
<1>7. FirstShares(0) = 0
  BY <1>2, <1>3, <1>4, SMT
<1>8. ASSUME NEW n \in 0..(N - 1) PROVE FirstShares(n + 1) = FirstShares(n) + OpCount(n)
  <2>1. n \in Nat /\ n + 1 \in Nat /\ n * q \in Nat /\ (n + 1) * q = n * q + q
    BY <1>2, <1>3, SMT
  <2>2. /\ FirstShares(n) = n * q + IF n < r THEN n ELSE r
        /\ FirstShares(n + 1) = (n + 1) * q + IF n + 1 < r THEN n + 1 ELSE r
        /\ OpCount(n) = q + IF n < r THEN 1 ELSE 0
    BY <1>4, <1>5, <2>1
  <2> QED
    BY <1>2, <2>1, <2>2, SMT
<1>9. FirstShares(N) = p.totalOpCount
  BY <1>2, <1>4, SMT
<1> QED
  BY <1>1, <1>6, <1>7, <1>8, <1>9

(* When every worker has done its share, they have done all of it. *)
LEMMA SharesAreDone == ASSUME ClientInv PROVE AllWorkDone
<1> SUFFICES ASSUME run = "returned", canceled = 0
             PROVE  SumOver(opsDone, 0..(ThreadCount - 1))
                      \in p.totalOpCount..(p.totalOpCount + ThreadCount * (p.batchSize - 1))
  BY DEF AllWorkDone, SumOver, Workers
<1>1. PICK N, b : N = ThreadCount /\ b = p.batchSize - 1
  OBVIOUS
<1>2. N \in Nat /\ b \in Nat
  BY <1>1, PropertyTypes, ThreadAssumption, SMT DEF ClientInv
<1>3. \A n \in 0..(N - 1) : /\ opsDone[n] \in Int /\ OpCount(n) \in Int
                            /\ OpCount(n) <= opsDone[n] /\ opsDone[n] <= OpCount(n) + b
  <2>1. \A w \in Workers : wpc[w] = "done" /\ opsDone[w] \in Nat /\ OpCount(w) \in Nat
    BY ShareType DEF ClientInv, CallerInv, TypeOK
  <2> QED
    BY <1>1, <1>2, <2>1, PropertyTypes, SMT DEF ClientInv, ShareInv, Workers
<1>4. PICK lo : lo = [n \in 0..N |-> FirstShares(n)]
  OBVIOUS
<1>5. PICK hi : hi = [n \in 0..N |-> FirstShares(n) + n * b]
  OBVIOUS
<1>6. \A n \in 0..N : FirstShares(n) \in Int /\ n * b \in Int
  BY <1>1, <1>2, SharesAddUp, SMT DEF ClientInv
<1>7. lo \in [0..N -> Int] /\ hi \in [0..N -> Int]
  BY <1>4, <1>5, <1>6, SMT
<1>8. lo[0] <= 0 /\ hi[0] >= 0
  BY <1>1, <1>2, <1>4, <1>5, SharesAddUp, SMT DEF ClientInv
<1>9. ASSUME NEW n \in 0..(N - 1)
      PROVE  lo[n + 1] <= lo[n] + opsDone[n] /\ hi[n] + opsDone[n] <= hi[n + 1]
  <2>1. FirstShares(n + 1) = FirstShares(n) + OpCount(n)
    BY <1>1, SharesAddUp DEF ClientInv
  <2>2. (n + 1) * b = n * b + b
    BY <1>2, SMT
  <2>3. n \in 0..N /\ n + 1 \in 0..N
    BY <1>2, SMT
  <2>4. /\ lo[n] = FirstShares(n) /\ lo[n + 1] = FirstShares(n + 1)
        /\ hi[n] = FirstShares(n) + n * b /\ hi[n + 1] = FirstShares(n + 1) + (n + 1) * b
    BY <1>4, <1>5, <2>3
  <2>5. /\ FirstShares(n) \in Int /\ n * b \in Int /\ opsDone[n] \in Int /\ OpCount(n) \in Int
        /\ OpCount(n) <= opsDone[n] /\ opsDone[n] <= OpCount(n) + b
    BY <1>3, <1>6, <2>3
  <2> QED
    BY <1>2, <2>1, <2>2, <2>4, <2>5, SMT
<1>10. SumOver(opsDone, 0..(N - 1)) \in lo[N]..hi[N]
  BY <1>2, <1>3, <1>7, <1>8, <1>9, SumBounds
<1>11. lo[N] = p.totalOpCount /\ hi[N] = p.totalOpCount + N * b
  BY <1>1, <1>2, <1>4, <1>5, SharesAddUp, SMT DEF ClientInv
<1> QED
  BY <1>1, <1>10, <1>11

(* When Run returns by itself, its workers together have done the          *)
(* operations that were asked for, and at most a batch less one each more. *)
THEOREM RunDoesTheWork == Spec => []AllWorkDone
<1>1. ClientInv => AllWorkDone
  BY SharesAreDone
<1> QED
  BY ClientInit, NextInv, <1>1, PTL DEF Spec

-----------------------------------------------------------------------------
(* The process. *)

(* Main moves on only after Run has returned, and closes the database last. *)
MainInv ==
    /\ main # "execute" => run = "returned"
    /\ dbOpen = 0 => main \in {"signalDone", "return"}
    /\ closeDone > 0 => main = "return"

ProcessInv == ClientInv /\ ProcessTypeOK /\ MainInv

(* A run that has returned does nothing more. *)
LEMMA ReturnedForGood ==
    ASSUME run = "returned", Goroutines
    PROVE  run' = "returned"
  BY DEF Goroutines, Worker, Measuring, Caller, WorkerGoto, RunGoto, MeasureGoto,
         StartWorker, BeginRound, LeaveLoop, EndOperation, CountRound, Poll, CleanupWorker,
         WarmUpInterrupted, WarmUpTimer, FinishWarmUp, StopTicking, SendDone,
         WaitForWorkers, AnalyzeTable, MeasureCancel, DrainMeasure

(* The process starts with the run about to begin. *)
LEMMA ProcessInitInv == ProcessInit => ProcessInv
<1> SUFFICES ASSUME ProcessInit PROVE ProcessInv
  OBVIOUS
<1>1. ClientInv
  BY ClientInit DEF ProcessInit
<1>2. p.doTransactions \in {0, 1}
  BY <1>1 DEF ClientInv, TypeOK, Properties
<1> QED
  BY <1>1, <1>2, SignalAssumption, SMT
  DEF ProcessInit, ProcessInv, ProcessTypeOK, MainInv, ClientInv

(* A step of the run leaves main and the signals alone. *)
LEMMA ClientStepInv ==
    ASSUME ProcessInv, ClientStep(Goroutines)
    PROVE  ProcessInv'
<1>1. ClientInv'
  BY GoroutinesInv DEF ProcessInv, ClientStep
<1>2. UNCHANGED <<main, dbOpen, promeWriter, pusher, sent, sc, spc, closeDone>>
  BY DEF ClientStep, mainVars, signalVars
<1>3. MainInv'
  BY <1>2, ReturnedForGood DEF ProcessInv, MainInv, ClientStep
<1> QED
  BY <1>1, <1>2, <1>3 DEF ProcessInv, ProcessTypeOK, ClientInv

(* A step of main, of the signal goroutine or of the pusher leaves the run *)
(* as it is, but for cancelling or ending it.                              *)
LEMMA ProcessStepInv ==
    ASSUME ProcessInv, SendSignal \/ SignalGoroutine \/ Main \/ Push
    PROVE  ProcessInv'
<1> USE DEF ProcessInv, ProcessTypeOK, MainInv, MainGoto, clientVars, vars, mainVars, signalVars
<1>0. canceled \in {0, 1} /\ exit \in ExitStates
  BY DEF ClientInv, TypeOK
<1>1. CASE SendSignal
  <2>1. ClientInv'
    BY <1>0, <1>1, OutsideInv DEF SendSignal, ExitStates
  <2> QED
    BY <1>1, <2>1, SignalAssumption, SMT DEF SendSignal, ClientInv
<1>2. CASE ReceiveSignal
  <2>1. ClientInv'
    BY <1>0, <1>2, OutsideInv DEF ReceiveSignal, ExitStates
  <2> QED
    BY <1>2, <2>1 DEF ReceiveSignal, ClientInv
<1>3. CASE SecondSignal
  <2>1. ClientInv'
    BY <1>0, <1>3, OutsideInv DEF SecondSignal, ExitStates
  <2> QED
    BY <1>3, <2>1 DEF SecondSignal, ClientInv
<1>4. CASE GraceOver
  <2>1. ClientInv'
    BY <1>0, <1>4, OutsideInv DEF GraceOver, ExitStates
  <2> QED
    BY <1>4, <2>1 DEF GraceOver, ClientInv
<1>5. CASE SeeClosed
  <2>1. ClientInv'
    BY <1>0, <1>5, OutsideInv DEF SeeClosed, ExitStates
  <2> QED
    BY <1>5, <2>1, SMT DEF SeeClosed, ClientInv
<1>6. CASE Output
  <2>1. ClientInv'
    BY <1>0, <1>6, OutsideInv DEF Output, ExitStates
  <2> QED
    BY <1>6, <2>1 DEF Output, ClientInv
<1>7. CASE OutputFails
  <2>1. ClientInv'
    BY <1>0, <1>7, OutsideInv DEF OutputFails, ExitStates
  <2> QED
    BY <1>7, <2>1 DEF OutputFails, ClientInv
<1>8. CASE GlobalCancel
  <2>1. ClientInv'
    BY <1>0, <1>8, OutsideInv DEF GlobalCancel, ExitStates
  <2> QED
    BY <1>8, <2>1 DEF GlobalCancel, ClientInv
<1>9. CASE CloseGlobals
  <2>1. ClientInv'
    BY <1>0, <1>9, OutsideInv DEF CloseGlobals, ExitStates
  <2> QED
    BY <1>9, <2>1 DEF CloseGlobals, ClientInv
<1>10. CASE SendCloseDone
  <2>1. ClientInv'
    BY <1>0, <1>10, OutsideInv DEF SendCloseDone, ExitStates
  <2> QED
    BY <1>10, <2>1, SMT DEF SendCloseDone, ClientInv
<1>11. CASE ReturnFromMain
  <2>1. ClientInv'
    BY <1>0, <1>11, OutsideInv DEF ReturnFromMain, ExitStates
  <2> QED
    BY <1>11, <2>1 DEF ReturnFromMain, ClientInv
<1>12. CASE Push
  <2>1. ClientInv'
    BY <1>0, <1>12, OutsideInv DEF Push, ExitStates
  <2> QED
    BY <1>12, <2>1 DEF Push, ClientInv
<1> QED
  BY <1>1, <1>2, <1>3, <1>4, <1>5, <1>6, <1>7, <1>8, <1>9, <1>10, <1>11, <1>12
  DEF SignalGoroutine, Main

(* Every step of main, of the signal goroutine and of Client.Run inside    *)
(* them keeps the invariant.                                               *)
LEMMA ProcessNextInv == ProcessInv /\ [ProcessNext]_processVars => ProcessInv'
<1>1. ASSUME ProcessInv, UNCHANGED processVars PROVE ProcessInv'
  <2>1. ClientInv'
    BY <1>1, OutsideInv DEF processVars, vars, ProcessInv, ClientInv, TypeOK
  <2> QED
    BY <1>1, <2>1 DEF ProcessInv, ProcessTypeOK, MainInv, ClientInv, processVars, mainVars,
                      signalVars, vars
<1> QED
  BY <1>1, ClientStepInv, ProcessStepInv DEF ProcessNext

-----------------------------------------------------------------------------
(* closeDone and measureCh never hold more than their buffers, and nothing *)
(* else of the process leaves its type.                                    *)
THEOREM ProcessTypeCorrect == ProcessSpec => []ProcessTypeOK
<1>1. ProcessInv => ProcessTypeOK
  BY DEF ProcessInv
<1> QED
  BY ProcessInitInv, ProcessNextInv, <1>1, PTL DEF ProcessSpec

(* main closes the database when no worker uses it any more. *)
THEOREM DatabaseClosedAfterUse == ProcessSpec => []ClosedAfterUse
<1>1. ProcessInv => ClosedAfterUse
  BY DEF ProcessInv, MainInv, ClientInv, CallerInv, ClosedAfterUse
<1> QED
  BY ProcessInitInv, ProcessNextInv, <1>1, PTL DEF ProcessSpec

(* measurement.Output runs alone. *)
THEOREM OutputRunsAlone == ProcessSpec => []OutputAlone
<1>1. ProcessInv => OutputAlone
  BY DEF ProcessInv, MainInv, ClientInv, CallerInv, OutputAlone
<1> QED
  BY ProcessInitInv, ProcessNextInv, <1>1, PTL DEF ProcessSpec

(* Signals change nothing of what Run promises: the work is done unless    *)
(* the context was cancelled, a cancelled worker stops after one round,    *)
(* and the rounds measured are the rounds counted.                         *)
THEOREM RunInsideProcess ==
    ProcessSpec => [](AllWorkDone /\ MeasuredAsCounted /\ OneRoundAfterCancel)
<1>1. ProcessInv => AllWorkDone /\ MeasuredAsCounted /\ OneRoundAfterCancel
  BY SharesAreDone, MeasuredInv DEF ProcessInv, ClientInv, CancelInv
<1> QED
  BY ProcessInitInv, ProcessNextInv, <1>1, PTL DEF ProcessSpec
=============================================================================
