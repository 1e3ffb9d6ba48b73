------------------------------- MODULE Process -------------------------------
(***************************************************************************)
(* The process around Client.Run: main and the goroutine that handles      *)
(* signals (cmd/go-ycsb/main.go), the end of runClientCommandFunc          *)
(* (cmd/go-ycsb/client.go) and the goroutine that pushes the measurements  *)
(* to Prometheus (pkg/measurement/measurement.go). The signal handler is   *)
(* what cancels the context of Client.                                     *)
(***************************************************************************)
EXTENDS Client

CONSTANT MaxSignals   \* bound of the model: signals sent to the process

ASSUME SignalAssumption == MaxSignals \in Nat

VARIABLES
  sent,        \* signals sent so far
  sc,          \* the channel of signals, with a buffer of one
  spc,         \* where the signal goroutine is
  main,        \* where main is
  dbOpen,      \* globalDB has not been closed
  closeDone,   \* number of messages in closeDone
  promeWriter, \* 1 when a Prometheus server is configured
  pusher       \* where the goroutine that pushes the measurements is

mainVars    == <<main, dbOpen, promeWriter, pusher>>
signalVars  == <<sent, sc, spc>>
processVars == <<vars, mainVars, signalVars, closeDone>>

\* What Client owns, but for the end of the process and the cancellation.
clientVars == <<p, warmUp, workerVars, run, measureVars, measureDone>>

ProcessInit ==
  /\ Init
  /\ sent = 0 /\ sc = 0 /\ spc = "listen"
  /\ main = "execute" /\ dbOpen = 1 /\ closeDone = 0
  /\ promeWriter \in {0, p.doTransactions} /\ pusher = "none"

ClientStep(A) == A /\ UNCHANGED <<mainVars, signalVars, closeDone>>

-----------------------------------------------------------------------------
(* The signals: signal.Notify drops one that does not fit in the channel. *)

SendSignal ==
  /\ exit = "no" /\ sent < MaxSignals
  /\ sent' = sent + 1
  /\ sc' = 1
  /\ UNCHANGED <<vars, mainVars, spc, closeDone>>

ReceiveSignal ==
  /\ exit = "no" /\ spc = "listen" /\ sc = 1
  /\ sc' = 0
  /\ spc' = "grace"
  /\ canceled' = 1
  /\ UNCHANGED <<exit, clientVars, mainVars, sent, closeDone>>

SecondSignal ==
  /\ exit = "no" /\ spc = "grace" /\ sc = 1
  /\ sc' = 0
  /\ exit' = "secondSignal"
  /\ UNCHANGED <<canceled, clientVars, mainVars, sent, spc, closeDone>>

\* Mutant: the grace period only ends for a process that has closed.
GraceOverWhenClosed ==
  /\ exit = "no" /\ spc = "grace" /\ dbOpen = 0
  /\ exit' = "gracePeriodOver"
  /\ UNCHANGED <<canceled, clientVars, mainVars, signalVars, closeDone>>

GraceOver ==
  /\ exit = "no" /\ spc = "grace"
  /\ exit' = "gracePeriodOver"
  /\ UNCHANGED <<canceled, clientVars, mainVars, signalVars, closeDone>>

SeeClosed ==
  /\ exit = "no" /\ spc = "grace" /\ closeDone > 0
  /\ closeDone' = closeDone - 1
  /\ spc' = "gone"
  /\ UNCHANGED <<vars, mainVars, sent, sc>>

SignalGoroutine == ReceiveSignal \/ SecondSignal \/ GraceOver \/ SeeClosed

-----------------------------------------------------------------------------
(* main *)

MainGoto(from, to) ==
  /\ exit = "no"
  /\ main = from
  /\ main' = to

\* Mutant: the measurements are printed as soon as the run is cancelled.
OutputWhenCanceled ==
  /\ run = "returned" \/ canceled = 1
  /\ MainGoto("execute", "cancel")
  /\ pusher' = IF promeWriter = 1 THEN "pushing" ELSE pusher
  /\ UNCHANGED <<vars, dbOpen, promeWriter, signalVars, closeDone>>

\* Run has returned: measurement.Output prints, and starts the push.
Output ==
  /\ run = "returned"
  /\ MainGoto("execute", "cancel")
  /\ pusher' = IF promeWriter = 1 THEN "pushing" ELSE pusher
  /\ UNCHANGED <<vars, dbOpen, promeWriter, signalVars, closeDone>>

\* The output file cannot be created or written: output panics.
OutputFails ==
  /\ exit = "no" /\ run = "returned" /\ main = "execute"
  /\ exit' = "outputFailed"
  /\ UNCHANGED <<canceled, clientVars, mainVars, signalVars, closeDone>>

GlobalCancel ==
  /\ MainGoto("cancel", "close")
  /\ canceled' = 1
  /\ UNCHANGED <<exit, clientVars, dbOpen, promeWriter, pusher, signalVars, closeDone>>

\* globalDB.Close and globalWorkload.Close.
CloseGlobals ==
  /\ MainGoto("close", "signalDone")
  /\ dbOpen' = 0
  /\ UNCHANGED <<vars, promeWriter, pusher, signalVars, closeDone>>

\* Mutant: closeDone has no buffer, so main waits for the signal goroutine.
SendCloseDoneUnbuffered ==
  /\ spc = "grace"
  /\ MainGoto("signalDone", "return")
  /\ spc' = "gone"
  /\ UNCHANGED <<vars, dbOpen, promeWriter, pusher, sent, sc, closeDone>>

\* Mutant: each of the two things closed is reported.
SendCloseDoneTwice ==
  /\ MainGoto("signalDone", "return")
  /\ closeDone' = closeDone + 2
  /\ UNCHANGED <<vars, dbOpen, promeWriter, pusher, signalVars>>

SendCloseDone ==
  /\ closeDone < 1
  /\ MainGoto("signalDone", "return")
  /\ closeDone' = closeDone + 1
  /\ UNCHANGED <<vars, dbOpen, promeWriter, pusher, signalVars>>

ReturnFromMain ==
  /\ exit = "no" /\ main = "return"
  /\ exit' = "mainReturned"
  /\ UNCHANGED <<canceled, clientVars, mainVars, signalVars, closeDone>>

Main ==
  \/ Output \/ OutputFails \/ GlobalCancel \/ CloseGlobals
  \/ SendCloseDone \/ ReturnFromMain

\* WriteMetrics has reached the server.
Push ==
  /\ exit = "no" /\ pusher = "pushing"
  /\ pusher' = "pushed"
  /\ UNCHANGED <<vars, main, dbOpen, promeWriter, signalVars, closeDone>>

ProcessNext ==
  \/ SendSignal \/ SignalGoroutine \/ Main \/ Push
  \/ ClientStep(Goroutines)

ProcessSpec == ProcessInit /\ [][ProcessNext]_processVars

\* Timers fire; the workers' database calls and the Close of main need not
\* return.
SignalFairness ==
  /\ WF_processVars(SignalGoroutine)
  /\ WF_processVars(ReturnFromMain)

\* In addition goroutines keep running and database calls return.
WorkFairness ==
  /\ SignalFairness
  /\ WF_processVars(Main)
  /\ WF_processVars(Push)
  /\ WF_processVars(ClientStep(Measuring))
  /\ WF_processVars(ClientStep(Caller))
  /\ \A w \in Workers : WF_processVars(ClientStep(Worker(w)))

-----------------------------------------------------------------------------
\* Every variable of the process has its type; in particular closeDone never
\* holds more than its buffer.
ProcessTypeOK ==
  /\ TypeOK
  /\ sent \in 0..MaxSignals /\ sc \in {0, 1}
  /\ spc \in {"listen", "grace", "gone"}
  /\ main \in {"execute", "cancel", "close", "signalDone", "return"}
  /\ dbOpen \in {0, 1} /\ closeDone \in {0, 1} /\ promeWriter \in {0, 1}
  /\ pusher \in {"none", "pushing", "pushed"}

\* No worker uses the database after main has closed it, whenever the signals
\* arrive: a cancelled Run still waits for its workers.
ClosedAfterUse == dbOpen = 0 => \A w \in Workers : wpc[w] = "done"

\* The measurements are printed when nothing measures any more, so reading
\* them without the lock (GenerateExtendedOutputs) races with nobody.
OutputAlone ==
  main # "execute" => mpc = "gone" /\ \A w \in Workers : wpc[w] = "done"

\* Once a signal has been taken the process ends, even if a database call
\* hangs for ever: the signal goroutine gives main ten seconds.
SignalEndsProcess == SignalFairness => (spc = "grace" ~> exit # "no")

\* The process ends by itself when database calls return: no channel, lock or
\* wait group keeps main from returning.
ProcessEnds == WorkFairness => <>(exit # "no")

\* A benchmark that ends normally with a Prometheus server configured has
\* pushed its measurements ("measurement outputs will be pushed to Prometheus
\* automatically", measurement.go:138).
PushedAtExit ==
  exit = "mainReturned" /\ promeWriter = 1 => pusher = "pushed"
=============================================================================
