----------------------------- MODULE UiWatchdog -----------------------------
(***************************************************************************)
(* KDToolBox's UiWatchdog: a timer of the UI thread restarts an elapsed    *)
(* timer of a worker thread, which looks at it from time to time and       *)
(* reports the UI thread when it has not beaten for too long.              *)
(*                                                                         *)
(* Time is discrete.  The UI thread is busy as long as it likes; its event *)
(* loop runs its timer as soon as it gets there.  The worker's event loop  *)
(* answers at once, but starting the thread, and what it does when it      *)
(* reports, takes up to MaxLag, which may be longer than stop() waits: a   *)
(* report may stop in a debugger.                                          *)
(***************************************************************************)
EXTENDS Integers

CONSTANTS
  Frequencies, \* the arguments of start()
  MaxTimes,    \* the arguments of setMaxTimeBlocked(), and its default
  Late,        \* how late a timer may fire
  MaxLag,      \* how long the worker thread may keep its event loop waiting
  WaitTimeout, \* how long stop() waits for the thread
  Second,      \* by how much a torn elapsed timer is wrong
  MaxAge,      \* bound of the ages below
  Off          \* a timer that does not run

ASSUME UiWatchdogAssumption ==
  /\ Frequencies \subseteq Nat \ {0} /\ MaxTimes \subseteq Nat /\ MaxTimes # {}
  /\ Late \in Nat /\ MaxLag \in Nat /\ Second \in Nat
  /\ MaxAge \in Nat /\ \A f \in Frequencies, m \in MaxTimes : m + f + Late + MaxLag < MaxAge
  /\ WaitTimeout \in Nat
  /\ Off \notin Int

VARIABLES
  ui,        \* the UI thread: in its event "loop", "busy", "connecting" the worker
             \* in start(), "waiting" in stop(), "leaving" in the destructor,
             \* "gone" after it, or "aborted" with the program
  maxTimeBlocked,
  untilBeat, \* m_uiTimer: the time left
  frequency, \* of both timers
  thread,    \* m_watchDogThread: "none", "created", in worker "setup", in its
             \* event "loop", "reporting", or "finished"
  connected, \* started() is connected to the worker
  quitting,  \* quit() has been called, and deleteLater() for the worker
  untilCheck,\* m_watchTimer: the time left
  elapsed,   \* m_elapsedTimeSinceLastBeat
  lag,       \* for how long the worker's event loop is, or was last, kept waiting
  waited,    \* for how long stop() has been waiting
  torn,      \* history: both threads have written `elapsed` at the same time
  silent,    \* history: for how long the UI's event loop has not run while
             \* the worker's did
  reported   \* history: the worker has reported that silence

uiVars     == <<ui, maxTimeBlocked, untilBeat, frequency, connected, waited>>
workerVars == <<thread, quitting, untilCheck, lag>>
shared     == <<elapsed, torn>>
silence    == <<silent, reported>>
vars       == <<uiVars, workerVars, shared, silence>>

Larger(a, b)  == IF a > b THEN a ELSE b
Older(age)    == IF age < MaxAge THEN age + 1 ELSE age
Sooner(timer) == IF timer \in {Off, 0} THEN timer ELSE timer - 1
Period        == frequency .. frequency + Late
Heard         == silent' = 0 /\ reported' = FALSE

Init ==
  /\ ui = "busy" /\ maxTimeBlocked \in MaxTimes /\ frequency = Off /\ untilBeat = Off
  /\ connected = FALSE /\ waited = 0
  /\ thread = "none" /\ quitting = FALSE /\ untilCheck = Off /\ lag = 0
  /\ elapsed = 0 /\ torn = FALSE /\ silent = 0 /\ reported = FALSE
-----------------------------------------------------------------------------
(* The UI thread *)

\* The event loop calls something else than the watchdog's timer, which returns.
Block ==
  /\ ui = "loop" /\ untilBeat # 0
  /\ ui' = "busy"
  /\ UNCHANGED <<maxTimeBlocked, untilBeat, frequency, connected, waited, workerVars, shared, silence>>
Resume ==
  /\ ui = "busy" /\ ui' = "loop"
  /\ IF untilBeat = 0 THEN UNCHANGED silence ELSE Heard
  /\ UNCHANGED <<maxTimeBlocked, untilBeat, frequency, connected, waited, workerVars, shared>>

\* onUiBeat().  The worker's start() does not lock what reset() locks.
Beat ==
  /\ ui = "loop" /\ untilBeat = 0
  /\ untilBeat' \in Period
  /\ elapsed' = 0 /\ torn' = (thread = "setup") /\ Heard
  /\ UNCHANGED <<ui, maxTimeBlocked, frequency, connected, waited, workerVars>>

\* qFatal() ends the program if the watchdog runs.
SetMaxTimeBlocked ==
  /\ ui = "busy"
  /\ IF thread = "none"
     THEN maxTimeBlocked' \in MaxTimes /\ UNCHANGED ui
     ELSE ui' = "aborted" /\ UNCHANGED maxTimeBlocked
  /\ UNCHANGED <<untilBeat, frequency, connected, waited, workerVars, shared, silence>>

\* Mistake: not starting the timer of the UI thread.
StartUnbeaten ==
  /\ ui = "busy" /\ thread = "none"
  /\ frequency' \in Frequencies
  /\ ui' = "connecting" /\ thread' = "created" /\ connected' = FALSE
  /\ lag' = 0
  /\ UNCHANGED <<maxTimeBlocked, untilBeat, waited, quitting, untilCheck, shared, silence>>

\* start() runs the thread before it connects started() to the worker.
Start ==
  /\ ui = "busy" /\ thread = "none"
  /\ frequency' \in Frequencies /\ untilBeat' \in Period'
  /\ ui' = "connecting" /\ thread' = "created" /\ connected' = FALSE
  /\ lag' = 0
  /\ UNCHANGED <<maxTimeBlocked, waited, quitting, untilCheck, shared, silence>>
Connect ==
  /\ ui = "connecting" /\ ui' = "busy" /\ connected' = TRUE
  /\ UNCHANGED <<maxTimeBlocked, untilBeat, frequency, waited, workerVars, shared, silence>>

\* Mistake: not calling quit().

StopUnasked ==
  /\ ui = "busy" /\ thread # "none"
  /\ ui' \in {"waiting", "leaving"} /\ untilBeat' = Off /\ waited' = 0
  /\ UNCHANGED <<maxTimeBlocked, frequency, connected, workerVars, shared, silence>>

\* stop(), and the destructor, until they wait for the thread.
Stop ==
  /\ ui = "busy" /\ thread # "none"
  /\ ui' \in {"waiting", "leaving"} /\ untilBeat' = Off /\ quitting' = TRUE /\ waited' = 0
  /\ UNCHANGED <<maxTimeBlocked, frequency, connected, thread, untilCheck, lag, shared, silence>>

\* wait() returns.  A thread that still runs must not be deleted.
Stopped ==
  /\ ui \in {"waiting", "leaving"}
  /\ \/ /\ thread = "finished" /\ ui' = IF ui = "waiting" THEN "busy" ELSE "gone"
        /\ thread' = "none" /\ quitting' = FALSE
     \/ /\ thread # "finished" /\ waited = WaitTimeout /\ ui' = "aborted"
        /\ UNCHANGED <<thread, quitting>>
  /\ UNCHANGED <<maxTimeBlocked, untilBeat, frequency, connected, waited, untilCheck, lag, shared, silence>>

DestroyStopped ==
  /\ ui = "busy" /\ thread = "none" /\ ui' = "gone"
  /\ UNCHANGED <<maxTimeBlocked, untilBeat, frequency, connected, waited, workerVars, shared, silence>>
-----------------------------------------------------------------------------
(* The worker thread *)

\* started() calls the worker's start() if it is connected, which is over when
\* the elapsed timer has been written.
Started ==
  /\ thread = "created"
  /\ IF connected THEN thread' = "setup" /\ UNCHANGED silence ELSE thread' = "loop" /\ Heard
  /\ UNCHANGED <<uiVars, quitting, untilCheck, lag, shared>>
SetUp ==
  /\ thread = "setup" /\ thread' = "loop"
  /\ untilCheck' \in Period
  /\ elapsed' \in IF torn THEN {0, Second, -Second} ELSE {0}
  /\ Heard
  /\ UNCHANGED <<uiVars, quitting, lag, torn>>

\* Mistake: restart() instead of elapsed().
CheckRestarts ==
  /\ thread = "loop" /\ untilCheck = 0 /\ untilCheck' \in Period
  /\ IF elapsed > maxTimeBlocked THEN thread' = "reporting" /\ reported' = TRUE /\ lag' = 0
     ELSE UNCHANGED <<thread, reported, lag>>
  /\ elapsed' = 0
  /\ UNCHANGED <<uiVars, quitting, torn, silent>>

\* checkUI(): reading the elapsed timer and comparing it, and the report.
CheckUI ==
  /\ thread = "loop" /\ untilCheck = 0 /\ untilCheck' \in Period
  /\ IF elapsed > maxTimeBlocked THEN thread' = "reporting" /\ reported' = TRUE /\ lag' = 0
     ELSE UNCHANGED <<thread, reported, lag>>
  /\ UNCHANGED <<uiVars, quitting, shared, silent>>
Reported ==
  /\ thread = "reporting" /\ ~quitting
  /\ thread' = "loop" /\ lag' = 0
  /\ UNCHANGED <<uiVars, quitting, untilCheck, shared, silence>>

\* exec() returns before another iteration; the worker is deleted with its timer.
Finish ==
  /\ thread \in {"loop", "reporting"} /\ quitting
  /\ thread' = "finished" /\ untilCheck' = Off /\ lag' = 0
  /\ UNCHANGED <<uiVars, quitting, shared, silence>>
-----------------------------------------------------------------------------
\* Time passes unless an event loop has something to do.
Lagging == thread \in {"created", "setup", "reporting"}
Tick ==
  /\ ui # "aborted"
  /\ ui = "loop" => untilBeat # 0
  /\ thread = "loop" => untilCheck # 0 /\ ~quitting
  /\ Lagging => lag < MaxLag
  /\ ui \in {"waiting", "leaving"} => waited < WaitTimeout /\ thread # "finished"
  /\ untilBeat' = Sooner(untilBeat) /\ untilCheck' = Sooner(untilCheck)
  /\ elapsed' = Older(elapsed)
  /\ lag' = IF Lagging THEN lag + 1 ELSE lag
  /\ waited' = IF ui \in {"waiting", "leaving"} THEN waited + 1 ELSE waited
  /\ IF thread \in {"loop", "reporting"} /\ ui # "loop"
     THEN silent' = Older(silent) /\ UNCHANGED reported
     ELSE Heard
  /\ UNCHANGED <<ui, maxTimeBlocked, frequency, connected, thread, quitting, torn>>

Aborted == ui = "aborted" /\ UNCHANGED vars

UiStep     == Block \/ Resume \/ Beat \/ SetMaxTimeBlocked \/ Start \/ Connect \/ Stop \/ DestroyStopped
WorkerStep == Started \/ SetUp \/ CheckUI \/ Reported \/ Finish
Next == UiStep \/ Stopped \/ WorkerStep \/ Tick \/ Aborted

Spec == Init /\ [][Next]_vars

\* The worker thread runs, and a wait() that can return does.
Fairness == WF_vars(WorkerStep) /\ WF_vars(Stopped)
FairSpec == Spec /\ Fairness
-----------------------------------------------------------------------------
\* The timer of the UI thread runs only while there is a worker, which it would
\* use without looking.
BeatHasWorker ==
  untilBeat # Off => thread \in {"created", "setup", "loop", "reporting"} /\ ui \notin {"waiting", "leaving"}

\* An event loop that does not run for too long is reported while it hangs,
\* if the worker's timer was started and the elapsed timer is not torn.
Overdue  == silent > maxTimeBlocked + Larger(frequency + Late, MaxLag)
Detected == untilCheck # Off /\ ~torn /\ Overdue => reported

\* The watchdog does its work from start() to stop(): each side finds the other.
WorkerWatches == BeatHasWorker /\ Detected

\* So it is whenever start() has returned and the worker's event loop runs.
DetectedAlways == ui # "connecting" /\ thread = "loop" /\ ~quitting /\ Overdue => reported

\* An event loop that has run in time is not reported; an iteration of it may
\* come up to one period before the beat that tells of it.
Justified ==
  [][thread # "reporting" /\ thread' = "reporting" /\ ~torn =>
       silent + frequency + Late > maxTimeBlocked]_vars

\* stop() and the destructor do not wait for ever, and delete a thread that still
\* runs, which ends the program, only if the worker has kept its event loop from
\* running for all of the wait: a thread that finds quit() has ended by then, also
\* if that was called before it came to its event loop.
StopReturns    == ui \in {"waiting", "leaving"} ~> ui \in {"busy", "gone", "aborted"}
AbortsOnlyLate == [][(ui \in {"waiting", "leaving"} /\ ui' = "aborted") => lag >= WaitTimeout]_vars
Stops          == StopReturns /\ AbortsOnlyLate
=============================================================================
