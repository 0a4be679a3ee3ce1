------------------------------ MODULE Throttler ------------------------------
(***************************************************************************)
(* KDGenericSignalThrottler: the throttlers and debouncers of              *)
(* KDSignalThrottler, leading and trailing, on top of one QTimer.          *)
(*                                                                         *)
(* The object lives in one thread.  What makes it subtle is that the slots *)
(* connected to triggered() run inside emitTriggered(), hence inside       *)
(* throttle(), inside the timer's timeout or inside the destructor, and    *)
(* may call throttle() and setTimeout() again.  `stack` is the C++ call    *)
(* stack of the functions that emit; a frame is at "emit" just before      *)
(* Q_EMIT triggered() and at "slots" while the connected slots run.        *)
(*                                                                         *)
(* Time is discrete and relative: `left` is what the timer has left to     *)
(* run (negative when its event is late), `since` and `quiet` are the ages *)
(* of the latest emission and of the latest throttle() call, counted up    *)
(* to Cap.                                                                 *)
(***************************************************************************)
EXTENDS Integers, Sequences

CONSTANTS
  Timeouts,   \* the intervals setTimeout() is called with (milliseconds)
  Early,      \* how early a timer may fire (QTimer's coarse timers do)
  Late,       \* how late the event loop may deliver a timer event
  Cap,        \* bound on the counted ages
  Reentrant,  \* do slots connected to triggered() call the throttler?
  MaxDepth    \* bound on nested calls when they do

ASSUME ThrottlerAssumption ==
  /\ Timeouts \subseteq Nat
  /\ 0 \in Timeouts
  /\ Early \in Nat
  /\ Late \in Nat
  /\ Cap \in Nat
  /\ \A t \in Timeouts : t <= Cap
  /\ Reentrant \in BOOLEAN
  /\ MaxDepth \in Nat \ {0}

VARIABLES
  m_kind,                 \* "Throttler" or "Debouncer"
  m_emissionPolicy,       \* "Trailing" or "Leading"
  m_hasPendingEmission,
  interval,               \* m_timer.interval()
  active,                 \* m_timer.isActive()
  left,                   \* time to the timer's next timeout, 0 if inactive
  stack,                  \* the frames that emit, innermost last
  alive,                  \* "yes", "dying" in the destructor, then "no"
  since, floor,           \* age of the last emission, least interval since
  quiet, calm             \* age of the last throttle(), least interval since

config == <<m_kind, m_emissionPolicy>>
timer  == <<interval, active, left>>
ages   == <<since, floor, quiet, calm>>
vars   == <<config, m_hasPendingEmission, timer, stack, alive, ages>>

Leading == m_emissionPolicy = "Leading"
Frames  == [fn : {"throttle", "timeout", "dtor"}, at : {"emit", "slots"}]
Top     == stack[Len(stack)]
Idle    == stack = <<>>
AtEmit  == ~Idle /\ Top.at = "emit"
InSlots == ~Idle /\ Top.at = "slots"

Least(a, b) == IF a < b THEN a ELSE b
Push(fn)    == stack' = Append(stack, [fn |-> fn, at |-> "emit"])
Pop         == stack' = SubSeq(stack, 1, Len(stack) - 1)

\* Who may call a public function now: the event loop between two events, or
\* a slot connected to triggered().
Callable ==
  \/ Idle /\ alive = "yes"
  \/ Reentrant /\ InSlots /\ Len(stack) < MaxDepth /\ alive # "no"
-----------------------------------------------------------------------------
(* The QTimer the throttler owns. *)

StopTimer == active' = FALSE /\ left' = 0 /\ UNCHANGED interval

\* Mistake: always single-shot, as before leading throttlers kept their timer
\* running.
RearmSingleShot == StopTimer

\* A single-shot timer stops before it emits timeout(); a repeating one
\* stays on its grid unless that lies in the past already.
Rearm ==
  IF Leading
  THEN /\ left' = IF left + interval >= 0 THEN left + interval ELSE interval
       /\ UNCHANGED <<active, interval>>
  ELSE StopTimer

\* Mistake: a debouncer that does not restart its timer.
StartTimerIfIdle ==
  IF ~active
  THEN active' = TRUE /\ left' = interval /\ UNCHANGED interval
  ELSE UNCHANGED timer

\* The second switch of throttle(): start() if idle, or restart.
StartTimer ==
  IF m_kind = "Debouncer" \/ ~active
  THEN active' = TRUE /\ left' = interval /\ UNCHANGED interval
  ELSE UNCHANGED timer
-----------------------------------------------------------------------------
Init ==
  /\ m_kind \in {"Throttler", "Debouncer"}
  /\ m_emissionPolicy \in {"Trailing", "Leading"}
  /\ m_hasPendingEmission = FALSE
  /\ interval = 0 /\ active = FALSE /\ left = 0
  /\ stack = <<>>
  /\ alive = "yes"
  /\ since = Cap /\ floor = 0
  /\ quiet = Cap /\ calm = 0

\* throttle(): a leading throttler whose timer is idle emits first and starts
\* the timer when its slots have returned; otherwise the timer is started.
Throttle ==
  /\ Callable
  /\ m_hasPendingEmission' = TRUE
  /\ IF Leading /\ ~active
     THEN Push("throttle") /\ UNCHANGED timer
     ELSE StartTimer /\ UNCHANGED stack
  /\ quiet' = 0 /\ calm' = interval
  /\ UNCHANGED <<config, alive, since, floor>>

\* emitTriggered().
Emit ==
  /\ AtEmit
  /\ m_hasPendingEmission' = FALSE
  /\ stack' = [stack EXCEPT ![Len(stack)].at = "slots"]
  /\ since' = 0 /\ floor' = interval
  /\ UNCHANGED <<config, timer, alive, quiet, calm>>

\* Mistake: stopping the timer after every timeout that emitted.
ReturnAndStop ==
  /\ InSlots
  /\ Pop
  /\ CASE Top.fn = "throttle" -> StartTimer /\ UNCHANGED alive
       [] Top.fn = "timeout"  -> StopTimer /\ UNCHANGED alive
       [] Top.fn = "dtor"     -> StopTimer /\ alive' = "no"
  /\ UNCHANGED <<config, m_hasPendingEmission, ages>>

\* The slots return to emitTriggered() and the caller finishes.
Return ==
  /\ InSlots
  /\ Pop
  /\ CASE Top.fn = "throttle" -> StartTimer /\ UNCHANGED alive
       [] Top.fn = "timeout"  -> UNCHANGED <<timer, alive>>
       [] Top.fn = "dtor"     -> StopTimer /\ alive' = "no"
  /\ UNCHANGED <<config, m_hasPendingEmission, ages>>

\* Mistakes: emitting at every timeout; never stopping the timer.
TimeoutEmits ==
  /\ Idle /\ alive = "yes"
  /\ active /\ left <= Early
  /\ Rearm /\ Push("timeout")
  /\ UNCHANGED <<config, m_hasPendingEmission, alive, ages>>
TimeoutKeepsTimer ==
  /\ Idle /\ alive = "yes"
  /\ active /\ left <= Early
  /\ Rearm
  /\ IF m_hasPendingEmission THEN Push("timeout") ELSE UNCHANGED stack
  /\ UNCHANGED <<config, m_hasPendingEmission, alive, ages>>

\* QTimer::timeout, connected to maybeEmitTriggered().
Timeout ==
  /\ Idle /\ alive = "yes"
  /\ active /\ left <= Early
  /\ IF m_hasPendingEmission
     THEN Rearm /\ Push("timeout")
     ELSE StopTimer /\ UNCHANGED stack
  /\ UNCHANGED <<config, m_hasPendingEmission, alive, ages>>

\* Mistake: a new interval that a running timer does not take up.
SetTimeoutLater ==
  /\ Callable
  /\ \E t \in Timeouts \ {interval} :
       /\ interval' = t
       /\ floor' = Least(floor, t)
       /\ calm' = Least(calm, t)
  /\ UNCHANGED <<config, m_hasPendingEmission, active, left, stack, alive,
                 since, quiet>>

\* setTimeout(): QTimer::setInterval() restarts a running timer.
SetTimeout ==
  /\ Callable
  /\ \E t \in Timeouts \ {interval} :
       /\ interval' = t
       /\ left' = IF active THEN t ELSE left
       /\ floor' = Least(floor, t)
       /\ calm' = Least(calm, t)
  /\ UNCHANGED <<config, m_hasPendingEmission, active, stack, alive,
                 since, quiet>>

\* Mistake: a destructor that drops the pending emission.
DestroySilently ==
  /\ Idle /\ alive = "yes"
  /\ StopTimer /\ alive' = "no"
  /\ UNCHANGED <<config, m_hasPendingEmission, stack, ages>>

\* The destructor runs maybeEmitTriggered() before the timer goes away.
Destroy ==
  /\ Idle /\ alive = "yes"
  /\ IF m_hasPendingEmission
     THEN Push("dtor") /\ alive' = "dying" /\ UNCHANGED timer
     ELSE StopTimer /\ alive' = "no" /\ UNCHANGED stack
  /\ UNCHANGED <<config, m_hasPendingEmission, ages>>

Older(a) == IF a < Cap THEN a + 1 ELSE a

\* Time passes, in slots too, but the event loop is never so busy that a
\* timer event is more than Late overdue.
Tick ==
  /\ ~AtEmit
  /\ active => left > -Late
  /\ left' = IF active THEN left - 1 ELSE left
  /\ since' = Older(since) /\ quiet' = Older(quiet)
  /\ UNCHANGED <<config, m_hasPendingEmission, interval, active, stack,
                 alive, floor, calm>>

Next ==
  \/ Throttle
  \/ Emit
  \/ Return
  \/ Timeout
  \/ SetTimeout
  \/ Destroy
  \/ Tick

Spec == Init /\ [][Next]_vars

\* Code that has been entered runs on, slots return, time passes and the
\* event loop delivers expired timers.  Nobody owes a call.
Fairness == WF_vars(Emit) /\ WF_vars(Return) /\ WF_vars(Timeout) /\ WF_vars(Tick)
FairSpec == Spec /\ Fairness
-----------------------------------------------------------------------------
\* The values the variables take; a running timer never has more left to run
\* than its interval, however setTimeout() and timeouts mix.
TypeOK ==
  /\ m_kind \in {"Throttler", "Debouncer"}
  /\ m_emissionPolicy \in {"Trailing", "Leading"}
  /\ m_hasPendingEmission \in BOOLEAN
  /\ interval \in Timeouts /\ floor \in Timeouts /\ calm \in Timeouts
  /\ active \in BOOLEAN
  /\ left \in Int /\ -Late <= left /\ left <= interval + Early
  /\ ~active => left = 0
  /\ stack \in Seq(Frames)
  /\ alive \in {"yes", "dying", "no"}
  /\ since \in 0..Cap /\ quiet \in 0..Cap

\* No lost wakeup: whenever control is back in the event loop, or in a slot,
\* a pending emission has a running timer that will take care of it, whatever
\* the slots called in between.  This is what line 117 asserts, for every
\* reachable state and not only at the end of throttle().
PendingIsArmed ==
  m_hasPendingEmission /\ alive # "no" => active \/ AtEmit

\* A trailing throttler or debouncer never wakes up for nothing: outside the
\* destructor its timer runs only while an emission is pending.
TrailingTimerHasWork ==
  ~Leading /\ active /\ alive = "yes" => m_hasPendingEmission

\* The timer runs for requests: no request waits without it, and a trailing one
\* runs for nothing else.
TimerHasWork == PendingIsArmed /\ TrailingTimerHasWork

\* How much shorter than configured a distance may turn out: the timer may
\* fire early, and the repeating timer of a leading throttler stays on its
\* grid, so a late timeout is followed by a short period.
Slack == Early + (IF Leading THEN Late ELSE 0)

\* A slot of a leading emission called throttle() before that throttle() had
\* started the timer.
Nested == Len(stack) > 1

\* "A throttler calls the slot only once every X ms", and a debouncer does
\* not do it more often either.  X is the least interval configured since the
\* previous emission; the emission of the destructor is exempt.
Spacing ==
  AtEmit /\ Top.fn # "dtor" => Nested \/ since >= floor - Slack

\* "If a signal keeps coming, the slot is not activated": when the timer of a
\* debouncer makes it emit, the last throttle() is one quiet period ago, on
\* the leading debouncer's repeating timer too.
Debounced ==
  AtEmit /\ Top.fn = "timeout" /\ m_kind = "Debouncer" => quiet >= calm - Early

\* The throttler keeps what RateLimiter promises, with its timer hidden.
Running == IF AtEmit THEN Len(stack) - 1 ELSE Len(stack)
Limiter == INSTANCE RateLimiter WITH
  open <- alive = "yes", wanted <- m_hasPendingEmission, running <- Running,
  timeout <- interval, Slack <- Early + Late
LimitsRate == Limiter!LimiterSpec

\* A request is answered, by a throttler unless its interval is changed again
\* and again, by a debouncer unless requests keep coming as well.
Answered ==
  \/ []<><<SetTimeout>>_vars
  \/ []<>(m_kind = "Debouncer") /\ []<><<Throttle>>_vars
  \/ m_hasPendingEmission /\ alive = "yes" ~> ~m_hasPendingEmission

\* Left alone, the timer stops: the repeating timer of a leading throttler
\* does not wake the program up for ever.
TimerStops == []<><<Throttle \/ SetTimeout>>_vars \/ <>[]~active
=============================================================================
