----------------------------- MODULE RateLimiter -----------------------------
(***************************************************************************)
(* What a throttler or debouncer of KDSignalThrottler promises its user,   *)
(* with no timer in sight: requests coalesce, an activation answers at     *)
(* least one request, two activations keep their distance, and closing the *)
(* limiter answers what was requested before.  The receiver runs inside    *)
(* the activation; a request the receiver itself makes may be answered     *)
(* without delay.                                                          *)
(***************************************************************************)
EXTENDS Integers

CONSTANTS
  Timeouts,   \* the distances a limiter can be configured with
  Cap,        \* ages are counted up to Cap
  Slack       \* how much shorter than configured a distance may turn out

VARIABLES
  open,       \* the limiter has not been closed
  wanted,     \* some request has not been answered yet
  running,    \* the number of activations whose receiver is still running
  timeout,    \* the configured distance
  since,      \* time since the latest activation
  floor       \* the smallest distance configured since that activation

limiterVars == <<open, wanted, running, timeout, since, floor>>

LimiterInit ==
  /\ open = TRUE
  /\ wanted = FALSE
  /\ running = 0
  /\ timeout \in Timeouts
  /\ since = Cap
  /\ floor = timeout

\* Once the limiter is closed only the receiver of its last activation is
\* left to make a request.
Request ==
  /\ open \/ running > 0
  /\ wanted' = TRUE
  /\ UNCHANGED <<open, running, timeout, since, floor>>

Configure ==
  /\ open \/ running > 0
  /\ timeout' \in Timeouts
  /\ floor' = IF timeout' < floor THEN timeout' ELSE floor
  /\ UNCHANGED <<open, wanted, running, since>>

Answer ==
  /\ wanted
  /\ wanted' = FALSE
  /\ running' = running + 1
  /\ since' = 0
  /\ floor' = timeout
  /\ UNCHANGED <<open, timeout>>

\* Between two activations of an open limiter at least `floor` goes by.
Activate == open /\ (since >= floor - Slack \/ running > 0) /\ Answer

\* The activation on closing comes when it comes.
Flush == ~open /\ Answer

Finish ==
  /\ running > 0
  /\ running' = running - 1
  /\ UNCHANGED <<open, wanted, timeout, since, floor>>

Close ==
  /\ open /\ running = 0
  /\ open' = FALSE
  /\ UNCHANGED <<wanted, running, timeout, since, floor>>

Age ==
  /\ since' = IF since < Cap THEN since + 1 ELSE since
  /\ UNCHANGED <<open, wanted, running, timeout, floor>>

LimiterNext ==
  Request \/ Configure \/ Activate \/ Flush \/ Finish \/ Close \/ Age

\* Whether and when a request is answered depends on time going by: the
\* detailed specification states it as a liveness property of its own.
LimiterSpec == LimiterInit /\ [][LimiterNext]_limiterVars
=============================================================================
