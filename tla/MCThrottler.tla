---------------------------- MODULE MCThrottler ----------------------------
(* Instances of Throttler for TLC: intervals of zero, two and three ticks,   *)
(* timers that fire up to one tick early and events up to one tick late.     *)
EXTENDS Throttler
=============================================================================
