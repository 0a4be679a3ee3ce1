-------------------------- MODULE SingleShotConnect --------------------------
(***************************************************************************)
(* KDToolBox's connectSingleShot(): connects a signal to an object that    *)
(* holds the handle of the connection and the slot; when it is called it   *)
(* breaks the connection and calls the slot.                               *)
(*                                                                         *)
(* A slot may emit the signal again; the number of emissions is bounded.   *)
(***************************************************************************)
EXTENDS Integers, Sequences, FiniteSets

CONSTANTS Emitters, \* the threads that emit the signal
          Caller,   \* the one that calls connectSingleShot()
          MaxEmissions

ASSUME SingleShotAssumption == Caller \in Emitters /\ MaxEmissions \in Nat

VARIABLES
  connectionType, \* "direct" or "queued"
  handle,         \* *connection: "unset", or "set" to the connection
  connected,      \* the connection: "no", "yes" or "broken"
  calls,          \* what each thread is doing in emissions, innermost last:
                  \* "breaking" the connection, or in the "slot"
  posted,         \* how many calls wait in the receiver's event queue
  emissions,      \* how often the signal has been emitted
  runs,           \* history: how often the slot has been called
  early,          \* history: how often with the handle unset
  underWay        \* history: how many other calls were under way when the
                  \* connection was broken

singleShotVars == <<connectionType, handle, connected, calls, posted, emissions, runs, early, underWay>>

SingleShotInit ==
  /\ connectionType \in {"direct", "queued"} /\ handle = "unset" /\ connected = "no"
  /\ calls = [t \in Emitters |-> <<>>] /\ posted = 0 /\ emissions = 0
  /\ runs = 0 /\ early = 0 /\ underWay = 0

\* QObject::connect(), and the assignment of what it returns.
ConnectSingleShot ==
  /\ connected = "no" /\ connected' = "yes"
  /\ UNCHANGED <<connectionType, handle, calls, posted, emissions, runs, early, underWay>>
AssignHandle ==
  /\ connected # "no" /\ handle = "unset" /\ handle' = "set"
  /\ UNCHANGED <<connectionType, connected, calls, posted, emissions, runs, early, underWay>>

Innermost(t) == calls[t][Len(calls[t])]
Idle(t)      == calls[t] # <<>> => Innermost(t) = "slot"
InConnect(t) == t = Caller /\ handle = "unset"

\* An emission calls the object at once, or posts an event that will, which
\* breaking the connection does not take back.
EmitSignal(t) ==
  /\ Idle(t) /\ ~InConnect(t) /\ emissions < MaxEmissions
  /\ emissions' = emissions + 1
  /\ calls' = IF connected = "yes" /\ connectionType = "direct"
              THEN [calls EXCEPT ![t] = Append(@, "breaking")] ELSE calls
  /\ posted' = IF connected = "yes" /\ connectionType = "queued" THEN posted + 1 ELSE posted
  /\ UNCHANGED <<connectionType, handle, connected, runs, early, underWay>>

\* The event loop of the receiver, which is the caller's.
DeliverCall ==
  /\ posted > 0 /\ calls[Caller] = <<>> /\ ~InConnect(Caller)
  /\ posted' = posted - 1 /\ calls' = [calls EXCEPT ![Caller] = <<"breaking">>]
  /\ UNCHANGED <<connectionType, handle, connected, emissions, runs, early, underWay>>

UnderWay == posted + Cardinality({t \in Emitters : ~Idle(t)}) - 1

\* Mistake: not breaking the connection.
CallOnly(t) ==
  /\ ~Idle(t)
  /\ runs' = runs + 1 /\ calls' = [calls EXCEPT ![t][Len(calls[t])] = "slot"]
  /\ UNCHANGED <<connectionType, handle, connected, posted, emissions, early, underWay>>

\* operator(): an empty handle breaks nothing.
CallSlot(t) ==
  /\ ~Idle(t)
  /\ runs' = runs + 1 /\ calls' = [calls EXCEPT ![t][Len(calls[t])] = "slot"]
  /\ IF handle = "set"
     THEN connected' = "broken" /\ UNCHANGED early
          /\ underWay' = IF connected = "broken" THEN underWay ELSE UnderWay
     ELSE early' = early + 1 /\ UNCHANGED <<connected, underWay>>
  /\ UNCHANGED <<connectionType, handle, posted, emissions>>
SlotReturns(t) ==
  /\ calls[t] # <<>> /\ Innermost(t) = "slot"
  /\ calls' = [calls EXCEPT ![t] = SubSeq(@, 1, Len(@) - 1)]
  /\ UNCHANGED <<connectionType, handle, connected, posted, emissions, runs, early, underWay>>

SingleShotNext ==
  \/ ConnectSingleShot \/ AssignHandle \/ DeliverCall
  \/ \E t \in Emitters : EmitSignal(t) \/ CallSlot(t) \/ SlotReturns(t)

SingleShotSpec == SingleShotInit /\ [][SingleShotNext]_singleShotVars
-----------------------------------------------------------------------------
\* The slot runs once, and the connection is broken before it does.  More calls
\* of it are those that were under way just then, of queued events or in other
\* threads, and those before connectSingleShot() had the handle.
CalledOnce == runs <= early + IF connected = "broken" THEN 1 + underWay ELSE 0
=============================================================================
