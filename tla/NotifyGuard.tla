---------------------------- MODULE NotifyGuard ----------------------------
(***************************************************************************)
(* KDToolBox's NotifyGuard: a guard remembers the values that properties   *)
(* of an object have when it is made, and emits their notify signal when   *)
(* it goes and one of them has changed.  Guards of one signal in nested    *)
(* scopes share what they remember, and only the last of them emits.       *)
(*                                                                         *)
(* A slot of the signal may do whatever the program does, so the steps     *)
(* that follow an emission are as well those of its slots.  Guards can be  *)
(* moved, hence they may go in any order.                                  *)
(***************************************************************************)
EXTENDS Integers, FiniteSets

CONSTANTS
  Guards,     \* the variables that hold a NotifyGuard
  Properties, \* the properties of the target
  Signals,    \* its notify signals
  Values,     \* what a property may be
  notifySignal, \* the signal of a property, or None
  Comparable, \* the properties whose type has a comparison
  Parameters, \* how many parameters a signal has
  SameType,   \* the properties of their signal's parameter's type
  None

\* What a SignalData object can be.
SignalData ==
  [signal : Signals, shared : BOOLEAN, start : UNION {[ps -> Values] : ps \in SUBSET Properties}]

ASSUME NotifyGuardAssumption ==
  /\ IsFiniteSet(Guards) /\ Comparable \subseteq Properties /\ SameType \subseteq Properties
  /\ notifySignal \in [Properties -> Signals \cup {None}]
  /\ Parameters \in [Signals -> Nat]
  /\ None \notin Signals \cup Nat /\ None \notin SignalData

VARIABLES
  value,     \* of each property of the target
  signalData,\* the SignalData objects by number: the signal, whether it is shared, the
             \* start values of the properties that it monitors; or None
  instanceData, \* the target's list of weak pointers: the number of each signal's
             \* shared data, None if it has none or one that has expired
  guard,     \* m_signalData of each guard
  announced, \* history: the values when the signal of a property was last emitted
  crossed,   \* history: the signals that two scopes were in charge of separately,
             \* and that have not been emitted since
  sent       \* history: how often a signal has been emitted for shared data since
             \* the outermost guard was made

guardVars == <<value, signalData, instanceData, guard, announced, crossed, sent>>

Data     == 1 .. Cardinality(Guards)
Live     == {d \in Data : signalData[d] # None}
Of(s)    == {p \in Properties : notifySignal[p] = s}
Scopes   == {"recursive", "single"}

\* Other data than d is in charge of the signal.
Divided(s, d) == \E e \in Live \ {d} : signalData[e].signal = s
Monitored(p) == \E d \in Live : p \in DOMAIN signalData[d].start
\* With more parameters than the one argument the call of the signal fails.
Callable(s)  == Parameters[s] <= 1

GuardInit ==
  /\ \E v \in Values : value = [p \in Properties |-> v] \* values of two properties are never compared
  /\ announced = value
  /\ signalData = [d \in Data |-> None] /\ instanceData = [s \in Signals |-> None]
  /\ guard = [g \in Guards |-> None]
  /\ crossed = {} /\ sent = [s \in Signals |-> 0]
-----------------------------------------------------------------------------
(* Making a guard *)

Unused == CHOOSE d \in Data : signalData[d] = None

\* The data with those of the properties that it did not contain.
Add(d, s, scope, ps) ==
  LET start == IF signalData[d] = None THEN [p \in {} |-> None] ELSE signalData[d].start
  IN [signal |-> s, shared |-> scope = "recursive",
      start  |-> [p \in DOMAIN start \cup ps |-> IF p \in DOMAIN start THEN start[p] ELSE value[p]]]

\* Mistake: not looking for shared data.
Unshared(s, scope) == Unused

\* getDataObject(): the shared data that a guard of the signal still holds.
DataObject(s, scope) ==
  IF scope = "recursive" /\ instanceData[s] # None THEN instanceData[s] ELSE Unused

\* A guard that monitors ps from now on.
Monitor(g, s, scope, ps) ==
  LET d == DataObject(s, scope) IN
  /\ signalData' = [signalData EXCEPT ![d] = Add(d, s, scope, ps)]
  /\ guard' = [guard EXCEPT ![g] = d]
  /\ instanceData' = IF scope = "recursive" THEN [instanceData EXCEPT ![s] = d] ELSE instanceData
  /\ sent' = IF scope = "recursive" /\ ~\E h \in Guards : guard[h] # None
                  /\ signalData[guard[h]].shared /\ signalData[guard[h]].signal = s
             THEN [sent EXCEPT ![s] = 0] ELSE sent
  /\ crossed' = IF Divided(s, d) THEN crossed \cup {s} ELSE crossed
  /\ UNCHANGED <<value, announced>>

\* The constructor for a property; the guard is inactive if it is unfit.
Fit(p) ==
  /\ notifySignal[p] # None /\ p \in Comparable
  /\ Callable(notifySignal[p])
  /\ Parameters[notifySignal[p]] = 1 => p \in SameType
GuardProperty(g, p, scope) ==
  /\ guard[g] = None /\ Fit(p)
  /\ Monitor(g, notifySignal[p], scope, {p})

\* The constructor for a signal, which does not ask for its parameters.
GuardSignal(g, s, scope) ==
  /\ guard[g] = None
  /\ Of(s) \cap Comparable # {}
  /\ Monitor(g, s, scope, Of(s) \cap Comparable)

\* Either constructor on something else: the guard stays inactive.
GuardNothing ==
  /\ \E g \in Guards : guard[g] = None
  /\ (\A p \in Properties : Fit(p)) => \E s \in Signals : Of(s) \cap Comparable = {}
  /\ UNCHANGED guardVars
-----------------------------------------------------------------------------
(* The end of a guard *)

Announce(d, when) ==
  LET s == signalData[d].signal IN
  IF when /\ Callable(s)
  THEN /\ announced' = [p \in Properties |-> IF p \in Of(s) THEN value[p] ELSE announced[p]]
       /\ crossed' = IF Divided(s, d) THEN crossed ELSE crossed \ {s}
       /\ sent' = IF signalData[d].shared THEN [sent EXCEPT ![s] = @ + 1] ELSE sent
  ELSE UNCHANGED <<announced, crossed, sent>>

\* Mistake: leaving the signal out when one of the properties is as it was.
EmitIfAllChanged(d) == Announce(d, \A p \in DOMAIN signalData[d].start : value[p] # signalData[d].start[p])

\* ~SignalData(): one property that has changed is enough, and the signal is
\* emitted once.
Emit(d) == Announce(d, \E p \in DOMAIN signalData[d].start : value[p] # signalData[d].start[p])

\* A pointer to the data goes, and with the last one the data and the weak
\* pointer's claim on it.
Release(g) ==
  LET d == guard[g] IN
  IF \E h \in Guards \ {g} : guard[h] = d
  THEN UNCHANGED <<signalData, instanceData, announced, crossed, sent>>
  ELSE /\ Emit(d)
       /\ signalData' = [signalData EXCEPT ![d] = None]
       /\ instanceData' = [s \in Signals |-> IF instanceData[s] = d THEN None ELSE instanceData[s]]

Destroy(g) ==
  /\ guard[g] # None /\ Release(g)
  /\ guard' = [guard EXCEPT ![g] = None]
  /\ UNCHANGED value

\* The move constructor, and the move assignment, which ends a guard that was there.
Move(g, h) ==
  /\ g # h /\ guard[g] # None
  /\ guard' = [guard EXCEPT ![g] = None, ![h] = guard[g]]
  /\ IF guard[h] = None THEN UNCHANGED <<signalData, instanceData, announced, crossed, sent>> ELSE Release(h)
  /\ UNCHANGED value
-----------------------------------------------------------------------------
\* The program changes a property while a guard monitors it.
Write(p, v) ==
  /\ Monitored(p) /\ value[p] # v
  /\ value' = [value EXCEPT ![p] = v]
  /\ UNCHANGED <<signalData, instanceData, guard, announced, crossed, sent>>

GuardNext ==
  \/ \E g \in Guards, scope \in Scopes :
       \/ \E p \in Properties : GuardProperty(g, p, scope)
       \/ \E s \in Signals : GuardSignal(g, s, scope)
  \/ \E g \in Guards : Destroy(g)
  \/ \E g, h \in Guards : Move(g, h)
  \/ \E p \in Properties, v \in Values : Write(p, v)
  \/ GuardNothing

GuardSpec == GuardInit /\ [][GuardNext]_guardVars
-----------------------------------------------------------------------------
Shared(g, s) == guard[g] # None /\ signalData[guard[g]].shared /\ signalData[guard[g]].signal = s

\* When nothing monitors a property any more, its signal has been emitted after
\* its last change: whatever order the guards came, moved and went in, also if
\* the property joined the shared data of others late.  It takes a signal that
\* can be called, and no two scopes that were in charge of it separately.
Announced ==
  \A p \in Properties :
    ~Monitored(p) /\ notifySignal[p] \notin crossed \cup {None} /\ Callable(notifySignal[p])
      => announced[p] = value[p]

\* Guards of a signal that consider other scopes emit it at most once, when the
\* last of them has gone, whichever that is, and only if a property is not what
\* it was when the signal was last emitted.
EmittedOnce ==
  [][\A s \in Signals : sent'[s] > sent[s] =>
        /\ sent[s] = 0 /\ ~\E g \in Guards : Shared(g, s)'
        /\ s \notin crossed => \E p \in Of(s) : announced[p] # value[p]]_guardVars
=============================================================================
