------------------------------- MODULE KDCoro -------------------------------
(***************************************************************************)
(* KDToolBox's KDCoro: a coroutine that waits for signals of Qt objects    *)
(* with KDCoroExpected awaiters, and whose KDCoroTerminator destroys it    *)
(* when an object goes that it has yielded.                                *)
(*                                                                         *)
(* Everything happens in one thread: a signal calls its slots one by one,  *)
(* a slot that resumes the coroutine returns when that waits again or is   *)
(* over, and the coroutine may itself emit signals.  It does not delete    *)
(* the objects it depends on while it runs.                                *)
(***************************************************************************)
EXTENDS Lists, SequencesExt

CONSTANTS
  Senders,     \* the objects whose signals are awaited
  Watched,     \* the object that the coroutine yields, and that is the context
               \* or the receiver of awaiters
  MaxAwaiters, \* bound on the awaiters that are made
  MaxNestedEmissions, \* bound on signals that are emitted one in another
  NoObject

ASSUME CoroAssumption ==
  Watched \notin Senders /\ NoObject \notin Senders \cup {Watched}
  /\ MaxAwaiters \in Nat /\ MaxNestedEmissions \in Nat

VARIABLES
  objects,   \* the objects that live
  coroutine, \* "running", "suspended", "done", or "destroyed"
  at,        \* the awaiter that it waits for
  level,     \* how many signals were being emitted when it was resumed
  awaiters,  \* all that have been made: the sender, the context and the receiver,
             \* whether it is held in a variable, whether it lives, its result,
             \* whether it has the coroutine's handle, and whether it got that too late
  slots,     \* the connections in order: the object, the signal, and what is called
             \* of which awaiter
  emitting,  \* the signals that are being emitted, innermost last: the object, and
             \* the connections still to be called
  wrong      \* history: the slots that have called a dead awaiter, resumed a
             \* coroutine that did not wait for it, or had no handle

coroVars == <<objects, coroutine, at, level, awaiters, slots, emitting, wrong>>

Objects == Senders \cup {Watched}

CoroInit ==
  /\ objects = Objects /\ coroutine = "running" /\ at = 0 /\ level = 0
  /\ awaiters = <<>> /\ slots = <<>> /\ emitting = <<>> /\ wrong = {}

Slot(o, signal, calls, n) == [on |-> o, signal |-> signal, calls |-> calls, awaiter |-> n]
Disconnect(gone) == Among(slots, ToSet(slots) \ gone)
SlotsOf(o, signal) == Among(slots, {s \in ToSet(slots) : s.on = o /\ s.signal = signal})

\* Mistake: no destructor.
KeepAll(n) == {}

\* ~KDCoroExpected() breaks the connection it has last kept in m_receiverConn,
\* and not the one to the signal.
Kept(n) ==
  IF \E s \in ToSet(slots) : s.calls = "senderGone" /\ s.awaiter = n
  THEN {s \in ToSet(slots) : s.calls = "senderGone" /\ s.awaiter = n}
  ELSE {s \in ToSet(slots) : s.calls = "receiverGone" /\ s.awaiter = n}
-----------------------------------------------------------------------------
(* The coroutine *)

\* A temporary is awaited at once.
InControl == coroutine = "running" /\ Len(emitting) = level
Free == InControl /\ \A n \in DOMAIN awaiters : awaiters[n].live => awaiters[n].handle \/ awaiters[n].held

\* yield_value()
CoYield ==
  /\ Free /\ Watched \in objects
  /\ ~\E s \in ToSet(slots) : s.calls = "terminate" \* once is enough
  /\ slots' = Append(slots, Slot(Watched, "destroyed", "terminate", 0))
  /\ UNCHANGED <<objects, coroutine, at, level, awaiters, emitting, wrong>>

\* kdCoroSignal(), with or without a context, or a function like it that makes the
\* awaiter with a receiver.
MakeAwaiter(sender, context, receiver, held) ==
  /\ Free /\ Len(awaiters) < MaxAwaiters
  /\ {sender, context, receiver} \subseteq objects \cup {NoObject}
  /\ awaiters' = Append(awaiters, [sender |-> sender, context |-> context, receiver |-> receiver,
                                   held |-> held, live |-> TRUE, result |-> "none",
                                   handle |-> FALSE, orphan |-> FALSE])
  /\ LET n == Len(awaiters) + 1 IN
     slots' = slots \o (IF receiver = NoObject THEN <<>> ELSE <<Slot(receiver, "destroyed", "receiverGone", n)>>)
                    \o <<Slot(sender, "awaited", "callback", n)>>
  /\ UNCHANGED <<objects, coroutine, at, level, emitting, wrong>>

\* A temporary goes when it has been awaited.
Used(n)        == [awaiters EXCEPT ![n].live = awaiters[n].held, ![n].handle = TRUE]
UsedSlots(n)   == IF awaiters[n].held THEN slots ELSE Disconnect(Kept(n))

\* Mistake: not waiting for the end of the sender.
AwaitOnly(n) ==
  /\ InControl /\ awaiters[n].live /\ ~awaiters[n].handle
  /\ awaiters[n].result = "none" /\ coroutine' = "suspended" /\ at' = n
  /\ awaiters' = [awaiters EXCEPT ![n].handle = TRUE]
  /\ UNCHANGED <<objects, level, slots, emitting, wrong>>

\* await_ready() and await_suspend(): a result that is there already does not
\* suspend the coroutine.
CoAwait(n) ==
  /\ InControl /\ awaiters[n].live /\ ~awaiters[n].handle
  /\ IF awaiters[n].result # "none"
     THEN awaiters' = Used(n) /\ slots' = UsedSlots(n) /\ UNCHANGED <<coroutine, at>>
     ELSE /\ coroutine' = "suspended" /\ at' = n
          /\ awaiters' = [awaiters EXCEPT ![n].handle = TRUE, ![n].orphan = awaiters[n].sender \notin objects]
          /\ slots' = IF awaiters[n].sender \in objects
                      THEN Append(slots, Slot(awaiters[n].sender, "destroyed", "senderGone", n)) ELSE slots
  /\ UNCHANGED <<objects, level, emitting, wrong>>

\* The frame goes, with the awaiters and the terminator's connections.
EndOfFrame(how) ==
  /\ coroutine' = how /\ at' = 0
  /\ awaiters' = [n \in DOMAIN awaiters |-> [awaiters[n] EXCEPT !.live = FALSE]]
  /\ slots' = Disconnect({s \in ToSet(slots) : s.calls = "terminate"}
                           \cup UNION {Kept(n) : n \in {m \in DOMAIN awaiters : awaiters[m].live}})

CoReturn ==
  /\ Free /\ EndOfFrame("done")
  /\ UNCHANGED <<objects, level, emitting, wrong>>
-----------------------------------------------------------------------------
(* The objects *)

Emission(o, signal) == [of |-> o, signal |-> signal, next |-> SlotsOf(o, signal)]

\* The coroutine or, when nothing else happens, the event loop emits a signal.
EmitAwaited(o) ==
  /\ o \in objects /\ (~Free => coroutine # "running" /\ emitting = <<>>)
  /\ Len(emitting) < MaxNestedEmissions
  /\ emitting' = Append(emitting, Emission(o, "awaited"))
  /\ UNCHANGED <<objects, coroutine, at, level, awaiters, slots, wrong>>

\* The event loop deletes an object: pointers to it are cleared, destroyed() is
\* emitted, and then its connections go.
DeleteObject(o) ==
  /\ o \in objects /\ coroutine # "running" /\ emitting = <<>>
  /\ objects' = objects \ {o}
  /\ emitting' = <<Emission(o, "destroyed")>>
  /\ UNCHANGED <<coroutine, at, level, awaiters, slots, wrong>>

Inner       == emitting[Len(emitting)]
Rest        == [emitting EXCEPT ![Len(emitting)].next = Tail(Inner.next)]
Calling     == ~InControl /\ emitting # <<>> /\ Inner.next # <<>>
IsConnected == Head(Inner.next) \in ToSet(slots)

SkipSlot ==
  /\ Calling /\ ~IsConnected /\ emitting' = Rest
  /\ UNCHANGED <<objects, coroutine, at, level, awaiters, slots, wrong>>

EmissionEnds ==
  /\ ~InControl /\ emitting # <<>> /\ Inner.next = <<>>
  /\ emitting' = Front(emitting)
  /\ slots' = IF Inner.signal = "awaited" THEN slots
              ELSE Disconnect({s \in ToSet(slots) : s.on = Inner.of
                                 \/ (s.calls = "callback" /\ awaiters[s.awaiter].context = Inner.of)})
  /\ UNCHANGED <<objects, coroutine, at, level, awaiters, wrong>>

Terminate ==
  /\ Calling /\ IsConnected /\ Head(Inner.next).calls = "terminate"
  /\ emitting' = Rest /\ EndOfFrame("destroyed")
  /\ UNCHANGED <<objects, level, wrong>>

\* "callback" is callbackExpected or callbackUnexpected, which differ in the result
\* only: they break the connection to the signal, and the other two slots leave
\* theirs.  Each sets the result and resumes the coroutine if there is a handle.
CallAwaiter ==
  LET s == Head(Inner.next)
      n == s.awaiter
      a == awaiters[n]
      gone == IF s.calls = "callback" THEN {s} ELSE {}
      result == IF s.calls = "callback" THEN "value" ELSE "error"
  IN /\ Calling /\ IsConnected /\ s.calls # "terminate"
     /\ emitting' = Rest
     /\ IF a.live /\ a.handle /\ at = n
        THEN /\ coroutine' = "running" /\ at' = 0 /\ level' = Len(emitting)
             /\ awaiters' = [awaiters EXCEPT ![n].result = result, ![n].live = a.held]
             /\ slots' = Disconnect(gone \cup IF a.held THEN {} ELSE Kept(n))
             /\ UNCHANGED wrong
        ELSE /\ UNCHANGED <<coroutine, at, level>> /\ slots' = Disconnect(gone)
             /\ IF a.live /\ ~a.handle /\ s.calls = "callback"
                THEN awaiters' = [awaiters EXCEPT ![n].result = result] /\ UNCHANGED wrong
                ELSE wrong' = wrong \cup {s} /\ UNCHANGED awaiters
     /\ UNCHANGED objects

CoroNext ==
  \/ CoYield \/ CoReturn
  \/ \E s \in Senders, c, r \in {Watched, NoObject}, held \in BOOLEAN : MakeAwaiter(s, c, r, held)
  \/ \E n \in DOMAIN awaiters : CoAwait(n)
  \/ \E o \in Senders : EmitAwaited(o)
  \/ \E o \in Objects : DeleteObject(o)
  \/ SkipSlot \/ EmissionEnds \/ Terminate \/ CallAwaiter

CoroSpec == CoroInit /\ [][CoroNext]_coroVars
-----------------------------------------------------------------------------
\* A slot of an awaiter resumes the coroutine only where it waits for that
\* awaiter, whatever order the signal, the sender's end and the end of the yielded
\* object come in.  It goes wrong with what no destructor disconnects: a signal
\* that has not come of an awaiter without context or never awaited, an awaiter
\* in a variable after it was awaited, and an awaiter with a receiver.
ResumesRight ==
  \A s \in wrong :
    LET a == awaiters[s.awaiter] IN
    \/ a.receiver # NoObject
    \/ s.calls = "callback" /\ (a.handle => a.context = NoObject)
    \/ s.calls = "senderGone" /\ a.held

\* Nobody waits for an object that is no more, unless it was gone before.
Quiet       == emitting = <<>> /\ coroutine = "suspended"
SenderLives == Quiet => awaiters[at].sender \in objects \/ awaiters[at].orphan

\* An awaiter that has been given a context does not outlive it.
ContextLives == Quiet => awaiters[at].context \in objects \cup {NoObject}
=============================================================================
