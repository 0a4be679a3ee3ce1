--------------------------- MODULE MessageHandler ---------------------------
(***************************************************************************)
(* KDToolBox::handleMessage(): callbacks for log messages of some type and *)
(* pattern.  Any thread may register a callback or log a message at any    *)
(* time.  Callbacks are pushed to the front of a linked list with          *)
(* compare-and-swap; Qt calls one message handler, which walks the list    *)
(* and then calls the handler that was there before it.                    *)
(*                                                                         *)
(* A step is one access to shared memory.  Accesses are sequentially       *)
(* consistent: nodes are published with release, read with acquire and do  *)
(* not change once they are published.  A callback returns at once; what   *)
(* it logs itself never comes here, as Qt keeps handlers from recursing.   *)
(***************************************************************************)
EXTENDS Integers, Sequences, Functions

CONSTANTS
  Threads,
  Callbacks,  \* the nodes of the list, each of them registered once
  Texts,      \* what messages say
  Messages,   \* the messages that are logged
  TypeOf,     \* RegisteredCallback::messageType
  PatternOf,  \* RegisteredCallback::pattern, as the texts that contain it
  None        \* the null pointer

QtMsgType == {"QtInfoMsg", "QtDebugMsg", "QtWarningMsg", "QtCriticalMsg", "QtFatalMsg"}

ASSUME MessageHandlerAssumption ==
  /\ Messages \subseteq [type : QtMsgType, text : Texts]
  /\ TypeOf \in [Callbacks -> QtMsgType]
  /\ PatternOf \in [Callbacks -> SUBSET Texts]
  /\ None \notin Callbacks /\ None \notin Messages /\ None \notin {"default", "ours"}

VARIABLES
  messageHandler,        \* the handler Qt calls, "default" or "ours"
  oldMessageHandler,     \* the handler ours forwards to
  oldMessageHandlerFlag, \* the once_flag: "fresh", "running" or "done"
  callbacks,             \* the front of the list
  next,                  \* RegisteredCallback::next
  free,                  \* the callbacks nobody has begun to register
  pc,                    \* what each thread does
  node,                  \* tmp: the callback it registers
  replaced,              \* what qInstallMessageHandler() returned to it
  message,               \* the message it logs
  it,                    \* where it is in the list
  pushed,                \* history: the callbacks in the order of their registration
  ran,                   \* history: the callbacks called for the message
  due,                   \* history: the callbacks registered before it was logged
  forwarded              \* history: the old handler has got the message

once   == <<messageHandler, oldMessageHandler, oldMessageHandlerFlag, replaced>>
list   == <<callbacks, next, pushed>>
logging == <<message, it, ran, due, forwarded>>
vars   == <<once, list, free, pc, node, logging>>

Goto(t, from, to) == pc[t] = from /\ pc' = [pc EXCEPT ![t] = to]
-----------------------------------------------------------------------------
\* isMessageTypeCompatibleWith(): the callback's type, then the message's.
Compatible(in, reference) ==
  CASE in = "QtInfoMsg"     -> TRUE
    [] in = "QtDebugMsg"    -> reference # "QtInfoMsg"
    [] in = "QtWarningMsg"  -> reference \notin {"QtDebugMsg", "QtInfoMsg"}
    [] in = "QtCriticalMsg" -> reference \notin {"QtWarningMsg", "QtDebugMsg", "QtInfoMsg"}
    [] in = "QtFatalMsg"    -> reference = "QtFatalMsg"

Wants(c, m) == Compatible(TypeOf[c], m.type) /\ m.text \in PatternOf[c]

Init ==
  /\ messageHandler = "default" /\ oldMessageHandler = None /\ oldMessageHandlerFlag = "fresh"
  /\ callbacks = None /\ next = [c \in Callbacks |-> None] /\ pushed = <<>>
  /\ free = Callbacks
  /\ pc = [t \in Threads |-> "elsewhere"]
  /\ node = [t \in Threads |-> None] /\ replaced = [t \in Threads |-> None]
  /\ message = [t \in Threads |-> None] /\ it = [t \in Threads |-> None]
  /\ ran = [t \in Threads |-> <<>>] /\ due = [t \in Threads |-> {}]
  /\ forwarded = [t \in Threads |-> FALSE]
-----------------------------------------------------------------------------
(* registerMessageHandler() *)

Register(t) ==
  /\ Goto(t, "elsewhere", "once")
  /\ \E c \in free : node' = [node EXCEPT ![t] = c] /\ free' = free \ {c}
  /\ UNCHANGED <<once, list, logging>>

\* Mistake: not waiting for the thread that installs the handler.
CallOnceUnblocked(t) ==
  /\ IF oldMessageHandlerFlag = "fresh"
     THEN Goto(t, "once", "install") /\ oldMessageHandlerFlag' = "running"
     ELSE Goto(t, "once", "load") /\ UNCHANGED oldMessageHandlerFlag
  /\ UNCHANGED <<messageHandler, oldMessageHandler, replaced, list, free, node, logging>>

\* std::call_once(): the first thread installs the handler, others wait for it.
CallOnce(t) ==
  /\ \/ /\ oldMessageHandlerFlag = "fresh" /\ oldMessageHandlerFlag' = "running"
        /\ Goto(t, "once", "install")
     \/ /\ oldMessageHandlerFlag = "done" /\ UNCHANGED oldMessageHandlerFlag
        /\ Goto(t, "once", "load")
  /\ UNCHANGED <<messageHandler, oldMessageHandler, replaced, list, free, node, logging>>

\* qInstallMessageHandler(), and the store of what it returned.
Install(t) ==
  /\ Goto(t, "install", "store")
  /\ replaced' = [replaced EXCEPT ![t] = messageHandler]
  /\ messageHandler' = "ours"
  /\ UNCHANGED <<oldMessageHandler, oldMessageHandlerFlag, list, free, node, logging>>
Store(t) ==
  /\ Goto(t, "store", "load")
  /\ oldMessageHandler' = replaced[t] /\ oldMessageHandlerFlag' = "done"
  /\ UNCHANGED <<messageHandler, replaced, list, free, node, logging>>

\* The relaxed load of the list; tmp->next has the value of `expected`.
Load(t) ==
  /\ Goto(t, "load", "swap")
  /\ next' = [next EXCEPT ![node[t]] = callbacks]
  /\ UNCHANGED <<once, callbacks, pushed, free, node, logging>>

\* Mistake: a store instead of the compare-and-swap.
SwapBlindly(t) ==
  /\ Goto(t, "swap", "elsewhere")
  /\ callbacks' = node[t] /\ pushed' = Append(pushed, node[t])
  /\ node' = [node EXCEPT ![t] = None]
  /\ UNCHANGED <<once, next, free, logging>>

\* compare_exchange_weak() succeeds, or fails, maybe without a reason, and
\* gives tmp->next a new value for the next try.
Swap(t) ==
  /\ Goto(t, "swap", "elsewhere")
  /\ callbacks = next[node[t]]
  /\ callbacks' = node[t] /\ pushed' = Append(pushed, node[t])
  /\ node' = [node EXCEPT ![t] = None]
  /\ UNCHANGED <<once, next, free, logging>>
SwapFails(t) ==
  /\ pc[t] = "swap"
  /\ next' = [next EXCEPT ![node[t]] = callbacks]
  /\ UNCHANGED <<once, callbacks, pushed, free, pc, node, logging>>
-----------------------------------------------------------------------------
(* Logging, and ourMessageHandler() *)

\* Qt looks up the handler to call, which may still be the default one.
Log(t) ==
  /\ \E m \in Messages : message' = [message EXCEPT ![t] = m]
  /\ due' = [due EXCEPT ![t] = Range(pushed)]
  /\ \/ messageHandler = "ours" /\ Goto(t, "elsewhere", "enter") /\ UNCHANGED forwarded
     \/ /\ messageHandler = "default" /\ Goto(t, "elsewhere", "logged")
        /\ forwarded' = [forwarded EXCEPT ![t] = TRUE]
  /\ UNCHANGED <<once, list, free, node, it, ran>>

Enter(t) ==
  /\ Goto(t, "enter", "walk")
  /\ it' = [it EXCEPT ![t] = callbacks]
  /\ UNCHANGED <<once, list, free, node, message, ran, due, forwarded>>

\* Mistakes: ending the walk at the first callback that is called, calling all
\* of them, and not going on behind one that is not called.
VisitFirst(t) ==
  /\ pc[t] = "walk" /\ it[t] # None
  /\ ran' = IF Wants(it[t], message[t]) THEN [ran EXCEPT ![t] = Append(@, it[t])] ELSE ran
  /\ it' = [it EXCEPT ![t] = IF Wants(it[t], message[t]) THEN None ELSE next[it[t]]]
  /\ UNCHANGED <<once, list, free, pc, node, message, due, forwarded>>

VisitStuck(t) ==
  /\ pc[t] = "walk" /\ it[t] # None /\ Wants(it[t], message[t])
  /\ ran' = [ran EXCEPT ![t] = Append(@, it[t])]
  /\ it' = [it EXCEPT ![t] = next[it[t]]]
  /\ UNCHANGED <<once, list, free, pc, node, message, due, forwarded>>

Visit(t) ==
  /\ pc[t] = "walk" /\ it[t] # None
  /\ ran' = IF Wants(it[t], message[t]) THEN [ran EXCEPT ![t] = Append(@, it[t])] ELSE ran
  /\ it' = [it EXCEPT ![t] = next[it[t]]]
  /\ UNCHANGED <<once, list, free, pc, node, message, due, forwarded>>

Forward(t) ==
  /\ it[t] = None /\ Goto(t, "walk", "logged")
  /\ forwarded' = [forwarded EXCEPT ![t] = oldMessageHandler = "default"]
  /\ UNCHANGED <<once, list, free, node, message, it, ran, due>>

Return(t) ==
  /\ Goto(t, "logged", "elsewhere")
  /\ message' = [message EXCEPT ![t] = None]
  /\ ran' = [ran EXCEPT ![t] = <<>>] /\ due' = [due EXCEPT ![t] = {}]
  /\ forwarded' = [forwarded EXCEPT ![t] = FALSE]
  /\ UNCHANGED <<once, list, free, node, it>>
-----------------------------------------------------------------------------
RegisterStep(t) ==
  CallOnce(t) \/ Install(t) \/ Store(t) \/ Load(t) \/ Swap(t) \/ SwapFails(t)
LogStep(t)      == Enter(t) \/ Visit(t) \/ Forward(t) \/ Return(t)
Next == \E t \in Threads :
  \/ Register(t) \/ RegisterStep(t)
  \/ Log(t) \/ LogStep(t)

Spec == Init /\ [][Next]_vars

\* Threads run.  A weak compare-and-swap that could succeed again and again
\* does not fail for no reason for ever.
Fairness == \A t \in Threads :
  WF_vars(RegisterStep(t)) /\ SF_vars(Swap(t)) /\ WF_vars(LogStep(t))
FairSpec == Spec /\ Fairness
-----------------------------------------------------------------------------
PcOK == pc \in [Threads -> {"elsewhere", "once", "install", "store", "load", "swap",
                            "enter", "walk", "logged"}]
TypeOK ==
  /\ messageHandler \in {"default", "ours"}
  /\ oldMessageHandler \in {None, "default"}
  /\ oldMessageHandlerFlag \in {"fresh", "running", "done"}
  /\ callbacks \in Callbacks \cup {None}
  /\ next \in [Callbacks -> Callbacks \cup {None}]
  /\ free \in SUBSET Callbacks
  /\ PcOK
  /\ node \in [Threads -> Callbacks \cup {None}]
  /\ replaced \in [Threads -> {None, "default"}]
  /\ message \in [Threads -> Messages \cup {None}]
  /\ it \in [Threads -> Callbacks \cup {None}]
  /\ pushed \in Seq(Callbacks)
  /\ ran \in [Threads -> Seq(Callbacks)]
  /\ due \in [Threads -> SUBSET Callbacks]
  /\ forwarded \in [Threads -> BOOLEAN]

\* The list holds the callbacks registered so far, the newest first, whatever
\* other threads were doing when each of them was pushed.
Linked ==
  /\ callbacks = IF pushed = <<>> THEN None ELSE pushed[Len(pushed)]
  /\ \A i \in DOMAIN pushed : next[pushed[i]] = IF i = 1 THEN None ELSE pushed[i - 1]

\* A message calls every callback that wants it and was registered before the
\* message was logged, in any thread.
Informed ==
  \A t \in Threads : pc[t] = "logged" =>
    \A c \in due[t] : Wants(c, message[t]) => c \in Range(ran[t])

\* No callback is called twice for a message, or without wanting it.
InformedOnce ==
  \A t \in Threads :
    IsInjective(ran[t]) /\ \A c \in Range(ran[t]) : Wants(c, message[t])

\* Of the callbacks registered before it, a message calls just those that want it,
\* and each of them once.
InformedExactly == Informed /\ InformedOnce

\* A message logged after any callback was registered, in any thread, is
\* forwarded to the old handler.  One that is logged in between Install and Store
\* is not: there is no old handler yet.
Forwarded ==
  \A t \in Threads : pc[t] = "logged" /\ due[t] # {} => forwarded[t]

\* Registration returns, although other threads change the list, and so does
\* logging, although the list gets longer.
RegisteringReturns ==
  \A t \in Threads : node[t] # None ~> node[t] = None
LoggingReturns ==
  \A t \in Threads : message[t] # None ~> message[t] = None
Returns == RegisteringReturns /\ LoggingReturns
=============================================================================
