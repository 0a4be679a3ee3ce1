---------------------------- MODULE HelpersProofs ----------------------------
(***************************************************************************)
(* What KDSqlDatabaseTransaction, connectSingleShot(), NotifyGuard,        *)
(* KDCoro and kdrunsquish.py guarantee for any number of objects,          *)
(* connections, threads, emissions, guards, properties, signals, awaiters  *)
(* and tests.                                                              *)
(***************************************************************************)
EXTENDS KDSqlDatabaseTransaction, SingleShotConnect, NotifyGuard, KDCoro, SquishRunner,
        ModelRowsProofs

-----------------------------------------------------------------------------
(* KDSqlDatabaseTransaction *)

TransactionTypeOK ==
  /\ db \in [Holders -> Connections \cup {NoDatabase}]
  /\ shouldRollback \subseteq Holders
  /\ running \subseteq Connections /\ lost \subseteq running

\* The objects that would roll back have transactions that can be, no two of
\* them the same, and no transaction is without one.
OneOwner ==
  /\ \A o \in shouldRollback : db[o] \in running \ lost
  /\ \A o, p \in shouldRollback : db[o] = db[p] => o = p
  /\ \A d \in running \ lost : \E o \in shouldRollback : db[o] = d

TransactionInv == TransactionTypeOK /\ OneOwner

\* No object has a duty at first.
LEMMA TransactionInvInit == TransactionInit => TransactionInv
BY DEF TransactionInit, TransactionInv, TransactionTypeOK, OneOwner

\* The duty comes with the transaction, goes on to one other object, and ends
\* with the transaction or with the rollback that has failed.
LEMMA TransactionInvStep == TransactionInv /\ [TransactionNext]_transactionVars => TransactionInv'
<1> SUFFICES ASSUME TransactionInv, [TransactionNext]_transactionVars PROVE TransactionInv'
  OBVIOUS
<1> USE TransactionAssumption DEF TransactionInv, TransactionTypeOK, OneOwner
<1>1. ASSUME NEW o \in Holders, NEW d \in Connections, BeginTransaction(o, d) PROVE TransactionInv'
  <2>1. o \notin shouldRollback
    BY <1>1 DEF BeginTransaction
  <2>2. db'[o] = d /\ \A p \in Holders \ {o} : db'[p] = db[p]
    BY <1>1 DEF BeginTransaction
  <2>3. TransactionTypeOK'
    BY <1>1 DEF BeginTransaction
  <2>4. CASE d \in Usable \ running /\ running' = running \cup {d} /\ shouldRollback' = shouldRollback \cup {o}
    BY <1>1, <2>1, <2>2, <2>3, <2>4 DEF BeginTransaction
  <2>5. CASE UNCHANGED <<running, shouldRollback>>
    BY <1>1, <2>1, <2>2, <2>3, <2>5 DEF BeginTransaction
  <2>. QED BY <1>1, <2>4, <2>5 DEF BeginTransaction
<1>2. ASSUME NEW o \in Holders, DestroyTransaction(o) PROVE TransactionInv'
  <2>1. \A p \in Holders \ {o} : db'[p] = db[p]
    BY <1>2 DEF DestroyTransaction
  <2>2. TransactionTypeOK'
    BY <1>2 DEF DestroyTransaction, RollbackOf
  <2>3. CASE o \in shouldRollback
    BY <1>2, <2>1, <2>2, <2>3 DEF DestroyTransaction, RollbackOf
  <2>4. CASE o \notin shouldRollback
    BY <1>2, <2>1, <2>2, <2>4 DEF DestroyTransaction
  <2>. QED BY <2>3, <2>4
<1>3. ASSUME NEW o \in Holders, Commit(o) PROVE TransactionInv'
  BY <1>3 DEF Commit
<1>4. ASSUME NEW o \in Holders, Rollback(o) PROVE TransactionInv'
  BY <1>4 DEF Rollback, RollbackOf
<1>5. ASSUME NEW o \in Holders, NEW p \in Holders, MoveTransaction(o, p) PROVE TransactionInv'
  <2>1. o # p /\ db'[p] = db[o] /\ db'[o] = NoDatabase /\ \A q \in Holders \ {o, p} : db'[q] = db[q]
    BY <1>5 DEF MoveTransaction
  <2>2. p \notin shouldRollback /\ TransactionTypeOK'
    BY <1>5 DEF MoveTransaction, Passed
  <2>. QED BY <1>5, <2>1, <2>2 DEF MoveTransaction, Passed
<1>6. ASSUME NEW o \in Holders, NEW p \in Holders, AssignTransaction(o, p) PROVE TransactionInv'
  <2>1. o # p /\ db'[p] = db[o] /\ db'[o] = NoDatabase /\ \A q \in Holders \ {o, p} : db'[q] = db[q]
    BY <1>6 DEF AssignTransaction
  <2>2. TransactionTypeOK'
    BY <1>6 DEF AssignTransaction, Passed, RollbackOf
  <2>3. CASE p \in shouldRollback
    BY <1>6, <2>1, <2>2, <2>3 DEF AssignTransaction, Passed, RollbackOf
  <2>4. CASE p \notin shouldRollback
    BY <1>6, <2>1, <2>2, <2>4 DEF AssignTransaction, Passed
  <2>. QED BY <2>3, <2>4
<1>7. ASSUME NEW o \in Holders, NEW p \in Holders, SwapTransactions(o, p) PROVE TransactionInv'
  <2>1. o # p /\ db'[p] = db[o] /\ db'[o] = db[p] /\ \A q \in Holders \ {o, p} : db'[q] = db[q]
    BY <1>7 DEF SwapTransactions
  <2>2. shouldRollback' = (shouldRollback \ {o, p}) \cup (IF o \in shouldRollback THEN {p} ELSE {})
                                                    \cup (IF p \in shouldRollback THEN {o} ELSE {})
    BY <1>7, <2>1 DEF SwapTransactions
  <2>3. TransactionTypeOK'
    BY <1>7, <2>2 DEF SwapTransactions
  <2>. QED BY <1>7, <2>1, <2>2, <2>3 DEF SwapTransactions
<1>8. CASE UNCHANGED transactionVars
  BY <1>8 DEF transactionVars
<1>. QED BY <1>1, <1>2, <1>3, <1>4, <1>5, <1>6, <1>7, <1>8 DEF TransactionNext

\* Every transaction that runs has one object, and no more, that ends it, unless
\* a rollback has failed: however objects are made, moved, swapped and destroyed.
THEOREM TransactionOwedOnce == TransactionSpec => []OwedOnce
<1>1. TransactionInv => OwedOnce
  <2> SUFFICES ASSUME TransactionInv, NEW d \in Connections
               PROVE  Cardinality({o \in shouldRollback : db[o] = d}) = IF d \in running \ lost THEN 1 ELSE 0
    BY DEF OwedOnce
  <2>1. CASE d \in running \ lost
    <3>1. PICK o \in shouldRollback : db[o] = d
      BY <2>1 DEF TransactionInv, OneOwner
    <3>2. {p \in shouldRollback : db[p] = d} = {o}
      BY <3>1 DEF TransactionInv, OneOwner
    <3>. QED BY <2>1, <3>2, FS_Singleton
  <2>2. CASE d \notin running \ lost
    <3>1. {o \in shouldRollback : db[o] = d} = {}
      BY <2>2 DEF TransactionInv, OneOwner
    <3>. QED BY <2>2, <3>1, FS_EmptySet
  <2>. QED BY <2>1, <2>2
<1>. QED BY <1>1, TransactionInvInit, TransactionInvStep, PTL DEF TransactionSpec
-----------------------------------------------------------------------------
(* connectSingleShot() *)

\* The threads that have called the object, which has not called the slot yet.
Breaking == {t \in Emitters : ~Idle(t)}

\* A thread is in slots, but for its innermost call.
CallSteps == {"breaking", "slot"}
CallsOK ==
  /\ calls \in [Emitters -> Seq(CallSteps)]
  /\ \A t \in Emitters : \A i \in 1 .. Len(calls[t]) - 1 : calls[t][i] = "slot"

SingleShotTypeOK ==
  /\ connectionType \in {"direct", "queued"} /\ handle \in {"unset", "set"}
  /\ connected \in {"no", "yes", "broken"}
  /\ CallsOK /\ IsFiniteSet(Breaking)
  /\ posted \in Nat /\ emissions \in Nat /\ runs \in Nat /\ early \in Nat /\ underWay \in Int

\* What is under way when the connection is broken is all that will ever run.
CallsAccountedFor ==
  IF connected = "broken"
  THEN handle = "set" /\ runs + posted + Cardinality(Breaking) = early + 1 + underWay
  ELSE runs = early

SingleShotInv == SingleShotTypeOK /\ CallsAccountedFor

\* A thread that calls the object from where it can has one call more that is
\* to break the connection.
LEMMA CallObject ==
  ASSUME CallsOK, IsFiniteSet(Breaking), NEW t \in Emitters, Idle(t),
         calls' = [calls EXCEPT ![t] = Append(@, "breaking")]
  PROVE  /\ CallsOK' /\ Breaking' = Breaking \cup {t} /\ t \notin Breaking
         /\ IsFiniteSet(Breaking') /\ Cardinality(Breaking') = Cardinality(Breaking) + 1
<1> DEFINE c == calls[t]
           d == calls'[t]
<1>1. c \in Seq(CallSteps) /\ calls' \in [Emitters -> Seq(CallSteps)] /\ d = Append(c, "breaking")
  BY DEF CallsOK, CallSteps
<1>2. \A u \in Emitters \ {t} : calls'[u] = calls[u]
  BY DEF CallsOK
<1>3. \A i \in 1 .. Len(c) : c[i] = "slot"
  <2>1. Len(c) \in Nat /\ (c = <<>> => Len(c) = 0) /\ \A i \in 1 .. Len(c) - 1 : c[i] = "slot"
    BY <1>1 DEF CallsOK
  <2>2. c # <<>> => c[Len(c)] = "slot"
    BY DEF Idle, Innermost
  <2>. QED BY <2>1, <2>2
<1>4. /\ Len(d) = Len(c) + 1 /\ Len(c) \in Nat /\ d[Len(d)] = "breaking" /\ d # <<>>
      /\ \A i \in 1 .. Len(c) : d[i] = c[i]
  BY <1>1
<1>5. \A i \in 1 .. Len(d) - 1 : d[i] = "slot"
  BY <1>3, <1>4
<1>6. CallsOK'
  BY <1>1, <1>2, <1>5 DEF CallsOK
<1>7. Idle(t) /\ ~Idle(t)'
  BY <1>4 DEF Idle, Innermost
<1>8. \A u \in Emitters \ {t} : Idle(u)' <=> Idle(u)
  BY <1>2 DEF Idle, Innermost
<1>9. Breaking' = Breaking \cup {t} /\ t \notin Breaking
  BY <1>7, <1>8 DEF Breaking
<1>. QED BY <1>6, <1>9, FS_AddElement

\* Then it calls the slot, and has one less.
LEMMA EnterSlot ==
  ASSUME CallsOK, IsFiniteSet(Breaking), NEW t \in Emitters, ~Idle(t),
         calls' = [calls EXCEPT ![t][Len(calls[t])] = "slot"]
  PROVE  /\ CallsOK' /\ Breaking' = Breaking \ {t} /\ t \in Breaking
         /\ IsFiniteSet(Breaking') /\ Cardinality(Breaking') = Cardinality(Breaking) - 1
<1> DEFINE c == calls[t]
           d == calls'[t]
<1>1. c \in Seq(CallSteps) /\ c # <<>> /\ d = [c EXCEPT ![Len(c)] = "slot"] /\ \A i \in 1 .. Len(c) - 1 : c[i] = "slot"
  BY DEF CallsOK, Idle
<1>2. \A u \in Emitters \ {t} : calls'[u] = calls[u]
  BY DEF CallsOK
<1>3. Len(c) \in Nat \ {0} /\ "slot" \in CallSteps
  BY <1>1 DEF CallSteps
<1>4. d \in Seq(CallSteps) /\ Len(d) = Len(c) /\ d[Len(d)] = "slot" /\ \A i \in 1 .. Len(c) - 1 : d[i] = c[i]
  BY <1>1, <1>3, ExceptSeq
<1>5. DOMAIN calls' = Emitters /\ calls' \in [Emitters -> Seq(CallSteps)]
  BY <1>2, <1>4 DEF CallsOK
<1>6. CallsOK'
  BY <1>1, <1>2, <1>4, <1>5 DEF CallsOK
<1>7. ~Idle(t) /\ Idle(t)'
  BY <1>4 DEF Idle, Innermost
<1>8. \A u \in Emitters \ {t} : Idle(u)' <=> Idle(u)
  BY <1>2 DEF Idle, Innermost
<1>9. Breaking' = Breaking \ {t} /\ t \in Breaking
  BY <1>7, <1>8 DEF Breaking
<1>. QED BY <1>6, <1>9, FS_RemoveElement

\* When the slot returns, the thread is in another slot or has left them all.
LEMMA LeaveSlot ==
  ASSUME CallsOK, NEW t \in Emitters, calls[t] # <<>>, Innermost(t) = "slot",
         calls' = [calls EXCEPT ![t] = SubSeq(@, 1, Len(@) - 1)]
  PROVE  CallsOK' /\ Breaking' = Breaking
<1> DEFINE c == calls[t]
           d == calls'[t]
<1>1. c \in Seq(CallSteps) /\ c # <<>> /\ d = SubSeq(c, 1, Len(c) - 1) /\ \A i \in 1 .. Len(c) - 1 : c[i] = "slot"
  BY DEF CallsOK
<1>2. \A u \in Emitters \ {t} : calls'[u] = calls[u]
  BY DEF CallsOK
<1>3. Len(c) \in Nat \ {0} /\ \A i \in 1 .. Len(c) - 1 : c[i] \in CallSteps
  BY <1>1
<1>4. d \in Seq(CallSteps) /\ Len(d) = Len(c) - 1 /\ \A i \in 1 .. Len(d) : d[i] = c[i]
  BY <1>1, <1>3, SubSeqProperties
<1>5. calls' \in [Emitters -> Seq(CallSteps)]
  BY <1>2, <1>4 DEF CallsOK
<1>6. CallsOK'
  BY <1>1, <1>2, <1>3, <1>4, <1>5 DEF CallsOK
<1>7. Idle(t)
  BY DEF Idle
<1>8. Idle(t)'
  <2>1. d # <<>> => Len(d) \in 1 .. Len(d)
    BY <1>4
  <2>. QED BY <1>1, <1>3, <1>4, <2>1 DEF Idle, Innermost
<1>9. \A u \in Emitters \ {t} : Idle(u)' <=> Idle(u)
  BY <1>2 DEF Idle, Innermost
<1>10. Breaking' = Breaking
  BY <1>7, <1>8, <1>9 DEF Breaking
<1>. QED BY <1>6, <1>10

\* Nothing is under way at first.
LEMMA SingleShotInvInit == SingleShotInit => SingleShotInv
<1> SUFFICES ASSUME SingleShotInit PROVE SingleShotInv
  OBVIOUS
<1>1. Breaking = {}
  BY DEF SingleShotInit, Breaking, Idle
<1>2. CallsOK
  BY DEF SingleShotInit, CallsOK
<1>3. IsFiniteSet(Breaking)
  BY <1>1, FS_EmptySet
<1>. QED BY <1>2, <1>3 DEF SingleShotInit, SingleShotInv, SingleShotTypeOK, CallsAccountedFor

\* A call posted or begun is one that waits to run the slot, and a broken
\* connection begins none.
LEMMA SingleShotInvStep == SingleShotInv /\ [SingleShotNext]_singleShotVars => SingleShotInv'
<1> SUFFICES ASSUME SingleShotInv, [SingleShotNext]_singleShotVars PROVE SingleShotInv'
  OBVIOUS
<1> USE SingleShotAssumption
<1>0. SingleShotTypeOK /\ Cardinality(Breaking) \in Nat
  BY FS_CardinalityType DEF SingleShotInv, SingleShotTypeOK
<1>a. ASSUME calls' = calls PROVE Breaking' = Breaking /\ CallsOK'
  <2>1. \A t \in Emitters : Idle(t)' <=> Idle(t)
    BY <1>a DEF Idle, Innermost
  <2>. QED BY <1>a, <1>0, <2>1 DEF Breaking, CallsOK, SingleShotTypeOK
<1>1. CASE ConnectSingleShot
  BY <1>1, <1>a DEF ConnectSingleShot, SingleShotInv, SingleShotTypeOK, CallsAccountedFor
<1>2. CASE AssignHandle
  BY <1>2, <1>a DEF AssignHandle, SingleShotInv, SingleShotTypeOK, CallsAccountedFor
<1>3. CASE DeliverCall
  <2>1. Idle(Caller) /\ calls[Caller] = <<>> /\ Append(<<>>, "breaking") = <<"breaking">>
    BY <1>3 DEF DeliverCall, Idle
  <2>1a. calls' = [calls EXCEPT ![Caller] = Append(@, "breaking")]
    BY <1>0, <1>3, <2>1 DEF DeliverCall
  <2>2. CallsOK' /\ IsFiniteSet(Breaking') /\ Cardinality(Breaking') = Cardinality(Breaking) + 1
    BY <1>0, <2>1, <2>1a, CallObject DEF SingleShotTypeOK
  <2>3. posted' = posted - 1 /\ posted' \in Nat /\ UNCHANGED <<connectionType, handle, connected, emissions, runs, early, underWay>>
    BY <1>0, <1>3 DEF DeliverCall, SingleShotTypeOK
  <2>4. runs' + posted' + Cardinality(Breaking') = runs + posted + Cardinality(Breaking)
    BY <1>0, <2>2, <2>3 DEF SingleShotTypeOK
  <2>. QED BY <2>2, <2>3, <2>4 DEF SingleShotInv, SingleShotTypeOK, CallsAccountedFor
<1>4. ASSUME NEW t \in Emitters, EmitSignal(t) PROVE SingleShotInv'
  <2>1. CASE connected = "yes" /\ connectionType = "direct"
    <3>1. CallsOK' /\ IsFiniteSet(Breaking')
      BY <1>0, <1>4, <2>1, CallObject DEF EmitSignal, SingleShotTypeOK
    <3>. QED BY <1>4, <2>1, <3>1 DEF EmitSignal, SingleShotInv, SingleShotTypeOK, CallsAccountedFor
  <2>2. CASE ~(connected = "yes" /\ connectionType = "direct")
    <3>1. calls' = calls /\ UNCHANGED <<connectionType, handle, connected, runs, early, underWay>>
      BY <1>4, <2>2 DEF EmitSignal
    <3>2. emissions' \in Nat /\ posted' \in Nat /\ (connected = "broken" => posted' = posted)
      BY <1>0, <1>4 DEF EmitSignal, SingleShotTypeOK
    <3>. QED BY <1>a, <3>1, <3>2 DEF SingleShotInv, SingleShotTypeOK, CallsAccountedFor
  <2>. QED BY <2>1, <2>2
<1>5. ASSUME NEW t \in Emitters, CallSlot(t) PROVE SingleShotInv'
  <2>1. CallsOK' /\ IsFiniteSet(Breaking') /\ Cardinality(Breaking') = Cardinality(Breaking) - 1
    BY <1>0, <1>5, EnterSlot DEF CallSlot, SingleShotTypeOK
  <2>2. UnderWay = posted + Cardinality(Breaking) - 1
    BY DEF UnderWay, Breaking
  <2>3. CASE handle = "unset"
    <3>1. runs' = runs + 1 /\ early' = early + 1 /\ runs = early /\ UNCHANGED <<connected, underWay>> /\ connected # "broken"
      BY <1>5, <2>3 DEF CallSlot, SingleShotInv, CallsAccountedFor
    <3>. QED BY <1>5, <2>1, <3>1 DEF CallSlot, SingleShotInv, SingleShotTypeOK, CallsAccountedFor
  <2>4. CASE handle = "set" /\ connected = "broken"
    <3>1. runs' = runs + 1 /\ connected' = "broken" /\ handle' = "set" /\ UNCHANGED <<early, underWay, posted>>
      BY <1>5, <2>4 DEF CallSlot
    <3>2. runs + posted + Cardinality(Breaking) = early + 1 + underWay
      BY <2>4 DEF SingleShotInv, CallsAccountedFor
    <3>3. runs' + posted' + Cardinality(Breaking') = early' + 1 + underWay'
      BY <1>0, <2>1, <3>1, <3>2 DEF SingleShotTypeOK
    <3>. QED BY <1>5, <2>1, <3>1, <3>3 DEF CallSlot, SingleShotInv, SingleShotTypeOK, CallsAccountedFor
  <2>5. CASE handle = "set" /\ connected # "broken"
    <3>1. /\ runs' = runs + 1 /\ runs = early /\ connected' = "broken" /\ handle' = "set"
          /\ UNCHANGED <<early, posted>> /\ underWay' = UnderWay
      BY <1>5, <2>5 DEF CallSlot, SingleShotInv, CallsAccountedFor
    <3>2. underWay' \in Int /\ runs' + posted' + Cardinality(Breaking') = early' + 1 + underWay'
      BY <1>0, <2>1, <2>2, <3>1 DEF SingleShotTypeOK
    <3>. QED BY <1>5, <2>1, <3>1, <3>2 DEF CallSlot, SingleShotInv, SingleShotTypeOK, CallsAccountedFor
  <2>. QED BY <1>0, <2>3, <2>4, <2>5 DEF SingleShotTypeOK
<1>6. ASSUME NEW t \in Emitters, SlotReturns(t) PROVE SingleShotInv'
  <2>1. CallsOK' /\ Breaking' = Breaking
    BY <1>0, <1>6, LeaveSlot DEF SlotReturns, SingleShotTypeOK
  <2>. QED BY <1>6, <2>1 DEF SlotReturns, SingleShotInv, SingleShotTypeOK, CallsAccountedFor
<1>7. CASE UNCHANGED singleShotVars
  BY <1>7, <1>a DEF singleShotVars, SingleShotInv, SingleShotTypeOK, CallsAccountedFor
<1>. QED BY <1>1, <1>2, <1>3, <1>4, <1>5, <1>6, <1>7 DEF SingleShotNext

\* The slot runs once, whatever emits the signal and wherever: more calls are
\* those that were under way when the connection was broken, of queued events or
\* in other threads, and those before connectSingleShot() had the handle.
THEOREM SingleShotCalledOnce == SingleShotSpec => []CalledOnce
<1>1. SingleShotInv => CalledOnce
  <2> SUFFICES ASSUME SingleShotInv PROVE CalledOnce
    OBVIOUS
  <2>1. Cardinality(Breaking) \in Nat
    BY FS_CardinalityType DEF SingleShotInv, SingleShotTypeOK
  <2>2. CASE connected = "broken"
    <3>1. runs + posted + Cardinality(Breaking) = early + 1 + underWay
      BY <2>2 DEF SingleShotInv, CallsAccountedFor
    <3>2. runs <= early + (1 + underWay)
      BY <2>1, <3>1 DEF SingleShotInv, SingleShotTypeOK
    <3>. QED BY <2>2, <3>2 DEF CalledOnce
  <2>3. CASE connected # "broken"
    BY <2>3 DEF SingleShotInv, SingleShotTypeOK, CallsAccountedFor, CalledOnce
  <2>. QED BY <2>2, <2>3
<1>. QED BY <1>1, SingleShotInvInit, SingleShotInvStep, PTL DEF SingleShotSpec
-----------------------------------------------------------------------------
(* NotifyGuard *)

GuardTypeOK ==
  /\ value \in [Properties -> Values] /\ announced \in [Properties -> Values]
  /\ signalData \in [Data -> SignalData \cup {None}]
  /\ instanceData \in [Signals -> Data \cup {None}]
  /\ guard \in [Guards -> Data \cup {None}]
  /\ crossed \subseteq Signals /\ sent \in [Signals -> Nat]

\* Data live as long as a guard holds them, and the list of the target has
\* them as long.
Held ==
  /\ \A g \in Guards : guard[g] # None => guard[g] \in Live
  /\ \A d \in Live : \E g \in Guards : guard[g] = d
  /\ \A s \in Signals : instanceData[s] # None =>
       instanceData[s] \in Live /\ signalData[instanceData[s]].signal = s

\* Data that are in charge of their signal alone remember of each of its
\* properties what it was when the signal was last emitted.
Remembered(d) ==
  LET s == signalData[d].signal
      start == signalData[d].start
  IN /\ \A p \in DOMAIN start : notifySignal[p] = s
     /\ signalData[d].shared => instanceData[s] = d /\ sent[s] = 0
     /\ s \notin crossed => ~Divided(s, d)
     /\ s \notin crossed /\ Callable(s) => \A p \in DOMAIN start : start[p] = announced[p]

GuardInv == GuardTypeOK /\ Held /\ (\A d \in Live : Remembered(d)) /\ Announced

\* There are as many data as guards, so a guard that has none finds unused ones.
LEMMA UnusedData ==
  ASSUME GuardTypeOK, Held, NEW g \in Guards, guard[g] = None
  PROVE  Unused \in Data /\ signalData[Unused] = None
<1>1. Cardinality(Guards) \in Nat /\ IsFiniteSet(Guards \ {g}) /\ Cardinality(Guards \ {g}) = Cardinality(Guards) - 1
  BY NotifyGuardAssumption, FS_CardinalityType, FS_RemoveElement
<1>2. IsFiniteSet(Data) /\ Cardinality(Data) = Cardinality(Guards)
  BY <1>1, FS_Interval DEF Data
<1>3. SUFFICES ASSUME Live = Data PROVE FALSE
  BY DEF Live, Unused
<1> DEFINE f == [d \in Data |-> CHOOSE h \in Guards : guard[h] = d]
<1>4. \A d \in Data : f[d] \in Guards /\ guard[f[d]] = d
  BY <1>3 DEF Held
<1>5. f \in [Data -> Guards \ {g}]
  BY <1>4, NotifyGuardAssumption DEF Data
<1> HIDE DEF f
<1>6. IsFiniteSet(Guards \ {g}) /\ Cardinality(Guards \ {g}) < Cardinality(Data)
  BY <1>1, <1>2
<1>7. PICK d, e \in Data : d # e /\ f[d] = f[e]
  BY <1>2, <1>5, <1>6, FS_PigeonHole
<1>. QED BY <1>4, <1>7

\* What a guard is added to: unused data, or those of the signal.
LEMMA AddedData ==
  ASSUME GuardInv, NEW g \in Guards, guard[g] = None, NEW s \in Signals, NEW scope \in Scopes
  PROVE  LET d == DataObject(s, scope) IN
         /\ d \in Data
         /\ signalData[d] # None => scope = "recursive" /\ instanceData[s] = d /\ signalData[d].signal = s
<1>1. CASE scope = "recursive" /\ instanceData[s] # None
  <2>1. DataObject(s, scope) = instanceData[s]
    BY <1>1 DEF DataObject
  <2>2. instanceData[s] \in Live /\ signalData[instanceData[s]].signal = s
    BY <1>1 DEF GuardInv, Held
  <2>. QED BY <1>1, <2>1, <2>2 DEF Live
<1>2. CASE ~(scope = "recursive" /\ instanceData[s] # None)
  <2>1. DataObject(s, scope) = Unused
    BY <1>2 DEF DataObject
  <2>2. Unused \in Data /\ signalData[Unused] = None
    BY UnusedData DEF GuardInv
  <2>. QED BY <2>1, <2>2
<1>. QED BY <1>1, <1>2

\* Data with the start values of more properties.
LEMMA AddType ==
  ASSUME GuardTypeOK, NEW d \in Data, NEW s \in Signals, NEW scope \in Scopes, NEW ps \in SUBSET Properties
  PROVE  LET old == IF signalData[d] = None THEN {} ELSE DOMAIN signalData[d].start
             new == Add(d, s, scope, ps)
         IN /\ new \in SignalData /\ new # None
            /\ new.signal = s /\ (new.shared <=> scope = "recursive")
            /\ DOMAIN new.start = old \cup ps /\ old \subseteq Properties
            /\ \A p \in old : new.start[p] = signalData[d].start[p]
            /\ \A p \in ps \ old : new.start[p] = value[p]
<1> DEFINE start == IF signalData[d] = None THEN [p \in {} |-> None] ELSE signalData[d].start
           old == IF signalData[d] = None THEN {} ELSE DOMAIN signalData[d].start
           fun == [p \in old \cup ps |-> IF p \in old THEN start[p] ELSE value[p]]
<1>1. old = DOMAIN start /\ old \subseteq Properties /\ \A p \in old : start[p] \in Values
  <2>1. CASE signalData[d] = None
    BY <2>1
  <2>2. CASE signalData[d] # None
    <3>1. signalData[d].start \in UNION {[qs -> Values] : qs \in SUBSET Properties}
      BY <2>2 DEF GuardTypeOK, SignalData
    <3>. QED BY <2>2, <3>1
  <2>. QED BY <2>1, <2>2
<1>2. Add(d, s, scope, ps) = [signal |-> s, shared |-> scope = "recursive", start |-> fun]
  BY <1>1 DEF Add
<1>3. fun \in [old \cup ps -> Values]
  BY <1>1 DEF GuardTypeOK
<1>4. fun \in UNION {[qs -> Values] : qs \in SUBSET Properties}
  BY <1>1, <1>3
<1>5. Add(d, s, scope, ps) \in SignalData
  BY <1>2, <1>4 DEF SignalData
<1>6. Add(d, s, scope, ps) # None
  BY <1>5, NotifyGuardAssumption
<1>7. \A p \in old : old # {} => start = signalData[d].start
  OBVIOUS
<1>8. /\ DOMAIN fun = old \cup ps
      /\ \A p \in old : fun[p] = signalData[d].start[p]
      /\ \A p \in ps \ old : fun[p] = value[p]
  BY <1>7
<1> HIDE DEF fun, old, start
<1>9. /\ Add(d, s, scope, ps).start = fun /\ Add(d, s, scope, ps).signal = s
      /\ Add(d, s, scope, ps).shared = (scope = "recursive")
  BY <1>2
<1>. QED BY <1>1, <1>5, <1>6, <1>8, <1>9 DEF old

\* A guard that is made keeps the invariant.
LEMMA MonitorStep ==
  ASSUME GuardInv, NEW g \in Guards, guard[g] = None, NEW s \in Signals, NEW scope \in Scopes,
         NEW ps \in SUBSET Properties, \A p \in ps : notifySignal[p] = s, Monitor(g, s, scope, ps)
  PROVE  GuardInv'
<1>0. PICK d : d = DataObject(s, scope)
  OBVIOUS
<1> DEFINE new == Add(d, s, scope, ps)
           old == IF signalData[d] = None THEN {} ELSE DOMAIN signalData[d].start
<1>1. /\ d \in Data /\ d # None
      /\ d \in Live => scope = "recursive" /\ instanceData[s] = d /\ signalData[d].signal = s
  BY <1>0, AddedData, NotifyGuardAssumption DEF Live, Data
<1>2. /\ new \in SignalData /\ new # None /\ new.signal = s /\ (new.shared <=> scope = "recursive")
      /\ DOMAIN new.start = old \cup ps /\ old \subseteq Properties
      /\ \A p \in old : new.start[p] = signalData[d].start[p]
      /\ \A p \in ps \ old : new.start[p] = value[p]
  BY <1>1, AddType DEF GuardInv
<1>3. old # {} => d \in Live /\ old = DOMAIN signalData[d].start
  BY <1>1 DEF Live
<1>4. /\ signalData' = [signalData EXCEPT ![d] = new] /\ guard' = [guard EXCEPT ![g] = d]
      /\ instanceData' = IF scope = "recursive" THEN [instanceData EXCEPT ![s] = d] ELSE instanceData
      /\ sent' = IF scope = "recursive" /\ ~\E h \in Guards : guard[h] # None
                      /\ signalData[guard[h]].shared /\ signalData[guard[h]].signal = s
                 THEN [sent EXCEPT ![s] = 0] ELSE sent
      /\ crossed' = IF Divided(s, d) THEN crossed \cup {s} ELSE crossed
      /\ UNCHANGED <<value, announced>>
  BY <1>0 DEF Monitor
<1> HIDE DEF new, old
<1>5. GuardTypeOK'
  BY <1>1, <1>2, <1>4 DEF GuardInv, GuardTypeOK
<1>6. signalData'[d] = new /\ \A e \in Data \ {d} : signalData'[e] = signalData[e]
  BY <1>1, <1>4 DEF GuardInv, GuardTypeOK
<1>7. Live' = Live \cup {d}
  BY <1>1, <1>2, <1>6 DEF Live
<1>8. crossed \subseteq crossed' /\ (s \notin crossed' => ~Divided(s, d))
  BY <1>4
<1>9. Held'
  <2>1. guard'[g] = d /\ \A h \in Guards \ {g} : guard'[h] = guard[h]
    BY <1>4 DEF GuardInv, GuardTypeOK
  <2>2. \A h \in Guards : guard'[h] # None => guard'[h] \in Live'
    BY <1>7, <2>1 DEF GuardInv, Held
  <2>3. \A e \in Live' : \E h \in Guards : guard'[h] = e
    <3>1. \A e \in Live : e # None
      BY NotifyGuardAssumption DEF Live, Data
    <3>. QED BY <1>7, <2>1, <3>1 DEF GuardInv, Held
  <2>4. ASSUME NEW t \in Signals, instanceData'[t] # None
        PROVE  instanceData'[t] \in Live' /\ signalData'[instanceData'[t]].signal = t
    <3>1. CASE scope = "recursive" /\ t = s
      BY <1>2, <1>4, <1>6, <1>7, <3>1 DEF GuardInv, GuardTypeOK
    <3>2. CASE ~(scope = "recursive" /\ t = s)
      <4>1. instanceData'[t] = instanceData[t]
        BY <1>4, <3>2 DEF GuardInv, GuardTypeOK
      <4>2. instanceData[t] \in Live /\ signalData[instanceData[t]].signal = t
        BY <2>4, <4>1 DEF GuardInv, Held
      <4>. QED BY <1>1, <1>2, <1>6, <1>7, <4>1, <4>2 DEF Live
    <3>. QED BY <3>1, <3>2
  <2>. QED BY <2>2, <2>3, <2>4 DEF Held
<1>10. ASSUME NEW e \in Live, e # d PROVE signalData[e].signal = s => Divided(s, d)
  BY <1>10 DEF Divided
<1>11. Remembered(d)'
  <2>1. \A p \in old \cup ps : notifySignal[p] = s
    BY <1>1, <1>3 DEF GuardInv, Remembered
  <2>2. new.shared => instanceData'[s] = d /\ sent'[s] = 0
    <3>1. ASSUME NEW h \in Guards, guard[h] # None, signalData[guard[h]].shared, signalData[guard[h]].signal = s
          PROVE  sent[s] = 0
      BY <3>1 DEF GuardInv, Held, Remembered
    <3>. QED BY <1>2, <1>4, <3>1 DEF GuardInv, GuardTypeOK
  <2>3. s \notin crossed' => ~Divided(s, d)'
    BY <1>6, <1>7, <1>8 DEF Divided, Live
  <2>4. ASSUME s \notin crossed', Callable(s), NEW p \in old \cup ps PROVE new.start[p] = announced'[p]
    <3>1. CASE p \in old
      BY <1>1, <1>2, <1>3, <1>4, <1>8, <2>4, <3>1 DEF GuardInv, Remembered
    <3>2. CASE p \notin old
      <4>1. ~Monitored(p)
        <5>1. ASSUME NEW e \in Live, p \in DOMAIN signalData[e].start PROVE FALSE
          <6>1. signalData[e].signal = s
            BY <2>1, <5>1 DEF GuardInv, Remembered
          <6>2. e = d
            BY <1>8, <1>10, <2>4, <6>1
          <6>. QED BY <3>2, <5>1, <6>2 DEF old, Live
        <5>. QED BY <5>1 DEF Monitored
      <4>2. p \in Properties /\ notifySignal[p] = s /\ s # None
        BY <1>2, <2>1, NotifyGuardAssumption
      <4>3. announced[p] = value[p]
        BY <1>8, <2>4, <4>1, <4>2 DEF GuardInv, Announced
      <4>. QED BY <1>2, <1>4, <2>4, <3>2, <4>3
    <3>. QED BY <3>1, <3>2
  <2>5. Callable(s)' <=> Callable(s)
    BY DEF Callable
  <2>. QED BY <1>2, <1>6, <2>1, <2>2, <2>3, <2>4, <2>5 DEF Remembered
<1>12. ASSUME NEW e \in Live, e # d PROVE Remembered(e)'
  <2>0. PICK t, start : t = signalData[e].signal /\ start = signalData[e].start
    OBVIOUS
  <2>1. Remembered(e)
    BY DEF GuardInv
  <2>2. signalData'[e] = signalData[e] /\ t \in Signals
    BY <1>6, <1>12, <2>0 DEF Live, GuardInv, GuardTypeOK, SignalData
  <2>3. signalData[e].shared => instanceData'[t] = e /\ sent'[t] = 0
    <3>1. signalData[e].shared /\ scope = "recursive" => t # s
      BY <1>0, <1>12, <2>0, <2>1, NotifyGuardAssumption DEF Remembered, DataObject, Live, Data
    <3>. QED BY <1>4, <2>0, <2>1, <2>2, <3>1 DEF Remembered, GuardInv, GuardTypeOK
  <2>4. t \notin crossed' => ~Divided(t, e)'
    <3>1. SUFFICES ASSUME t \notin crossed', Divided(t, e)' PROVE FALSE
      OBVIOUS
    <3>2. PICK x \in Live' \ {e} : signalData'[x].signal = t
      BY <2>0, <2>2, <3>1 DEF Divided
    <3>3. ~Divided(t, e)
      BY <1>8, <2>0, <2>1, <3>1 DEF Remembered
    <3>4. x = d /\ t = s
      BY <1>2, <1>6, <1>7, <3>2, <3>3 DEF Divided, Live
    <3>. QED BY <1>8, <1>10, <1>12, <2>0, <3>1, <3>4
  <2>5. Callable(t)' <=> Callable(t)
    BY DEF Callable
  <2>6. \A p \in DOMAIN start : notifySignal[p] = t
    BY <2>0, <2>1 DEF Remembered
  <2>7. t \notin crossed' /\ Callable(t) => \A p \in DOMAIN start : start[p] = announced'[p]
    BY <1>4, <1>8, <2>0, <2>1 DEF Remembered
  <2>. QED BY <2>0, <2>2, <2>3, <2>4, <2>5, <2>6, <2>7 DEF Remembered
<1>13. Announced'
  <2>1. \A p \in Properties : Monitored(p) => Monitored(p)'
    <3>1. ASSUME NEW e \in Live PROVE DOMAIN signalData[e].start \subseteq DOMAIN signalData'[e].start
      BY <1>2, <1>6 DEF Live, old
    <3>. QED BY <1>7, <3>1 DEF Monitored
  <2>2. \A s2 \in Signals : Callable(s2)' <=> Callable(s2)
    BY DEF Callable
  <2>. QED BY <1>4, <1>8, <2>1, <2>2, NotifyGuardAssumption DEF GuardInv, Announced
<1>. QED BY <1>5, <1>7, <1>9, <1>11, <1>12, <1>13 DEF GuardInv

\* The last guard of d goes.
ReleaseData(d) ==
  /\ Emit(d)
  /\ signalData' = [signalData EXCEPT ![d] = None]
  /\ instanceData' = [s \in Signals |-> IF instanceData[s] = d THEN None ELSE instanceData[s]]
  /\ UNCHANGED value

\* The other data are as before, and of those that go the signal has been
\* emitted, or the properties are as they were.
LEMMA ReleaseStep ==
  ASSUME GuardInv, NEW d \in Live, ReleaseData(d)
  PROVE  /\ value' \in [Properties -> Values] /\ announced' \in [Properties -> Values]
         /\ signalData' \in [Data -> SignalData \cup {None}]
         /\ instanceData' \in [Signals -> Data \cup {None}]
         /\ crossed' \subseteq Signals /\ sent' \in [Signals -> Nat]
         /\ Live' = Live \ {d}
         /\ \A s \in Signals : instanceData'[s] # None =>
              instanceData'[s] \in Live' /\ signalData'[instanceData'[s]].signal = s
         /\ \A e \in Live' : Remembered(e)'
         /\ Announced'
<1>0. PICK s, start, shared : s = signalData[d].signal /\ start = signalData[d].start /\ shared = signalData[d].shared
  OBVIOUS
<1>1. d \in Data /\ s \in Signals
  BY <1>0 DEF Live, GuardInv, GuardTypeOK, SignalData
<1>2. /\ \A p \in DOMAIN start : notifySignal[p] = s
      /\ shared => instanceData[s] = d /\ sent[s] = 0
      /\ s \notin crossed => ~Divided(s, d)
      /\ s \notin crossed /\ Callable(s) => \A p \in DOMAIN start : start[p] = announced[p]
  BY <1>0 DEF GuardInv, Remembered
<1>3. signalData'[d] = None /\ \A e \in Data \ {d} : signalData'[e] = signalData[e]
  BY <1>1 DEF ReleaseData, GuardInv, GuardTypeOK
<1>4. Live' = Live \ {d}
  BY <1>1, <1>3 DEF Live
<1>5. signalData' \in [Data -> SignalData \cup {None}] /\ instanceData' \in [Signals -> Data \cup {None}]
  BY <1>1 DEF ReleaseData, GuardInv, GuardTypeOK
<1>6. ASSUME NEW t \in Signals, instanceData'[t] # None
      PROVE  instanceData'[t] \in Live' /\ signalData'[instanceData'[t]].signal = t
  <2>1. instanceData'[t] = instanceData[t] /\ instanceData[t] # d /\ instanceData[t] # None
    BY <1>6 DEF ReleaseData
  <2>. QED BY <1>3, <1>4, <2>1 DEF GuardInv, Held, Live
<1>7. \/ /\ \E p \in DOMAIN start : value[p] # start[p]
         /\ Callable(s)
         /\ announced' = [p \in Properties |-> IF p \in Of(s) THEN value[p] ELSE announced[p]]
         /\ crossed' = IF Divided(s, d) THEN crossed ELSE crossed \ {s}
         /\ sent' = IF shared THEN [sent EXCEPT ![s] = @ + 1] ELSE sent
      \/ /\ ~(\E p \in DOMAIN start : value[p] # start[p]) \/ ~Callable(s)
         /\ UNCHANGED <<announced, crossed, sent>>
  BY <1>0 DEF ReleaseData, Emit, Announce
<1>8. value' = value /\ value \in [Properties -> Values]
  BY DEF ReleaseData, GuardInv, GuardTypeOK
<1>9. announced' \in [Properties -> Values] /\ crossed' \subseteq Signals /\ sent' \in [Signals -> Nat]
  BY <1>7, <1>8 DEF GuardInv, GuardTypeOK
<1>10. ASSUME NEW e \in Live, e # d PROVE Remembered(e)'
  <2>0. PICK t, begin : t = signalData[e].signal /\ begin = signalData[e].start
    OBVIOUS
  <2>1. signalData'[e] = signalData[e] /\ t \in Signals
    BY <1>3, <1>10, <2>0 DEF Live, GuardInv, GuardTypeOK, SignalData
  <2>2. /\ \A p \in DOMAIN begin : notifySignal[p] = t
        /\ signalData[e].shared => instanceData[t] = e /\ sent[t] = 0
        /\ t \notin crossed => ~Divided(t, e)
        /\ t \notin crossed /\ Callable(t) => \A p \in DOMAIN begin : begin[p] = announced[p]
    BY <2>0 DEF GuardInv, Remembered
  <2>3. t = s => Divided(s, d)
    BY <1>10, <2>0 DEF Divided
  <2>4. t = s => s \in crossed /\ crossed' = crossed
    BY <1>2, <1>7, <2>3
  <2>5. t \notin crossed' => t \notin crossed
    BY <1>7, <2>4
  <2>6. signalData[e].shared => instanceData'[t] = e /\ sent'[t] = 0
    <3>1. SUFFICES ASSUME signalData[e].shared PROVE instanceData'[t] = e /\ sent'[t] = 0
      OBVIOUS
    <3>2. instanceData'[t] = e
      BY <1>10, <2>1, <2>2, <3>1 DEF ReleaseData
    <3>3. shared => t # s
      BY <1>2, <1>10, <2>2, <3>1
    <3>4. sent'[t] = sent[t]
      BY <1>7, <2>1, <3>3 DEF GuardInv, GuardTypeOK
    <3>. QED BY <2>2, <3>1, <3>2, <3>4
  <2>7. t \notin crossed' => ~Divided(t, e)'
    <3>1. Divided(t, e)' => Divided(t, e)
      BY <1>3, <1>4 DEF Divided, Live
    <3>. QED BY <2>2, <2>5, <3>1
  <2>8. ASSUME t \notin crossed', Callable(t), NEW p \in DOMAIN begin PROVE begin[p] = announced'[p]
    <3>1. p \in Properties
      <4>1. begin \in UNION {[ps -> Values] : ps \in SUBSET Properties}
        BY <2>0 DEF Live, GuardInv, GuardTypeOK, SignalData
      <4>. QED BY <4>1
    <3>2. t # s
      BY <2>4, <2>8
    <3>3. announced'[p] = announced[p]
      BY <1>7, <2>2, <3>1, <3>2 DEF Of
    <3>. QED BY <2>2, <2>5, <2>8, <3>3
  <2>9. Callable(t)' <=> Callable(t)
    BY DEF Callable
  <2>. QED BY <2>0, <2>1, <2>2, <2>6, <2>7, <2>8, <2>9 DEF Remembered
<1>11. Announced'
  <2>1. SUFFICES ASSUME NEW p \in Properties, ~Monitored(p)', notifySignal[p] \notin crossed' \cup {None},
                        Callable(notifySignal[p])
                 PROVE  announced'[p] = value'[p]
    BY DEF Announced, Callable
  <2>2. PICK t : t = notifySignal[p]
    OBVIOUS
  <2>3. t \in Signals /\ t \notin crossed' /\ Callable(t)
    BY <2>1, <2>2, NotifyGuardAssumption
  <2>4. ASSUME Monitored(p) PROVE p \in DOMAIN start /\ t = s
    <3>1. PICK e \in Live : p \in DOMAIN signalData[e].start
      BY <2>4 DEF Monitored
    <3>2. e = d
      BY <1>3, <1>4, <2>1, <3>1 DEF Monitored, Live
    <3>. QED BY <1>0, <1>2, <2>2, <3>1, <3>2
  <2>5. CASE announced'[p] = value[p]
    BY <1>8, <2>5
  <2>6. CASE announced'[p] = announced[p] /\ t \notin crossed /\ ~Monitored(p)
    BY <1>8, <2>1, <2>2, <2>3, <2>6 DEF GuardInv, Announced
  <2>7. CASE UNCHANGED <<announced, crossed>> /\ (~(\E q \in DOMAIN start : value[q] # start[q]) \/ ~Callable(s))
    <3>1. CASE ~Monitored(p)
      BY <2>3, <2>6, <2>7, <3>1
    <3>2. CASE Monitored(p)
      BY <1>2, <1>8, <2>3, <2>4, <2>7, <3>2
    <3>. QED BY <3>1, <3>2
  <2>8. CASE /\ announced' = [q \in Properties |-> IF q \in Of(s) THEN value[q] ELSE announced[q]]
             /\ crossed' = IF Divided(s, d) THEN crossed ELSE crossed \ {s}
    <3>1. CASE t = s
      BY <2>1, <2>2, <2>5, <2>8, <3>1 DEF Of
    <3>2. CASE t # s
      BY <2>1, <2>2, <2>3, <2>4, <2>6, <2>8, <3>2 DEF Of
    <3>. QED BY <3>1, <3>2
  <2>. QED BY <1>7, <2>7, <2>8
<1>. QED BY <1>4, <1>5, <1>6, <1>8, <1>9, <1>10, <1>11

\* There is no guard at first.
LEMMA GuardInvInit == GuardInit => GuardInv
<1> SUFFICES ASSUME GuardInit PROVE GuardInv
  OBVIOUS
<1>1. Live = {}
  BY DEF GuardInit, Live
<1>. QED BY <1>1 DEF GuardInit, GuardInv, GuardTypeOK, Held, Announced

\* Each operation of a guard, and each change of a property, keeps what the data
\* remember.
LEMMA GuardInvStep == GuardInv /\ [GuardNext]_guardVars => GuardInv'
<1> SUFFICES ASSUME GuardInv, [GuardNext]_guardVars PROVE GuardInv'
  OBVIOUS
<1>1. ASSUME NEW g \in Guards, NEW scope \in Scopes, NEW p \in Properties, GuardProperty(g, p, scope)
      PROVE  GuardInv'
  <2>1. notifySignal[p] \in Signals
    BY <1>1, NotifyGuardAssumption DEF GuardProperty, Fit
  <2>. QED BY <1>1, <2>1, MonitorStep DEF GuardProperty
<1>2. ASSUME NEW g \in Guards, NEW scope \in Scopes, NEW s \in Signals, GuardSignal(g, s, scope)
      PROVE  GuardInv'
  BY <1>2, MonitorStep DEF GuardSignal, Of
<1>3. ASSUME NEW g \in Guards, Destroy(g) PROVE GuardInv'
  <2>1. guard[g] \in Live /\ guard'[g] = None /\ \A h \in Guards \ {g} : guard'[h] = guard[h]
    BY <1>3 DEF Destroy, GuardInv, GuardTypeOK, Held
  <2>2. guard' \in [Guards -> Data \cup {None}]
    BY <1>3 DEF Destroy, GuardInv, GuardTypeOK
  <2>3. CASE \E h \in Guards \ {g} : guard[h] = guard[g]
    <3>1. UNCHANGED <<signalData, instanceData, announced, crossed, sent, value>>
      BY <1>3, <2>3 DEF Destroy, Release
    <3>2. Live' = Live /\ (Announced' <=> Announced)
      BY <3>1 DEF Live, Announced, Monitored, Callable
    <3>3. ASSUME NEW d \in Live PROVE Remembered(d)'
      BY <3>1, <3>2 DEF GuardInv, Remembered, Divided, Callable
    <3>4. Held'
      BY <2>1, <2>3, <3>1, <3>2 DEF GuardInv, Held
    <3>. QED BY <2>2, <3>1, <3>2, <3>3, <3>4 DEF GuardInv, GuardTypeOK
  <2>4. CASE ~\E h \in Guards \ {g} : guard[h] = guard[g]
    <3>1. ReleaseData(guard[g])
      BY <1>3, <2>4 DEF Destroy, Release, ReleaseData
    <3>2. PICK d \in Live : d = guard[g]
      BY <2>1
    <3>3. Live' = Live \ {d}
      BY <3>1, <3>2, ReleaseStep
    <3>4. /\ \A h \in Guards : guard'[h] # None => guard'[h] \in Live'
          /\ \A e \in Live' : \E h \in Guards : guard'[h] = e
      BY <2>1, <2>4, <3>2, <3>3 DEF GuardInv, Held
    <3>. QED BY <2>2, <3>1, <3>2, <3>4, ReleaseStep DEF GuardInv, GuardTypeOK, Held
  <2>. QED BY <2>3, <2>4
<1>4. ASSUME NEW g \in Guards, NEW h \in Guards, Move(g, h) PROVE GuardInv'
  <2>1. /\ g # h /\ guard[g] \in Live /\ guard'[g] = None /\ guard'[h] = guard[g]
        /\ \A k \in Guards \ {g, h} : guard'[k] = guard[k]
    BY <1>4 DEF Move, GuardInv, GuardTypeOK, Held
  <2>2. guard' \in [Guards -> Data \cup {None}] /\ value' = value
    BY <1>4 DEF Move, GuardInv, GuardTypeOK
  <2>3. CASE guard[h] = None \/ \E k \in Guards \ {h} : guard[k] = guard[h]
    <3>1. UNCHANGED <<signalData, instanceData, announced, crossed, sent, value>>
      BY <1>4, <2>3 DEF Move, Release
    <3>2. Live' = Live /\ (Announced' <=> Announced)
      BY <3>1 DEF Live, Announced, Monitored, Callable
    <3>3. ASSUME NEW d \in Live PROVE Remembered(d)'
      BY <3>1, <3>2 DEF GuardInv, Remembered, Divided, Callable
    <3>4. \A d \in Live : d # None
      BY NotifyGuardAssumption DEF Live, Data
    <3>5. Held'
      BY <2>1, <2>3, <3>1, <3>2, <3>4 DEF GuardInv, Held
    <3>. QED BY <2>2, <3>1, <3>2, <3>3, <3>5 DEF GuardInv, GuardTypeOK
  <2>4. CASE guard[h] # None /\ ~\E k \in Guards \ {h} : guard[k] = guard[h]
    <3>1. ReleaseData(guard[h])
      BY <1>4, <2>4 DEF Move, Release, ReleaseData
    <3>2. PICK d \in Live : d = guard[h]
      BY <2>4 DEF GuardInv, Held
    <3>3. Live' = Live \ {d}
      BY <3>1, <3>2, ReleaseStep
    <3>4. /\ \A k \in Guards : guard'[k] # None => guard'[k] \in Live'
          /\ \A e \in Live' : \E k \in Guards : guard'[k] = e
      BY <2>1, <2>4, <3>2, <3>3 DEF GuardInv, Held
    <3>. QED BY <2>2, <3>1, <3>2, <3>4, ReleaseStep DEF GuardInv, GuardTypeOK, Held
  <2>. QED BY <2>3, <2>4
<1>5. ASSUME NEW p \in Properties, NEW v \in Values, Write(p, v) PROVE GuardInv'
  <2>1. /\ value' \in [Properties -> Values] /\ \A q \in Properties \ {p} : value'[q] = value[q]
        /\ UNCHANGED <<signalData, instanceData, guard, announced, crossed, sent>> /\ Monitored(p)
    BY <1>5 DEF Write, GuardInv, GuardTypeOK
  <2>2. Live' = Live
    BY <2>1 DEF Live
  <2>3. ASSUME NEW d \in Live PROVE Remembered(d)'
    BY <2>1, <2>2 DEF GuardInv, Remembered, Divided, Callable
  <2>4. Announced'
    BY <2>1, <2>2 DEF GuardInv, Announced, Monitored, Callable
  <2>. QED BY <2>1, <2>2, <2>3, <2>4 DEF GuardInv, GuardTypeOK, Held
<1>6. CASE UNCHANGED guardVars
  <2>1. Live' = Live /\ (Announced' <=> Announced)
    BY <1>6 DEF guardVars, Live, Announced, Monitored, Callable
  <2>2. ASSUME NEW d \in Live PROVE Remembered(d)'
    BY <1>6, <2>1 DEF guardVars, GuardInv, Remembered, Divided, Callable
  <2>. QED BY <1>6, <2>1, <2>2 DEF guardVars, GuardInv, GuardTypeOK, Held
<1>. QED BY <1>1, <1>2, <1>3, <1>4, <1>5, <1>6 DEF GuardNext, GuardNothing

\* A change that a guard monitored is announced when nothing monitors the
\* property any more, in whatever order guards come, move and go.
THEOREM GuardAnnounced == GuardSpec => []Announced
<1>1. GuardInv => Announced
  BY DEF GuardInv
<1>. QED BY <1>1, GuardInvInit, GuardInvStep, PTL DEF GuardSpec

\* What a signal is emitted for is the end of the one shared object that
\* remembers it.
LEMMA ReleaseEmits ==
  ASSUME GuardInv, NEW d \in Live, ReleaseData(d), NEW s \in Signals, sent'[s] > sent[s]
  PROVE  /\ sent[s] = 0
         /\ \A e \in Live' : ~(signalData'[e].shared /\ signalData'[e].signal = s)
         /\ s \notin crossed => \E p \in Of(s) : announced[p] # value[p]
<1>0. PICK start, t : start = signalData[d].start /\ t = signalData[d].signal
  OBVIOUS
<1>8. /\ \A p \in DOMAIN start : notifySignal[p] = t
      /\ signalData[d].shared => instanceData[t] = d /\ sent[t] = 0
      /\ t \notin crossed /\ Callable(t) => \A p \in DOMAIN start : start[p] = announced[p]
  BY <1>0 DEF GuardInv, Remembered
<1>1. sent[s] \in Nat /\ sent \in [Signals -> Nat]
  BY DEF GuardInv, GuardTypeOK
<1>2. ~(sent'[s] = sent[s])
  BY <1>1
<1>3. /\ \E p \in DOMAIN start : value[p] # start[p]
      /\ Callable(t) /\ signalData[d].shared /\ sent' = [sent EXCEPT ![t] = @ + 1]
  BY <1>0, <1>2 DEF ReleaseData, Emit, Announce
<1>4. t = s
  BY <1>1, <1>2, <1>3
<1>5. instanceData[s] = d /\ sent[s] = 0
  BY <1>8, <1>3, <1>4
<1>6. ASSUME NEW e \in Live', signalData'[e].shared, signalData'[e].signal = s PROVE FALSE
  <2>1. e \in Live \ {d} /\ signalData'[e] = signalData[e]
    BY ReleaseStep DEF ReleaseData, Live, GuardInv, GuardTypeOK
  <2>. QED BY <1>5, <1>6, <2>1 DEF GuardInv, Remembered
<1>7. ASSUME s \notin crossed PROVE \E p \in Of(s) : announced[p] # value[p]
  <2>1. PICK p \in DOMAIN start : value[p] # start[p]
    BY <1>3
  <2>2. start[p] = announced[p] /\ notifySignal[p] = s
    BY <1>8, <1>3, <1>4, <1>7, <2>1
  <2>3. start \in UNION {[ps -> Values] : ps \in SUBSET Properties}
    BY <1>0 DEF Live, GuardInv, GuardTypeOK, SignalData
  <2>4. p \in Properties
    BY <2>3
  <2>. QED BY <2>1, <2>2, <2>4 DEF Of
<1>. QED BY <1>5, <1>6, <1>7

\* Guards that consider other scopes emit their signal once, when the last of
\* them goes, and only for a change.
THEOREM GuardEmittedOnce == GuardSpec => EmittedOnce
<1> DEFINE OnlyOnce ==
      \A s \in Signals : sent'[s] > sent[s] =>
        /\ sent[s] = 0 /\ ~\E g \in Guards : Shared(g, s)'
        /\ s \notin crossed => \E p \in Of(s) : announced[p] # value[p]
<1>1. ASSUME GuardInv, [GuardNext]_guardVars PROVE [OnlyOnce]_guardVars
  <2>0. SUFFICES ASSUME GuardNext, NEW s \in Signals, sent'[s] > sent[s]
                 PROVE  /\ sent[s] = 0 /\ ~\E g \in Guards : Shared(g, s)'
                        /\ s \notin crossed => \E p \in Of(s) : announced[p] # value[p]
    BY <1>1
  <2>1. sent[s] \in Nat /\ sent \in [Signals -> Nat] /\ sent'[s] # sent[s]
    BY <1>1, <2>0 DEF GuardInv, GuardTypeOK
  <2>2. GuardInv'
    BY <1>1, GuardInvStep
  <2>3. ASSUME NEW d \in Live, ReleaseData(d)
        PROVE  /\ sent[s] = 0 /\ ~\E g \in Guards : Shared(g, s)'
               /\ s \notin crossed => \E p \in Of(s) : announced[p] # value[p]
    <3>1. ASSUME NEW g \in Guards, Shared(g, s)' PROVE FALSE
      <4>1. guard'[g] \in Live'
        BY <2>2, <3>1 DEF Shared, GuardInv, Held
      <4>. QED BY <1>1, <2>0, <2>3, <3>1, <4>1, ReleaseEmits DEF Shared
    <3>. QED BY <1>1, <2>0, <2>3, <3>1, ReleaseEmits
  <2>4. ASSUME NEW g \in Guards, NEW scope \in Scopes, NEW t \in Signals, NEW ps, Monitor(g, t, scope, ps)
        PROVE  FALSE
    BY <2>0, <2>1, <2>4 DEF Monitor
  <2>5. ASSUME NEW g \in Guards, NEW scope \in Scopes, NEW p \in Properties, GuardProperty(g, p, scope)
        PROVE  FALSE
    <3>1. notifySignal[p] \in Signals
      BY <2>5, NotifyGuardAssumption DEF GuardProperty, Fit
    <3>. QED BY <2>4, <2>5, <3>1 DEF GuardProperty
  <2>6. ASSUME NEW g \in Guards, NEW scope \in Scopes, NEW t \in Signals, GuardSignal(g, t, scope)
        PROVE  FALSE
    BY <2>4, <2>6 DEF GuardSignal
  <2>7. ASSUME NEW g \in Guards, Destroy(g) PROVE guard[g] \in Live /\ ReleaseData(guard[g])
    BY <1>1, <2>1, <2>7 DEF Destroy, Release, ReleaseData, GuardInv, Held
  <2>8. ASSUME NEW g \in Guards, NEW h \in Guards, Move(g, h) PROVE guard[h] \in Live /\ ReleaseData(guard[h])
    BY <1>1, <2>1, <2>8 DEF Move, Release, ReleaseData, GuardInv, Held
  <2>9. CASE GuardNothing \/ \E p \in Properties, v \in Values : Write(p, v)
    BY <2>1, <2>9 DEF GuardNothing, guardVars, Write
  <2>. QED BY <2>0, <2>3, <2>5, <2>6, <2>7, <2>8, <2>9 DEF GuardNext
<1>. QED BY <1>1, GuardInvInit, GuardInvStep, PTL DEF GuardSpec, EmittedOnce
-----------------------------------------------------------------------------
(* KDCoro *)

Awaiter ==
  [sender : Senders, context : {Watched, NoObject}, receiver : {Watched, NoObject}, held : BOOLEAN,
   live : BOOLEAN, result : {"none", "value", "error"}, handle : BOOLEAN, orphan : BOOLEAN]
Slots ==
  [on : Objects, signal : {"awaited", "destroyed"},
   calls : {"terminate", "callback", "senderGone", "receiverGone"}, awaiter : Nat]
EmissionOf == [of : Objects, signal : {"awaited", "destroyed"}, next : Seq(Slots)]

CoroTypeOK ==
  /\ objects \subseteq Objects /\ coroutine \in {"running", "suspended", "done", "destroyed"}
  /\ at \in Nat /\ level \in Nat /\ awaiters \in Seq(Awaiter) /\ slots \in Seq(Slots)
  /\ emitting \in Seq(EmissionOf) /\ wrong \subseteq Slots

\* A connection is one that is made for its awaiter, or the terminator's.
Callback(n)   == Slot(awaiters[n].sender, "awaited", "callback", n)
SenderGone(n) == Slot(awaiters[n].sender, "destroyed", "senderGone", n)
Made(s) ==
  \/ s = Slot(Watched, "destroyed", "terminate", 0)
  \/ /\ s.awaiter \in DOMAIN awaiters
     /\ \/ s = Callback(s.awaiter)
        \/ s = SenderGone(s.awaiter)
        \/ s.calls = "receiverGone" /\ awaiters[s.awaiter].receiver # NoObject
Connected == ToSet(slots)

\* An object's end is told by the outermost signal, and objects that have
\* ended emit no others.
SignalsRight ==
  /\ \A s \in Connected : Made(s)
  /\ \A k \in DOMAIN emitting :
       /\ emitting[k].signal = "awaited" => emitting[k].of \in objects
       /\ emitting[k].signal = "destroyed" => k = 1 /\ emitting[k].of \notin objects
       /\ \A s \in ToSet(emitting[k].next) : s.on = emitting[k].of /\ s.signal = emitting[k].signal

\* What the coroutine waits for lives and has no result, and an awaiter that
\* has the handle and no result is waited for, or was when the frame went.
Waiting ==
  /\ IF coroutine = "suspended"
     THEN /\ at \in DOMAIN awaiters /\ awaiters[at].live
          /\ awaiters[at].handle /\ awaiters[at].result = "none"
     ELSE at = 0
  /\ \A n \in DOMAIN awaiters : awaiters[n].handle /\ awaiters[n].result = "none" =>
       coroutine = "destroyed" \/ (coroutine = "suspended" /\ at = n)
  /\ coroutine \in {"done", "destroyed"} => \A n \in DOMAIN awaiters : ~awaiters[n].live

\* What is connected of an awaiter that is no longer waited for.
LeftBehind ==
  /\ \A n \in DOMAIN awaiters :
       /\ awaiters[n].result = "value" => Callback(n) \notin Connected
       /\ awaiters[n].result = "error" =>
            awaiters[n].handle /\ (awaiters[n].receiver = NoObject => awaiters[n].sender \notin objects)
       /\ SenderGone(n) \in Connected /\ ~awaiters[n].held => coroutine = "suspended" /\ at = n
  /\ coroutine = "destroyed" /\ (\E n \in DOMAIN awaiters : awaiters[n].context = Watched /\ Callback(n) \in Connected) =>
       Len(emitting) = 1 /\ emitting[1].signal = "destroyed" /\ emitting[1].of = Watched

\* The end of its sender is what the coroutine will learn.
SenderWatched ==
  coroutine = "suspended" /\ ~awaiters[at].orphan =>
    /\ SenderGone(at) \in Connected
    /\ awaiters[at].sender \notin objects =>
         emitting # <<>> /\ SenderGone(at) \in ToSet(emitting[1].next)

\* A slot that has gone wrong stays what it is.
WrongStays ==
  \A s \in wrong :
    /\ s.awaiter \in DOMAIN awaiters
    /\ LET a == awaiters[s.awaiter] IN
       \/ a.receiver # NoObject
       \/ s.calls = "callback" /\ (IF a.handle THEN a.context = NoObject ELSE ~a.live)
       \/ s.calls = "senderGone" /\ a.held

CoroInv == CoroTypeOK /\ SignalsRight /\ Waiting /\ LeftBehind /\ SenderWatched /\ WrongStays

\* What an action leaves as it is in the awaiters.
SameAwaiters ==
  /\ DOMAIN awaiters \subseteq DOMAIN awaiters'
  /\ \A n \in DOMAIN awaiters :
       /\ awaiters'[n].sender = awaiters[n].sender /\ awaiters'[n].context = awaiters[n].context
       /\ awaiters'[n].receiver = awaiters[n].receiver /\ awaiters'[n].held = awaiters[n].held

\* Nothing is connected at first.
LEMMA CoroInvInit == ASSUME CoroAssumption, CoroInit PROVE CoroInv
<1>1. CoroTypeOK
  BY DEF CoroInit, CoroTypeOK
<1>2. DOMAIN awaiters = {} /\ Connected = {} /\ DOMAIN emitting = {}
  BY DEF CoroInit, Connected, ToSet
<1>3. SignalsRight
  BY <1>2 DEF SignalsRight
<1>4. Waiting /\ LeftBehind /\ SenderWatched /\ WrongStays
  BY <1>2 DEF CoroInit, Waiting, LeftBehind, SenderWatched, WrongStays
<1>. QED BY <1>1, <1>3, <1>4 DEF CoroInv

\* Connections that are broken are gone, and the others are left.
LEMMA DisconnectRight ==
  ASSUME CoroTypeOK, NEW gone
  PROVE  Disconnect(gone) \in Seq(Slots) /\ ToSet(Disconnect(gone)) = Connected \ gone
<1>1. slots \in Seq(Slots) /\ Range(slots) = Connected /\ ToSet(slots) = Connected
  BY DEF CoroTypeOK, Connected, ToSet, Range
<1>2. Among(slots, Connected \ gone) \in Seq(Slots) /\ Range(Among(slots, Connected \ gone)) = Connected \cap (Connected \ gone)
  BY ONLY <1>1, AmongRight
<1>3. Disconnect(gone) = Among(slots, Connected \ gone)
  BY <1>1 DEF Disconnect
<1>. QED BY <1>2, <1>3 DEF ToSet, Range

\* A signal calls what is connected to it.
LEMMA SlotsOfRight ==
  ASSUME CoroTypeOK, NEW o, NEW signal
  PROVE  /\ SlotsOf(o, signal) \in Seq(Slots)
         /\ ToSet(SlotsOf(o, signal)) = {s \in Connected : s.on = o /\ s.signal = signal}
<1> DEFINE called == {s \in Connected : s.on = o /\ s.signal = signal}
<1>1. slots \in Seq(Slots) /\ Range(slots) = Connected /\ ToSet(slots) = Connected
  BY DEF CoroTypeOK, Connected, ToSet, Range
<1>2. Among(slots, called) \in Seq(Slots) /\ Range(Among(slots, called)) = Connected \cap called
  BY ONLY <1>1, AmongRight
<1>3. SlotsOf(o, signal) = Among(slots, called)
  BY <1>1 DEF SlotsOf
<1>. QED BY <1>2, <1>3 DEF ToSet, Range

\* The innermost signal goes on to its next slot.
LEMMA RestRight ==
  ASSUME CoroTypeOK, Calling
  PROVE  /\ Len(emitting) \in Nat /\ Len(emitting) >= 1 /\ DOMAIN emitting = 1 .. Len(emitting)
         /\ Inner = emitting[Len(emitting)] /\ Head(Inner.next) \in ToSet(Inner.next)
         /\ Rest \in Seq(EmissionOf) /\ Len(Rest) = Len(emitting) /\ DOMAIN Rest = 1 .. Len(emitting)
         /\ \A k \in 1 .. Len(emitting) :
              /\ Rest[k].of = emitting[k].of /\ Rest[k].signal = emitting[k].signal
              /\ ToSet(Rest[k].next) \subseteq ToSet(emitting[k].next)
              /\ \A s \in ToSet(emitting[k].next) :
                   s \in ToSet(Rest[k].next) \/ (k = Len(emitting) /\ s = Head(Inner.next))
<1>1. PICK l : l = Len(emitting)
  OBVIOUS
<1>2. l \in Nat /\ l >= 1 /\ DOMAIN emitting = 1 .. l /\ emitting \in [1 .. l -> EmissionOf] /\ l \in 1 .. l
  <2>1. emitting \in Seq(EmissionOf) /\ emitting # <<>>
    BY DEF CoroTypeOK, Calling
  <2>2. l \in Nat /\ DOMAIN emitting = 1 .. l /\ emitting \in [1 .. l -> EmissionOf]
    BY <1>1, <2>1, LenProperties
  <2>3. l # 0
    BY <1>1, <2>1, EmptySeq
  <2>. QED BY <2>2, <2>3
<1>3. PICK list : list = Inner.next
  OBVIOUS
<1>4. list \in Seq(Slots) /\ list # <<>> /\ list = emitting[l].next
  BY <1>1, <1>2, <1>3 DEF Calling, Inner, EmissionOf
<1>5. /\ Tail(list) \in Seq(Slots) /\ ToSet(Tail(list)) \subseteq ToSet(list) /\ Head(list) \in ToSet(list)
      /\ \A s \in ToSet(list) : s = Head(list) \/ s \in ToSet(Tail(list))
  <2>1. Len(list) \in Nat /\ Len(list) >= 1 /\ DOMAIN list = 1 .. Len(list) /\ \A i \in 1 .. Len(list) : list[i] \in Slots
    BY <1>4, LenProperties, EmptySeq, ElementOfSeq
  <2>2. Head(list) = list[1] /\ Tail(list) \in Seq(Slots) /\ DOMAIN Tail(list) = 1 .. Len(list) - 1
        /\ \A i \in 1 .. Len(list) - 1 : Tail(list)[i] = list[i + 1]
    BY <1>4, HeadTailProperties, LenProperties
  <2>3. ASSUME NEW i \in 1 .. Len(list) PROVE i = 1 \/ (i - 1 \in 1 .. Len(list) - 1 /\ list[i] = Tail(list)[i - 1])
    BY ONLY <2>1, <2>2
  <2>4. \A i \in 1 .. Len(list) - 1 : i + 1 \in 1 .. Len(list)
    BY ONLY <2>1
  <2>5. 1 \in 1 .. Len(list)
    BY ONLY <2>1
  <2>6. PICK tail : tail = Tail(list)
    OBVIOUS
  <2>7. ToSet(list) = {list[i] : i \in 1 .. Len(list)} /\ ToSet(tail) = {tail[i] : i \in 1 .. Len(list) - 1}
    BY ONLY <2>1, <2>2, <2>6 DEF ToSet
  <2>8. ToSet(tail) \subseteq ToSet(list)
    BY ONLY <2>2, <2>4, <2>6, <2>7
  <2>9. \A s \in ToSet(list) : s = Head(list) \/ s \in ToSet(tail)
    BY ONLY <2>2, <2>3, <2>6, <2>7
  <2>10. Head(list) \in ToSet(list)
    BY ONLY <2>2, <2>5, <2>7
  <2>. QED BY ONLY <2>2, <2>6, <2>8, <2>9, <2>10
<1>6. PICK rest : rest = Rest
  OBVIOUS
<1>7. /\ rest = [emitting EXCEPT ![l] = [of |-> emitting[l].of, signal |-> emitting[l].signal, next |-> Tail(list)]]
  <2>1. emitting[l] \in EmissionOf
    BY <1>2
  <2>2. rest = [emitting EXCEPT ![l] = [emitting[l] EXCEPT !.next = Tail(list)]]
    BY <1>1, <1>3, <1>6 DEF Rest
  <2>3. [emitting[l] EXCEPT !.next = Tail(list)] = [of |-> emitting[l].of, signal |-> emitting[l].signal, next |-> Tail(list)]
    <3>1. PICK old : old = emitting[l]
      OBVIOUS
    <3>2. PICK tail : tail = Tail(list)
      OBVIOUS
    <3>3. [old EXCEPT !.next = tail] = [of |-> old.of, signal |-> old.signal, next |-> tail]
      BY ONLY <2>1, <3>1 DEF EmissionOf
    <3>. QED BY ONLY <3>1, <3>2, <3>3
  <2>. QED BY <2>2, <2>3
<1>8. rest \in [1 .. l -> EmissionOf]
  BY ONLY <1>2, <1>5, <1>7 DEF EmissionOf
<1>9. rest \in Seq(EmissionOf) /\ Len(rest) = l /\ DOMAIN rest = 1 .. l
  <2>1. PICK S : S = EmissionOf
    OBVIOUS
  <2>2. rest \in [1 .. l -> S]
    BY ONLY <1>8, <2>1
  <2>3. rest \in Seq(S) /\ Len(rest) = l /\ DOMAIN rest = 1 .. l
    BY ONLY <1>2, <2>2, FunctionIsSeq
  <2>. QED BY ONLY <2>1, <2>3
<1>10. ASSUME NEW k \in 1 .. l
       PROVE  /\ rest[k].of = emitting[k].of /\ rest[k].signal = emitting[k].signal
              /\ ToSet(rest[k].next) \subseteq ToSet(emitting[k].next)
              /\ \A s \in ToSet(emitting[k].next) : s \in ToSet(rest[k].next) \/ (k = l /\ s = Head(list))
  <2>1. CASE k = l
    <3>1. rest[k] = [of |-> emitting[l].of, signal |-> emitting[l].signal, next |-> Tail(list)]
      BY <1>2, <1>7, <2>1
    <3>. QED BY <1>4, <1>5, <2>1, <3>1
  <2>2. CASE k # l
    BY <1>2, <1>7, <2>2
  <2>. QED BY <2>1, <2>2
<1>. QED BY <1>1, <1>2, <1>3, <1>4, <1>5, <1>6, <1>9, <1>10 DEF Inner

\* Connections stay what they have been made for.
LEMMA MadeStays ==
  ASSUME SameAwaiters
  PROVE  /\ \A n \in DOMAIN awaiters : Callback(n)' = Callback(n) /\ SenderGone(n)' = SenderGone(n)
         /\ \A s : Made(s) => Made(s)'
BY DEF SameAwaiters, Made, Callback, SenderGone, Slot

\* A connection that calls an awaiter is one of those made for it.
LEMMA KindOfSlot ==
  ASSUME NEW s, Made(s)
  PROVE  /\ s.calls = "terminate" => s.on = Watched /\ s.signal = "destroyed"
         /\ s.calls # "terminate" => s.awaiter \in DOMAIN awaiters
         /\ s.calls = "callback" => s = Callback(s.awaiter)
         /\ s.calls = "senderGone" => s = SenderGone(s.awaiter)
         /\ s.calls \notin {"terminate", "callback", "senderGone"} =>
              s.calls = "receiverGone" /\ awaiters[s.awaiter].receiver # NoObject
BY DEF Made, Callback, SenderGone, Slot

\* The signals that are being emitted go on, and no others.
GoesOn ==
  /\ DOMAIN emitting' \subseteq DOMAIN emitting
  /\ \A k \in DOMAIN emitting' :
       /\ emitting'[k].of = emitting[k].of /\ emitting'[k].signal = emitting[k].signal
       /\ ToSet(emitting'[k].next) \subseteq ToSet(emitting[k].next)

\* Signals stay right where no object goes.
LEMMA SignalsStay ==
  ASSUME SignalsRight, SameAwaiters, GoesOn, objects' = objects,
         \A s \in Connected' : s \in Connected \/ Made(s)'
  PROVE  SignalsRight'
<1>1. \A s \in Connected' : Made(s)'
  BY MadeStays DEF SignalsRight
<1>2. ASSUME NEW k \in DOMAIN emitting'
      PROVE  /\ emitting'[k].signal = "awaited" => emitting'[k].of \in objects'
             /\ emitting'[k].signal = "destroyed" => k = 1 /\ emitting'[k].of \notin objects'
             /\ \A s \in ToSet(emitting'[k].next) : s.on = emitting'[k].of /\ s.signal = emitting'[k].signal
  BY DEF SignalsRight, GoesOn
<1>. QED BY ONLY <1>1, <1>2, Zenon DEF SignalsRight, ToSet

\* A slot that has gone wrong stays what it is while awaiters are not changed.
LEMMA WrongKept ==
  ASSUME WrongStays, wrong' = wrong, awaiters' = awaiters
  PROVE  WrongStays'
BY DEF WrongStays

\* What an awaiter and the numbers of a sequence are.
LEMMA AwaiterTypes ==
  ASSUME CoroTypeOK
  PROVE  /\ Len(awaiters) \in Nat /\ DOMAIN awaiters = 1 .. Len(awaiters)
         /\ awaiters \in [1 .. Len(awaiters) -> Awaiter]
         /\ Len(emitting) \in Nat /\ DOMAIN emitting = 1 .. Len(emitting)
         /\ \A k \in DOMAIN emitting : emitting[k] \in EmissionOf
BY LenProperties, ElementOfSeq DEF CoroTypeOK
-----------------------------------------------------------------------------
\* yield_value() connects the terminator.
LEMMA CoYieldKeeps ==
  ASSUME CoroAssumption, CoroInv, CoYield
  PROVE  CoroInv'
<1>. USE DEF CoroInv
<1>1. PICK new : new = Slot(Watched, "destroyed", "terminate", 0)
  OBVIOUS
<1>2. /\ slots \in Seq(Slots) /\ new \in Slots /\ slots' = Append(slots, new) /\ coroutine = "running"
      /\ UNCHANGED <<objects, coroutine, at, level, awaiters, emitting, wrong>>
  BY <1>1 DEF CoYield, Free, InControl, Slots, Slot, Objects, CoroTypeOK
<1>3. slots' \in Seq(Slots) /\ Connected' = Connected \cup {new}
  <2>1. ToSet(Append(slots, new)) = ToSet(slots) \cup {new}
    <3>1. Range(Append(slots, new)) = Range(slots) \cup {new}
      BY <1>2, AppendRight
    <3>. QED BY <3>1 DEF Range, ToSet
  <2>. QED BY <1>2, <2>1, AppendProperties DEF Connected
<1>4. CoroTypeOK'
  BY <1>2, <1>3 DEF CoroTypeOK
<1>5. SameAwaiters /\ GoesOn
  BY <1>2 DEF SameAwaiters, GoesOn
<1>6. SignalsRight'
  <2>1. Made(new)'
    BY <1>1 DEF Made
  <2>. QED BY <1>2, <1>3, <1>5, <2>1, SignalsStay
<1>7. \A n \in DOMAIN awaiters : Callback(n) # new /\ SenderGone(n) # new
  BY <1>1 DEF Callback, SenderGone, Slot
<1>8. LeftBehind'
  BY <1>2, <1>3, <1>7 DEF LeftBehind, Callback, SenderGone
<1>9. Waiting' /\ SenderWatched' /\ WrongStays'
  BY <1>2, WrongKept DEF Waiting, SenderWatched
<1>. QED BY <1>4, <1>6, <1>8, <1>9

\* kdCoroSignal() connects a new awaiter.
LEMMA MakeAwaiterKeeps ==
  ASSUME CoroAssumption, CoroInv, NEW sender \in Senders, NEW c \in {Watched, NoObject},
         NEW r \in {Watched, NoObject}, NEW held \in BOOLEAN, MakeAwaiter(sender, c, r, held)
  PROVE  CoroInv'
<1>. USE DEF CoroInv
<1>1. PICK n : n = Len(awaiters) + 1
  OBVIOUS
<1>2. PICK new : new = [sender |-> sender, context |-> c, receiver |-> r, held |-> held, live |-> TRUE,
                        result |-> "none", handle |-> FALSE, orphan |-> FALSE]
  OBVIOUS
<1>3. PICK callback, gone : callback = Slot(sender, "awaited", "callback", n) /\ gone = Slot(r, "destroyed", "receiverGone", n)
  OBVIOUS
<1>4. /\ coroutine = "running" /\ awaiters' = Append(awaiters, new)
      /\ slots' = slots \o (IF r = NoObject THEN <<>> ELSE <<gone>>) \o <<callback>>
      /\ UNCHANGED <<objects, coroutine, at, level, emitting, wrong>>
  <2>1. slots' = LET m == Len(awaiters) + 1 IN
           slots \o (IF r = NoObject THEN <<>> ELSE <<Slot(r, "destroyed", "receiverGone", m)>>)
                 \o <<Slot(sender, "awaited", "callback", m)>>
    BY DEF MakeAwaiter
  <2>2. slots' = slots \o (IF r = NoObject THEN <<>> ELSE <<gone>>) \o <<callback>>
    BY ONLY <2>1, <1>1, <1>3
  <2>. QED BY <1>2, <2>2 DEF MakeAwaiter, Free, InControl
<1>5. new \in Awaiter /\ awaiters \in Seq(Awaiter) /\ slots \in Seq(Slots) /\ n \in Nat /\ n # 0
      /\ DOMAIN awaiters = 1 .. n - 1
  BY <1>1, <1>2, AwaiterTypes DEF Awaiter, CoroTypeOK
<1>6. /\ awaiters' \in Seq(Awaiter) /\ DOMAIN awaiters' = 1 .. n /\ awaiters'[n] = new
      /\ \A m \in 1 .. n - 1 : awaiters'[m] = awaiters[m]
  <2>1. PICK all : all = Append(awaiters, new)
    OBVIOUS
  <2>2. PICK S, l : S = Awaiter /\ l = Len(awaiters)
    OBVIOUS
  <2>3. /\ all \in Seq(S) /\ Len(all) = l + 1 /\ all[l + 1] = new /\ l \in Nat
        /\ \A m \in 1 .. l : all[m] = awaiters[m]
    BY ONLY <1>5, <2>1, <2>2, AppendProperties, LenProperties
  <2>4. DOMAIN all = 1 .. l + 1 /\ n = l + 1 /\ l = n - 1
    BY ONLY <1>1, <2>2, <2>3, LenProperties
  <2>. QED BY ONLY <1>4, <2>1, <2>2, <2>3, <2>4
<1>7. callback \in Slots /\ (r # NoObject => gone \in Slots)
  BY <1>3, <1>5 DEF Slots, Slot, Objects
<1>8. slots' \in Seq(Slots) /\ Connected' = Connected \cup (IF r = NoObject THEN {} ELSE {gone}) \cup {callback}
  <2>1. PICK some : some = slots \o (IF r = NoObject THEN <<>> ELSE <<gone>>)
    OBVIOUS
  <2>2. some \in Seq(Slots) /\ Range(some) = Range(slots) \cup (IF r = NoObject THEN {} ELSE {gone})
    <3>1. CASE r = NoObject
      <4>1. some = slots
        BY <1>5, <2>1, <3>1, ConcatEmptySeq
      <4>. QED BY <1>5, <3>1, <4>1
    <3>2. CASE r # NoObject
      <4>1. some = Append(slots, gone)
        BY <1>5, <1>7, <2>1, <3>2, AppendIsConcat
      <4>. QED BY <1>5, <1>7, <3>2, <4>1, AppendRight
    <3>. QED BY <3>1, <3>2
  <2>3. slots' = Append(some, callback)
    BY <1>4, <1>7, <2>1, <2>2, AppendIsConcat
  <2>4. slots' \in Seq(Slots) /\ Range(slots') = Range(some) \cup {callback}
    BY <1>7, <2>2, <2>3, AppendRight
  <2>. QED BY <2>2, <2>4 DEF Connected, ToSet, Range
<1>9. CoroTypeOK'
  BY <1>4, <1>6, <1>8 DEF CoroTypeOK
<1>10. SameAwaiters /\ GoesOn
  BY <1>4, <1>5, <1>6 DEF SameAwaiters, GoesOn
<1>11. Callback(n)' = callback /\ Callback(n)'.awaiter = n /\ SenderGone(n)'.awaiter = n /\ SenderGone(n)'.calls = "senderGone"
  BY <1>2, <1>3, <1>6 DEF Callback, SenderGone, Slot
<1>12. SignalsRight'
  <2>1. Made(callback)'
    BY <1>3, <1>5, <1>6, <1>11 DEF Made, Slot
  <2>2. r # NoObject => Made(gone)'
    BY <1>2, <1>3, <1>5, <1>6 DEF Made, Slot
  <2>. QED BY <1>4, <1>8, <1>10, <2>1, <2>2, SignalsStay
<1>13. /\ gone.calls = "receiverGone" /\ callback.calls = "callback" /\ callback.awaiter = n
       /\ \A s \in Connected : s.awaiter # n
  <2>1. ASSUME NEW s \in Connected PROVE s.awaiter # n
    BY <1>5 DEF SignalsRight, Made, Slot
  <2>. QED BY <1>3, <2>1 DEF Slot
<1>14. ASSUME NEW m \in 1 .. n - 1
       PROVE  /\ Callback(m)' = Callback(m) /\ SenderGone(m)' = SenderGone(m) /\ m # n
              /\ Callback(m) \in Connected' => Callback(m) \in Connected
              /\ SenderGone(m) \in Connected' => SenderGone(m) \in Connected
  <2>1. Callback(m)' = Callback(m) /\ SenderGone(m)' = SenderGone(m) /\ m # n
    BY <1>5, <1>10, MadeStays
  <2>2. Callback(m).awaiter = m /\ Callback(m).calls = "callback" /\ SenderGone(m).calls = "senderGone"
    BY DEF Callback, SenderGone, Slot
  <2>. QED BY <1>8, <1>13, <2>1, <2>2
<1>15. SenderGone(n)' \notin Connected'
  BY <1>8, <1>11, <1>13
<1>16. Waiting'
  <2>1. \A m \in DOMAIN awaiters' : awaiters'[m].handle /\ awaiters'[m].result = "none" => FALSE
    BY <1>2, <1>4, <1>5, <1>6 DEF Waiting
  <2>. QED BY <1>4, <2>1 DEF Waiting
<1>17. LeftBehind'
  <2>1. ASSUME NEW m \in 1 .. n
        PROVE  /\ awaiters'[m].result = "value" => Callback(m)' \notin Connected'
               /\ awaiters'[m].result = "error" =>
                    awaiters'[m].handle /\ (awaiters'[m].receiver = NoObject => awaiters'[m].sender \notin objects')
               /\ SenderGone(m)' \in Connected' /\ ~awaiters'[m].held => coroutine' = "suspended" /\ at' = m
    <3>1. CASE m = n
      BY <1>2, <1>6, <1>15, <3>1
    <3>2. CASE m # n
      <4>1. m \in 1 .. n - 1 /\ m \in DOMAIN awaiters
        BY <1>5, <3>2
      <4>. QED BY <1>4, <1>6, <1>14, <4>1 DEF LeftBehind
    <3>. QED BY <3>1, <3>2
  <2>2. coroutine' # "destroyed"
    BY <1>4
  <2>. QED BY ONLY <1>6, <2>1, <2>2, Zenon DEF LeftBehind, Connected
<1>18. SenderWatched' /\ WrongStays'
  <2>1. SenderWatched'
    BY <1>4 DEF SenderWatched
  <2>2. ASSUME NEW s \in wrong PROVE s.awaiter \in DOMAIN awaiters' /\ awaiters'[s.awaiter] = awaiters[s.awaiter]
    BY <1>5, <1>6 DEF WrongStays
  <2>3. WrongStays'
    BY <1>4, <2>2 DEF WrongStays
  <2>. QED BY <2>1, <2>3
<1>. QED BY <1>9, <1>12, <1>16, <1>17, <1>18

\* ~KDCoroExpected() breaks the connection to the end of its sender, if there is one.
LEMMA KeptRight ==
  ASSUME NEW n
  PROVE  /\ SenderGone(n) \in Connected => SenderGone(n) \in Kept(n)
         /\ \A s \in Kept(n) : s.awaiter = n /\ s.calls \in {"senderGone", "receiverGone"}
BY DEF Kept, SenderGone, Slot, Connected

\* No awaiter survives the frame, nor is it told of the end of its sender.
LEMMA EndOfFrameRight ==
  ASSUME CoroTypeOK, NEW how, EndOfFrame(how)
  PROVE  /\ coroutine' = how /\ at' = 0 /\ SameAwaiters
         /\ awaiters' \in Seq(Awaiter) /\ DOMAIN awaiters' = DOMAIN awaiters
         /\ \A n \in DOMAIN awaiters :
              /\ ~awaiters'[n].live /\ awaiters'[n].handle = awaiters[n].handle
              /\ awaiters'[n].result = awaiters[n].result
              /\ awaiters[n].live => SenderGone(n) \notin Connected'
         /\ slots' \in Seq(Slots) /\ Connected' \subseteq Connected
<1>1. PICK l : l = Len(awaiters)
  OBVIOUS
<1>2. l \in Nat /\ DOMAIN awaiters = 1 .. l /\ awaiters \in [1 .. l -> Awaiter]
  BY <1>1, AwaiterTypes
<1>3. awaiters' = [n \in 1 .. l |-> [awaiters[n] EXCEPT !.live = FALSE]]
  BY <1>2 DEF EndOfFrame
<1>4. ASSUME NEW n \in 1 .. l
      PROVE  /\ awaiters'[n] \in Awaiter /\ ~awaiters'[n].live /\ awaiters'[n].handle = awaiters[n].handle
             /\ awaiters'[n].result = awaiters[n].result
             /\ awaiters'[n].sender = awaiters[n].sender /\ awaiters'[n].context = awaiters[n].context
             /\ awaiters'[n].receiver = awaiters[n].receiver /\ awaiters'[n].held = awaiters[n].held
  <2>1. PICK a : a = awaiters[n]
    OBVIOUS
  <2>2. a \in Awaiter
    BY <1>2, <2>1
  <2>3. awaiters'[n] = [a EXCEPT !.live = FALSE]
    BY ONLY <1>3, <2>1
  <2>. QED BY ONLY <2>1, <2>2, <2>3 DEF Awaiter
<1>5. awaiters' \in Seq(Awaiter) /\ DOMAIN awaiters' = 1 .. l
  <2>1. PICK S, all : S = Awaiter /\ all = awaiters'
    OBVIOUS
  <2>2. all \in [1 .. l -> S]
    BY ONLY <1>3, <1>4, <2>1
  <2>3. all \in Seq(S)
    BY ONLY <1>2, <2>2, FunctionIsSeq
  <2>. QED BY ONLY <2>1, <2>2, <2>3
<1> DEFINE gone == {s \in ToSet(slots) : s.calls = "terminate"}
                     \cup UNION {Kept(n) : n \in {m \in DOMAIN awaiters : awaiters[m].live}}
<1>6. slots' = Disconnect(gone)
  BY DEF EndOfFrame
<1>7. slots' \in Seq(Slots) /\ Connected' = Connected \ gone
  BY <1>6, DisconnectRight DEF Connected
<1>8. ASSUME NEW n \in 1 .. l, awaiters[n].live PROVE SenderGone(n) \notin Connected'
  <2>1. SenderGone(n) \in Connected => SenderGone(n) \in Kept(n)
    BY KeptRight
  <2>2. Kept(n) \subseteq gone
    BY <1>2, <1>8
  <2>. QED BY <1>7, <2>1, <2>2
<1>9. SameAwaiters
  BY <1>2, <1>4, <1>5 DEF SameAwaiters
<1>10. coroutine' = how /\ at' = 0
  BY DEF EndOfFrame
<1>. QED BY ONLY <1>2, <1>4, <1>5, <1>7, <1>8, <1>9, <1>10

\* The frame goes when the coroutine returns, with what is left behind.
LEMMA CoReturnKeeps ==
  ASSUME CoroAssumption, CoroInv, CoReturn
  PROVE  CoroInv'
<1>. USE DEF CoroInv
<1>1. /\ EndOfFrame("done") /\ coroutine = "running"
      /\ objects' = objects /\ level' = level /\ emitting' = emitting /\ wrong' = wrong
  BY DEF CoReturn, Free, InControl
<1>2. /\ coroutine' = "done" /\ at' = 0 /\ SameAwaiters
      /\ awaiters' \in Seq(Awaiter) /\ DOMAIN awaiters' = DOMAIN awaiters
      /\ \A n \in DOMAIN awaiters :
           /\ ~awaiters'[n].live /\ awaiters'[n].handle = awaiters[n].handle
           /\ awaiters'[n].result = awaiters[n].result
      /\ slots' \in Seq(Slots) /\ Connected' \subseteq Connected
  BY <1>1, EndOfFrameRight
<1>3. CoroTypeOK'
  BY <1>1, <1>2 DEF CoroTypeOK
<1>4. GoesOn
  BY <1>1 DEF GoesOn
<1>5. SignalsRight'
  BY <1>1, <1>2, <1>4, SignalsStay
<1>6. Waiting'
  <2>1. \A n \in DOMAIN awaiters' : ~awaiters'[n].live /\ ~(awaiters'[n].handle /\ awaiters'[n].result = "none")
    BY <1>1, <1>2 DEF Waiting
  <2>. QED BY <1>2, <2>1 DEF Waiting
<1>7. LeftBehind'
  <2>1. ASSUME NEW n \in DOMAIN awaiters'
        PROVE  /\ awaiters'[n].result = "value" => Callback(n)' \notin Connected'
               /\ awaiters'[n].result = "error" =>
                    awaiters'[n].handle /\ (awaiters'[n].receiver = NoObject => awaiters'[n].sender \notin objects')
               /\ ~(SenderGone(n)' \in Connected' /\ ~awaiters'[n].held)
    <3>1. n \in DOMAIN awaiters /\ Callback(n)' = Callback(n) /\ SenderGone(n)' = SenderGone(n)
      BY <1>2, MadeStays
    <3>. QED BY <1>1, <1>2, <3>1 DEF LeftBehind, SameAwaiters
  <2>. QED BY ONLY <1>2, <2>1, Zenon DEF LeftBehind, Connected
<1>8. SenderWatched'
  BY <1>2 DEF SenderWatched
<1>9. WrongStays'
  BY <1>1, <1>2 DEF WrongStays, SameAwaiters
<1>. QED BY <1>3, <1>5, <1>6, <1>7, <1>8, <1>9

\* An awaiter that changes is as it was in what it was made with.
LEMMA ChangedAwaiter ==
  ASSUME CoroTypeOK, NEW n \in DOMAIN awaiters, NEW a \in Awaiter, awaiters' = [awaiters EXCEPT ![n] = a],
         a.sender = awaiters[n].sender, a.context = awaiters[n].context,
         a.receiver = awaiters[n].receiver, a.held = awaiters[n].held
  PROVE  /\ SameAwaiters /\ awaiters' \in Seq(Awaiter) /\ DOMAIN awaiters' = DOMAIN awaiters
         /\ awaiters'[n] = a /\ \A m \in DOMAIN awaiters : m # n => awaiters'[m] = awaiters[m]
<1>1. PICK l : l = Len(awaiters)
  OBVIOUS
<1>2. PICK S : S = Awaiter
  OBVIOUS
<1>3. l \in Nat /\ DOMAIN awaiters = 1 .. l /\ awaiters \in [1 .. l -> S] /\ a \in S
  BY <1>1, <1>2, AwaiterTypes
<1>4. PICK all : all = awaiters'
  OBVIOUS
<1>5. all \in [1 .. l -> S] /\ DOMAIN all = 1 .. l /\ all[n] = a /\ \A m \in 1 .. l : m # n => all[m] = awaiters[m]
  BY <1>3, <1>4
<1>6. all \in Seq(S)
  BY ONLY <1>3, <1>5, FunctionIsSeq
<1>7. SameAwaiters
  <2>1. ASSUME NEW m \in 1 .. l
        PROVE  /\ all[m].sender = awaiters[m].sender /\ all[m].context = awaiters[m].context
               /\ all[m].receiver = awaiters[m].receiver /\ all[m].held = awaiters[m].held
    <3>1. CASE m = n
      BY <1>5, <3>1
    <3>2. CASE m # n
      BY <1>5, <3>2
    <3>. QED BY <3>1, <3>2
  <2>. QED BY ONLY <1>3, <1>4, <1>5, <2>1 DEF SameAwaiters
<1>. QED BY ONLY <1>2, <1>3, <1>4, <1>5, <1>6, <1>7

\* What an awaiter is after two of its fields have changed.
LEMMA UsedRight ==
  ASSUME NEW old \in Awaiter, NEW stays \in BOOLEAN
  PROVE  LET new == [[old EXCEPT !.live = stays] EXCEPT !.handle = TRUE] IN
         /\ new \in Awaiter /\ new.sender = old.sender /\ new.context = old.context
         /\ new.receiver = old.receiver /\ new.held = old.held
         /\ (new.live <=> stays) /\ new.handle /\ new.result = old.result
<1>1. PICK first : first = [old EXCEPT !.live = stays]
  OBVIOUS
<1>2. /\ first \in Awaiter /\ first.sender = old.sender /\ first.context = old.context
      /\ first.receiver = old.receiver /\ first.held = old.held /\ first.result = old.result
      /\ (first.live <=> stays)
  BY ONLY <1>1 DEF Awaiter
<1>3. PICK new : new = [first EXCEPT !.handle = TRUE]
  OBVIOUS
<1>4. /\ new \in Awaiter /\ new.sender = first.sender /\ new.context = first.context
      /\ new.receiver = first.receiver /\ new.held = first.held /\ new.result = first.result
      /\ new.live = first.live /\ new.handle
  BY ONLY <1>2, <1>3 DEF Awaiter
<1>5. new = [[old EXCEPT !.live = stays] EXCEPT !.handle = TRUE]
  BY ONLY <1>1, <1>3
<1>. QED BY ONLY <1>2, <1>4, <1>5

LEMMA SuspendedRight ==
  ASSUME NEW old \in Awaiter, NEW orphaned \in BOOLEAN
  PROVE  LET new == [[old EXCEPT !.handle = TRUE] EXCEPT !.orphan = orphaned] IN
         /\ new \in Awaiter /\ new.sender = old.sender /\ new.context = old.context
         /\ new.receiver = old.receiver /\ new.held = old.held
         /\ new.live = old.live /\ new.handle /\ (new.orphan <=> orphaned) /\ new.result = old.result
<1>1. PICK first : first = [old EXCEPT !.handle = TRUE]
  OBVIOUS
<1>2. /\ first \in Awaiter /\ first.sender = old.sender /\ first.context = old.context
      /\ first.receiver = old.receiver /\ first.held = old.held /\ first.result = old.result
      /\ first.live = old.live /\ first.handle
  BY ONLY <1>1 DEF Awaiter
<1>3. PICK new : new = [first EXCEPT !.orphan = orphaned]
  OBVIOUS
<1>4. /\ new \in Awaiter /\ new.sender = first.sender /\ new.context = first.context
      /\ new.receiver = first.receiver /\ new.held = first.held /\ new.result = first.result
      /\ new.live = first.live /\ new.handle = first.handle /\ (new.orphan <=> orphaned)
  BY ONLY <1>2, <1>3 DEF Awaiter
<1>5. new = [[old EXCEPT !.handle = TRUE] EXCEPT !.orphan = orphaned]
  BY ONLY <1>1, <1>3
<1>. QED BY ONLY <1>2, <1>4, <1>5

\* co_await of a result that is there goes on at once.
LEMMA ReadyKeeps ==
  ASSUME CoroAssumption, CoroInv, NEW n \in DOMAIN awaiters, CoAwait(n), awaiters[n].result # "none"
  PROVE  CoroInv'
<1>. USE DEF CoroInv
<1>1. PICK old : old = awaiters[n]
  OBVIOUS
<1>2. old \in Awaiter
  BY <1>1, AwaiterTypes
<1>3. PICK new : new = [[old EXCEPT !.live = old.held] EXCEPT !.handle = TRUE]
  OBVIOUS
<1>4. /\ new \in Awaiter /\ new.sender = old.sender /\ new.context = old.context
       /\ new.receiver = old.receiver /\ new.held = old.held
       /\ new.handle /\ new.result = old.result
  <2>1. old.held \in BOOLEAN
    BY <1>2 DEF Awaiter
  <2>. QED BY <1>2, <1>3, <2>1, UsedRight
<1>5. /\ coroutine = "running" /\ old.live /\ ~old.handle /\ old.result # "none"
      /\ awaiters' = Used(n) /\ slots' = UsedSlots(n)
      /\ UNCHANGED <<coroutine, at>> /\ UNCHANGED <<objects, level, emitting, wrong>>
  BY <1>1 DEF CoAwait, InControl
<1>6. new \in Awaiter /\ awaiters' = [awaiters EXCEPT ![n] = new]
  BY <1>1, <1>3, <1>5, <1>4, AwaiterTypes DEF Used
<1>7. /\ SameAwaiters /\ awaiters' \in Seq(Awaiter) /\ DOMAIN awaiters' = DOMAIN awaiters
      /\ awaiters'[n] = new /\ \A m \in DOMAIN awaiters : m # n => awaiters'[m] = awaiters[m]
  BY <1>1, <1>6, <1>4, ChangedAwaiter
<1>8. slots' \in Seq(Slots) /\ Connected' \subseteq Connected
  <2>1. CASE old.held
    BY <1>1, <1>5, <2>1 DEF UsedSlots, CoroTypeOK, Connected
  <2>2. CASE ~old.held
    <3>1. slots' = Disconnect(Kept(n))
      BY <1>1, <1>5, <2>2 DEF UsedSlots
    <3>. QED BY <3>1, DisconnectRight DEF Connected
  <2>. QED BY <2>1, <2>2
<1>9. CoroTypeOK'
  BY <1>5, <1>7, <1>8 DEF CoroTypeOK
<1>10. GoesOn
  BY <1>5 DEF GoesOn
<1>11. SignalsRight'
  BY <1>5, <1>7, <1>8, <1>10, SignalsStay
<1>12. Waiting'
  <2>1. ASSUME NEW m \in DOMAIN awaiters PROVE ~(awaiters'[m].handle /\ awaiters'[m].result = "none")
    BY <1>4, <1>5, <1>7 DEF Waiting
  <2>. QED BY <1>5, <1>7, <2>1 DEF Waiting
<1>13. LeftBehind'
  <2>1. ASSUME NEW m \in DOMAIN awaiters'
        PROVE  /\ awaiters'[m].result = "value" => Callback(m)' \notin Connected'
               /\ awaiters'[m].result = "error" =>
                    awaiters'[m].handle /\ (awaiters'[m].receiver = NoObject => awaiters'[m].sender \notin objects')
               /\ ~(SenderGone(m)' \in Connected' /\ ~awaiters'[m].held)
    <3>1. /\ m \in DOMAIN awaiters /\ Callback(m)' = Callback(m) /\ SenderGone(m)' = SenderGone(m)
          /\ awaiters'[m].held = awaiters[m].held /\ awaiters'[m].receiver = awaiters[m].receiver
          /\ awaiters'[m].sender = awaiters[m].sender
      BY <1>7, MadeStays DEF SameAwaiters
    <3>2. awaiters'[m].result = awaiters[m].result /\ (awaiters[m].handle => awaiters'[m].handle)
      BY <1>1, <1>4, <1>7, <3>1
    <3>. QED BY <1>5, <1>8, <3>1, <3>2 DEF LeftBehind
  <2>2. coroutine' # "destroyed"
    BY <1>5
  <2>. QED BY ONLY <2>1, <2>2, Zenon DEF LeftBehind, Connected
<1>14. SenderWatched'
  BY <1>5 DEF SenderWatched
<1>15. WrongStays'
  <2>1. ASSUME NEW s \in wrong
        PROVE  /\ s.awaiter \in DOMAIN awaiters
               /\ \/ awaiters'[s.awaiter].receiver # NoObject
                  \/ s.calls = "callback" /\ (IF awaiters'[s.awaiter].handle THEN awaiters'[s.awaiter].context = NoObject
                                              ELSE ~awaiters'[s.awaiter].live)
                  \/ s.calls = "senderGone" /\ awaiters'[s.awaiter].held
    <3>1. s.awaiter \in DOMAIN awaiters
      BY DEF WrongStays
    <3>2. CASE s.awaiter = n
      BY <1>1, <1>5, <1>7, <1>4, <3>2 DEF WrongStays
    <3>3. CASE s.awaiter # n
      BY <1>7, <3>1, <3>3 DEF WrongStays
    <3>. QED BY <3>1, <3>2, <3>3
  <2>. QED BY <1>5, <1>7, <2>1 DEF WrongStays
<1>. QED BY <1>9, <1>11, <1>12, <1>13, <1>14, <1>15

\* co_await of a result that is not there waits for the signal and for the end
\* of the sender.
LEMMA SuspendKeeps ==
  ASSUME CoroAssumption, CoroInv, NEW n \in DOMAIN awaiters, CoAwait(n), awaiters[n].result = "none"
  PROVE  CoroInv'
<1>. USE DEF CoroInv
<1>1. PICK old : old = awaiters[n]
  OBVIOUS
<1>2. old \in Awaiter /\ n \in Nat /\ n # 0
  BY <1>1, AwaiterTypes
<1>3. PICK orphaned : orphaned = (old.sender \notin objects)
  OBVIOUS
<1>4. PICK new : new = [[old EXCEPT !.handle = TRUE] EXCEPT !.orphan = orphaned]
  OBVIOUS
<1>5. /\ new \in Awaiter /\ new.sender = old.sender /\ new.context = old.context
       /\ new.receiver = old.receiver /\ new.held = old.held
       /\ new.live = old.live /\ new.handle /\ (new.orphan <=> orphaned) /\ new.result = old.result
  <2>1. orphaned \in BOOLEAN
    BY <1>3
  <2>. QED BY <1>2, <1>4, <2>1, SuspendedRight
<1>6. /\ coroutine = "running" /\ old.live /\ ~old.handle /\ old.result = "none"
      /\ coroutine' = "suspended" /\ at' = n
      /\ awaiters' = [awaiters EXCEPT ![n].handle = TRUE, ![n].orphan = orphaned]
      /\ slots' = IF old.sender \in objects THEN Append(slots, SenderGone(n)) ELSE slots
      /\ UNCHANGED <<objects, level, emitting, wrong>>
  BY <1>1, <1>3 DEF CoAwait, InControl, SenderGone
<1>7. new \in Awaiter /\ awaiters' = [awaiters EXCEPT ![n] = new]
  BY <1>1, <1>4, <1>6, <1>5, AwaiterTypes
<1>8. /\ SameAwaiters /\ awaiters' \in Seq(Awaiter) /\ DOMAIN awaiters' = DOMAIN awaiters
      /\ awaiters'[n] = new /\ \A m \in DOMAIN awaiters : m # n => awaiters'[m] = awaiters[m]
  BY <1>1, <1>7, <1>5, ChangedAwaiter
<1>9. SenderGone(n) \in Slots
  BY <1>1, <1>2 DEF SenderGone, Slots, Slot, Awaiter, Objects
<1>10. slots' \in Seq(Slots) /\ Connected' = Connected \cup (IF old.sender \in objects THEN {SenderGone(n)} ELSE {})
  <2>1. slots \in Seq(Slots)
    BY DEF CoroTypeOK
  <2>2. Append(slots, SenderGone(n)) \in Seq(Slots) /\ Range(Append(slots, SenderGone(n))) = Range(slots) \cup {SenderGone(n)}
    BY ONLY <1>9, <2>1, AppendRight
  <2>. QED BY <1>6, <2>1, <2>2 DEF Connected, ToSet, Range
<1>11. CoroTypeOK'
  BY <1>2, <1>6, <1>8, <1>10 DEF CoroTypeOK
<1>12. GoesOn
  BY <1>6 DEF GoesOn
<1>13. \A m \in DOMAIN awaiters : Callback(m)' = Callback(m) /\ SenderGone(m)' = SenderGone(m)
  BY <1>8, MadeStays
<1>14. SignalsRight'
  <2>1. Made(SenderGone(n))
    BY DEF Made, SenderGone, Slot
  <2>2. Made(SenderGone(n))'
    <3>1. PICK s : s = SenderGone(n)
      OBVIOUS
    <3>2. Made(s)'
      BY <1>8, <2>1, <3>1, MadeStays
    <3>3. SenderGone(n)' = s
      BY <1>13, <3>1
    <3>. QED BY <1>8, <3>2, <3>3 DEF Made
  <2>3. ASSUME NEW s \in Connected' PROVE s \in Connected \/ Made(s)'
    <3>1. s \in Connected \/ s = SenderGone(n)
      BY <1>10
    <3>2. Made(s) => Made(s)'
      BY <1>8, MadeStays
    <3>. QED BY <2>1, <3>1, <3>2
  <2>. QED BY <1>6, <1>8, <1>12, <2>3, SignalsStay
<1>15. Waiting'
  <2>1. ASSUME NEW m \in DOMAIN awaiters, m # n PROVE ~(awaiters'[m].handle /\ awaiters'[m].result = "none")
    BY <1>6, <1>8, <2>1 DEF Waiting
  <2>2. awaiters'[n].live /\ awaiters'[n].handle /\ awaiters'[n].result = "none"
    BY ONLY <1>5, <1>6, <1>8, Zenon
  <2>. QED BY <1>6, <1>8, <2>1, <2>2 DEF Waiting
<1>16. \A m \in DOMAIN awaiters : Callback(m) # SenderGone(n) /\ (SenderGone(m) = SenderGone(n) => m = n)
  BY DEF Callback, SenderGone, Slot
<1>17. LeftBehind'
  <2>1. ASSUME NEW m \in DOMAIN awaiters'
        PROVE  /\ awaiters'[m].result = "value" => Callback(m)' \notin Connected'
               /\ awaiters'[m].result = "error" =>
                    awaiters'[m].handle /\ (awaiters'[m].receiver = NoObject => awaiters'[m].sender \notin objects')
               /\ SenderGone(m)' \in Connected' /\ ~awaiters'[m].held => coroutine' = "suspended" /\ at' = m
    <3>1. CASE m = n
      <4>1. awaiters'[m].result = "none" /\ awaiters'[m].result # "value" /\ awaiters'[m].result # "error"
        BY ONLY <1>5, <1>6, <1>8, <3>1
      <4>. QED BY ONLY <1>6, <3>1, <4>1, Zenon
    <3>2. CASE m # n
      <4>1. m \in DOMAIN awaiters /\ awaiters'[m] = awaiters[m]
        BY <1>8, <3>2
      <4>. QED BY <1>6, <1>10, <1>13, <1>16, <3>2, <4>1 DEF LeftBehind
    <3>. QED BY <3>1, <3>2
  <2>2. coroutine' # "destroyed"
    BY <1>6
  <2>. QED BY ONLY <2>1, <2>2, Zenon DEF LeftBehind, Connected
<1>18. SenderWatched'
  <2>1. (awaiters'[n].orphan <=> orphaned) /\ awaiters'[n].sender = old.sender
    BY ONLY <1>5, <1>8, Zenon
  <2>2. old.sender \in objects => SenderGone(n)' \in Connected'
    BY <1>10, <1>13
  <2>3. awaiters'[n].orphan \/ (SenderGone(n)' \in Connected' /\ awaiters'[n].sender \in objects')
    <3>1. orphaned \/ old.sender \in objects
      BY ONLY <1>3
    <3>2. objects' = objects
      BY <1>6
    <3>. QED BY ONLY <2>1, <2>2, <3>1, <3>2
  <2>. QED BY ONLY <1>6, <2>3, Zenon DEF SenderWatched, Connected, SenderGone, Slot
<1>19. WrongStays'
  <2>1. ASSUME NEW s \in wrong
        PROVE  /\ s.awaiter \in DOMAIN awaiters
               /\ \/ awaiters'[s.awaiter].receiver # NoObject
                  \/ s.calls = "callback" /\ (IF awaiters'[s.awaiter].handle THEN awaiters'[s.awaiter].context = NoObject
                                              ELSE ~awaiters'[s.awaiter].live)
                  \/ s.calls = "senderGone" /\ awaiters'[s.awaiter].held
    <3>1. s.awaiter \in DOMAIN awaiters
      BY DEF WrongStays
    <3>2. CASE s.awaiter = n
      <4>1. \/ old.receiver # NoObject
            \/ s.calls = "callback" /\ (IF old.handle THEN old.context = NoObject ELSE ~old.live)
            \/ s.calls = "senderGone" /\ old.held
        BY ONLY WrongStays, <1>1, <3>2, Zenon DEF WrongStays
      <4>. QED BY ONLY <1>5, <1>6, <1>8, <3>1, <3>2, <4>1, Zenon
    <3>3. CASE s.awaiter # n
      BY <1>8, <3>1, <3>3 DEF WrongStays
    <3>. QED BY <3>1, <3>2, <3>3
  <2>. QED BY <1>6, <1>8, <2>1 DEF WrongStays
<1>. QED BY <1>11, <1>14, <1>15, <1>17, <1>18, <1>19

LEMMA CoAwaitKeeps ==
  ASSUME CoroAssumption, CoroInv, NEW n \in DOMAIN awaiters, CoAwait(n)
  PROVE  CoroInv'
BY ONLY CoroAssumption, CoroInv, CoAwait(n), ReadyKeeps, SuspendKeeps
-----------------------------------------------------------------------------
\* What is left of an awaiter does not change while the coroutine stays as it is.
LEMMA AwaitersKept ==
  ASSUME CoroInv, UNCHANGED <<coroutine, at, awaiters, slots, wrong>>, objects' \subseteq objects
  PROVE  /\ Waiting' /\ WrongStays' /\ SameAwaiters
         /\ Connected' = Connected
         /\ \A n \in DOMAIN awaiters' :
              /\ awaiters'[n].result = "value" => Callback(n)' \notin Connected'
              /\ awaiters'[n].result = "error" =>
                   awaiters'[n].handle /\ (awaiters'[n].receiver = NoObject => awaiters'[n].sender \notin objects')
              /\ SenderGone(n)' \in Connected' /\ ~awaiters'[n].held => coroutine' = "suspended" /\ at' = n
         /\ \A n : Callback(n)' = Callback(n) /\ SenderGone(n)' = SenderGone(n)
         /\ \A s : Made(s) <=> Made(s)'
<1>1. Connected' = Connected
  BY DEF Connected
<1>2. SameAwaiters
  BY DEF SameAwaiters
<1>3. Waiting' /\ WrongStays'
  BY WrongKept DEF CoroInv, Waiting
<1>4. \A n : Callback(n)' = Callback(n) /\ SenderGone(n)' = SenderGone(n)
  BY DEF Callback, SenderGone
<1>5. \A s : Made(s) <=> Made(s)'
  BY <1>4 DEF Made
<1>6. ASSUME NEW n \in DOMAIN awaiters'
      PROVE  /\ awaiters'[n].result = "value" => Callback(n)' \notin Connected'
             /\ awaiters'[n].result = "error" =>
                  awaiters'[n].handle /\ (awaiters'[n].receiver = NoObject => awaiters'[n].sender \notin objects')
             /\ SenderGone(n)' \in Connected' /\ ~awaiters'[n].held => coroutine' = "suspended" /\ at' = n
  BY <1>1, <1>4 DEF CoroInv, LeftBehind
<1>. QED BY ONLY <1>1, <1>2, <1>3, <1>4, <1>5, <1>6

\* A signal is emitted while the coroutine runs or when nothing else is.
LEMMA EmitAwaitedKeeps ==
  ASSUME CoroAssumption, CoroInv, NEW o \in Senders, EmitAwaited(o)
  PROVE  CoroInv'
<1>. USE DEF CoroInv
<1>1. PICK new : new = Emission(o, "awaited")
  OBVIOUS
<1>2. /\ o \in objects /\ emitting' = Append(emitting, new)
      /\ UNCHANGED <<objects, coroutine, at, level, awaiters, slots, wrong>>
      /\ (coroutine = "running" \/ emitting = <<>>)
  BY <1>1 DEF EmitAwaited, Free, InControl
<1>3. new.of = o /\ new.signal = "awaited" /\ new \in EmissionOf
      /\ \A s \in ToSet(new.next) : s.on = o /\ s.signal = "awaited"
  <2>1. PICK next : next = SlotsOf(o, "awaited")
    OBVIOUS
  <2>2. next \in Seq(Slots) /\ ToSet(next) = {s \in Connected : s.on = o /\ s.signal = "awaited"}
    BY <2>1, SlotsOfRight
  <2>3. new = [of |-> o, signal |-> "awaited", next |-> next]
    BY <1>1, <2>1 DEF Emission
  <2>4. o \in Objects
    BY DEF Objects
  <2>. QED BY ONLY <2>2, <2>3, <2>4 DEF EmissionOf
<1>4. PICK l : l = Len(emitting)
  OBVIOUS
<1>5. /\ l \in Nat /\ DOMAIN emitting = 1 .. l /\ emitting' \in Seq(EmissionOf) /\ DOMAIN emitting' = 1 .. l + 1
      /\ emitting'[l + 1] = new /\ \A k \in 1 .. l : emitting'[k] = emitting[k]
  <2>1. PICK S, all : S = EmissionOf /\ all = emitting'
    OBVIOUS
  <2>2. emitting \in Seq(S) /\ all = Append(emitting, new) /\ new \in S
    BY <1>2, <1>3, <2>1 DEF CoroTypeOK
  <2>3. l \in Nat /\ DOMAIN emitting = 1 .. l /\ all \in Seq(S) /\ Len(all) = l + 1 /\ all[l + 1] = new
        /\ \A k \in 1 .. l : all[k] = emitting[k]
    BY ONLY <1>4, <2>2, AppendProperties, LenProperties
  <2>4. DOMAIN all = 1 .. l + 1
    BY ONLY <2>3, LenProperties
  <2>. QED BY ONLY <2>1, <2>3, <2>4
<1>6. CoroTypeOK'
  BY <1>2, <1>5 DEF CoroTypeOK
<1>7. /\ Waiting' /\ WrongStays' /\ Connected' = Connected
      /\ \A n \in DOMAIN awaiters' :
           /\ awaiters'[n].result = "value" => Callback(n)' \notin Connected'
           /\ awaiters'[n].result = "error" =>
                awaiters'[n].handle /\ (awaiters'[n].receiver = NoObject => awaiters'[n].sender \notin objects')
           /\ SenderGone(n)' \in Connected' /\ ~awaiters'[n].held => coroutine' = "suspended" /\ at' = n
      /\ \A n : Callback(n)' = Callback(n) /\ SenderGone(n)' = SenderGone(n)
      /\ \A s : Made(s) <=> Made(s)'
  BY <1>2, AwaitersKept
<1>8. SignalsRight'
  <2>1. ASSUME NEW k \in 1 .. l + 1
        PROVE  /\ emitting'[k].signal = "awaited" => emitting'[k].of \in objects'
               /\ emitting'[k].signal = "destroyed" => k = 1 /\ emitting'[k].of \notin objects'
               /\ \A s \in ToSet(emitting'[k].next) : s.on = emitting'[k].of /\ s.signal = emitting'[k].signal
    <3>1. CASE k = l + 1
      BY <1>2, <1>3, <1>5, <3>1
    <3>2. CASE k # l + 1
      <4>1. k \in 1 .. l
        BY <1>5, <3>2
      <4>. QED BY <1>2, <1>5, <4>1 DEF SignalsRight
    <3>. QED BY <3>1, <3>2
  <2>2. \A s \in Connected' : Made(s)'
    BY <1>7 DEF SignalsRight
  <2>. QED BY ONLY <1>5, <2>1, <2>2, Zenon DEF SignalsRight, ToSet
<1>9. LeftBehind'
  <2>1. coroutine' = "destroyed" => ~\E n \in DOMAIN awaiters' : awaiters'[n].context = Watched /\ Callback(n)' \in Connected'
    <3>1. emitting = <<>> => l # 1
      BY <1>4
    <3>. QED BY <1>2, <1>4, <1>7, <3>1 DEF LeftBehind
  <2>. QED BY ONLY <1>7, <2>1, Zenon DEF LeftBehind, Connected, Callback, SenderGone, Slot
<1>10. SenderWatched'
  BY <1>2, <1>7 DEF SenderWatched, Waiting
<1>. QED BY <1>6, <1>7, <1>8, <1>9, <1>10

\* The end of an object is told to those that are connected to it.
LEMMA DeleteObjectKeeps ==
  ASSUME CoroAssumption, CoroInv, NEW o \in Objects, DeleteObject(o)
  PROVE  CoroInv'
<1>. USE DEF CoroInv
<1>1. PICK new : new = Emission(o, "destroyed")
  OBVIOUS
<1>2. /\ o \in objects /\ objects' = objects \ {o} /\ emitting = <<>> /\ emitting' = <<new>>
      /\ UNCHANGED <<coroutine, at, level, awaiters, slots, wrong>>
  BY <1>1 DEF DeleteObject
<1>3. /\ new.of = o /\ new.signal = "destroyed" /\ new \in EmissionOf
      /\ ToSet(new.next) = {s \in Connected : s.on = o /\ s.signal = "destroyed"}
  <2>1. PICK next : next = SlotsOf(o, "destroyed")
    OBVIOUS
  <2>2. next \in Seq(Slots) /\ ToSet(next) = {s \in Connected : s.on = o /\ s.signal = "destroyed"}
    BY <2>1, SlotsOfRight
  <2>3. new = [of |-> o, signal |-> "destroyed", next |-> next]
    BY <1>1, <2>1 DEF Emission
  <2>. QED BY ONLY <2>2, <2>3, o \in Objects DEF EmissionOf
<1>4. emitting' \in Seq(EmissionOf) /\ DOMAIN emitting' = {1} /\ emitting'[1] = new /\ Len(emitting) = 0 /\ emitting' # <<>>
  BY <1>2, <1>3
<1>5. CoroTypeOK'
  BY <1>2, <1>4 DEF CoroTypeOK
<1>6. /\ Waiting' /\ WrongStays' /\ Connected' = Connected
      /\ \A n \in DOMAIN awaiters' :
           /\ awaiters'[n].result = "value" => Callback(n)' \notin Connected'
           /\ awaiters'[n].result = "error" =>
                awaiters'[n].handle /\ (awaiters'[n].receiver = NoObject => awaiters'[n].sender \notin objects')
           /\ SenderGone(n)' \in Connected' /\ ~awaiters'[n].held => coroutine' = "suspended" /\ at' = n
      /\ \A n : Callback(n)' = Callback(n) /\ SenderGone(n)' = SenderGone(n)
      /\ \A s : Made(s) <=> Made(s)'
  BY <1>2, AwaitersKept
<1>7. SignalsRight'
  <2>1. ASSUME NEW k \in DOMAIN emitting'
        PROVE  /\ emitting'[k].signal = "awaited" => emitting'[k].of \in objects'
               /\ emitting'[k].signal = "destroyed" => k = 1 /\ emitting'[k].of \notin objects'
               /\ \A s \in ToSet(emitting'[k].next) : s.on = emitting'[k].of /\ s.signal = emitting'[k].signal
    BY <1>2, <1>3, <1>4
  <2>2. \A s \in Connected' : Made(s)'
    BY <1>6 DEF SignalsRight
  <2>. QED BY ONLY <2>1, <2>2, Zenon DEF SignalsRight, ToSet
<1>8. LeftBehind'
  <2>1. coroutine' = "destroyed" => ~\E n \in DOMAIN awaiters' : awaiters'[n].context = Watched /\ Callback(n)' \in Connected'
    BY <1>2, <1>4, <1>6 DEF LeftBehind
  <2>. QED BY ONLY <1>6, <2>1, Zenon DEF LeftBehind, Connected, Callback, SenderGone, Slot
<1>9. SenderWatched'
  <2>1. SenderGone(at).on = awaiters[at].sender /\ SenderGone(at).signal = "destroyed"
    BY DEF SenderGone, Slot
  <2>2. coroutine = "suspended" /\ ~awaiters[at].orphan => SenderGone(at) \in Connected /\ awaiters[at].sender \in objects
    BY <1>2 DEF SenderWatched
  <2>3. SenderGone(at)' = SenderGone(at)
    BY <1>2 DEF SenderGone
  <2>. QED BY <1>2, <1>3, <1>4, <1>6, <2>1, <2>2, <2>3 DEF SenderWatched
<1>. QED BY <1>5, <1>6, <1>7, <1>8, <1>9
-----------------------------------------------------------------------------
\* A slot that has been disconnected is not called.
LEMMA SkipSlotKeeps ==
  ASSUME CoroAssumption, CoroInv, SkipSlot
  PROVE  CoroInv'
<1>. USE DEF CoroInv
<1>1. PICK l, head : l = Len(emitting) /\ head = Head(Inner.next)
  OBVIOUS
<1>2. /\ head \notin Connected /\ emitting' = Rest
      /\ UNCHANGED <<objects, coroutine, at, level, awaiters, slots, wrong>>
  BY <1>1 DEF SkipSlot, IsConnected, Connected
<1>3. /\ l \in Nat /\ l >= 1 /\ DOMAIN emitting = 1 .. l /\ emitting' \in Seq(EmissionOf) /\ Len(emitting') = l
      /\ DOMAIN emitting' = 1 .. l
      /\ \A k \in 1 .. l :
           /\ emitting'[k].of = emitting[k].of /\ emitting'[k].signal = emitting[k].signal
           /\ ToSet(emitting'[k].next) \subseteq ToSet(emitting[k].next)
           /\ \A s \in ToSet(emitting[k].next) : s \in ToSet(emitting'[k].next) \/ (k = l /\ s = head)
  BY <1>1, <1>2, RestRight DEF SkipSlot
<1>4. CoroTypeOK'
  BY <1>2, <1>3 DEF CoroTypeOK
<1>5. /\ Waiting' /\ WrongStays' /\ SameAwaiters /\ Connected' = Connected
      /\ \A n \in DOMAIN awaiters' :
           /\ awaiters'[n].result = "value" => Callback(n)' \notin Connected'
           /\ awaiters'[n].result = "error" =>
                awaiters'[n].handle /\ (awaiters'[n].receiver = NoObject => awaiters'[n].sender \notin objects')
           /\ SenderGone(n)' \in Connected' /\ ~awaiters'[n].held => coroutine' = "suspended" /\ at' = n
      /\ \A n : Callback(n)' = Callback(n) /\ SenderGone(n)' = SenderGone(n)
  BY <1>2, AwaitersKept
<1>6. GoesOn
  BY ONLY <1>3 DEF GoesOn
<1>7. SignalsRight'
  BY <1>2, <1>5, <1>6, SignalsStay
<1>8. 1 \in 1 .. l
  BY <1>3
<1>9. LeftBehind'
  <2>1. coroutine' = "destroyed" /\ (\E n \in DOMAIN awaiters' : awaiters'[n].context = Watched /\ Callback(n)' \in Connected') =>
          Len(emitting') = 1 /\ emitting'[1].signal = "destroyed" /\ emitting'[1].of = Watched
    BY <1>1, <1>2, <1>3, <1>5, <1>8 DEF LeftBehind
  <2>. QED BY ONLY <1>5, <2>1, Zenon DEF LeftBehind, Connected, Callback, SenderGone, Slot
<1>10. SenderWatched'
  <2>1. coroutine = "suspended" /\ ~awaiters[at].orphan =>
          /\ SenderGone(at) \in Connected
          /\ awaiters[at].sender \notin objects => SenderGone(at) \in ToSet(emitting[1].next)
    BY DEF SenderWatched
  <2>2. SenderGone(at)' = SenderGone(at) /\ emitting' # <<>>
    BY <1>2, <1>3 DEF SenderGone
  <2>3. SenderGone(at) \in Connected /\ SenderGone(at) \in ToSet(emitting[1].next) => SenderGone(at) \in ToSet(emitting'[1].next)
    BY <1>2, <1>3, <1>8
  <2>. QED BY <1>2, <1>5, <2>1, <2>2, <2>3 DEF SenderWatched
<1>. QED BY <1>4, <1>5, <1>7, <1>9, <1>10

\* The object whose end was emitted takes its connections with it.
LEMMA EmissionEndsKeeps ==
  ASSUME CoroAssumption, CoroInv, EmissionEnds
  PROVE  CoroInv'
<1>. USE DEF CoroInv
<1>1. PICK l : l = Len(emitting)
  OBVIOUS
<1>2. /\ emitting # <<>> /\ Inner.next = <<>> /\ emitting' = Front(emitting)
      /\ UNCHANGED <<objects, coroutine, at, level, awaiters, wrong>>
  BY DEF EmissionEnds
<1>3. l \in Nat /\ l >= 1 /\ DOMAIN emitting = 1 .. l /\ Inner = emitting[l] /\ emitting[l] \in EmissionOf
  <2>1. l # 0
    BY <1>1, <1>2, EmptySeq DEF CoroTypeOK
  <2>2. l \in Nat /\ DOMAIN emitting = 1 .. l /\ \A k \in 1 .. l : emitting[k] \in EmissionOf
    BY <1>1, AwaiterTypes
  <2>. QED BY <1>1, <2>1, <2>2 DEF Inner
<1>4. /\ emitting' \in Seq(EmissionOf) /\ DOMAIN emitting' = 1 .. l - 1
      /\ \A k \in 1 .. l - 1 : emitting'[k] = emitting[k] /\ k \in 1 .. l
  <2>1. PICK S, front : S = EmissionOf /\ front = SubSeq(emitting, 1, l - 1)
    OBVIOUS
  <2>2. emitting \in Seq(S)
    BY <2>1 DEF CoroTypeOK
  <2>3. 1 \in 1 .. Len(emitting) + 1 /\ l - 1 \in 1 - 1 .. Len(emitting)
    BY ONLY <1>1, <1>3
  <2>4. front \in Seq(S) /\ Len(front) = l - 1 - 1 + 1 /\ \A k \in 1 .. l - 1 - 1 + 1 : front[k] = emitting[1 + k - 1]
    BY ONLY <2>1, <2>2, <2>3, PartOfRows
  <2>5. l - 1 - 1 + 1 = l - 1 /\ \A k \in 1 .. l - 1 : 1 + k - 1 = k /\ k \in 1 .. l
    BY ONLY <1>3
  <2>6. DOMAIN front = 1 .. l - 1 /\ \A k \in 1 .. l - 1 : front[k] = emitting[k] /\ k \in 1 .. l
    BY ONLY <2>4, <2>5, LenProperties
  <2>7. emitting' = front
    BY <1>1, <1>2, <2>1 DEF Front
  <2>. QED BY ONLY <2>1, <2>4, <2>6, <2>7
<1>5. slots' \in Seq(Slots) /\ Connected' \subseteq Connected
  <2>1. CASE Inner.signal = "awaited"
    BY <2>1 DEF EmissionEnds, CoroTypeOK, Connected
  <2>2. CASE Inner.signal # "awaited"
    BY <2>2, DisconnectRight DEF EmissionEnds, Connected
  <2>. QED BY <2>1, <2>2
<1>6. CoroTypeOK'
  BY <1>2, <1>4, <1>5 DEF CoroTypeOK
<1>7. SameAwaiters /\ GoesOn /\ Waiting' /\ WrongStays'
  <2>1. SameAwaiters
    BY <1>2 DEF SameAwaiters
  <2>2. GoesOn
    BY ONLY <1>3, <1>4 DEF GoesOn
  <2>. QED BY <1>2, <2>1, <2>2, WrongKept DEF Waiting
<1>8. SignalsRight'
  BY <1>2, <1>5, <1>7, SignalsStay
<1>9. \A n : Callback(n)' = Callback(n) /\ SenderGone(n)' = SenderGone(n)
  BY <1>2 DEF Callback, SenderGone
<1>10. LeftBehind'
  <2>1. ASSUME NEW n \in DOMAIN awaiters'
        PROVE  /\ awaiters'[n].result = "value" => Callback(n)' \notin Connected'
               /\ awaiters'[n].result = "error" =>
                    awaiters'[n].handle /\ (awaiters'[n].receiver = NoObject => awaiters'[n].sender \notin objects')
               /\ SenderGone(n)' \in Connected' /\ ~awaiters'[n].held => coroutine' = "suspended" /\ at' = n
    BY <1>2, <1>5, <1>9 DEF LeftBehind
  <2>2. ASSUME coroutine' = "destroyed", NEW n \in DOMAIN awaiters', awaiters'[n].context = Watched, Callback(n)' \in Connected'
        PROVE  FALSE
    <3>1. Callback(n) \in Connected /\ awaiters[n].context = Watched /\ n \in DOMAIN awaiters /\ coroutine = "destroyed"
      BY <1>2, <1>5, <1>9, <2>2
    <3>2. l = 1 /\ Inner.signal = "destroyed" /\ Inner.of = Watched
      BY <1>1, <1>3, <3>1 DEF LeftBehind
    <3>3. PICK gone : gone = {s \in ToSet(slots) : s.on = Inner.of
                                 \/ (s.calls = "callback" /\ awaiters[s.awaiter].context = Inner.of)}
      OBVIOUS
    <3>4. slots' = Disconnect(gone)
      BY <3>2, <3>3 DEF EmissionEnds
    <3>5. Connected' = Connected \ gone
      BY <3>4, DisconnectRight DEF Connected
    <3>6. Callback(n).calls = "callback" /\ Callback(n).awaiter = n
      BY DEF Callback, Slot
    <3>7. Callback(n) \in gone
      BY <3>1, <3>2, <3>3, <3>6 DEF Connected
    <3>. QED BY <1>9, <2>2, <3>5, <3>7
  <2>. QED BY ONLY <2>1, <2>2, Zenon DEF LeftBehind, Connected, Callback, SenderGone, Slot
<1>11. SenderWatched'
  <2> SUFFICES ASSUME coroutine' = "suspended", ~awaiters'[at'].orphan
               PROVE  /\ SenderGone(at)' \in Connected'
                      /\ awaiters'[at'].sender \notin objects' =>
                           emitting' # <<>> /\ SenderGone(at)' \in ToSet(emitting'[1].next)
    BY Zenon DEF SenderWatched, Connected, SenderGone, Slot
  <2>1. /\ SenderGone(at) \in Connected
        /\ awaiters[at].sender \notin objects => SenderGone(at) \in ToSet(emitting[1].next)
    BY <1>2 DEF SenderWatched
  <2>2. ToSet(Inner.next) = {}
    BY <1>2 DEF ToSet
  <2>3. awaiters[at].sender \notin objects => l # 1
    BY <1>3, <2>1, <2>2
  <2>4. Inner.signal \in {"awaited", "destroyed"}
    BY <1>3 DEF EmissionOf
  <2>5. CASE Inner.signal = "awaited"
    <3>1. Connected' = Connected
      BY <2>5 DEF EmissionEnds, Connected
    <3>2. l # 1 => 1 \in 1 .. l - 1 /\ emitting' # <<>>
      BY <1>3, <1>4
    <3>3. l # 1 => emitting'[1] = emitting[1]
      BY <1>4, <3>2
    <3>. QED BY <1>2, <1>9, <2>1, <2>3, <3>1, <3>2, <3>3
  <2>6. CASE Inner.signal = "destroyed"
    <3>1. l = 1 /\ Inner.of \notin objects
      BY <1>3, <2>6 DEF SignalsRight
    <3>2. awaiters[at].sender \in objects
      BY <2>3, <3>1
    <3>3. PICK gone : gone = {s \in ToSet(slots) : s.on = Inner.of
                                 \/ (s.calls = "callback" /\ awaiters[s.awaiter].context = Inner.of)}
      OBVIOUS
    <3>4. slots' = Disconnect(gone)
      BY <2>6, <3>3 DEF EmissionEnds
    <3>5. Connected' = Connected \ gone
      BY <3>4, DisconnectRight DEF Connected
    <3>6. SenderGone(at).calls # "callback" /\ SenderGone(at).on # Inner.of
      BY <3>1, <3>2 DEF SenderGone, Slot
    <3>. QED BY <1>2, <1>9, <2>1, <3>2, <3>3, <3>5, <3>6
  <2>. QED BY <2>4, <2>5, <2>6
<1>. QED BY <1>6, <1>7, <1>8, <1>10, <1>11

\* A slot that is called is what it was connected for, by the signal it is connected to.
LEMMA CalledSlot ==
  ASSUME CoroTypeOK, SignalsRight, Calling, IsConnected
  PROVE  LET head == Head(Inner.next) IN
         /\ head \in Connected /\ head \in Slots /\ Made(head)
         /\ head.signal = "awaited" => head.on \in objects
         /\ head.signal = "destroyed" => Len(emitting) = 1 /\ head.on \notin objects
                                         /\ emitting[1].of = head.on /\ emitting[1].signal = "destroyed"
<1>1. PICK l, head : l = Len(emitting) /\ head = Head(Inner.next)
  OBVIOUS
<1>2. l \in 1 .. l /\ DOMAIN emitting = 1 .. l /\ head \in ToSet(emitting[l].next)
  BY <1>1, RestRight
<1>3. head.on = emitting[l].of /\ head.signal = emitting[l].signal
  BY ONLY SignalsRight, <1>2 DEF SignalsRight
<1>4. head \in Connected /\ Made(head)
  BY <1>1 DEF IsConnected, Connected, SignalsRight
<1>5. Connected \subseteq Slots
  <2>1. slots \in Seq(Slots)
    BY DEF CoroTypeOK
  <2>2. \A i \in DOMAIN slots : slots[i] \in Slots
    BY ONLY <2>1, LenProperties, ElementOfSeq
  <2>. QED BY ONLY <2>2 DEF Connected, ToSet
<1>6. head.signal = "awaited" => head.on \in objects
  BY <1>2, <1>3 DEF SignalsRight
<1>7. head.signal = "destroyed" => l = 1 /\ head.on \notin objects
  BY <1>2, <1>3 DEF SignalsRight
<1>. QED BY <1>1, <1>3, <1>4, <1>5, <1>6, <1>7

\* The terminator destroys the coroutine when the object that it has yielded goes.
LEMMA TerminateKeeps ==
  ASSUME CoroAssumption, CoroInv, Terminate
  PROVE  CoroInv'
<1>. USE DEF CoroInv
<1>1. PICK l, head : l = Len(emitting) /\ head = Head(Inner.next)
  OBVIOUS
<1>2. /\ Calling /\ IsConnected /\ head.calls = "terminate" /\ emitting' = Rest /\ EndOfFrame("destroyed")
      /\ objects' = objects /\ level' = level /\ wrong' = wrong
  BY <1>1 DEF Terminate
<1>3. l = 1 /\ emitting[1].of = Watched /\ emitting[1].signal = "destroyed"
  <2>1. head.on = Watched /\ head.signal = "destroyed"
    BY <1>1, <1>2, CalledSlot, KindOfSlot
  <2>. QED BY <1>1, <1>2, <2>1, CalledSlot
<1>4. /\ DOMAIN emitting = 1 .. l /\ emitting' \in Seq(EmissionOf) /\ Len(emitting') = l
      /\ DOMAIN emitting' = 1 .. l
      /\ \A k \in 1 .. l :
           /\ emitting'[k].of = emitting[k].of /\ emitting'[k].signal = emitting[k].signal
           /\ ToSet(emitting'[k].next) \subseteq ToSet(emitting[k].next)
  BY <1>1, <1>2, RestRight
<1>5. /\ coroutine' = "destroyed" /\ at' = 0 /\ SameAwaiters
      /\ awaiters' \in Seq(Awaiter) /\ DOMAIN awaiters' = DOMAIN awaiters
      /\ \A n \in DOMAIN awaiters :
           /\ ~awaiters'[n].live /\ awaiters'[n].handle = awaiters[n].handle
           /\ awaiters'[n].result = awaiters[n].result
           /\ awaiters[n].live => SenderGone(n) \notin Connected'
      /\ slots' \in Seq(Slots) /\ Connected' \subseteq Connected
  BY <1>2, EndOfFrameRight
<1>6. CoroTypeOK'
  BY <1>2, <1>4, <1>5 DEF CoroTypeOK
<1>7. GoesOn
  BY ONLY <1>4 DEF GoesOn
<1>8. SignalsRight'
  BY <1>2, <1>5, <1>7, SignalsStay
<1>9. Waiting'
  BY <1>5 DEF Waiting
<1>10. LeftBehind'
  <2>1. ASSUME NEW n \in DOMAIN awaiters'
        PROVE  /\ awaiters'[n].result = "value" => Callback(n)' \notin Connected'
               /\ awaiters'[n].result = "error" =>
                    awaiters'[n].handle /\ (awaiters'[n].receiver = NoObject => awaiters'[n].sender \notin objects')
               /\ ~(SenderGone(n)' \in Connected' /\ ~awaiters'[n].held)
    <3>1. n \in DOMAIN awaiters /\ Callback(n)' = Callback(n) /\ SenderGone(n)' = SenderGone(n)
      BY <1>5, MadeStays
    <3>2. SenderGone(n) \in Connected /\ ~awaiters[n].held => awaiters[n].live
      BY <3>1 DEF LeftBehind, Waiting
    <3>. QED BY <1>2, <1>5, <3>1, <3>2 DEF LeftBehind, SameAwaiters
  <2>2. Len(emitting') = 1 /\ emitting'[1].signal = "destroyed" /\ emitting'[1].of = Watched
    BY <1>3, <1>4
  <2>. QED BY ONLY <2>1, <2>2, Zenon DEF LeftBehind, Connected
<1>11. SenderWatched'
  BY <1>5 DEF SenderWatched
<1>12. WrongStays'
  BY <1>2, <1>5 DEF WrongStays, SameAwaiters
<1>. QED BY <1>6, <1>8, <1>9, <1>10, <1>11, <1>12

\* What a call to an awaiter tells it, and that the signal goes on.
LEMMA CalledAwaiter ==
  ASSUME CoroInv, CallAwaiter
  PROVE  LET s == Head(Inner.next)
             a == awaiters[s.awaiter] IN
         /\ s \in Connected /\ s \in Slots /\ s.awaiter \in DOMAIN awaiters /\ s.awaiter # 0 /\ a \in Awaiter
         /\ \/ s = Callback(s.awaiter) /\ s.calls = "callback" /\ a.sender \in objects /\ emitting[1].signal # "destroyed"
            \/ s = Callback(s.awaiter) /\ s.calls = "callback" /\ a.sender \in objects /\ Len(emitting) # 1
            \/ s = SenderGone(s.awaiter) /\ s.calls = "senderGone" /\ a.sender \notin objects
            \/ s.calls = "receiverGone" /\ a.receiver # NoObject
         /\ \/ s = Callback(s.awaiter) /\ s.calls = "callback"
            \/ s.calls \in {"senderGone", "receiverGone"}
         /\ objects' = objects /\ GoesOn
         /\ emitting' \in Seq(EmissionOf) /\ Len(emitting') = Len(emitting) /\ emitting' # <<>> /\ 1 \in DOMAIN emitting'
         /\ emitting'[1].of = emitting[1].of /\ emitting'[1].signal = emitting[1].signal
         /\ \A t \in ToSet(emitting[1].next) : t \in ToSet(emitting'[1].next) \/ t = s
<1>. USE DEF CoroInv
<1>1. PICK l, s, n : l = Len(emitting) /\ s = Head(Inner.next) /\ n = s.awaiter
  OBVIOUS
<1>2. Calling /\ IsConnected /\ s.calls # "terminate" /\ emitting' = Rest /\ objects' = objects
  BY <1>1 DEF CallAwaiter
<1>3. /\ s \in Connected /\ s \in Slots /\ Made(s)
      /\ s.signal = "awaited" => s.on \in objects
      /\ s.signal = "destroyed" => s.on \notin objects
  BY <1>1, <1>2, CalledSlot
<1>4. /\ n \in DOMAIN awaiters
      /\ s.calls = "callback" => s = Callback(n)
      /\ s.calls = "senderGone" => s = SenderGone(n)
      /\ s.calls \notin {"callback", "senderGone"} => s.calls = "receiverGone" /\ awaiters[n].receiver # NoObject
  BY <1>1, <1>2, <1>3, KindOfSlot
<1>5. awaiters[n] \in Awaiter /\ n # 0
  BY <1>4, AwaiterTypes
<1>6. /\ l \in Nat /\ l >= 1 /\ DOMAIN emitting = 1 .. l /\ emitting' \in Seq(EmissionOf) /\ Len(emitting') = l
      /\ DOMAIN emitting' = 1 .. l
      /\ \A k \in 1 .. l :
           /\ emitting'[k].of = emitting[k].of /\ emitting'[k].signal = emitting[k].signal
           /\ ToSet(emitting'[k].next) \subseteq ToSet(emitting[k].next)
           /\ \A t \in ToSet(emitting[k].next) : t \in ToSet(emitting'[k].next) \/ (k = l /\ t = s)
  BY <1>1, <1>2, RestRight
<1>7. GoesOn
  BY ONLY <1>6 DEF GoesOn
<1>8. 1 \in 1 .. l /\ emitting' # <<>>
  BY <1>6
<1>9. /\ s = Callback(n) => s.on = awaiters[n].sender /\ s.signal = "awaited"
      /\ s = SenderGone(n) => s.on = awaiters[n].sender /\ s.signal = "destroyed"
  BY DEF Callback, SenderGone, Slot
<1>10. s.signal = "awaited" => l # 1 \/ emitting[1].signal # "destroyed"
  <2>1. l \in 1 .. l /\ s \in ToSet(emitting[l].next)
    BY <1>1, <1>2, RestRight
  <2>2. s.signal = emitting[l].signal
    BY ONLY SignalsRight, <1>6, <2>1 DEF SignalsRight
  <2>. QED BY ONLY <2>2
<1>11. \/ s = Callback(n) /\ s.calls = "callback" /\ awaiters[n].sender \in objects /\ emitting[1].signal # "destroyed"
       \/ s = Callback(n) /\ s.calls = "callback" /\ awaiters[n].sender \in objects /\ l # 1
       \/ s = SenderGone(n) /\ s.calls = "senderGone" /\ awaiters[n].sender \notin objects
       \/ s.calls = "receiverGone" /\ awaiters[n].receiver # NoObject
  BY <1>3, <1>4, <1>9, <1>10
<1>12. (s = Callback(n) /\ s.calls = "callback") \/ s.calls \in {"senderGone", "receiverGone"}
  BY <1>4
<1>. QED BY ONLY <1>1, <1>2, <1>3, <1>4, <1>5, <1>6, <1>7, <1>8, <1>11, <1>12

\* What an awaiter is that has been called.
LEMMA ValueRight ==
  ASSUME NEW old \in Awaiter, NEW result \in {"value", "error"}
  PROVE  LET new == [old EXCEPT !.result = result] IN
         /\ new \in Awaiter /\ new.sender = old.sender /\ new.context = old.context
         /\ new.receiver = old.receiver /\ new.held = old.held
         /\ new.live = old.live /\ new.handle = old.handle /\ new.result = result
<1>1. PICK new : new = [old EXCEPT !.result = result]
  OBVIOUS
<1>2. /\ new \in Awaiter /\ new.sender = old.sender /\ new.context = old.context
      /\ new.receiver = old.receiver /\ new.held = old.held /\ new.result = result
      /\ new.live = old.live /\ new.handle = old.handle
  BY ONLY <1>1, result \in {"value", "error"} DEF Awaiter
<1>. QED BY ONLY <1>1, <1>2

\* The coroutine is resumed by the awaiter it waits for.
LEMMA ResumeKeeps ==
  ASSUME CoroAssumption, CoroInv, CallAwaiter,
         LET a == awaiters[Head(Inner.next).awaiter] IN a.live /\ a.handle /\ at = Head(Inner.next).awaiter
  PROVE  CoroInv'
<1>. USE DEF CoroInv
<1>1. PICK s, n, old : s = Head(Inner.next) /\ n = s.awaiter /\ old = awaiters[n]
  OBVIOUS
<1>2. PICK result : result = IF s.calls = "callback" THEN "value" ELSE "error"
  OBVIOUS
<1>3. PICK gone : gone = (IF s.calls = "callback" THEN {s} ELSE {}) \cup (IF old.held THEN {} ELSE Kept(n))
  OBVIOUS
<1>4. /\ s \in Connected /\ s \in Slots /\ n \in DOMAIN awaiters /\ n # 0 /\ old \in Awaiter
      /\ \/ s = Callback(n) /\ s.calls = "callback"
         \/ s = SenderGone(n) /\ s.calls = "senderGone" /\ old.sender \notin objects
         \/ s.calls = "receiverGone" /\ old.receiver # NoObject
      /\ objects' = objects /\ GoesOn /\ emitting' \in Seq(EmissionOf)
  BY <1>1, CalledAwaiter
<1>5. /\ old.live /\ old.handle /\ at = n /\ coroutine = "suspended"
      /\ coroutine' = "running" /\ at' = 0 /\ level' = Len(emitting)
      /\ awaiters' = [awaiters EXCEPT ![n].result = result, ![n].live = old.held]
      /\ slots' = Disconnect(gone) /\ wrong' = wrong
  <2>1. old.live /\ old.handle /\ at = n
    BY <1>1
  <2>2. coroutine = "suspended"
    BY <1>4, <2>1 DEF Waiting
  <2>. QED BY <1>1, <1>2, <1>3, <2>1, <2>2 DEF CallAwaiter
<1>6. PICK new : new = [[old EXCEPT !.result = result] EXCEPT !.live = old.held]
  OBVIOUS
<1>7. /\ new \in Awaiter /\ new.sender = old.sender /\ new.context = old.context
      /\ new.receiver = old.receiver /\ new.held = old.held
      /\ new.handle = old.handle /\ new.result = result
  <2>1. old.held \in BOOLEAN /\ result \in {"value", "error"}
    BY <1>2, <1>4 DEF Awaiter
  <2>2. PICK first : first = [old EXCEPT !.result = result]
    OBVIOUS
  <2>3. /\ first \in Awaiter /\ first.sender = old.sender /\ first.context = old.context
        /\ first.receiver = old.receiver /\ first.held = old.held /\ first.result = result
        /\ first.handle = old.handle
    BY <1>4, <2>1, <2>2, ValueRight
  <2>4. new = [first EXCEPT !.live = old.held]
    BY ONLY <1>6, <2>2
  <2>5. /\ new \in Awaiter /\ new.sender = first.sender /\ new.context = first.context
        /\ new.receiver = first.receiver /\ new.held = first.held /\ new.result = first.result
        /\ new.handle = first.handle
    BY ONLY <2>1, <2>3, <2>4 DEF Awaiter
  <2>. QED BY ONLY <2>3, <2>5
<1>8. /\ SameAwaiters /\ awaiters' \in Seq(Awaiter) /\ DOMAIN awaiters' = DOMAIN awaiters
      /\ awaiters'[n] = new /\ \A m \in DOMAIN awaiters : m # n => awaiters'[m] = awaiters[m]
  <2>1. awaiters' = [awaiters EXCEPT ![n] = new]
    BY <1>1, <1>4, <1>5, <1>6, AwaiterTypes
  <2>. QED BY <1>1, <1>4, <1>7, <2>1, ChangedAwaiter
<1>9. slots' \in Seq(Slots) /\ Connected' = Connected \ gone
  BY <1>5, DisconnectRight DEF Connected
<1>10. CoroTypeOK'
  <2>1. Len(emitting) \in Nat
    BY AwaiterTypes
  <2>. QED BY <1>4, <1>5, <1>8, <1>9, <2>1 DEF CoroTypeOK
<1>11. SignalsRight'
  BY <1>4, <1>8, <1>9, SignalsStay
<1>12. Waiting'
  <2>1. ASSUME NEW m \in DOMAIN awaiters PROVE ~(awaiters'[m].handle /\ awaiters'[m].result = "none")
    BY <1>2, <1>5, <1>7, <1>8 DEF Waiting
  <2>. QED BY <1>5, <1>8, <2>1 DEF Waiting
<1>13. LeftBehind'
  <2>1. ASSUME NEW m \in DOMAIN awaiters'
        PROVE  /\ awaiters'[m].result = "value" => Callback(m)' \notin Connected'
               /\ awaiters'[m].result = "error" =>
                    awaiters'[m].handle /\ (awaiters'[m].receiver = NoObject => awaiters'[m].sender \notin objects')
               /\ ~(SenderGone(m)' \in Connected' /\ ~awaiters'[m].held)
    <3>1. m \in DOMAIN awaiters /\ Callback(m)' = Callback(m) /\ SenderGone(m)' = SenderGone(m)
      BY <1>8, MadeStays
    <3>2. CASE m = n
      <4>1. result = "value" => Callback(m) \in gone
        BY <1>2, <1>3, <1>4, <3>2
      <4>2. result = "error" /\ old.receiver = NoObject => old.sender \notin objects
        BY <1>2, <1>4
      <4>3. ~old.held /\ SenderGone(m) \in Connected => SenderGone(m) \in gone
        BY <1>3, <3>2, KeptRight
      <4>4. /\ awaiters'[m].result = result /\ awaiters'[m].handle = old.handle /\ awaiters'[m].receiver = old.receiver
            /\ awaiters'[m].sender = old.sender /\ awaiters'[m].held = old.held
        BY ONLY <1>7, <1>8, <3>2
      <4>5. awaiters'[m].result = "value" => Callback(m)' \notin Connected'
        BY ONLY <1>9, <3>1, <4>1, <4>4
      <4>6. ~(SenderGone(m)' \in Connected' /\ ~awaiters'[m].held)
        BY ONLY <1>9, <3>1, <4>3, <4>4
      <4>7. awaiters'[m].handle
        BY ONLY <1>5, <4>4
      <4>8. awaiters'[m].result = "error" => (awaiters'[m].receiver = NoObject => awaiters'[m].sender \notin objects')
        BY ONLY <1>4, <4>2, <4>4
      <4>. QED BY ONLY <4>5, <4>6, <4>7, <4>8
    <3>3. CASE m # n
      <4>1. awaiters'[m] = awaiters[m]
        BY <1>8, <3>1, <3>3
      <4>. QED BY <1>4, <1>5, <1>9, <3>1, <3>3, <4>1 DEF LeftBehind
    <3>. QED BY <3>2, <3>3
  <2>2. coroutine' # "destroyed"
    BY <1>5
  <2>. QED BY ONLY <2>1, <2>2, Zenon DEF LeftBehind, Connected
<1>14. SenderWatched'
  BY <1>5 DEF SenderWatched
<1>15. WrongStays'
  <2>1. ASSUME NEW t \in wrong
        PROVE  /\ t.awaiter \in DOMAIN awaiters
               /\ \/ awaiters'[t.awaiter].receiver # NoObject
                  \/ t.calls = "callback" /\ (IF awaiters'[t.awaiter].handle THEN awaiters'[t.awaiter].context = NoObject
                                              ELSE ~awaiters'[t.awaiter].live)
                  \/ t.calls = "senderGone" /\ awaiters'[t.awaiter].held
    <3>1. t.awaiter \in DOMAIN awaiters
      BY DEF WrongStays
    <3>2. CASE t.awaiter = n
      <4>1. \/ old.receiver # NoObject
            \/ t.calls = "callback" /\ (IF old.handle THEN old.context = NoObject ELSE ~old.live)
            \/ t.calls = "senderGone" /\ old.held
        BY ONLY WrongStays, <1>1, <3>2, Zenon DEF WrongStays
      <4>. QED BY ONLY <1>5, <1>7, <1>8, <3>1, <3>2, <4>1, Zenon
    <3>3. CASE t.awaiter # n
      BY <1>8, <3>1, <3>3 DEF WrongStays
    <3>. QED BY <3>1, <3>2, <3>3
  <2>. QED BY <1>5, <1>8, <2>1 DEF WrongStays
<1>. QED BY <1>10, <1>11, <1>12, <1>13, <1>14, <1>15

\* What stays of a coroutine that a call does not resume.
LEMMA NotResumed ==
  ASSUME CoroInv, CallAwaiter,
         LET a == awaiters[Head(Inner.next).awaiter] IN ~(a.live /\ a.handle /\ at = Head(Inner.next).awaiter)
  PROVE  LET s == Head(Inner.next) IN
         /\ slots' \in Seq(Slots) /\ UNCHANGED <<coroutine, at, level>>
         /\ Connected' = Connected \ (IF s.calls = "callback" THEN {s} ELSE {})
         /\ coroutine = "suspended" => at # s.awaiter
         /\ coroutine = "suspended" => SenderGone(at) # s
<1>. USE DEF CoroInv
<1>1. PICK s, n : s = Head(Inner.next) /\ n = s.awaiter
  OBVIOUS
<1>2. PICK gone : gone = IF s.calls = "callback" THEN {s} ELSE {}
  OBVIOUS
<1>3. slots' = Disconnect(gone) /\ UNCHANGED <<coroutine, at, level>>
  BY <1>1, <1>2 DEF CallAwaiter
<1>4. slots' \in Seq(Slots) /\ Connected' = Connected \ gone
  BY <1>3, DisconnectRight DEF Connected
<1>5. coroutine = "suspended" => at # n
  BY <1>1 DEF Waiting
<1>6. SenderGone(at).awaiter = at
  BY DEF SenderGone, Slot
<1>. QED BY ONLY <1>1, <1>2, <1>3, <1>4, <1>5, <1>6

\* A value that comes before the co_await is kept.
LEMMA SetKeeps ==
  ASSUME CoroAssumption, CoroInv, CallAwaiter,
         LET a == awaiters[Head(Inner.next).awaiter] IN
         a.live /\ ~a.handle /\ Head(Inner.next).calls = "callback"
  PROVE  CoroInv'
<1>. USE DEF CoroInv
<1>1. PICK s, n, old : s = Head(Inner.next) /\ n = s.awaiter /\ old = awaiters[n]
  OBVIOUS
<1>2. /\ old.live /\ ~old.handle /\ s.calls = "callback"
  BY <1>1
<1>3. /\ s \in Connected /\ n \in DOMAIN awaiters /\ old \in Awaiter /\ s = Callback(n)
      /\ objects' = objects /\ GoesOn /\ emitting' \in Seq(EmissionOf)
      /\ Len(emitting') = Len(emitting) /\ emitting' # <<>>
      /\ emitting'[1].of = emitting[1].of /\ emitting'[1].signal = emitting[1].signal
      /\ \A t \in ToSet(emitting[1].next) : t \in ToSet(emitting'[1].next) \/ t = s
  BY <1>1, <1>2, CalledAwaiter
<1>4. /\ slots' \in Seq(Slots) /\ UNCHANGED <<coroutine, at, level>> /\ Connected' = Connected \ {s}
      /\ coroutine = "suspended" => at # n /\ SenderGone(at) # s
  BY <1>1, <1>2, NotResumed
<1>5. PICK new : new = [old EXCEPT !.result = "value"]
  OBVIOUS
<1>6. awaiters' = [awaiters EXCEPT ![n] = new] /\ wrong' = wrong
  <2>1. awaiters' = [awaiters EXCEPT ![n].result = "value"] /\ wrong' = wrong
    BY <1>1, <1>2 DEF CallAwaiter
  <2>. QED BY <1>1, <1>3, <1>5, <2>1, AwaiterTypes
<1>7. /\ new \in Awaiter /\ new.sender = old.sender /\ new.context = old.context
      /\ new.receiver = old.receiver /\ new.held = old.held
      /\ new.live = old.live /\ new.handle = old.handle /\ new.result = "value"
  <2>1. PICK result : result = "value"
    OBVIOUS
  <2>. QED BY <1>3, <1>5, <2>1, ValueRight
<1>8. /\ SameAwaiters /\ awaiters' \in Seq(Awaiter) /\ DOMAIN awaiters' = DOMAIN awaiters
      /\ awaiters'[n] = new /\ \A m \in DOMAIN awaiters : m # n => awaiters'[m] = awaiters[m]
  BY <1>1, <1>3, <1>6, <1>7, ChangedAwaiter
<1>9. CoroTypeOK'
  BY <1>3, <1>4, <1>6, <1>8 DEF CoroTypeOK
<1>10. SignalsRight'
  BY <1>3, <1>4, <1>8, SignalsStay
<1>11. \A m \in DOMAIN awaiters : Callback(m)' = Callback(m) /\ SenderGone(m)' = SenderGone(m)
  BY <1>8, MadeStays
<1>12. \A m \in DOMAIN awaiters : awaiters'[m].live = awaiters[m].live /\ awaiters'[m].handle = awaiters[m].handle
  BY <1>1, <1>7, <1>8
<1>13. Waiting'
  <2>1. ASSUME coroutine = "suspended"
        PROVE  at \in DOMAIN awaiters /\ awaiters'[at].live /\ awaiters'[at].handle /\ awaiters'[at].result = "none"
    BY <1>4, <1>8, <2>1 DEF Waiting
  <2>2. ASSUME NEW m \in DOMAIN awaiters, awaiters'[m].handle, awaiters'[m].result = "none"
        PROVE  coroutine = "destroyed" \/ (coroutine = "suspended" /\ at = m)
    <3>1. m # n /\ awaiters[m].handle /\ awaiters[m].result = "none"
      BY <1>7, <1>8, <2>2
    <3>. QED BY <3>1 DEF Waiting
  <2>3. coroutine # "suspended" => at = 0
    BY DEF Waiting
  <2>4. coroutine \in {"done", "destroyed"} => \A m \in DOMAIN awaiters : ~awaiters'[m].live
    BY <1>12 DEF Waiting
  <2>. QED BY ONLY <1>4, <1>8, <2>1, <2>2, <2>3, <2>4 DEF Waiting
<1>14. LeftBehind'
  <2>1. ASSUME NEW m \in DOMAIN awaiters'
        PROVE  /\ awaiters'[m].result = "value" => Callback(m)' \notin Connected'
               /\ awaiters'[m].result = "error" =>
                    awaiters'[m].handle /\ (awaiters'[m].receiver = NoObject => awaiters'[m].sender \notin objects')
               /\ SenderGone(m)' \in Connected' /\ ~awaiters'[m].held => coroutine' = "suspended" /\ at' = m
    <3>1. m \in DOMAIN awaiters /\ Callback(m)' = Callback(m) /\ SenderGone(m)' = SenderGone(m)
      BY <1>8, <1>11
    <3>2. SenderGone(m)' \in Connected' /\ ~awaiters'[m].held => coroutine' = "suspended" /\ at' = m
      BY <1>4, <1>8, <3>1 DEF LeftBehind, SameAwaiters
    <3>3. CASE m = n
      BY <1>3, <1>4, <1>7, <1>8, <3>1, <3>2, <3>3
    <3>4. CASE m # n
      <4>1. awaiters'[m] = awaiters[m]
        BY <1>8, <3>1, <3>4
      <4>. QED BY <1>3, <1>4, <3>1, <3>2, <4>1 DEF LeftBehind
    <3>. QED BY <3>3, <3>4
  <2>2. coroutine' = "destroyed" /\ (\E m \in DOMAIN awaiters' : awaiters'[m].context = Watched /\ Callback(m)' \in Connected') =>
          Len(emitting') = 1 /\ emitting'[1].signal = "destroyed" /\ emitting'[1].of = Watched
    BY <1>3, <1>4, <1>8, <1>11 DEF LeftBehind, SameAwaiters
  <2>. QED BY ONLY <2>1, <2>2, Zenon DEF LeftBehind, Connected, Callback, SenderGone, Slot
<1>15. SenderWatched'
  <2> SUFFICES ASSUME coroutine' = "suspended", ~awaiters'[at'].orphan
               PROVE  /\ SenderGone(at)' \in Connected'
                      /\ awaiters'[at'].sender \notin objects' =>
                           emitting' # <<>> /\ SenderGone(at)' \in ToSet(emitting'[1].next)
    BY Zenon DEF SenderWatched, Connected, SenderGone, Slot
  <2>1. coroutine = "suspended" /\ at' = at /\ at # n /\ SenderGone(at) # s /\ at \in DOMAIN awaiters
    BY <1>4 DEF Waiting
  <2>2. awaiters'[at] = awaiters[at]
    BY <1>8, <2>1
  <2>3. /\ SenderGone(at) \in Connected
        /\ awaiters[at].sender \notin objects => SenderGone(at) \in ToSet(emitting[1].next)
    BY <2>1, <2>2 DEF SenderWatched
  <2>4. SenderGone(at)' = SenderGone(at)
    BY ONLY <2>1, <2>2 DEF SenderGone
  <2>. QED BY ONLY <1>3, <1>4, <2>1, <2>2, <2>3, <2>4
<1>16. WrongStays'
  <2>1. ASSUME NEW t \in wrong
        PROVE  /\ t.awaiter \in DOMAIN awaiters
               /\ \/ awaiters'[t.awaiter].receiver # NoObject
                  \/ t.calls = "callback" /\ (IF awaiters'[t.awaiter].handle THEN awaiters'[t.awaiter].context = NoObject
                                              ELSE ~awaiters'[t.awaiter].live)
                  \/ t.calls = "senderGone" /\ awaiters'[t.awaiter].held
    BY <1>8, <1>12 DEF WrongStays, SameAwaiters
  <2>. QED BY <1>6, <1>8, <2>1 DEF WrongStays
<1>. QED BY <1>9, <1>10, <1>13, <1>14, <1>15, <1>16

\* What goes wrong is what no destructor has disconnected.
LEMMA WrongIsKnown ==
  ASSUME CoroInv, CallAwaiter,
         LET a == awaiters[Head(Inner.next).awaiter] IN
         /\ ~(a.live /\ a.handle /\ at = Head(Inner.next).awaiter)
         /\ ~(a.live /\ ~a.handle /\ Head(Inner.next).calls = "callback")
  PROVE  LET s == Head(Inner.next)
             a == awaiters[s.awaiter] IN
         \/ a.receiver # NoObject
         \/ s.calls = "callback" /\ (IF a.handle THEN a.context = NoObject ELSE ~a.live)
         \/ s.calls = "senderGone" /\ a.held
<1>. USE DEF CoroInv
<1>1. PICK s, n, a : s = Head(Inner.next) /\ n = s.awaiter /\ a = awaiters[n]
  OBVIOUS
<1>2. ~(a.live /\ a.handle /\ at = n) /\ ~(a.live /\ ~a.handle /\ s.calls = "callback")
  BY <1>1
<1>3. /\ s \in Connected /\ n \in DOMAIN awaiters /\ a \in Awaiter
      /\ \/ s = Callback(n) /\ s.calls = "callback" /\ a.sender \in objects /\ emitting[1].signal # "destroyed"
         \/ s = Callback(n) /\ s.calls = "callback" /\ a.sender \in objects /\ Len(emitting) # 1
         \/ s = SenderGone(n) /\ s.calls = "senderGone" /\ a.sender \notin objects
         \/ s.calls = "receiverGone" /\ a.receiver # NoObject
  BY <1>1, CalledAwaiter
<1>4. ASSUME s = Callback(n), s.calls = "callback", a.sender \in objects,
             emitting[1].signal # "destroyed" \/ Len(emitting) # 1, a.receiver = NoObject, a.handle
      PROVE  a.context = NoObject
  <2>1. a.result # "value" /\ a.result # "error"
    BY <1>1, <1>3, <1>4 DEF LeftBehind
  <2>2. a.result = "none"
    BY <1>3, <2>1 DEF Awaiter
  <2>3. coroutine = "destroyed"
    BY <1>1, <1>2, <1>3, <1>4, <2>2 DEF Waiting
  <2>4. a.context # Watched
    BY <1>1, <1>3, <1>4, <2>3 DEF LeftBehind
  <2>. QED BY <1>3, <2>4 DEF Awaiter
<1>5. ASSUME s = SenderGone(n), ~a.held PROVE FALSE
  <2>1. coroutine = "suspended" /\ at = n
    BY <1>1, <1>3, <1>5 DEF LeftBehind
  <2>. QED BY <1>1, <1>2, <2>1 DEF Waiting
<1>6. \/ a.receiver # NoObject
      \/ s.calls = "callback" /\ (IF a.handle THEN a.context = NoObject ELSE ~a.live)
      \/ s.calls = "senderGone" /\ a.held
  BY ONLY <1>2, <1>3, <1>4, <1>5
<1>. QED BY ONLY <1>1, <1>6

\* A call that comes too late leaves the coroutine and its awaiters alone.
LEMMA TooLateKeeps ==
  ASSUME CoroAssumption, CoroInv, CallAwaiter,
         LET a == awaiters[Head(Inner.next).awaiter] IN
         /\ ~(a.live /\ a.handle /\ at = Head(Inner.next).awaiter)
         /\ ~(a.live /\ ~a.handle /\ Head(Inner.next).calls = "callback")
  PROVE  CoroInv'
<1>. USE DEF CoroInv
<1>1. PICK s, n, a : s = Head(Inner.next) /\ n = s.awaiter /\ a = awaiters[n]
  OBVIOUS
<1>2. /\ ~(a.live /\ a.handle /\ at = n) /\ ~(a.live /\ ~a.handle /\ s.calls = "callback")
      /\ wrong' = wrong \cup {s} /\ awaiters' = awaiters
  BY <1>1 DEF CallAwaiter
<1>3. /\ s \in Connected /\ s \in Slots /\ n \in DOMAIN awaiters
      /\ objects' = objects /\ GoesOn /\ emitting' \in Seq(EmissionOf)
      /\ Len(emitting') = Len(emitting) /\ emitting' # <<>>
      /\ emitting'[1].of = emitting[1].of /\ emitting'[1].signal = emitting[1].signal
      /\ \A t \in ToSet(emitting[1].next) : t \in ToSet(emitting'[1].next) \/ t = s
  BY <1>1, CalledAwaiter
<1>4. PICK gone : gone = IF s.calls = "callback" THEN {s} ELSE {}
  OBVIOUS
<1>5. /\ slots' \in Seq(Slots) /\ UNCHANGED <<coroutine, at, level>> /\ Connected' = Connected \ gone
      /\ coroutine = "suspended" => at # n /\ SenderGone(at) # s
  BY <1>1, <1>2, <1>4, NotResumed
<1>6. \/ a.receiver # NoObject
      \/ s.calls = "callback" /\ (IF a.handle THEN a.context = NoObject ELSE ~a.live)
      \/ s.calls = "senderGone" /\ a.held
  BY <1>1, <1>2, WrongIsKnown
<1>7. CoroTypeOK'
  BY <1>2, <1>3, <1>5 DEF CoroTypeOK
<1>8. SameAwaiters
  BY <1>2 DEF SameAwaiters
<1>9. SignalsRight'
  BY <1>3, <1>5, <1>8, SignalsStay
<1>10. \A m : Callback(m)' = Callback(m) /\ SenderGone(m)' = SenderGone(m)
  BY <1>2 DEF Callback, SenderGone
<1>11. Waiting'
  BY <1>2, <1>5 DEF Waiting
<1>12. LeftBehind'
  <2>1. ASSUME NEW m \in DOMAIN awaiters'
        PROVE  /\ awaiters'[m].result = "value" => Callback(m)' \notin Connected'
               /\ awaiters'[m].result = "error" =>
                    awaiters'[m].handle /\ (awaiters'[m].receiver = NoObject => awaiters'[m].sender \notin objects')
               /\ SenderGone(m)' \in Connected' /\ ~awaiters'[m].held => coroutine' = "suspended" /\ at' = m
    BY <1>2, <1>3, <1>5, <1>10 DEF LeftBehind
  <2>2. coroutine' = "destroyed" /\ (\E m \in DOMAIN awaiters' : awaiters'[m].context = Watched /\ Callback(m)' \in Connected') =>
          Len(emitting') = 1 /\ emitting'[1].signal = "destroyed" /\ emitting'[1].of = Watched
    BY <1>2, <1>3, <1>5, <1>10 DEF LeftBehind
  <2>. QED BY ONLY <2>1, <2>2, Zenon DEF LeftBehind, Connected, Callback, SenderGone, Slot
<1>13. SenderWatched'
  <2> SUFFICES ASSUME coroutine' = "suspended", ~awaiters'[at'].orphan
               PROVE  /\ SenderGone(at)' \in Connected'
                      /\ awaiters'[at'].sender \notin objects' =>
                           emitting' # <<>> /\ SenderGone(at)' \in ToSet(emitting'[1].next)
    BY Zenon DEF SenderWatched, Connected, SenderGone, Slot
  <2>1. coroutine = "suspended" /\ at' = at /\ SenderGone(at) # s
    BY <1>5
  <2>2. /\ SenderGone(at) \in Connected
        /\ awaiters[at].sender \notin objects => SenderGone(at) \in ToSet(emitting[1].next)
    BY <1>2, <2>1 DEF SenderWatched
  <2>3. SenderGone(at)' = SenderGone(at) /\ SenderGone(at) \notin gone
    BY <1>2, <1>4, <2>1 DEF SenderGone
  <2>. QED BY ONLY <1>2, <1>3, <1>5, <2>1, <2>2, <2>3
<1>14. WrongStays'
  <2>1. ASSUME NEW t \in wrong'
        PROVE  /\ t.awaiter \in DOMAIN awaiters
               /\ \/ awaiters[t.awaiter].receiver # NoObject
                  \/ t.calls = "callback" /\ (IF awaiters[t.awaiter].handle THEN awaiters[t.awaiter].context = NoObject
                                              ELSE ~awaiters[t.awaiter].live)
                  \/ t.calls = "senderGone" /\ awaiters[t.awaiter].held
    <3>1. CASE t = s
      BY ONLY <1>1, <1>3, <1>6, <3>1, Zenon
    <3>2. CASE t # s
      <4>1. t \in wrong
        BY <1>2, <3>2
      <4>. QED BY <4>1 DEF WrongStays
    <3>. QED BY <3>1, <3>2
  <2>. QED BY ONLY <1>2, <2>1, Zenon DEF WrongStays
<1>. QED BY <1>7, <1>9, <1>11, <1>12, <1>13, <1>14

LEMMA CallAwaiterKeeps ==
  ASSUME CoroAssumption, CoroInv, CallAwaiter
  PROVE  CoroInv'
BY ResumeKeeps, SetKeeps, TooLateKeeps

\* Whatever comes, in whatever order.
LEMMA CoroInvInductive == CoroSpec => []CoroInv
<1>1. CoroInit => CoroInv
  BY CoroAssumption, CoroInvInit
<1>2. CoroInv /\ [CoroNext]_coroVars => CoroInv'
  <2> SUFFICES ASSUME CoroInv, [CoroNext]_coroVars PROVE CoroInv'
    OBVIOUS
  <2>1. CASE UNCHANGED coroVars
    BY <2>1 DEF coroVars, CoroInv, CoroTypeOK, SignalsRight, Waiting, LeftBehind, SenderWatched, WrongStays,
                Connected, Made, Callback, SenderGone
  <2>2. CASE CoYield
    BY <2>2, CoroAssumption, CoYieldKeeps
  <2>3. CASE CoReturn
    BY <2>3, CoroAssumption, CoReturnKeeps
  <2>4. ASSUME NEW s \in Senders, NEW c \in {Watched, NoObject}, NEW r \in {Watched, NoObject}, NEW held \in BOOLEAN,
               MakeAwaiter(s, c, r, held)
        PROVE  CoroInv'
    BY <2>4, CoroAssumption, MakeAwaiterKeeps
  <2>5. ASSUME NEW n \in DOMAIN awaiters, CoAwait(n) PROVE CoroInv'
    BY <2>5, CoroAssumption, CoAwaitKeeps
  <2>6. ASSUME NEW o \in Senders, EmitAwaited(o) PROVE CoroInv'
    BY <2>6, CoroAssumption, EmitAwaitedKeeps
  <2>7. ASSUME NEW o \in Objects, DeleteObject(o) PROVE CoroInv'
    BY <2>7, CoroAssumption, DeleteObjectKeeps
  <2>8. CASE SkipSlot
    BY <2>8, CoroAssumption, SkipSlotKeeps
  <2>9. CASE EmissionEnds
    BY <2>9, CoroAssumption, EmissionEndsKeeps
  <2>10. CASE Terminate
    BY <2>10, CoroAssumption, TerminateKeeps
  <2>11. CASE CallAwaiter
    BY <2>11, CoroAssumption, CallAwaiterKeeps
  <2>. QED BY ONLY [CoroNext]_coroVars, <2>1, <2>2, <2>3, <2>4, <2>5, <2>6, <2>7, <2>8, <2>9, <2>10, <2>11, Zenon DEF CoroNext
<1>. QED BY <1>1, <1>2, PTL DEF CoroSpec

\* Only what no destructor disconnects ever calls a dead awaiter or resumes the wrong one.
THEOREM CoroResumesRight == CoroSpec => []ResumesRight
<1>1. CoroInv => ResumesRight
  BY DEF CoroInv, WrongStays, ResumesRight
<1>. QED BY <1>1, CoroInvInductive, PTL

\* A coroutine never waits for an object that has gone since.
THEOREM CoroSenderLives == CoroSpec => []SenderLives
<1>1. CoroInv => SenderLives
  BY DEF CoroInv, SenderWatched, SenderLives, Quiet
<1>. QED BY <1>1, CoroInvInductive, PTL
-----------------------------------------------------------------------------
(* SquishRunner *)

Places == {"idle", "next", "preparing", "looping", "checking", "running", "waiting", "returning", "ended", "died"}
InHand == {"preparing", "looping", "checking", "running", "waiting", "returning"}

\* In the hands of a thread there is a test.
SquishTypeOK ==
  /\ args \in Commands /\ main \in {"starting", "joining", "interrupted", "exited"}
  /\ exitCode \in {0, 1} /\ testsAborted \in BOOLEAN
  /\ pc \in [Jobs -> Places] /\ todo \in [Jobs -> Seq(1..Tests)]
  /\ success \in [Jobs -> {"unassigned", "yes", "no"}]
  /\ numRuns \in [1..Tests -> Nat]
  /\ wasSkipped \subseteq 1..Tests /\ failed \subseteq 1..Tests /\ succeeded \subseteq 1..Tests
  /\ serverProc \in [1..Tests -> Jobs \cup {Nobody}] /\ servers \subseteq (1..Tests) \X Jobs
  /\ \A j \in Jobs : pc[j] \in InHand => todo[j] # <<>>

\* The tests of a thread.
Share(j) == {Requested[i] : i \in {k \in DOMAIN Requested : k % args.jobs = j}}

\* The main thread starts the others, waits for all, and knows of failures.
MainRight ==
  /\ main = "starting" =>
       ~testsAborted /\ wasSkipped = {} /\ succeeded = {} /\ \A j \in Jobs : pc[j] = "idle"
  /\ main \in {"joining", "interrupted"} => \A j \in Jobs : pc[j] # "idle"
  /\ main = "interrupted" => exitCode = 1
  /\ main = "exited" => \/ exitCode = 1 /\ \A j \in Jobs : pc[j] = "idle"
                        \/ Finished /\ (exitCode = 0 => WasSuccessful)

\* A thread has its own tests before it, each once, and none is before it that
\* has been skipped, or has succeeded and is not the present one.
Coming(j) ==
  /\ ToSet(todo[j]) \subseteq Share(j) /\ IsInjective(todo[j])
  /\ pc[j] = "idle" => todo[j] = <<>>
  /\ \A x \in ToSet(todo[j]) :
       /\ x \notin wasSkipped
       /\ x \in succeeded => x = Test(j) /\ success[j] = "yes" /\ pc[j] \in {"looping", "returning"}

\* What a thread knows of its present test.
Present(j) ==
  /\ pc[j] = "preparing" => success[j] = "unassigned"
  /\ pc[j] \in {"checking", "running", "waiting"} => success[j] # "yes"
  /\ pc[j] = "waiting" => numRuns[Test(j)] > 0
  /\ pc[j] = "returning" => success[j] # "unassigned"
  /\ pc[j] \in InHand /\ success[j] = "no"  => numRuns[Test(j)] > 0 /\ Test(j) \in failed
  /\ pc[j] \in InHand /\ success[j] = "yes" => numRuns[Test(j)] > 0 /\ Test(j) \in succeeded

\* No test of a thread gets lost.
RunSoFar(x) == numRuns[x] > 0 /\ x \in succeeded \cup failed
Behind(j) ==
  /\ pc[j] # "idle" => \A x \in Share(j) : x \in ToSet(todo[j]) \/ x \in wasSkipped \/ RunSoFar(x)
  /\ pc[j] = "ended" => todo[j] = <<>> \/ testsAborted

\* Who gave up has a failure to show for it.
Aborted ==
  testsAborted => \E x \in Failures : \A j \in Jobs : x \notin ToSet(todo[j])

\* A squishserver is remembered by its test, which is one of the thread that started it.
ServersKnown == \A x \in 1..Tests, j \in Jobs : <<x, j>> \in servers => x \in Share(j) /\ serverProc[x] = j

SquishInv ==
  /\ SquishTypeOK /\ MainRight
  /\ Once => (\A j \in Jobs : Coming(j) /\ Present(j) /\ Behind(j)) /\ Aborted /\ ServersKnown

\* What the command line says.
LEMMA ArgsRight ==
  ASSUME SquishRunnerAssumption, args \in Commands
  PROVE  /\ args.jobs \in Nat /\ args.jobs >= 1 /\ args.tests \in Seq(1..Tests) /\ args.suites \in Seq(Suites)
         /\ Tests \in Nat /\ args.abortOnFail \in BOOLEAN
         /\ Jobs = 0 .. args.jobs - 1
BY DEF SquishRunnerAssumption, Jobs

\* The tests that are asked for are tests.
LEMMA RequestedRight ==
  ASSUME SquishRunnerAssumption, args \in Commands
  PROVE  /\ Requested \in Seq(1..Tests) /\ Len(Requested) \in Nat /\ DOMAIN Requested = 1 .. Len(Requested)
         /\ \A i \in DOMAIN Requested : Requested[i] \in 1..Tests
<1>1. PICK all, T : all = [x \in 1..Tests |-> x] /\ T = 1..Tests
  OBVIOUS
<1>2. all \in Seq(T) /\ Tests \in Nat
  <2>1. Tests \in Nat
    BY ArgsRight
  <2>2. all \in [1 .. Tests -> T]
    BY ONLY <1>1
  <2>. QED BY ONLY <2>1, <2>2, FunctionIsSeq
<1>3. ASSUME NEW s PROVE TestsBySuite(s) \in Seq(T)
  <2>1. PICK U : U = {x \in 1..Tests : suite[x] = s}
    OBVIOUS
  <2>2. Among(all, U) \in Seq(T)
    BY ONLY <1>2, AmongRight
  <2>. QED BY ONLY <1>1, <2>1, <2>2 DEF TestsBySuite
<1>4. PICK bySuite : bySuite = [i \in DOMAIN args.suites |-> TestsBySuite(args.suites[i])]
  OBVIOUS
<1>5. FlattenSeq(bySuite) \in Seq(T)
  <2>1. PICK l : l = Len(args.suites)
    OBVIOUS
  <2>2. l \in Nat /\ DOMAIN args.suites = 1 .. l
    BY <2>1, ArgsRight, LenProperties
  <2>3. bySuite \in [1 .. l -> Seq(T)]
    BY ONLY <1>3, <1>4, <2>2
  <2>. QED BY ONLY <2>2, <2>3, JoinedRight
<1>6. args.tests \o FlattenSeq(bySuite) \in Seq(T)
  <2>1. args.tests \in Seq(T)
    BY <1>1, ArgsRight
  <2>. QED BY ONLY <1>5, <2>1, ConcatProperties
<1>7. Requested = IF args.tests = <<>> /\ args.suites = <<>> THEN all ELSE args.tests \o FlattenSeq(bySuite)
  BY ONLY <1>1, <1>4, Zenon DEF Requested
<1>8. Requested \in Seq(T)
  BY ONLY <1>2, <1>6, <1>7
<1>9. Len(Requested) \in Nat /\ DOMAIN Requested = 1 .. Len(Requested) /\ \A i \in 1 .. Len(Requested) : Requested[i] \in T
  BY ONLY <1>8, LenProperties, ElementOfSeq
<1>. QED BY ONLY <1>1, <1>8, <1>9

\* Every place in the list is that of one thread.
LEMMA SharesRight ==
  ASSUME SquishRunnerAssumption, args \in Commands
  PROVE  /\ \A i \in DOMAIN Requested : i % args.jobs \in Jobs
         /\ \A j \in Jobs : Share(j) \subseteq ToSet(Requested) /\ Share(j) \subseteq 1..Tests
         /\ \A x \in ToSet(Requested) : \E j \in Jobs : x \in Share(j)
         /\ Once => \A j, k \in Jobs : j # k => Share(j) \cap Share(k) = {}
<1>1. PICK n, all : n = args.jobs /\ all = Requested
  OBVIOUS
<1>2. n \in Nat /\ n >= 1 /\ Jobs = 0 .. n - 1
  BY <1>1, ArgsRight
<1>3. DOMAIN all \subseteq Nat /\ \A i \in DOMAIN all : all[i] \in 1..Tests
  BY <1>1, RequestedRight
<1>4. ASSUME NEW i \in DOMAIN all PROVE i % n \in Jobs
  <2>1. i \in Nat
    BY ONLY <1>3
  <2>2. i % n \in 0 .. n - 1
    BY ONLY <1>2, <2>1
  <2>. QED BY ONLY <1>2, <2>2
<1>5. \A j : Share(j) = {all[i] : i \in {k \in DOMAIN all : k % n = j}}
  BY ONLY <1>1 DEF Share
<1>6. \A j \in Jobs : Share(j) \subseteq ToSet(all) /\ Share(j) \subseteq 1..Tests
  BY ONLY <1>3, <1>5 DEF ToSet
<1>7. ASSUME NEW x \in ToSet(all) PROVE \E j \in Jobs : x \in Share(j)
  <2>1. PICK i \in DOMAIN all : x = all[i]
    BY ONLY <1>7 DEF ToSet
  <2>2. x \in Share(i % n)
    BY ONLY <1>5, <2>1
  <2>. QED BY ONLY <1>4, <2>2
<1>8. ASSUME Once, NEW j \in Jobs, NEW k \in Jobs, j # k, NEW x \in Share(j), x \in Share(k) PROVE FALSE
  <2>1. PICK i \in DOMAIN all : x = all[i] /\ i % n = j
    BY ONLY <1>5, <1>8
  <2>2. PICK m \in DOMAIN all : x = all[m] /\ m % n = k
    BY ONLY <1>5, <1>8
  <2>3. i = m
    BY ONLY Once, <1>1, <2>1, <2>2 DEF Once, IsInjective
  <2>. QED BY ONLY <1>8, <2>1, <2>2, <2>3
<1>. QED BY ONLY <1>1, <1>4, <1>6, <1>7, <1>8

\* A thread is dealt its share, each test once if it was asked for once.
LEMMA DealtRight ==
  ASSUME SquishRunnerAssumption, args \in Commands, NEW j \in Jobs
  PROVE  LET dealt == [i \in DOMAIN Chunk(j) |-> Requested[Chunk(j)[i]]] IN
         /\ dealt \in Seq(1..Tests) /\ ToSet(dealt) = Share(j)
         /\ Once => IsInjective(dealt)
         /\ Chunk(j) = <<>> => dealt = <<>>
<1>1. PICK all, T, l : all = Requested /\ T = 1..Tests /\ l = Len(all)
  OBVIOUS
<1>2. all \in Seq(T) /\ l \in Nat /\ DOMAIN all = 1 .. l /\ \A i \in 1 .. l : all[i] \in T
  BY <1>1, RequestedRight
<1>3. PICK places, mine : places = [i \in 1 .. l |-> i] /\ mine = {i \in 1 .. l : i % args.jobs = j}
  OBVIOUS
<1>4. places \in Seq(1 .. l) /\ Range(places) = 1 .. l /\ IsInjective(places)
  <2>1. PICK U : U = 1 .. l
    OBVIOUS
  <2>2. places \in [1 .. l -> U]
    BY ONLY <1>3, <2>1
  <2>3. places \in Seq(U)
    BY ONLY <1>2, <2>2, FunctionIsSeq
  <2>4. Range(places) = 1 .. l /\ IsInjective(places)
    BY ONLY <1>3 DEF Range, IsInjective
  <2>. QED BY ONLY <2>1, <2>3, <2>4
<1>5. PICK chunk : chunk = Chunk(j)
  OBVIOUS
<1>6. chunk \in Seq(1 .. l) /\ Range(chunk) = mine /\ IsInjective(chunk)
  <2>1. chunk = Among(places, mine)
    BY ONLY <1>1, <1>2, <1>3, <1>5 DEF Chunk
  <2>2. PICK U : U = 1 .. l
    OBVIOUS
  <2>3. Among(places, mine) \in Seq(U) /\ Range(Among(places, mine)) = Range(places) \cap mine /\ IsInjective(Among(places, mine))
    BY ONLY <1>4, <2>2, AmongRight
  <2>. QED BY ONLY <1>3, <1>4, <2>1, <2>2, <2>3
<1>7. PICK n : n = Len(chunk)
  OBVIOUS
<1>8. n \in Nat /\ DOMAIN chunk = 1 .. n /\ \A i \in 1 .. n : chunk[i] \in 1 .. l
  BY ONLY <1>6, <1>7, LenProperties, ElementOfSeq
<1>9. PICK dealt : dealt = [i \in 1 .. n |-> all[chunk[i]]]
  OBVIOUS
<1>10. dealt \in Seq(T) /\ DOMAIN dealt = 1 .. n
  <2>1. dealt \in [1 .. n -> T] /\ DOMAIN dealt = 1 .. n
    BY ONLY <1>2, <1>8, <1>9
  <2>. QED BY ONLY <1>8, <2>1, FunctionIsSeq
<1>11. ToSet(dealt) = Share(j)
  <2>1. mine = {chunk[i] : i \in 1 .. n}
    BY ONLY <1>6, <1>8 DEF Range
  <2>2. Share(j) = {all[i] : i \in mine}
    BY ONLY <1>1, <1>2, <1>3 DEF Share
  <2>3. ToSet(dealt) = {all[chunk[i]] : i \in 1 .. n}
    BY ONLY <1>9, <1>10 DEF ToSet
  <2>. QED BY ONLY <2>1, <2>2, <2>3
<1>12. ASSUME Once PROVE IsInjective(dealt)
  <2>1. \A a, b \in 1 .. l : all[a] = all[b] => a = b
    BY ONLY Once, <1>1, <1>2, <1>12 DEF Once, IsInjective
  <2>2. \A a, b \in 1 .. n : chunk[a] = chunk[b] => a = b
    BY ONLY <1>6, <1>8 DEF IsInjective
  <2>3. \A a, b \in 1 .. n : dealt[a] = dealt[b] => a = b
    BY ONLY <1>8, <1>9, <2>1, <2>2
  <2>. QED BY ONLY <1>10, <2>3 DEF IsInjective
<1>13. chunk = <<>> => dealt = <<>>
  BY ONLY <1>6, <1>7, <1>8, <1>9, <1>10, EmptySeq
<1>14. dealt = [i \in DOMAIN Chunk(j) |-> Requested[Chunk(j)[i]]]
  BY ONLY <1>1, <1>5, <1>8, <1>9
<1>. QED BY ONLY <1>1, <1>5, <1>10, <1>11, <1>12, <1>13, <1>14

\* Who asks for what does not change.
LEMMA ArgsStay ==
  ASSUME args' = args
  PROVE  /\ Jobs' = Jobs /\ Requested' = Requested /\ (Once' <=> Once)
         /\ \A j : Share(j)' = Share(j)
<1>1. Jobs' = Jobs
  BY DEF Jobs
<1>2. Requested' = Requested
  BY Zenon DEF Requested
<1>. QED BY <1>1, <1>2, Zenon DEF Once, Share, IsInjective

\* What a thread does concerns its present test and nothing of another thread.
StepOf(j) ==
  /\ args' = args /\ main' = main /\ exitCode' = exitCode
  /\ \A k \in Jobs : k # j => pc'[k] = pc[k] /\ todo'[k] = todo[k] /\ success'[k] = success[k]
  /\ pc[j] \notin {"idle", "ended", "died"} /\ pc'[j] # "idle"
  /\ ToSet(todo'[j]) \subseteq ToSet(todo[j])
  /\ wasSkipped \subseteq wasSkipped' /\ succeeded \subseteq succeeded' /\ failed \subseteq failed'
  /\ \A x \in 1..Tests : numRuns[x] > 0 => numRuns'[x] > 0
  /\ \A x : x \in wasSkipped' \/ x \in succeeded' =>
       \/ todo[j] # <<>> /\ x = Test(j)
       \/ (x \in wasSkipped' => x \in wasSkipped) /\ (x \in succeeded' => x \in succeeded)
  /\ testsAborted => testsAborted'

\* Its tests are tests.
LEMMA PresentTest ==
  ASSUME SquishRunnerAssumption, SquishTypeOK, NEW j \in Jobs
  PROVE  /\ todo[j] \in Seq(1..Tests) /\ ToSet(todo[j]) \subseteq 1..Tests
         /\ todo[j] # <<>> => Test(j) \in ToSet(todo[j]) /\ Test(j) \in 1..Tests
         /\ pc[j] \in InHand => todo[j] # <<>>
<1>1. todo[j] \in Seq(1..Tests)
  BY DEF SquishTypeOK
<1>2. \A i \in DOMAIN todo[j] : todo[j][i] \in 1..Tests
  <2>1. PICK s, T : s = todo[j] /\ T = 1..Tests
    OBVIOUS
  <2>2. \A i \in DOMAIN s : s[i] \in T
    BY ONLY <1>1, <2>1, LenProperties, ElementOfSeq
  <2>. QED BY ONLY <2>1, <2>2
<1>3. todo[j] # <<>> => Head(todo[j]) \in ToSet(todo[j]) /\ Head(todo[j]) \in 1..Tests
  <2>1. PICK s, T : s = todo[j] /\ T = 1..Tests
    OBVIOUS
  <2>2. s # <<>> => Head(s) \in ToSet(s) /\ Head(s) \in T
    BY ONLY <1>1, <2>1, HeadAndTail
  <2>. QED BY ONLY <2>1, <2>2
<1>4. pc[j] \in InHand => todo[j] # <<>>
  BY DEF SquishTypeOK
<1>. QED BY <1>1, <1>2, <1>3, <1>4 DEF ToSet, Test

\* The other threads do not notice.
LEMMA OthersKept ==
  ASSUME SquishRunnerAssumption, SquishInv, Once, NEW j \in Jobs, StepOf(j), NEW k \in Jobs, k # j
  PROVE  Coming(k)' /\ Present(k)' /\ Behind(k)'
<1>1. Coming(j) /\ Coming(k) /\ Present(k) /\ Behind(k) /\ SquishTypeOK
  BY DEF SquishInv
<1>2. /\ args' = args /\ pc'[k] = pc[k] /\ todo'[k] = todo[k] /\ success'[k] = success[k]
      /\ wasSkipped \subseteq wasSkipped' /\ succeeded \subseteq succeeded' /\ failed \subseteq failed'
      /\ \A x \in 1..Tests : numRuns[x] > 0 => numRuns'[x] > 0
      /\ testsAborted => testsAborted'
  BY DEF StepOf
<1>3. \A i : Share(i)' = Share(i)
  BY <1>2, ArgsStay
<1>4. Test(k)' = Test(k) /\ (pc[k] \in InHand => Test(k) \in 1..Tests)
  <2>1. Test(k)' = Test(k)
    BY <1>2 DEF Test
  <2>. QED BY <1>1, <2>1, PresentTest
<1>5. ASSUME NEW x \in ToSet(todo[k]) PROVE (x \in wasSkipped' => x \in wasSkipped) /\ (x \in succeeded' => x \in succeeded)
  <2>1. x \in Share(k)
    BY <1>1 DEF Coming
  <2>2. todo[j] # <<>> => Test(j) \in Share(j)
    BY <1>1, PresentTest DEF Coming
  <2>3. Share(j) \cap Share(k) = {}
    BY <1>1, SharesRight DEF SquishTypeOK
  <2>4. ~(todo[j] # <<>> /\ x = Test(j))
    BY ONLY <2>1, <2>2, <2>3
  <2>. QED BY <2>4 DEF StepOf
<1>6. Coming(k)'
  <2>1. ToSet(todo'[k]) \subseteq Share(k)' /\ IsInjective(todo'[k])
    BY <1>1, <1>2, <1>3 DEF Coming
  <2>2. pc'[k] = "idle" => todo'[k] = <<>>
    BY <1>1, <1>2 DEF Coming
  <2>3. ASSUME NEW x \in ToSet(todo'[k])
        PROVE  /\ x \notin wasSkipped'
               /\ x \in succeeded' => x = Test(k)' /\ success'[k] = "yes" /\ pc'[k] \in {"looping", "returning"}
    BY <1>1, <1>2, <1>4, <1>5 DEF Coming
  <2>. QED BY ONLY <2>1, <2>2, <2>3, Zenon DEF Coming, ToSet, IsInjective
<1>7. Present(k)'
  BY <1>1, <1>2, <1>4 DEF Present, InHand
<1>8. Behind(k)'
  <2>1. ASSUME NEW x \in Share(k), RunSoFar(x) PROVE RunSoFar(x)'
    <3>1. x \in 1..Tests
      BY <1>1, SharesRight DEF SquishTypeOK
    <3>. QED BY <1>2, <2>1, <3>1 DEF RunSoFar
  <2>. QED BY <1>1, <1>2, <1>3, <2>1 DEF Behind
<1>. QED BY <1>6, <1>7, <1>8

\* A step of a thread is right if it is for that thread.
LEMMA ThreadKeeps ==
  ASSUME SquishRunnerAssumption, SquishInv, NEW j \in Jobs, StepOf(j), SquishTypeOK',
         Once => Coming(j)' /\ Present(j)' /\ Behind(j)' /\ ServersKnown',
         Once /\ testsAborted' => testsAborted \/ \E x \in Failures' : \A k \in Jobs : x \notin ToSet(todo'[k])
  PROVE  SquishInv'
<1>1. args' = args /\ Jobs' = Jobs /\ Requested' = Requested /\ (Once' <=> Once) /\ \A k : Share(k)' = Share(k)
  BY ArgsStay DEF StepOf
<1>2. MainRight'
  <2>1. main \in {"joining", "interrupted"}
    BY DEF SquishInv, SquishTypeOK, MainRight, StepOf, Finished
  <2>2. \A k \in Jobs : pc'[k] # "idle"
    BY <2>1 DEF SquishInv, MainRight, StepOf
  <2>3. main' = main /\ exitCode' = exitCode
    BY DEF StepOf
  <2>. QED BY <1>1, <2>1, <2>2, <2>3 DEF SquishInv, MainRight
<1>3. ASSUME Once PROVE \A k \in Jobs : Coming(k)' /\ Present(k)' /\ Behind(k)'
  <2>1. ASSUME NEW k \in Jobs PROVE Coming(k)' /\ Present(k)' /\ Behind(k)'
    <3>1. CASE k = j
      BY <1>3, <3>1
    <3>2. CASE k # j
      BY <1>3, <3>2, OthersKept
    <3>. QED BY <3>1, <3>2
  <2>. QED BY <2>1
<1>4. ASSUME Once PROVE Aborted'
  <2> SUFFICES ASSUME testsAborted' PROVE \E x \in Failures' : \A k \in Jobs : x \notin ToSet(todo'[k])
    BY <1>1, Zenon DEF Aborted, ToSet
  <2>1. CASE testsAborted
    <3>1. PICK x \in Failures : \A k \in Jobs : x \notin ToSet(todo[k])
      BY <1>4, <2>1 DEF SquishInv, Aborted
    <3>2. x \in ToSet(Requested) /\ x \notin wasSkipped /\ numRuns[x] > 0 /\ x \in failed /\ x \notin succeeded
      BY <3>1 DEF Failures
    <3>3. todo[j] # <<>> => Test(j) \in ToSet(todo[j])
      BY PresentTest DEF SquishInv
    <3>4. x \notin wasSkipped' /\ x \notin succeeded' /\ x \in failed'
      BY <3>1, <3>2, <3>3 DEF StepOf
    <3>5. x \in 1..Tests
      BY <3>2 DEF SquishInv, SquishTypeOK
    <3>6. numRuns'[x] > 0
      BY <3>2, <3>5 DEF StepOf
    <3>7. x \in Failures'
      BY <1>1, <3>2, <3>4, <3>6, Zenon DEF Failures, ToSet
    <3>8. \A k \in Jobs : x \notin ToSet(todo'[k])
      BY <3>1 DEF StepOf
    <3>. QED BY <3>7, <3>8
  <2>2. CASE ~testsAborted
    BY <1>4, <2>2
  <2>. QED BY <2>1, <2>2
<1>5. Once' => (\A k \in Jobs' : Coming(k)' /\ Present(k)' /\ Behind(k)') /\ Aborted' /\ ServersKnown'
  BY <1>1, <1>3, <1>4
<1>. QED BY <1>2, <1>5, Zenon DEF SquishInv
-----------------------------------------------------------------------------
\* A thread that only goes on.
LEMMA GoOnKeeps ==
  ASSUME SquishRunnerAssumption, SquishInv, NEW j \in Jobs, NEW w \in Places, Goto(j, w),
         pc[j] \notin {"idle", "ended", "died"}, w \notin {"idle", "waiting", "preparing"},
         UNCHANGED <<args, main, exitCode, testsAborted, todo, success, counts, serverProc>>, servers' \subseteq servers,
         w \in InHand => pc[j] \in InHand,
         success[j] = "yes" /\ pc[j] \in {"looping", "returning"} => w \in {"looping", "returning"},
         Once /\ w \in {"checking", "running"} => success[j] # "yes",
         w = "returning" => success[j] # "unassigned",
         w = "ended" => todo[j] = <<>> \/ testsAborted
  PROVE  SquishInv'
<1>1. SquishTypeOK
  BY DEF SquishInv
<1>2. /\ args' = args /\ main' = main /\ exitCode' = exitCode /\ testsAborted' = testsAborted /\ todo' = todo
      /\ success' = success /\ numRuns' = numRuns /\ wasSkipped' = wasSkipped /\ failed' = failed
      /\ succeeded' = succeeded /\ serverProc' = serverProc
  BY DEF counts
<1>3. pc' \in [Jobs -> Places] /\ pc'[j] = w /\ \A k \in Jobs : k # j => pc'[k] = pc[k]
  BY <1>1 DEF SquishTypeOK, Goto
<1>4. Jobs' = Jobs /\ Requested' = Requested /\ (Once' <=> Once) /\ \A k : Share(k)' = Share(k)
  BY <1>2, ArgsStay
<1>5. SquishTypeOK'
  <2>1. \A k \in Jobs : pc'[k] \in InHand => todo'[k] # <<>>
    BY <1>1, <1>2, <1>3 DEF SquishTypeOK
  <2>. QED BY <1>1, <1>2, <1>3, <1>4, <2>1 DEF SquishTypeOK, InHand
<1>6. StepOf(j)
  BY <1>2, <1>3 DEF StepOf
<1>7. ASSUME Once PROVE Coming(j)' /\ Present(j)' /\ Behind(j)' /\ ServersKnown'
  <2>1. Coming(j) /\ Present(j) /\ Behind(j) /\ ServersKnown
    BY <1>7 DEF SquishInv
  <2>2. Test(j)' = Test(j)
    BY <1>2 DEF Test
  <2>3. Coming(j)'
    <3>1. ToSet(todo'[j]) \subseteq Share(j)' /\ IsInjective(todo'[j])
      BY <1>2, <1>4, <2>1 DEF Coming
    <3>2. pc'[j] = "idle" => todo'[j] = <<>>
      BY <1>2, <1>3, <2>1 DEF Coming
    <3>3. ASSUME NEW x \in ToSet(todo'[j])
          PROVE  /\ x \notin wasSkipped'
                 /\ x \in succeeded' => x = Test(j)' /\ success'[j] = "yes" /\ pc'[j] \in {"looping", "returning"}
      BY <1>2, <1>3, <2>1, <2>2 DEF Coming
    <3>. QED BY ONLY <3>1, <3>2, <3>3, Zenon DEF Coming, ToSet, IsInjective
  <2>4. Present(j)'
    BY <1>2, <1>3, <2>1, <2>2 DEF Present, InHand
  <2>5. Behind(j)'
    <3>1. \A x : RunSoFar(x)' <=> RunSoFar(x)
      BY <1>2 DEF RunSoFar
    <3>. QED BY <1>2, <1>3, <1>4, <2>1, <3>1 DEF Behind
  <2>6. ServersKnown'
    BY <1>2, <1>4, <2>1 DEF ServersKnown
  <2>. QED BY <2>3, <2>4, <2>5, <2>6
<1>. QED BY <1>2, <1>5, <1>6, <1>7, ThreadKeeps

\* The thread ends, looks for another server, repeats its test, returns or dies.
LEMMA GoOnActions ==
  ASSUME SquishRunnerAssumption, SquishInv, NEW j \in Jobs,
         End(j) \/ XvfbEnds(j) \/ RunAgain(j) \/ RunEnough(j) \/ Check(j) \/ StopFails(j)
  PROVE  SquishInv'
<1>1. SquishTypeOK
  BY DEF SquishInv
<1>2. success[j] \in {"unassigned", "yes", "no"}
  BY <1>1 DEF SquishTypeOK
<1> DEFINE Unmoved == UNCHANGED <<args, main, exitCode, testsAborted, todo, success, counts, serverProc>>
<1>3. CASE End(j)
  <2>1. Goto(j, "ended") /\ Unmoved /\ pc[j] = "next" /\ servers' \subseteq servers /\ (todo[j] = <<>> \/ testsAborted)
    BY <1>3 DEF End, process
  <2>. QED BY <2>1, GoOnKeeps DEF Places, InHand
<1>4. CASE XvfbEnds(j)
  <2>1. Goto(j, "looping") /\ Unmoved /\ pc[j] = "preparing" /\ servers' \subseteq servers
    BY <1>4 DEF XvfbEnds, process
  <2>. QED BY <2>1, GoOnKeeps DEF Places, InHand
<1>5. CASE RunAgain(j)
  <2>1. Goto(j, "checking") /\ Unmoved /\ pc[j] = "looping" /\ success[j] # "yes" /\ servers' \subseteq servers
    BY <1>5 DEF RunAgain, process
  <2>. QED BY <2>1, GoOnKeeps DEF Places, InHand
<1>6. CASE RunEnough(j)
  <2>1. Unmoved /\ pc[j] = "looping" /\ servers' \subseteq servers
    BY <1>6 DEF RunEnough, process
  <2>2. CASE success[j] = "unassigned"
    <3>1. Goto(j, "died")
      BY <1>6, <2>2 DEF RunEnough
    <3>. QED BY <2>1, <2>2, <3>1, GoOnKeeps DEF Places, InHand
  <2>3. CASE success[j] # "unassigned"
    <3>1. Goto(j, "returning")
      BY <1>6, <2>3 DEF RunEnough
    <3>. QED BY <2>1, <2>3, <3>1, GoOnKeeps DEF Places, InHand
  <2>. QED BY <2>2, <2>3
<1>7. CASE Check(j)
  <2>1. Unmoved /\ pc[j] = "checking" /\ servers' \subseteq servers
    BY <1>7 DEF Check, KilledByPort
  <2>2. Goto(j, "died") => SquishInv'
    BY <2>1, GoOnKeeps DEF Places, InHand
  <2>3. ASSUME Goto(j, "running") PROVE SquishInv'
    <3>1. Once => success[j] # "yes"
      BY <2>1 DEF SquishInv, Present
    <3>. QED BY <2>1, <2>3, <3>1, GoOnKeeps DEF Places, InHand
  <2>. QED BY <1>7, <2>2, <2>3 DEF Check
<1>8. CASE StopFails(j)
  <2>1. Goto(j, "died") /\ Unmoved /\ pc[j] = "waiting" /\ servers' \subseteq servers
    BY <1>8 DEF StopFails, process
  <2>. QED BY <2>1, GoOnKeeps DEF Places, InHand
<1>. QED BY <1>3, <1>4, <1>5, <1>6, <1>7, <1>8

\* A thread skips a test.
LEMMA SkipKeeps ==
  ASSUME SquishRunnerAssumption, SquishInv, NEW j \in Jobs, Skip(j)
  PROVE  SquishInv'
<1>1. SquishTypeOK
  BY DEF SquishInv
<1>2. PICK x, s, rest : x = Test(j) /\ s = todo[j] /\ rest = Tail(todo[j])
  OBVIOUS
<1>3. /\ args' = args /\ main' = main /\ exitCode' = exitCode /\ testsAborted' = testsAborted /\ pc' = pc
      /\ success' = success /\ numRuns' = numRuns /\ wasSkipped' = wasSkipped \cup {x} /\ failed' = failed
      /\ succeeded' = succeeded /\ serverProc' = serverProc /\ servers' = servers
      /\ todo' = [todo EXCEPT ![j] = rest] /\ pc[j] = "next" /\ s # <<>>
  BY <1>2 DEF Skip, process
<1>4. s \in Seq(1..Tests) /\ x \in 1..Tests
  BY <1>1, <1>2, <1>3, PresentTest
<1>5. /\ x \in ToSet(s) /\ rest \in Seq(1..Tests) /\ ToSet(rest) \subseteq ToSet(s)
      /\ \A y \in ToSet(s) : y = x \/ y \in ToSet(rest)
      /\ IsInjective(s) => IsInjective(rest) /\ x \notin ToSet(rest)
  <2>1. PICK T : T = 1..Tests
    OBVIOUS
  <2>2. x = Head(s) /\ rest = Tail(s)
    BY ONLY <1>2 DEF Test
  <2>. QED BY ONLY <1>3, <1>4, <2>1, <2>2, HeadAndTail
<1>6. todo'[j] = rest /\ todo' \in [Jobs -> Seq(1..Tests)] /\ \A k \in Jobs : k # j => todo'[k] = todo[k]
  BY <1>1, <1>3, <1>5 DEF SquishTypeOK
<1>7. Jobs' = Jobs /\ Requested' = Requested /\ (Once' <=> Once) /\ \A k : Share(k)' = Share(k)
  BY <1>3, ArgsStay
<1>8. SquishTypeOK'
  <2>1. \A k \in Jobs : pc'[k] \in InHand => todo'[k] # <<>>
    BY <1>1, <1>3, <1>6 DEF SquishTypeOK, InHand
  <2>. QED BY <1>1, <1>3, <1>4, <1>6, <1>7, <2>1 DEF SquishTypeOK, InHand
<1>9. StepOf(j)
  BY <1>2, <1>3, <1>5, <1>6 DEF StepOf
<1>10. ASSUME Once PROVE Coming(j)' /\ Present(j)' /\ Behind(j)' /\ ServersKnown'
  <2>1. Coming(j) /\ Present(j) /\ Behind(j) /\ ServersKnown
    BY <1>10 DEF SquishInv
  <2>2. Coming(j)'
    <3>1. ToSet(todo'[j]) \subseteq Share(j)' /\ IsInjective(todo'[j]) /\ pc'[j] # "idle"
      BY <1>2, <1>3, <1>5, <1>6, <1>7, <2>1 DEF Coming
    <3>2. ASSUME NEW y \in ToSet(todo'[j]) PROVE y \notin wasSkipped' /\ y \notin succeeded'
      BY <1>2, <1>3, <1>5, <1>6, <2>1 DEF Coming
    <3>. QED BY ONLY <3>1, <3>2, Zenon DEF Coming, ToSet, IsInjective
  <2>3. Present(j)'
    BY <1>3 DEF Present, InHand
  <2>4. Behind(j)'
    <3>1. \A y : RunSoFar(y)' <=> RunSoFar(y)
      BY <1>3 DEF RunSoFar
    <3>2. \A y \in Share(j) : y \in ToSet(rest) \/ y \in wasSkipped' \/ RunSoFar(y)
      BY <1>2, <1>3, <1>5, <2>1 DEF Behind
    <3>3. ToSet(todo[j])' = ToSet(rest)
      BY <1>6, Zenon DEF ToSet
    <3>. QED BY <1>3, <1>7, <3>1, <3>2, <3>3 DEF Behind
  <2>5. ServersKnown'
    BY <1>3, <1>7, <2>1 DEF ServersKnown
  <2>. QED BY <2>2, <2>3, <2>4, <2>5
<1>. QED BY <1>3, <1>8, <1>9, <1>10, ThreadKeeps

\* A thread takes up a test.
LEMMA PrepareKeeps ==
  ASSUME SquishRunnerAssumption, SquishInv, NEW j \in Jobs, Prepare(j)
  PROVE  SquishInv'
<1>1. SquishTypeOK
  BY DEF SquishInv
<1>2. PICK w \in {"preparing", "died", "looping"} : Goto(j, w)
  BY DEF Prepare
<1>3. /\ args' = args /\ main' = main /\ exitCode' = exitCode /\ testsAborted' = testsAborted /\ todo' = todo
      /\ numRuns' = numRuns /\ wasSkipped' = wasSkipped /\ failed' = failed
      /\ succeeded' = succeeded /\ serverProc' = serverProc /\ servers' = servers
      /\ success' = [success EXCEPT ![j] = "unassigned"] /\ pc[j] = "next" /\ todo[j] # <<>>
  BY DEF Prepare, counts, process
<1>4. pc' \in [Jobs -> Places] /\ pc'[j] = w /\ \A k \in Jobs : k # j => pc'[k] = pc[k]
  BY <1>1, <1>2 DEF SquishTypeOK, Goto, Places
<1>5. /\ success' \in [Jobs -> {"unassigned", "yes", "no"}] /\ success'[j] = "unassigned"
      /\ \A k \in Jobs : k # j => success'[k] = success[k]
  BY <1>1, <1>3 DEF SquishTypeOK
<1>6. Jobs' = Jobs /\ Requested' = Requested /\ (Once' <=> Once) /\ \A k : Share(k)' = Share(k)
  BY <1>3, ArgsStay
<1>7. SquishTypeOK'
  <2>1. \A k \in Jobs : pc'[k] \in InHand => todo'[k] # <<>>
    BY <1>1, <1>3, <1>4 DEF SquishTypeOK
  <2>. QED BY <1>1, <1>3, <1>4, <1>5, <1>6, <2>1 DEF SquishTypeOK, InHand
<1>8. StepOf(j)
  BY <1>2, <1>3, <1>4, <1>5 DEF StepOf
<1>9. ASSUME Once PROVE Coming(j)' /\ Present(j)' /\ Behind(j)' /\ ServersKnown'
  <2>1. Coming(j) /\ Present(j) /\ Behind(j) /\ ServersKnown
    BY <1>9 DEF SquishInv
  <2>2. Coming(j)'
    <3>1. ToSet(todo'[j]) \subseteq Share(j)' /\ IsInjective(todo'[j]) /\ pc'[j] # "idle"
      BY <1>2, <1>3, <1>4, <1>6, <2>1 DEF Coming
    <3>2. ASSUME NEW y \in ToSet(todo'[j]) PROVE y \notin wasSkipped' /\ y \notin succeeded'
      BY <1>3, <2>1 DEF Coming
    <3>. QED BY ONLY <3>1, <3>2, Zenon DEF Coming, ToSet, IsInjective
  <2>3. Present(j)'
    BY <1>2, <1>4, <1>5 DEF Present
  <2>4. Behind(j)'
    <3>1. \A y : RunSoFar(y)' <=> RunSoFar(y)
      BY <1>3 DEF RunSoFar
    <3>. QED BY <1>2, <1>3, <1>4, <1>6, <2>1, <3>1 DEF Behind
  <2>5. ServersKnown'
    BY <1>3, <1>6, <2>1 DEF ServersKnown
  <2>. QED BY <2>2, <2>3, <2>4, <2>5
<1>. QED BY <1>3, <1>7, <1>8, <1>9, ThreadKeeps

\* A thread starts the programs of its test.
LEMMA LaunchKeeps ==
  ASSUME SquishRunnerAssumption, SquishInv, NEW j \in Jobs, Launch(j)
  PROVE  SquishInv'
<1>1. SquishTypeOK
  BY DEF SquishInv
<1>2. PICK x : x = Test(j)
  OBVIOUS
<1>3. PICK w \in {"waiting", "died"} : Goto(j, w)
  BY DEF Launch
<1>4. /\ args' = args /\ main' = main /\ exitCode' = exitCode /\ testsAborted' = testsAborted /\ todo' = todo
      /\ success' = success /\ wasSkipped' = wasSkipped /\ failed' = failed /\ succeeded' = succeeded
      /\ numRuns' = [numRuns EXCEPT ![x] = @ + 1] /\ pc[j] = "running"
      /\ \/ servers' = servers \cup {<<x, j>>} /\ serverProc' = [serverProc EXCEPT ![x] = j]
         \/ servers' = servers /\ serverProc' = serverProc
  BY <1>2 DEF Launch, process
<1>5. pc' \in [Jobs -> Places] /\ pc'[j] = w /\ \A k \in Jobs : k # j => pc'[k] = pc[k]
  BY <1>1, <1>3 DEF SquishTypeOK, Goto, Places
<1>6. x \in 1..Tests /\ x \in ToSet(todo[j])
  BY <1>1, <1>2, <1>4, PresentTest DEF InHand
<1>7. /\ numRuns' \in [1..Tests -> Nat] /\ numRuns'[x] > 0
      /\ \A y \in 1..Tests : numRuns[y] > 0 => numRuns'[y] > 0
  <2>1. numRuns \in [1..Tests -> Nat] /\ numRuns[x] \in Nat
    BY <1>1, <1>6 DEF SquishTypeOK
  <2>. QED BY ONLY <1>4, <1>6, <2>1
<1>8. Jobs' = Jobs /\ Requested' = Requested /\ (Once' <=> Once) /\ \A k : Share(k)' = Share(k)
  BY <1>4, ArgsStay
<1>9. SquishTypeOK'
  <2>1. \A k \in Jobs : pc'[k] \in InHand => todo'[k] # <<>>
    BY <1>1, <1>4, <1>5 DEF SquishTypeOK, InHand
  <2>2. serverProc' \in [1..Tests -> Jobs \cup {Nobody}] /\ servers' \subseteq (1..Tests) \X Jobs
    <3>1. PICK T : T = 1..Tests
      OBVIOUS
    <3>2. serverProc \in [T -> Jobs \cup {Nobody}] /\ servers \subseteq T \X Jobs /\ <<x, j>> \in T \X Jobs
      BY <1>1, <1>6, <3>1 DEF SquishTypeOK
    <3>3. CASE servers' = servers /\ serverProc' = serverProc
      BY ONLY <3>1, <3>2, <3>3
    <3>4. CASE servers' = servers \cup {<<x, j>>} /\ serverProc' = [serverProc EXCEPT ![x] = j]
      <4>1. servers' \subseteq T \X Jobs
        BY ONLY <3>2, <3>4, Zenon
      <4>2. serverProc' \in [T -> Jobs \cup {Nobody}]
        BY ONLY <3>2, <3>4, j \in Jobs
      <4>. QED BY <3>1, <4>1, <4>2
    <3>. QED BY <1>4, <3>3, <3>4
  <2>. QED BY <1>1, <1>4, <1>5, <1>7, <1>8, <2>1, <2>2 DEF SquishTypeOK, InHand
<1>10. StepOf(j)
  BY <1>3, <1>4, <1>5, <1>7 DEF StepOf
<1>11. ASSUME Once PROVE Coming(j)' /\ Present(j)' /\ Behind(j)' /\ ServersKnown'
  <2>1. Coming(j) /\ Present(j) /\ Behind(j) /\ ServersKnown
    BY <1>11 DEF SquishInv
  <2>2. Test(j)' = x
    BY <1>2, <1>4 DEF Test
  <2>3. Coming(j)'
    <3>1. ToSet(todo'[j]) \subseteq Share(j)' /\ IsInjective(todo'[j]) /\ pc'[j] # "idle"
      BY <1>3, <1>4, <1>5, <1>8, <2>1 DEF Coming
    <3>2. ASSUME NEW y \in ToSet(todo'[j]) PROVE y \notin wasSkipped' /\ y \notin succeeded'
      BY <1>4, <2>1 DEF Coming
    <3>. QED BY ONLY <3>1, <3>2, Zenon DEF Coming, ToSet, IsInjective
  <2>4. Present(j)'
    BY <1>2, <1>3, <1>4, <1>5, <1>7, <2>1, <2>2 DEF Present, InHand
  <2>5. Behind(j)'
    <3>1. ASSUME NEW y \in Share(j), RunSoFar(y) PROVE RunSoFar(y)'
      <4>1. y \in 1..Tests
        BY <1>1, SharesRight DEF SquishTypeOK
      <4>. QED BY <1>4, <1>7, <3>1, <4>1 DEF RunSoFar
    <3>. QED BY <1>3, <1>4, <1>5, <1>8, <2>1, <3>1 DEF Behind
  <2>6. ServersKnown'
    <3>1. x \in Share(j)
      BY <1>6, <2>1 DEF Coming
    <3>2. ASSUME NEW y \in 1..Tests, NEW k \in Jobs, <<y, k>> \in servers'
          PROVE  y \in Share(k) /\ serverProc'[y] = k
      <4>1. CASE servers' = servers /\ serverProc' = serverProc
        BY <2>1, <3>2, <4>1 DEF ServersKnown
      <4>2. CASE servers' = servers \cup {<<x, j>>} /\ serverProc' = [serverProc EXCEPT ![x] = j]
        <5>1. serverProc'[x] = j /\ \A z \in 1..Tests : z # x => serverProc'[z] = serverProc[z]
          BY <1>1, <1>6, <4>2 DEF SquishTypeOK
        <5>2. CASE <<y, k>> \in servers
          <6>1. y \in Share(k) /\ serverProc[y] = k
            BY <2>1, <5>2 DEF ServersKnown
          <6>2. y = x => k = j
            BY <1>1, <1>11, <3>1, <6>1, SharesRight DEF SquishTypeOK
          <6>. QED BY <5>1, <6>1, <6>2
        <5>3. CASE <<y, k>> \notin servers
          <6>1. y = x /\ k = j
            BY <3>2, <4>2, <5>3
          <6>. QED BY <3>1, <5>1, <6>1
        <5>. QED BY <5>2, <5>3
      <4>. QED BY <1>4, <4>1, <4>2
    <3>. QED BY <1>8, <3>2 DEF ServersKnown
  <2>. QED BY <2>3, <2>4, <2>5, <2>6
<1>. QED BY <1>4, <1>9, <1>10, <1>11, ThreadKeeps

\* The programs of a test end.
LEMMA StopKeeps ==
  ASSUME SquishRunnerAssumption, SquishInv, NEW j \in Jobs, Stop(j)
  PROVE  SquishInv'
<1>1. SquishTypeOK
  BY DEF SquishInv
<1>2. PICK x : x = Test(j)
  OBVIOUS
<1>3. /\ args' = args /\ main' = main /\ exitCode' = exitCode /\ testsAborted' = testsAborted /\ todo' = todo
      /\ numRuns' = numRuns /\ wasSkipped' = wasSkipped /\ serverProc' = serverProc
      /\ servers' \subseteq servers /\ pc[j] = "waiting" /\ Goto(j, "looping")
  BY DEF Stop
<1>4. \/ succeeded' = succeeded \cup {x} /\ success' = [success EXCEPT ![j] = "yes"] /\ failed' = failed
      \/ failed' = failed \cup {x} /\ success' = [success EXCEPT ![j] = "no"] /\ succeeded' = succeeded
  BY <1>2 DEF Stop
<1>5. pc' \in [Jobs -> Places] /\ pc'[j] = "looping" /\ \A k \in Jobs : k # j => pc'[k] = pc[k]
  BY <1>1, <1>3 DEF SquishTypeOK, Goto, Places
<1>6. x \in 1..Tests /\ x \in ToSet(todo[j]) /\ todo[j] # <<>>
  BY <1>1, <1>2, <1>3, PresentTest DEF InHand
<1>7. /\ success' \in [Jobs -> {"unassigned", "yes", "no"}] /\ \A k \in Jobs : k # j => success'[k] = success[k]
      /\ \/ succeeded' = succeeded \cup {x} /\ success'[j] = "yes" /\ failed' = failed
         \/ failed' = failed \cup {x} /\ success'[j] = "no" /\ succeeded' = succeeded
  BY <1>1, <1>4 DEF SquishTypeOK
<1>8. Jobs' = Jobs /\ Requested' = Requested /\ (Once' <=> Once) /\ \A k : Share(k)' = Share(k)
  BY <1>3, ArgsStay
<1>9. SquishTypeOK'
  <2>1. \A k \in Jobs : pc'[k] \in InHand => todo'[k] # <<>>
    BY <1>1, <1>3, <1>5, <1>6 DEF SquishTypeOK
  <2>2. succeeded' \subseteq 1..Tests /\ failed' \subseteq 1..Tests
    BY <1>1, <1>6, <1>7 DEF SquishTypeOK
  <2>. QED BY <1>1, <1>3, <1>5, <1>7, <1>8, <2>1, <2>2 DEF SquishTypeOK, InHand
<1>10. StepOf(j)
  BY <1>2, <1>3, <1>5, <1>6, <1>7 DEF StepOf
<1>11. ASSUME Once PROVE Coming(j)' /\ Present(j)' /\ Behind(j)' /\ ServersKnown'
  <2>1. Coming(j) /\ Present(j) /\ Behind(j) /\ ServersKnown
    BY <1>11 DEF SquishInv
  <2>2. Test(j)' = x
    BY <1>2, <1>3 DEF Test
  <2>3. Coming(j)'
    <3>1. ToSet(todo'[j]) \subseteq Share(j)' /\ IsInjective(todo'[j]) /\ pc'[j] # "idle"
      BY <1>3, <1>5, <1>8, <2>1 DEF Coming
    <3>2. ASSUME NEW y \in ToSet(todo'[j])
          PROVE  /\ y \notin wasSkipped'
                 /\ y \in succeeded' => y = Test(j)' /\ success'[j] = "yes" /\ pc'[j] \in {"looping", "returning"}
      <4>1. y \notin wasSkipped /\ y \notin succeeded
        BY <1>3, <2>1 DEF Coming
      <4>. QED BY <1>3, <1>5, <1>7, <2>2, <4>1
    <3>. QED BY ONLY <3>1, <3>2, Zenon DEF Coming, ToSet, IsInjective
  <2>4. Present(j)'
    <3>1. numRuns[x] > 0
      BY <1>2, <1>3, <2>1 DEF Present
    <3>. QED BY <1>3, <1>5, <1>7, <2>2, <3>1 DEF Present
  <2>5. Behind(j)'
    <3>1. \A y : RunSoFar(y) => RunSoFar(y)'
      BY <1>3, <1>7 DEF RunSoFar
    <3>. QED BY <1>3, <1>5, <1>8, <2>1, <3>1 DEF Behind
  <2>6. ServersKnown'
    BY <1>3, <1>8, <2>1 DEF ServersKnown
  <2>. QED BY <2>3, <2>4, <2>5, <2>6
<1>. QED BY <1>3, <1>9, <1>10, <1>11, ThreadKeeps

\* A thread goes on to its next test, or makes all give up.
LEMMA ReturnKeeps ==
  ASSUME SquishRunnerAssumption, SquishInv, NEW j \in Jobs, Return(j)
  PROVE  SquishInv'
<1>1. SquishTypeOK
  BY DEF SquishInv
<1>2. PICK x, s, rest : x = Test(j) /\ s = todo[j] /\ rest = Tail(todo[j])
  OBVIOUS
<1>3. /\ args' = args /\ main' = main /\ exitCode' = exitCode
      /\ success' = success /\ numRuns' = numRuns /\ wasSkipped' = wasSkipped /\ failed' = failed
      /\ succeeded' = succeeded /\ serverProc' = serverProc /\ servers' = servers
      /\ todo' = [todo EXCEPT ![j] = rest] /\ pc[j] = "returning" /\ Goto(j, "next")
  BY <1>2 DEF Return, counts, process
<1>4. testsAborted' = (testsAborted \/ (args.abortOnFail /\ success[j] # "yes"))
  BY DEF Return
<1>5. s \in Seq(1..Tests) /\ x \in 1..Tests /\ s # <<>>
  BY <1>1, <1>2, <1>3, PresentTest DEF InHand
<1>6. /\ x \in ToSet(s) /\ rest \in Seq(1..Tests) /\ ToSet(rest) \subseteq ToSet(s)
      /\ \A y \in ToSet(s) : y = x \/ y \in ToSet(rest)
      /\ IsInjective(s) => IsInjective(rest) /\ x \notin ToSet(rest)
  <2>1. PICK T : T = 1..Tests
    OBVIOUS
  <2>2. x = Head(s) /\ rest = Tail(s)
    BY ONLY <1>2 DEF Test
  <2>. QED BY ONLY <1>5, <2>1, <2>2, HeadAndTail
<1>7. todo'[j] = rest /\ todo' \in [Jobs -> Seq(1..Tests)] /\ \A k \in Jobs : k # j => todo'[k] = todo[k]
  BY <1>1, <1>3, <1>6 DEF SquishTypeOK
<1>8. pc' \in [Jobs -> Places] /\ pc'[j] = "next" /\ \A k \in Jobs : k # j => pc'[k] = pc[k]
  BY <1>1, <1>3 DEF SquishTypeOK, Goto, Places
<1>9. Jobs' = Jobs /\ Requested' = Requested /\ (Once' <=> Once) /\ \A k : Share(k)' = Share(k)
  BY <1>3, ArgsStay
<1>10. SquishTypeOK'
  <2>1. \A k \in Jobs : pc'[k] \in InHand => todo'[k] # <<>>
    BY <1>1, <1>7, <1>8 DEF SquishTypeOK, InHand
  <2>2. testsAborted' \in BOOLEAN
    BY <1>4, Zenon
  <2>. QED BY <1>1, <1>3, <1>7, <1>8, <1>9, <2>1, <2>2 DEF SquishTypeOK, InHand
<1>11. StepOf(j)
  <2>1. testsAborted => testsAborted'
    BY <1>4, Zenon
  <2>. QED BY <1>2, <1>3, <1>6, <1>7, <1>8, <2>1 DEF StepOf
<1>12. ASSUME Once PROVE /\ x \in Share(j) /\ x \notin wasSkipped /\ numRuns[x] > 0
                         /\ \/ success[j] = "yes" /\ x \in succeeded
                            \/ success[j] = "no" /\ x \in failed /\ x \notin succeeded
  <2>1. Coming(j) /\ Present(j)
    BY <1>12 DEF SquishInv
  <2>2. success[j] \in {"yes", "no"}
    BY <1>1, <1>3, <2>1 DEF SquishTypeOK, Present
  <2>. QED BY <1>2, <1>3, <1>6, <2>1, <2>2 DEF Coming, Present, InHand
<1>13. ASSUME Once PROVE Coming(j)' /\ Present(j)' /\ Behind(j)' /\ ServersKnown'
  <2>1. Coming(j) /\ Present(j) /\ Behind(j) /\ ServersKnown
    BY <1>13 DEF SquishInv
  <2>2. Coming(j)'
    <3>1. ToSet(todo'[j]) \subseteq Share(j)' /\ IsInjective(todo'[j]) /\ pc'[j] # "idle"
      BY <1>2, <1>6, <1>7, <1>8, <1>9, <2>1 DEF Coming
    <3>2. ASSUME NEW y \in ToSet(todo'[j]) PROVE y \notin wasSkipped' /\ y \notin succeeded'
      <4>1. y \in ToSet(todo[j]) /\ y # Test(j)
        BY <1>2, <1>6, <1>7, <2>1 DEF Coming
      <4>. QED BY <1>3, <2>1, <4>1 DEF Coming
    <3>. QED BY ONLY <3>1, <3>2, Zenon DEF Coming, ToSet, IsInjective
  <2>3. Present(j)'
    BY <1>8 DEF Present, InHand
  <2>4. Behind(j)'
    <3>1. \A y : RunSoFar(y)' <=> RunSoFar(y)
      BY <1>3 DEF RunSoFar
    <3>2. \A y \in Share(j) : y \in ToSet(rest) \/ y \in wasSkipped \/ RunSoFar(y)
      BY <1>2, <1>3, <1>6, <1>12, <1>13, <2>1 DEF Behind, RunSoFar
    <3>3. ToSet(todo[j])' = ToSet(rest)
      BY <1>7, Zenon DEF ToSet
    <3>. QED BY <1>3, <1>8, <1>9, <3>1, <3>2, <3>3 DEF Behind
  <2>5. ServersKnown'
    BY <1>3, <1>9, <2>1 DEF ServersKnown
  <2>. QED BY <2>2, <2>3, <2>4, <2>5
<1>14. ASSUME Once, testsAborted', ~testsAborted
       PROVE  \E y \in Failures' : \A k \in Jobs : y \notin ToSet(todo'[k])
  <2>1. success[j] # "yes"
    BY <1>4, <1>14
  <2>2. x \in Share(j) /\ x \notin wasSkipped /\ numRuns[x] > 0 /\ x \in failed /\ x \notin succeeded
    BY <1>12, <1>14, <2>1
  <2>3. x \in ToSet(Requested)
    BY <1>1, <2>2, SharesRight DEF SquishTypeOK
  <2>4. x \in Failures'
    BY <1>3, <1>9, <2>2, <2>3, Zenon DEF Failures, ToSet
  <2>5. ASSUME NEW k \in Jobs PROVE x \notin ToSet(todo'[k])
    <3>1. Coming(k) /\ Coming(j)
      BY <1>14 DEF SquishInv
    <3>2. CASE k = j
      BY <1>2, <1>6, <1>7, <3>1, <3>2 DEF Coming
    <3>3. CASE k # j
      <4>1. Share(j) \cap Share(k) = {}
        BY <1>1, <1>14, <3>3, SharesRight DEF SquishTypeOK
      <4>. QED BY <1>7, <2>2, <3>1, <3>3, <4>1 DEF Coming
    <3>. QED BY <3>2, <3>3
  <2>. QED BY <2>4, <2>5
<1>. QED BY <1>10, <1>11, <1>13, <1>14, ThreadKeeps
-----------------------------------------------------------------------------
\* The main thread starts the others, or cannot.
LEMMA RunInParallelKeeps ==
  ASSUME SquishRunnerAssumption, SquishInv, RunInParallel
  PROVE  SquishInv'
<1>1. SquishTypeOK /\ MainRight
  BY DEF SquishInv
<1>2. /\ args' = args /\ testsAborted' = testsAborted /\ success' = success /\ main = "starting"
      /\ numRuns' = numRuns /\ wasSkipped' = wasSkipped /\ failed' = failed /\ succeeded' = succeeded
      /\ serverProc' = serverProc /\ servers' = servers
  BY DEF RunInParallel, counts, process
<1>3. ~testsAborted /\ wasSkipped = {} /\ succeeded = {} /\ \A j \in Jobs : pc[j] = "idle"
  BY <1>1, <1>2 DEF MainRight
<1>4. Jobs' = Jobs /\ Requested' = Requested /\ (Once' <=> Once) /\ \A k : Share(k)' = Share(k)
  BY <1>2, ArgsStay
<1>5. CASE main' = "exited" /\ exitCode' = 1 /\ UNCHANGED <<pc, todo>>
  <2>1. SquishTypeOK'
    BY <1>1, <1>2, <1>4, <1>5 DEF SquishTypeOK, InHand
  <2>2. MainRight'
    BY <1>3, <1>4, <1>5 DEF MainRight
  <2>3. ASSUME Once PROVE (\A j \in Jobs : Coming(j)' /\ Present(j)' /\ Behind(j)') /\ Aborted' /\ ServersKnown'
    <3>1. ASSUME NEW j \in Jobs PROVE Coming(j)' /\ Present(j)' /\ Behind(j)'
      <4>1. Coming(j) /\ pc'[j] = "idle" /\ todo'[j] = todo[j]
        BY <1>3, <1>5, <2>3 DEF SquishInv
      <4>2. Coming(j)'
        <5>1. ToSet(todo'[j]) \subseteq Share(j)' /\ IsInjective(todo'[j]) /\ todo'[j] = <<>>
          BY <1>3, <1>4, <4>1 DEF Coming
        <5>2. ToSet(todo'[j]) = {}
          BY <5>1 DEF ToSet
        <5>. QED BY ONLY <5>1, <5>2, Zenon DEF Coming, ToSet, IsInjective
      <4>3. Present(j)' /\ Behind(j)'
        BY <4>1 DEF Present, Behind, InHand
      <4>. QED BY <4>2, <4>3
    <3>2. Aborted'
      BY <1>2, <1>3 DEF Aborted
    <3>3. ServersKnown'
      BY <1>2, <1>4, <2>3 DEF SquishInv, ServersKnown
    <3>. QED BY <3>1, <3>2, <3>3
  <2>. QED BY <1>4, <2>1, <2>2, <2>3, Zenon DEF SquishInv
<1>6. CASE /\ main' = "joining" /\ exitCode' = exitCode
           /\ todo' = [j \in Jobs |-> [i \in DOMAIN Chunk(j) |-> Requested[Chunk(j)[i]]]]
           /\ pc' = [j \in Jobs |-> IF Chunk(j) = <<>> THEN "ended" ELSE "next"]
  <2>1. ASSUME NEW j \in Jobs
        PROVE  /\ todo'[j] \in Seq(1..Tests) /\ ToSet(todo'[j]) = Share(j)
               /\ Once => IsInjective(todo'[j])
               /\ pc'[j] = "next" \/ (pc'[j] = "ended" /\ todo'[j] = <<>>)
    <3>1. PICK dealt : dealt = [i \in DOMAIN Chunk(j) |-> Requested[Chunk(j)[i]]]
      OBVIOUS
    <3>2. /\ dealt \in Seq(1..Tests) /\ ToSet(dealt) = Share(j)
          /\ Once => IsInjective(dealt)
          /\ Chunk(j) = <<>> => dealt = <<>>
      BY <1>1, <3>1, DealtRight DEF SquishTypeOK
    <3>3. todo'[j] = dealt /\ pc'[j] = IF Chunk(j) = <<>> THEN "ended" ELSE "next"
      BY <1>6, <3>1
    <3>. QED BY <3>2, <3>3
  <2>2. SquishTypeOK'
    <3>1. todo' \in [Jobs -> Seq(1..Tests)] /\ pc' \in [Jobs -> Places]
      BY <1>6, <2>1 DEF Places
    <3>2. \A j \in Jobs : pc'[j] \in InHand => todo'[j] # <<>>
      BY <2>1 DEF InHand
    <3>. QED BY <1>1, <1>2, <1>4, <1>6, <3>1, <3>2 DEF SquishTypeOK, InHand
  <2>3. MainRight'
    BY <1>4, <1>6, <2>1 DEF MainRight
  <2>4. ASSUME Once PROVE (\A j \in Jobs : Coming(j)' /\ Present(j)' /\ Behind(j)') /\ Aborted' /\ ServersKnown'
    <3>1. ASSUME NEW j \in Jobs PROVE Coming(j)' /\ Present(j)' /\ Behind(j)'
      <4>1. Coming(j)'
        <5>1. ToSet(todo'[j]) \subseteq Share(j)' /\ IsInjective(todo'[j]) /\ pc'[j] # "idle"
          BY <1>4, <2>1, <2>4
        <5>2. ASSUME NEW y \in ToSet(todo'[j]) PROVE y \notin wasSkipped' /\ y \notin succeeded'
          BY <1>2, <1>3
        <5>. QED BY ONLY <5>1, <5>2, Zenon DEF Coming, ToSet, IsInjective
      <4>2. Present(j)'
        BY <2>1 DEF Present, InHand
      <4>3. Behind(j)'
        <5>1. ToSet(todo[j])' = Share(j)
          BY <2>1, Zenon DEF ToSet
        <5>. QED BY <1>4, <2>1, <5>1 DEF Behind
      <4>. QED BY <4>1, <4>2, <4>3
    <3>2. Aborted'
      BY <1>2, <1>3 DEF Aborted
    <3>3. ServersKnown'
      BY <1>2, <1>4, <2>4 DEF SquishInv, ServersKnown
    <3>. QED BY <3>1, <3>2, <3>3
  <2>. QED BY <1>4, <2>2, <2>3, <2>4, Zenon DEF SquishInv
<1>. QED BY <1>5, <1>6 DEF RunInParallel

\* The main thread waits, is interrupted, or exits.
LEMMA MainKeeps ==
  ASSUME SquishRunnerAssumption, SquishInv, UNCHANGED <<args, testsAborted, threads, counts, serverProc>>,
         servers' \subseteq servers, main' \in {"starting", "joining", "interrupted", "exited"}, exitCode' \in {0, 1},
         MainRight'
  PROVE  SquishInv'
<1>1. SquishTypeOK
  BY DEF SquishInv
<1>2. /\ args' = args /\ testsAborted' = testsAborted /\ pc' = pc /\ todo' = todo /\ success' = success
      /\ numRuns' = numRuns /\ wasSkipped' = wasSkipped /\ failed' = failed /\ succeeded' = succeeded
      /\ serverProc' = serverProc
  BY DEF counts, threads
<1>3. Jobs' = Jobs /\ Requested' = Requested /\ (Once' <=> Once) /\ \A k : Share(k)' = Share(k)
  BY <1>2, ArgsStay
<1>4. SquishTypeOK'
  BY <1>1, <1>2, <1>3 DEF SquishTypeOK, InHand
<1>5. ASSUME Once PROVE (\A j \in Jobs : Coming(j)' /\ Present(j)' /\ Behind(j)') /\ Aborted' /\ ServersKnown'
  <2>1. ASSUME NEW j \in Jobs PROVE Coming(j)' /\ Present(j)' /\ Behind(j)'
    <3>1. Coming(j) /\ Present(j) /\ Behind(j)
      BY <1>5 DEF SquishInv
    <3>2. Coming(j)'
      BY <1>2, <1>3, <3>1, Zenon DEF Coming, ToSet, IsInjective, Test
    <3>3. Present(j)'
      BY <1>2, <3>1, Zenon DEF Present, InHand, Test
    <3>4. Behind(j)'
      <4>1. \A y : RunSoFar(y)' <=> RunSoFar(y)
        BY <1>2 DEF RunSoFar
      <4>. QED BY <1>2, <1>3, <3>1, <4>1 DEF Behind
    <3>. QED BY <3>2, <3>3, <3>4
  <2>2. Aborted'
    <3>1. Aborted
      BY <1>5 DEF SquishInv
    <3>2. Failures' = Failures
      BY <1>2, <1>3, Zenon DEF Failures, ToSet
    <3>. QED BY <1>2, <1>3, <3>1, <3>2 DEF Aborted
  <2>3. ServersKnown'
    BY <1>2, <1>3, <1>5 DEF SquishInv, ServersKnown
  <2>. QED BY <2>1, <2>2, <2>3
<1>. QED BY <1>3, <1>4, <1>5, Zenon DEF SquishInv

\* At first nobody has anything to do.
LEMMA SquishStarts ==
  ASSUME SquishRunnerAssumption, Init
  PROVE  SquishInv
<1>1. \A j \in Jobs : todo[j] = <<>> /\ pc[j] = "idle" /\ success[j] = "unassigned"
  BY DEF Init
<1>2. SquishTypeOK
  <2>1. <<>> \in Seq(1..Tests)
    OBVIOUS
  <2>2. todo \in [Jobs -> Seq(1..Tests)] /\ pc \in [Jobs -> Places]
    BY <2>1 DEF Init, Places
  <2>. QED BY <1>1, <2>2 DEF Init, SquishTypeOK, InHand
<1>3. MainRight
  BY <1>1 DEF Init, MainRight
<1>4. ASSUME NEW j \in Jobs PROVE Coming(j) /\ Present(j) /\ Behind(j)
  <2>1. ToSet(todo[j]) = {} /\ IsInjective(todo[j])
    BY <1>1 DEF ToSet, IsInjective
  <2>. QED BY <1>1, <2>1 DEF Coming, Present, Behind, InHand
<1>5. Aborted /\ ServersKnown
  BY DEF Init, Aborted, ServersKnown
<1>. QED BY <1>2, <1>3, <1>4, <1>5 DEF SquishInv

\* Every step keeps what holds of the threads.
LEMMA SquishSteps ==
  ASSUME SquishRunnerAssumption, SquishInv, [Next]_vars
  PROVE  SquishInv'
<1>1. SquishTypeOK /\ MainRight
  BY DEF SquishInv
<1>2. CASE RunInParallel
  BY <1>2, RunInParallelKeeps
<1>3. ASSUME UNCHANGED <<args, testsAborted, threads, counts>> PROVE (Finished => Finished') /\ (WasSuccessful => WasSuccessful')
  <2>1. Jobs' = Jobs /\ Requested' = Requested
    BY <1>3, ArgsStay
  <2>2. Failures' = Failures
    BY <1>3, <2>1, Zenon DEF Failures, ToSet, counts
  <2>3. pc' = pc
    BY <1>3 DEF threads
  <2>. QED BY <2>1, <2>2, <2>3 DEF Finished, WasSuccessful
<1>4. CASE Exit
  <2>1. UNCHANGED <<args, testsAborted, threads, counts, serverProc>> /\ servers' \subseteq servers
    BY <1>4 DEF Exit
  <2>2. main' = "exited" /\ exitCode' \in {0, 1} /\ Finished /\ (exitCode' = 0 => WasSuccessful)
    BY <1>4 DEF Exit
  <2>3. MainRight'
    BY <1>3, <2>1, <2>2 DEF MainRight
  <2>. QED BY <2>1, <2>2, <2>3, MainKeeps
<1>5. CASE Interrupt
  <2>1. UNCHANGED <<args, testsAborted, threads, counts, serverProc>> /\ servers' \subseteq servers
    BY <1>5 DEF Interrupt
  <2>2. main' = "interrupted" /\ exitCode' = 1 /\ \A j \in Jobs : pc[j] # "idle"
    BY <1>1, <1>5 DEF Interrupt, MainRight
  <2>3. Jobs' = Jobs /\ pc' = pc
    BY <2>1, ArgsStay DEF threads
  <2>4. MainRight'
    BY <2>2, <2>3 DEF MainRight
  <2>. QED BY <2>1, <2>2, <2>4, MainKeeps
<1>6. CASE ExitInterrupted
  <2>1. UNCHANGED <<args, testsAborted, threads, counts, serverProc>> /\ servers' \subseteq servers
    BY <1>6 DEF ExitInterrupted, process
  <2>2. main' = "exited" /\ exitCode' = 1 /\ Finished
    BY <1>1, <1>6 DEF ExitInterrupted, MainRight
  <2>3. MainRight'
    BY <1>3, <2>1, <2>2 DEF MainRight
  <2>. QED BY <2>1, <2>2, <2>3, MainKeeps
<1>7. CASE UNCHANGED vars
  <2>1. UNCHANGED <<args, testsAborted, threads, counts, serverProc>> /\ servers' \subseteq servers
    BY <1>7 DEF vars, process
  <2>2. main' = main /\ exitCode' = exitCode /\ main' \in {"starting", "joining", "interrupted", "exited"} /\ exitCode' \in {0, 1}
    BY <1>1, <1>7 DEF vars, SquishTypeOK
  <2>3. Jobs' = Jobs
    BY <2>1, ArgsStay
  <2>4. MainRight'
    BY <1>1, <1>3, <2>1, <2>2, <2>3 DEF MainRight, threads, counts
  <2>. QED BY <2>1, <2>2, <2>4, MainKeeps
<1>8. CASE \E j \in Jobs : Run(j) \/ XvfbEnds(j)
  <2>1. PICK j \in Jobs : Run(j) \/ XvfbEnds(j)
    BY <1>8
  <2>2. CASE End(j) \/ XvfbEnds(j) \/ RunAgain(j) \/ RunEnough(j) \/ Check(j) \/ StopFails(j)
    BY <2>2, GoOnActions
  <2>3. CASE Skip(j)
    BY <2>3, SkipKeeps
  <2>4. CASE Prepare(j)
    BY <2>4, PrepareKeeps
  <2>5. CASE Launch(j)
    BY <2>5, LaunchKeeps
  <2>6. CASE Stop(j)
    BY <2>6, StopKeeps
  <2>7. CASE Return(j)
    BY <2>7, ReturnKeeps
  <2>. QED BY <2>1, <2>2, <2>3, <2>4, <2>5, <2>6, <2>7 DEF Run
<1>. QED BY <1>2, <1>4, <1>5, <1>6, <1>7, <1>8 DEF Next, Exited

\* What holds of the threads, at all times.
LEMMA SquishAlways == SquishRunnerAssumption => (Spec => []SquishInv)
<1>. SUFFICES ASSUME SquishRunnerAssumption PROVE Spec => []SquishInv
  OBVIOUS
<1>1. Init => SquishInv
  BY SquishStarts
<1>2. SquishInv /\ [Next]_vars => SquishInv'
  BY SquishSteps
<1>. QED BY <1>1, <1>2, PTL DEF Spec

\* Exit code 0 says that every test asked for has succeeded or been skipped, or was
\* still to be run by a thread that died, if none was asked for twice.
THEOREM SquishSucceeds == Spec => []Successful
<1>1. ASSUME SquishInv PROVE Successful
  <2>. SUFFICES ASSUME main = "exited", exitCode = 0, Once, NEW x \in ToSet(Requested), x \notin Lost
                PROVE  x \in succeeded \/ x \in wasSkipped
    BY DEF Successful
  <2>2. Finished /\ Failures = {}
    BY <1>1 DEF SquishInv, MainRight, WasSuccessful
  <2>3. ~testsAborted
    BY <1>1, <2>2 DEF SquishInv, Aborted
  <2>4. PICK j \in Jobs : x \in Share(j)
    BY <1>1, SquishRunnerAssumption, SharesRight DEF SquishInv, SquishTypeOK
  <2>5. x \notin ToSet(todo[j])
    <3>1. CASE pc[j] = "died"
      BY <3>1 DEF Lost
    <3>2. CASE pc[j] = "ended"
      BY <1>1, <2>3, <3>2 DEF SquishInv, Behind, ToSet
    <3>. QED BY <2>2, <3>1, <3>2 DEF Finished
  <2>6. pc[j] \in {"ended", "died"}
    BY <2>2 DEF Finished
  <2>7. x \in wasSkipped \/ RunSoFar(x)
    BY <1>1, <2>4, <2>5, <2>6 DEF SquishInv, Behind
  <2>. QED BY <2>2, <2>7 DEF Failures, RunSoFar
<1>. QED BY <1>1, SquishAlways, SquishRunnerAssumption, PTL

\* When the script exits by itself no squishserver is left behind, if no test was
\* asked for twice.
THEOREM SquishServersEnd == Spec => ServersEnd
<1>1. ASSUME SquishInv, Exit, Once PROVE servers' = {}
  <2>1. servers' = servers \ ChildProcesses
    BY <1>1 DEF Exit
  <2>2. ASSUME NEW p \in servers PROVE p \in ChildProcesses
    <3>1. PICK x \in 1..Tests, j \in Jobs : p = <<x, j>>
      BY <1>1 DEF SquishInv, SquishTypeOK
    <3>2. serverProc[x] = j
      BY <1>1, <3>1 DEF SquishInv, ServersKnown
    <3>. QED BY <3>1, <3>2 DEF ChildProcesses
  <2>. QED BY <2>1, <2>2
<1>2. SquishInv => [Exit /\ Once => servers' = {}]_vars
  BY <1>1
<1>. QED BY <1>2, SquishAlways, SquishRunnerAssumption, PTL DEF Spec, ServersEnd

\* How far a thread is from the end of a run of its test.
Rank(where) ==
  CASE where = "next"                     -> 6
    [] where \in {"preparing", "waiting"} -> 5
    [] where = "looping"                  -> 4
    [] where = "checking"                 -> 3
    [] where = "running"                  -> 2
    [] where = "returning"                -> 1
    [] OTHER                              -> 0

\* What a step of a thread may be: the end of the thread or of its test, the launch of
\* a run, or a step towards the end of one.
Nears(j) ==
  \/ pc'[j] \in {"ended", "died"} /\ todo'[j] = todo[j] /\ numRuns' = numRuns
  \/ pc'[j] = "next" /\ todo[j] # <<>> /\ todo'[j] = Tail(todo[j]) /\ numRuns' = numRuns
  \/ /\ todo[j] # <<>> /\ todo'[j] = todo[j] /\ numRuns' = numRuns
     /\ Rank(pc'[j]) < Rank(pc[j])
     /\ pc'[j] = "running" => RemainingRuns(Test(j)) > 0
  \/ /\ todo[j] # <<>> /\ todo'[j] = todo[j]
     /\ pc[j] = "running" /\ pc'[j] \in {"waiting", "died"}
     /\ numRuns' = [numRuns EXCEPT ![Test(j)] = @ + 1]

\* Every step of a thread is one of these, and leaves the other threads where they are.
LEMMA StepNears ==
  ASSUME SquishInv, NEW j \in Jobs, Run(j) \/ XvfbEnds(j)
  PROVE  /\ args' = args /\ Nears(j)
         /\ \A k \in Jobs : k # j => pc'[k] = pc[k] /\ todo'[k] = todo[k]
<1>1. pc \in [Jobs -> Places] /\ todo \in [Jobs -> Seq(1..Tests)] /\ (pc[j] \in InHand => todo[j] # <<>>)
  BY DEF SquishInv, SquishTypeOK
<1>2. \A w : Goto(j, w) => pc'[j] = w /\ \A k \in Jobs : k # j => pc'[k] = pc[k]
  BY <1>1 DEF Goto
<1> DEFINE Calm == todo' = todo /\ args' = args /\ numRuns' = numRuns
           Done == /\ args' = args /\ Nears(j)
                   /\ \A k \in Jobs : k # j => pc'[k] = pc[k] /\ todo'[k] = todo[k]
<1>3. ASSUME NEW w \in {"ended", "died"}, Goto(j, w), Calm PROVE Done
  <2>1. pc'[j] = w /\ todo'[j] = todo[j] /\ \A k \in Jobs : k # j => pc'[k] = pc[k] /\ todo'[k] = todo[k]
    BY <1>2, <1>3
  <2>2. Nears(j)
    BY ONLY <1>3, <2>1, Zenon DEF Nears
  <2>. QED BY <1>3, <2>1, <2>2
<1>4. ASSUME NEW w, Goto(j, w), Calm, todo[j] # <<>>, Rank(w) < Rank(pc[j]),
              w = "running" => RemainingRuns(Test(j)) > 0
       PROVE  Done
  <2>1. pc'[j] = w /\ todo'[j] = todo[j] /\ \A k \in Jobs : k # j => pc'[k] = pc[k] /\ todo'[k] = todo[k]
    BY <1>2, <1>4
  <2>2. Rank(pc'[j]) < Rank(pc[j])
    BY ONLY <1>4, <2>1, Zenon
  <2>3. Nears(j)
    BY ONLY <1>4, <2>1, <2>2, Zenon DEF Nears
  <2>. QED BY <1>4, <2>1, <2>3
<1>5. CASE End(j)
  <2>1. Goto(j, "ended") /\ Calm /\ pc[j] = "next"
    BY <1>5 DEF End, counts
  <2>. QED BY <1>3, <2>1
<1>6. CASE Prepare(j)
  <2>1. Calm /\ pc[j] = "next" /\ todo[j] # <<>>
    BY <1>6 DEF Prepare, counts
  <2>2. PICK w \in {"preparing", "died", "looping"} : Goto(j, w)
    BY <1>6 DEF Prepare
  <2>. QED BY <1>3, <1>4, <2>1, <2>2 DEF Rank
<1>7. CASE XvfbEnds(j)
  <2>1. Goto(j, "looping") /\ Calm /\ pc[j] = "preparing"
    BY <1>7 DEF XvfbEnds, counts
  <2>. QED BY <1>1, <1>4, <2>1 DEF Rank, InHand
<1>8. CASE RunAgain(j)
  <2>1. Goto(j, "checking") /\ Calm /\ pc[j] = "looping"
    BY <1>8 DEF RunAgain, counts
  <2>. QED BY <1>1, <1>4, <2>1 DEF Rank, InHand
<1>9. CASE RunEnough(j)
  <2>1. Calm /\ pc[j] = "looping"
    BY <1>9 DEF RunEnough, counts
  <2>2. PICK w \in {"died", "returning"} : Goto(j, w)
    BY <1>9 DEF RunEnough
  <2>. QED BY <1>1, <1>3, <1>4, <2>1, <2>2 DEF Rank, InHand
<1>10. CASE Check(j)
  <2>1. Calm /\ pc[j] = "checking"
    BY <1>10 DEF Check, counts
  <2>2. CASE RemainingRuns(Test(j)) <= 0
    <3>1. Goto(j, "died")
      BY <1>10, <2>2 DEF Check
    <3>. QED BY <1>3, <2>1, <3>1
  <2>3. CASE ~(RemainingRuns(Test(j)) <= 0)
    <3>1. Goto(j, "running")
      BY <1>10, <2>3 DEF Check
    <3>2. RemainingRuns(Test(j)) > 0
      <4>1. args.maxFlakyRuns \in Nat
        BY SquishRunnerAssumption DEF SquishInv, SquishTypeOK
      <4>2. Test(j) \in 1..Tests
        BY <1>1, <2>1, SquishRunnerAssumption, PresentTest DEF SquishInv, InHand
      <4>3. numRuns[Test(j)] \in Nat
        BY <4>2 DEF SquishInv, SquishTypeOK
      <4>. QED BY <2>3, <4>1, <4>3 DEF RemainingRuns
    <3>. QED BY <1>1, <1>4, <2>1, <3>1, <3>2 DEF Rank, InHand
  <2>. QED BY <2>2, <2>3
<1>11. CASE Launch(j)
  <2>1. /\ todo' = todo /\ args' = args /\ pc[j] = "running"
        /\ numRuns' = [numRuns EXCEPT ![Test(j)] = @ + 1]
    BY <1>11 DEF Launch
  <2>2. PICK w \in {"waiting", "died"} : Goto(j, w)
    BY <1>11 DEF Launch
  <2>3. pc'[j] = w /\ \A k \in Jobs : k # j => pc'[k] = pc[k] /\ todo'[k] = todo[k]
    BY <1>2, <2>1, <2>2
  <2>4. todo[j] # <<>> /\ todo'[j] = todo[j] /\ pc'[j] \in {"waiting", "died"}
    BY <1>1, <2>1, <2>2, <2>3 DEF InHand
  <2>5. Nears(j)
    BY ONLY <2>1, <2>4, Zenon DEF Nears
  <2>. QED BY <2>1, <2>3, <2>5
<1>12. CASE Stop(j)
  <2>1. Goto(j, "looping") /\ Calm /\ pc[j] = "waiting"
    BY <1>12 DEF Stop
  <2>. QED BY <1>1, <1>4, <2>1 DEF Rank, InHand
<1>13. CASE StopFails(j)
  <2>1. Goto(j, "died") /\ Calm /\ pc[j] = "waiting"
    BY <1>13 DEF StopFails, counts
  <2>. QED BY <1>3, <2>1
<1>14. CASE Skip(j) \/ Return(j)
  <2>1. todo' = [todo EXCEPT ![j] = Tail(@)] /\ args' = args /\ numRuns' = numRuns
    BY <1>14 DEF Skip, Return, counts
  <2>2. /\ todo[j] # <<>> /\ pc'[j] = "next"
        /\ \A k \in Jobs : k # j => pc'[k] = pc[k]
    BY <1>1, <1>2, <1>14 DEF Skip, Return, InHand
  <2>3. todo'[j] = Tail(todo[j]) /\ \A k \in Jobs : k # j => todo'[k] = todo[k]
    BY <1>1, <2>1
  <2>. QED BY <2>1, <2>2, <2>3 DEF Nears
<1>. QED BY <1>5, <1>6, <1>7, <1>8, <1>9, <1>10, <1>11, <1>12, <1>13, <1>14 DEF Run

\* A thread that is about to run its test may run it once more.
RunsAreLeft ==
  Once =>
    /\ \A x \in 1..Tests : numRuns[x] <= args.maxFlakyRuns
    /\ \A j \in Jobs : pc[j] = "running" => RemainingRuns(Test(j)) > 0

\* What is left of the runs of a test is not changed by a thread that has another one.
LEMMA StepLeavesRuns ==
  ASSUME SquishInv, RunsAreLeft, Once, NEW j \in Jobs, Run(j) \/ XvfbEnds(j)
  PROVE  /\ \A x \in 1..Tests : numRuns'[x] <= args.maxFlakyRuns
         /\ \A k \in Jobs : pc'[k] = "running" => (RemainingRuns(Test(k)) > 0)'
<1>1. /\ args' = args /\ Nears(j)
      /\ \A k \in Jobs : k # j => pc'[k] = pc[k] /\ todo'[k] = todo[k]
  BY StepNears
<1>2. args.maxFlakyRuns \in Nat /\ numRuns \in [1..Tests -> Nat]
  BY SquishRunnerAssumption DEF SquishInv, SquishTypeOK
<1>3. /\ \A x \in 1..Tests : numRuns[x] <= args.maxFlakyRuns
      /\ \A k \in Jobs : pc[k] = "running" => RemainingRuns(Test(k)) > 0
  BY DEF RunsAreLeft
<1>4. ASSUME NEW k \in Jobs, todo'[k] = todo[k], numRuns'[Test(k)] = numRuns[Test(k)], RemainingRuns(Test(k)) > 0
      PROVE  (RemainingRuns(Test(k)) > 0)'
  <2>1. Test(k)' = Test(k)
    BY <1>4 DEF Test
  <2>. QED BY <1>1, <1>4, <2>1 DEF RemainingRuns
<1>5. CASE numRuns' = numRuns
  <2>1. ASSUME NEW k \in Jobs, pc'[k] = "running" PROVE (RemainingRuns(Test(k)) > 0)'
    <3>1. CASE k # j
      BY <1>1, <1>3, <1>4, <1>5, <2>1, <3>1
    <3>2. CASE k = j
      <4>1. todo'[j] = todo[j] /\ RemainingRuns(Test(j)) > 0
        BY <1>1, <2>1, <3>2 DEF Nears
      <4>. QED BY <1>4, <1>5, <3>2, <4>1
    <3>. QED BY <3>1, <3>2
  <2>. QED BY <1>3, <1>5, <2>1
<1>6. CASE /\ todo[j] # <<>> /\ todo'[j] = todo[j]
           /\ pc[j] = "running" /\ pc'[j] \in {"waiting", "died"}
           /\ numRuns' = [numRuns EXCEPT ![Test(j)] = @ + 1]
  <2>1. Test(j) \in 1..Tests /\ Test(j) \in ToSet(todo[j])
    BY <1>6, SquishRunnerAssumption, PresentTest DEF SquishInv
  <2>2. numRuns[Test(j)] + 1 <= args.maxFlakyRuns
    BY <1>2, <1>3, <1>6, <2>1 DEF RemainingRuns
  <2>3. \A x \in 1..Tests : numRuns'[x] <= args.maxFlakyRuns
    BY <1>2, <1>3, <1>6, <2>1, <2>2
  <2>4. ASSUME NEW k \in Jobs, pc'[k] = "running" PROVE (RemainingRuns(Test(k)) > 0)'
    <3>1. k # j
      BY <1>6, <2>4
    <3>2. pc[k] = "running" /\ todo'[k] = todo[k]
      BY <1>1, <2>4, <3>1
    <3>3. Test(k) \in 1..Tests /\ Test(k) \in ToSet(todo[k])
      BY <3>2, SquishRunnerAssumption, PresentTest DEF SquishInv, InHand
    <3>4. Test(k) # Test(j)
      <4>1. Test(j) \in Share(j) /\ Test(k) \in Share(k)
        BY <2>1, <3>3 DEF SquishInv, Coming
      <4>2. Share(j) \cap Share(k) = {}
        BY <3>1, SquishRunnerAssumption, SharesRight DEF SquishInv, SquishTypeOK
      <4>. QED BY ONLY <4>1, <4>2
    <3>5. numRuns'[Test(k)] = numRuns[Test(k)]
      BY <1>2, <1>6, <3>3, <3>4
    <3>. QED BY <1>3, <1>4, <3>2, <3>5
  <2>. QED BY <2>3, <2>4
<1>. QED BY <1>1, <1>5, <1>6 DEF Nears

\* The main thread starts no run.
LEMMA MainLeavesRuns ==
  ASSUME SquishInv, RunInParallel \/ Exit \/ Interrupt \/ ExitInterrupted \/ UNCHANGED vars
  PROVE  /\ args' = args /\ numRuns' = numRuns
         /\ (pc' = pc /\ todo' = todo) \/ \A j \in Jobs : pc[j] = "idle" /\ pc'[j] # "running"
<1>1. CASE Exit \/ Interrupt \/ ExitInterrupted \/ UNCHANGED vars
  BY <1>1 DEF Exit, Interrupt, ExitInterrupted, vars, threads, counts
<1>2. CASE RunInParallel
  <2>1. args' = args /\ numRuns' = numRuns /\ \A j \in Jobs : pc[j] = "idle"
    BY <1>2 DEF RunInParallel, counts, SquishInv, MainRight
  <2>2. \/ pc' = pc /\ todo' = todo
        \/ pc' = [j \in Jobs |-> IF Chunk(j) = <<>> THEN "ended" ELSE "next"]
    BY <1>2, Zenon DEF RunInParallel
  <2>3. ASSUME pc' = [j \in Jobs |-> IF Chunk(j) = <<>> THEN "ended" ELSE "next"], NEW j \in Jobs
        PROVE  pc'[j] # "running"
    <3>1. pc'[j] \in {"ended", "next"}
      BY ONLY <2>3, Zenon
    <3>. QED BY <3>1
  <2>. QED BY <2>1, <2>2, <2>3
<1>. QED BY <1>1, <1>2

\* There are runs left at all times.
LEMMA RunsAlwaysLeft == Spec => [](SquishInv /\ RunsAreLeft)
<1>1. Init => RunsAreLeft
  <2>. SUFFICES ASSUME Init PROVE RunsAreLeft
    OBVIOUS
  <2>1. args.maxFlakyRuns \in Nat
    BY SquishRunnerAssumption DEF Init
  <2>2. /\ \A x \in 1..Tests : numRuns[x] = 0
        /\ \A j \in Jobs : pc[j] = "idle"
    BY DEF Init
  <2>. QED BY <2>1, <2>2 DEF RunsAreLeft
<1>2. ASSUME SquishInv, RunsAreLeft, [Next]_vars PROVE RunsAreLeft'
  <2>1. args' = args
    <3>1. ASSUME NEW j \in Jobs, Run(j) \/ XvfbEnds(j) PROVE args' = args
      BY <1>2, <3>1, StepNears
    <3>. QED BY <1>2, <3>1, MainLeavesRuns DEF Next, Exited
  <2>2. Jobs' = Jobs /\ (Once' <=> Once)
    BY <2>1, ArgsStay
  <2>. SUFFICES ASSUME Once
                PROVE  /\ \A x \in 1..Tests : numRuns'[x] <= args.maxFlakyRuns
                       /\ \A j \in Jobs : pc'[j] = "running" => (RemainingRuns(Test(j)) > 0)'
    BY <2>1, <2>2 DEF RunsAreLeft
  <2>3. /\ \A x \in 1..Tests : numRuns[x] <= args.maxFlakyRuns
        /\ \A j \in Jobs : pc[j] = "running" => RemainingRuns(Test(j)) > 0
    BY <1>2 DEF RunsAreLeft
  <2>4. CASE RunInParallel \/ Exit \/ Interrupt \/ ExitInterrupted \/ UNCHANGED vars
    <3>1. numRuns' = numRuns
      BY <1>2, <2>4, MainLeavesRuns
    <3>2. ASSUME NEW j \in Jobs, pc'[j] = "running" PROVE (RemainingRuns(Test(j)) > 0)'
      <4>1. pc' = pc /\ todo' = todo
        BY <1>2, <2>4, <3>2, MainLeavesRuns
      <4>2. Test(j)' = Test(j)
        BY <4>1 DEF Test
      <4>. QED BY <2>1, <2>3, <3>1, <3>2, <4>1, <4>2 DEF RemainingRuns
    <3>. QED BY <2>3, <3>1, <3>2
  <2>5. ASSUME NEW j \in Jobs, Run(j) \/ XvfbEnds(j)
        PROVE  /\ \A x \in 1..Tests : numRuns'[x] <= args.maxFlakyRuns
               /\ \A k \in Jobs : pc'[k] = "running" => (RemainingRuns(Test(k)) > 0)'
    BY <1>2, <2>5, StepLeavesRuns
  <2>. QED BY <1>2, <2>4, <2>5 DEF Next, Exited
<1>3. Init => SquishInv
  BY SquishRunnerAssumption, SquishStarts
<1>4. SquishInv /\ [Next]_vars => SquishInv'
  BY SquishRunnerAssumption, SquishSteps
<1>5. SquishInv /\ RunsAreLeft /\ [Next]_vars => RunsAreLeft'
  BY <1>2
<1>. QED BY <1>1, <1>3, <1>4, <1>5, PTL DEF Spec

\* A test that was asked for once is run no more often than --maxFlakyRuns says, and not
\* again when it has succeeded.
RunsRight ==
  [][Once => \A x \in 1..Tests :
       numRuns'[x] # numRuns[x] => numRuns'[x] <= args.maxFlakyRuns /\ x \notin succeeded]_vars

\* So it is for any number of threads, however their steps are mixed.
THEOREM SquishRunsRight == Spec => RunsRight
<1>1. ASSUME SquishInv, RunsAreLeft, Next, Once, NEW x \in 1..Tests, numRuns'[x] # numRuns[x]
      PROVE  numRuns'[x] <= args.maxFlakyRuns /\ x \notin succeeded
  <2>1. PICK j \in Jobs : Run(j) \/ XvfbEnds(j)
    BY <1>1, MainLeavesRuns DEF Next, Exited
  <2>2. numRuns'[x] <= args.maxFlakyRuns
    BY <1>1, <2>1, StepLeavesRuns
  <2>3. /\ todo[j] # <<>> /\ pc[j] = "running"
        /\ numRuns' = [numRuns EXCEPT ![Test(j)] = @ + 1]
    BY <1>1, <2>1, StepNears DEF Nears
  <2>4. x = Test(j)
    BY <1>1, <2>3 DEF SquishInv, SquishTypeOK
  <2>5. x \in ToSet(todo[j])
    BY <1>1, <2>3, <2>4, SquishRunnerAssumption, PresentTest DEF SquishInv
  <2>6. x \notin succeeded
    BY <1>1, <2>3, <2>5 DEF SquishInv, Coming
  <2>. QED BY <2>2, <2>6
<1>2. SquishInv /\ RunsAreLeft /\ [Next]_vars =>
        [Once => \A x \in 1..Tests :
           numRuns'[x] # numRuns[x] => numRuns'[x] <= args.maxFlakyRuns /\ x \notin succeeded]_vars
  BY <1>1
<1>. QED BY <1>2, RunsAlwaysLeft, PTL DEF RunsRight, Spec

\* A thread ends, has a test less to do, may run its test less often, or is nearer to
\* the end of a run.
GetsOn(j) ==
  \/ pc'[j] \in {"ended", "died"}
  \/ todo[j] # <<>> /\ todo'[j] = Tail(todo[j])
  \/ /\ todo[j] # <<>> /\ todo'[j] = todo[j]
     /\ \/ numRuns[Test(j)] < args.maxFlakyRuns /\ numRuns'[Test(j)] = numRuns[Test(j)] + 1
        \/ numRuns'[Test(j)] = numRuns[Test(j)] /\ Rank(pc'[j]) < Rank(pc[j])

\* Threads that have been started come to an end, step by step.
ThreadsGetOn ==
  [][Once => \A j \in Jobs : pc[j] # "idle" /\ <<pc[j], todo[j]>>' # <<pc[j], todo[j]>> => GetsOn(j)]_vars

\* No thread goes round for ever, whatever fails: the safety part of RunEnds.
THEOREM SquishThreadsGetOn == Spec => ThreadsGetOn
<1>1. ASSUME SquishInv, RunsAreLeft, Next, Once, NEW j \in Jobs, pc[j] # "idle", ~(pc'[j] = pc[j] /\ todo'[j] = todo[j])
      PROVE  GetsOn(j)
  <2>1. Run(j) \/ XvfbEnds(j)
    <3>1. ~(RunInParallel \/ Exit \/ Interrupt \/ ExitInterrupted \/ UNCHANGED vars)
      BY <1>1, MainLeavesRuns
    <3>2. PICK k \in Jobs : Run(k) \/ XvfbEnds(k)
      BY <1>1, <3>1 DEF Next, Exited
    <3>3. k = j
      BY <1>1, <3>2, StepNears
    <3>. QED BY <3>2, <3>3
  <2>2. Nears(j)
    BY <1>1, <2>1, StepNears
  <2>3. CASE /\ todo[j] # <<>> /\ todo'[j] = todo[j]
             /\ pc[j] = "running"
             /\ numRuns' = [numRuns EXCEPT ![Test(j)] = @ + 1]
    <3>1. Test(j) \in 1..Tests
      BY <1>1, <2>3, SquishRunnerAssumption, PresentTest DEF SquishInv
    <3>2. numRuns \in [1..Tests -> Nat] /\ args.maxFlakyRuns \in Nat
      BY <1>1, SquishRunnerAssumption DEF SquishInv, SquishTypeOK
    <3>3. RemainingRuns(Test(j)) > 0
      BY <1>1, <2>3 DEF RunsAreLeft
    <3>4. numRuns[Test(j)] < args.maxFlakyRuns /\ numRuns'[Test(j)] = numRuns[Test(j)] + 1
      BY <2>3, <3>1, <3>2, <3>3 DEF RemainingRuns
    <3>. QED BY <2>3, <3>4 DEF GetsOn
  <2>. QED BY <2>2, <2>3 DEF Nears, GetsOn
<1>2. SquishInv /\ RunsAreLeft /\ [Next]_vars =>
        [Once => \A j \in Jobs :
           pc[j] # "idle" /\ <<pc[j], todo[j]>>' # <<pc[j], todo[j]>> => GetsOn(j)]_vars
  BY <1>1
<1>. QED BY <1>2, RunsAlwaysLeft, PTL DEF ThreadsGetOn, Spec

=============================================================================
