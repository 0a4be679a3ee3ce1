------------------------ MODULE MessageHandlerProofs ------------------------
(***************************************************************************)
(* Proofs that MessageHandler calls and forwards what it should, for every *)
(* number of threads, callbacks and messages.                              *)
(*                                                                         *)
(* The invariant says where a thread is while it walks the list: at the    *)
(* k-th callback of `pushed`, having called those behind it that want the  *)
(* message; what is due is there or still to come.  Callbacks pushed in    *)
(* the meantime are all behind the thread.                                 *)
(***************************************************************************)
EXTENDS MessageHandler, TLAPS

RegisterPcs == {"once", "install", "store", "load", "swap"}
LogPcs      == {"enter", "walk", "logged"}

\* One thread at most installs the handler, before anything is registered.
OnceOK ==
  /\ \A t \in Threads : pc[t] \in {"install", "store"} => oldMessageHandlerFlag = "running"
  /\ \A t, u \in Threads :
       pc[t] \in {"install", "store"} /\ pc[u] \in {"install", "store"} => t = u
  /\ \A t \in Threads : pc[t] = "install" => messageHandler = "default"
  /\ \A t \in Threads : pc[t] = "store" => replaced[t] = "default" /\ messageHandler = "ours"
  /\ oldMessageHandlerFlag = "fresh" => messageHandler = "default"
  /\ oldMessageHandlerFlag = "done" => messageHandler = "ours" /\ oldMessageHandler = "default"
  /\ \A t \in Threads : pc[t] \in {"load", "swap"} => oldMessageHandlerFlag = "done"
  /\ pushed # <<>> => oldMessageHandlerFlag = "done"

\* A callback is free, being registered by one thread, or once in the list.
NodesOK ==
  /\ \A t \in Threads : node[t] # None <=> pc[t] \in RegisterPcs
  /\ \A t \in Threads : node[t] # None => node[t] \notin free /\ node[t] \notin Range(pushed)
  /\ \A t, u \in Threads : node[t] # None /\ node[t] = node[u] => t = u
  /\ free \cap Range(pushed) = {}
  /\ IsInjective(pushed)

\* Thread t has visited the callbacks after the first k.
WalkedTo(t, k) ==
  /\ it[t] = IF k = 0 THEN None ELSE pushed[k]
  /\ \A c \in due[t] : Wants(c, message[t]) =>
       c \in Range(ran[t]) \/ \E j \in 1..k : c = pushed[j]
  /\ \A c \in Range(ran[t]) : \E j \in k + 1..Len(pushed) : c = pushed[j]

\* What thread t has done for its message.
LoggerOK(t) ==
  /\ pc[t] \in LogPcs => message[t] \in Messages
  /\ pc[t] \notin {"walk", "logged"} => ran[t] = <<>>
  /\ pc[t] \notin LogPcs => due[t] = {}
  /\ due[t] \subseteq Range(pushed)
  /\ pc[t] = "walk" => \E k \in 0..Len(pushed) : WalkedTo(t, k)
  /\ IsInjective(ran[t])
  /\ \A c \in Range(ran[t]) : Wants(c, message[t])
  /\ pc[t] = "logged" =>
       /\ \A c \in due[t] : Wants(c, message[t]) => c \in Range(ran[t])
       /\ due[t] # {} => forwarded[t]

Inv == TypeOK /\ OnceOK /\ NodesOK /\ Linked /\ \A t \in Threads : LoggerOK(t)
-----------------------------------------------------------------------------
\* What Append does to sequences.
LEMMA AppendFacts ==
  ASSUME NEW S, NEW s \in Seq(S), NEW e \in S
  PROVE  /\ Append(s, e) \in Seq(S)
         /\ Len(Append(s, e)) = Len(s) + 1
         /\ Append(s, e) # <<>>
         /\ Len(s) \in Nat
         /\ DOMAIN s = 1..Len(s)
         /\ DOMAIN Append(s, e) = 1..Len(s) + 1
         /\ \A i \in 1..Len(s) : Append(s, e)[i] = s[i]
         /\ Append(s, e)[Len(s) + 1] = e
         /\ Range(Append(s, e)) = Range(s) \cup {e}
<1>1. /\ Append(s, e) \in Seq(S)
      /\ Len(Append(s, e)) = Len(s) + 1
      /\ Append(s, e) # <<>>
      /\ Len(s) \in Nat
      /\ DOMAIN s = 1..Len(s)
      /\ DOMAIN Append(s, e) = 1..Len(s) + 1
      /\ \A i \in 1..Len(s) : Append(s, e)[i] = s[i]
      /\ Append(s, e)[Len(s) + 1] = e
  OBVIOUS
<1>2. Range(Append(s, e)) \subseteq Range(s) \cup {e}
  BY <1>1 DEF Range
<1>3. Range(s) \subseteq Range(Append(s, e))
  <2>1. \A i \in DOMAIN s : i \in DOMAIN Append(s, e) /\ Append(s, e)[i] = s[i]
    BY <1>1
  <2> QED BY <2>1 DEF Range
<1>4. e \in Range(Append(s, e))
  BY <1>1 DEF Range
<1> QED BY <1>1, <1>2, <1>3, <1>4

\* A callback that is not in the list yet keeps it without duplicates.
LEMMA AppendInjective ==
  ASSUME NEW S, NEW s \in Seq(S), NEW e \in S, IsInjective(s), e \notin Range(s)
  PROVE  IsInjective(Append(s, e))
<1>1. SUFFICES ASSUME NEW a \in DOMAIN Append(s, e), NEW b \in DOMAIN Append(s, e),
                      Append(s, e)[a] = Append(s, e)[b]
               PROVE  a = b
  BY DEF IsInjective
<1>2. \A i \in 1..Len(s) : s[i] \in Range(s)
  BY AppendFacts DEF Range
<1>3. a \in 1..Len(s) \/ a = Len(s) + 1
  BY AppendFacts
<1>4. b \in 1..Len(s) \/ b = Len(s) + 1
  BY AppendFacts
<1>5. CASE a \in 1..Len(s) /\ b \in 1..Len(s)
  BY <1>1, <1>5, AppendFacts DEF IsInjective
<1>6. CASE a \in 1..Len(s) /\ b = Len(s) + 1
  BY <1>1, <1>2, <1>6, AppendFacts
<1>7. CASE a = Len(s) + 1 /\ b \in 1..Len(s)
  BY <1>1, <1>2, <1>7, AppendFacts
<1> QED BY <1>3, <1>4, <1>5, <1>6, <1>7

\* Initially nothing is registered and nobody logs.
LEMMA InvInit == Init => Inv
<1> SUFFICES ASSUME Init PROVE Inv
  OBVIOUS
<1>1. TypeOK
  BY MessageHandlerAssumption DEF Init, TypeOK, PcOK
<1>2. OnceOK
  BY DEF Init, OnceOK
<1>3. NodesOK
  BY DEF Init, NodesOK, RegisterPcs, Range, IsInjective
<1>4. Linked
  BY DEF Init, Linked
<1>5. ASSUME NEW t \in Threads PROVE LoggerOK(t)
  BY DEF Init, LoggerOK, LogPcs, Range, IsInjective
<1> QED BY <1>1, <1>2, <1>3, <1>4, <1>5 DEF Inv

\* A thread's message does not mind what other threads do, not even when they
\* make the list longer.
LEMMA LoggerUntouched ==
  ASSUME TypeOK, NEW u \in Threads, LoggerOK(u),
         UNCHANGED <<message[u], it[u], ran[u], due[u], forwarded[u]>>,
         pc'[u] = pc[u] \/ (pc[u] \notin LogPcs /\ pc'[u] \notin LogPcs),
         pushed' = pushed \/ \E c \in Callbacks : pushed' = Append(pushed, c)
  PROVE  LoggerOK(u)'
<1>1. CASE pushed' = pushed
  <2>1. \A k : WalkedTo(u, k)' <=> WalkedTo(u, k)
    BY <1>1 DEF WalkedTo
  <2> QED BY <1>1, <2>1 DEF LoggerOK, LogPcs
<1>2. ASSUME NEW c \in Callbacks, pushed' = Append(pushed, c) PROVE LoggerOK(u)'
  <2>0. pushed \in Seq(Callbacks)
    BY DEF TypeOK
  <2>1. Range(pushed)' = Range(pushed) \cup {c} /\ Len(pushed') = Len(pushed) + 1 /\ Len(pushed) \in Nat
    <3>1. /\ Range(Append(pushed, c)) = Range(pushed) \cup {c}
          /\ Len(Append(pushed, c)) = Len(pushed) + 1 /\ Len(pushed) \in Nat
      BY <2>0, AppendFacts
    <3>2. Range(pushed)' = Range(Append(pushed, c))
      BY <1>2 DEF Range
    <3> QED BY <1>2, <3>1, <3>2
  <2>2. \A i \in 1..Len(pushed) : pushed'[i] = pushed[i]
    BY <1>2, <2>0, AppendFacts
  <2>3. ASSUME NEW k \in 0..Len(pushed), WalkedTo(u, k) PROVE WalkedTo(u, k)'
    <3>1. k # 0 => pushed'[k] = pushed[k]
      BY <2>1, <2>2
    <3>2. it'[u] = IF k = 0 THEN None ELSE pushed'[k]
      BY <2>3, <3>1 DEF WalkedTo
    <3>3. ASSUME NEW d \in due[u], Wants(d, message[u])
          PROVE  d \in Range(ran[u]) \/ \E j \in 1..k : d = pushed'[j]
      <4>1. \A j \in 1..k : pushed'[j] = pushed[j]
        BY <2>1, <2>2
      <4> QED BY <2>3, <3>3, <4>1 DEF WalkedTo
    <3>4. ASSUME NEW d \in Range(ran[u]) PROVE \E j \in k + 1..Len(pushed') : d = pushed'[j]
      <4>1. PICK j \in k + 1..Len(pushed) : d = pushed[j]
        BY <2>3 DEF WalkedTo
      <4>2. j \in 1..Len(pushed) /\ j \in k + 1..Len(pushed')
        BY <2>1
      <4> QED BY <2>2, <4>1, <4>2
    <3> QED BY <3>2, <3>3, <3>4 DEF WalkedTo
  <2>4. pc[u] = "walk" => \E k \in 0..Len(pushed') : WalkedTo(u, k)'
    <3>1. ASSUME pc[u] = "walk" PROVE \E k \in 0..Len(pushed') : WalkedTo(u, k)'
      <4>1. PICK k \in 0..Len(pushed) : WalkedTo(u, k)
        BY <3>1 DEF LoggerOK
      <4>2. k \in 0..Len(pushed')
        BY <2>1
      <4> QED BY <2>3, <4>1, <4>2
    <3> QED BY <3>1
  <2>5. pc'[u] = "walk" => pc[u] = "walk"
    BY DEF LogPcs
  <2> QED BY <2>1, <2>4, <2>5 DEF LoggerOK, LogPcs
<1> QED BY <1>1, <1>2

\* Taking a callback to register.
LEMMA RegisterKeeps ==
  ASSUME Inv, NEW t \in Threads, Register(t)
  PROVE  Inv'
<1>0. TypeOK /\ OnceOK /\ NodesOK /\ Linked /\ \A u \in Threads : LoggerOK(u)
  BY DEF Inv
<1>1. TypeOK'
  BY <1>0, MessageHandlerAssumption DEF Register, Goto, once, list, logging, TypeOK, PcOK
<1>2. OnceOK'
  BY <1>0 DEF Register, Goto, once, list, logging, TypeOK, PcOK, OnceOK
<1>3. NodesOK'
  BY <1>0, MessageHandlerAssumption DEF Register, Goto, once, list, logging, TypeOK, PcOK, NodesOK, RegisterPcs
<1>4. Linked'
  BY <1>0 DEF Register, Goto, once, list, logging, TypeOK, PcOK, Linked
<1>5. ASSUME NEW u \in Threads PROVE LoggerOK(u)'
  <2>1. LoggerOK(u)
    BY <1>0
  <2>2. UNCHANGED <<message[u], it[u], ran[u], due[u], forwarded[u]>>
    BY DEF Register, Goto, once, list, logging
  <2>3. pc'[u] = pc[u] \/ (pc[u] \notin LogPcs /\ pc'[u] \notin LogPcs)
    BY <1>0 DEF Register, Goto, once, list, logging, TypeOK, PcOK, LogPcs
  <2>4. pushed' = pushed \/ \E c \in Callbacks : pushed' = Append(pushed, c)
    BY <1>0 DEF Register, Goto, once, list, logging
  <2> QED BY <1>0, <2>1, <2>2, <2>3, <2>4, LoggerUntouched
<1> QED BY <1>1, <1>2, <1>3, <1>4, <1>5 DEF Inv

\* Becoming the thread that installs the handler, or finding it installed.
LEMMA CallOnceKeeps ==
  ASSUME Inv, NEW t \in Threads, CallOnce(t)
  PROVE  Inv'
<1>0. TypeOK /\ OnceOK /\ NodesOK /\ Linked /\ \A u \in Threads : LoggerOK(u)
  BY DEF Inv
<1>1. TypeOK'
  BY <1>0, MessageHandlerAssumption DEF CallOnce, Goto, once, list, logging, TypeOK, PcOK
<1>2. OnceOK'
  BY <1>0 DEF CallOnce, Goto, once, list, logging, TypeOK, PcOK, OnceOK
<1>3. NodesOK'
  BY <1>0, MessageHandlerAssumption DEF CallOnce, Goto, once, list, logging, TypeOK, PcOK, NodesOK, RegisterPcs
<1>4. Linked'
  BY <1>0 DEF CallOnce, Goto, once, list, logging, TypeOK, PcOK, Linked
<1>5. ASSUME NEW u \in Threads PROVE LoggerOK(u)'
  <2>1. LoggerOK(u)
    BY <1>0
  <2>2. UNCHANGED <<message[u], it[u], ran[u], due[u], forwarded[u]>>
    BY DEF CallOnce, Goto, once, list, logging
  <2>3. pc'[u] = pc[u] \/ (pc[u] \notin LogPcs /\ pc'[u] \notin LogPcs)
    BY <1>0 DEF CallOnce, Goto, once, list, logging, TypeOK, PcOK, LogPcs
  <2>4. pushed' = pushed \/ \E c \in Callbacks : pushed' = Append(pushed, c)
    BY <1>0 DEF CallOnce, Goto, once, list, logging
  <2> QED BY <1>0, <2>1, <2>2, <2>3, <2>4, LoggerUntouched
<1> QED BY <1>1, <1>2, <1>3, <1>4, <1>5 DEF Inv

\* Installing the handler.
LEMMA InstallKeeps ==
  ASSUME Inv, NEW t \in Threads, Install(t)
  PROVE  Inv'
<1>0. TypeOK /\ OnceOK /\ NodesOK /\ Linked /\ \A u \in Threads : LoggerOK(u)
  BY DEF Inv
<1>1. TypeOK'
  BY <1>0, MessageHandlerAssumption DEF OnceOK, Install, Goto, once, list, logging, TypeOK, PcOK
<1>2. OnceOK'
  BY <1>0 DEF Install, Goto, once, list, logging, TypeOK, PcOK, OnceOK
<1>3. NodesOK'
  BY <1>0, MessageHandlerAssumption DEF Install, Goto, once, list, logging, TypeOK, PcOK, NodesOK, RegisterPcs
<1>4. Linked'
  BY <1>0 DEF Install, Goto, once, list, logging, TypeOK, PcOK, Linked
<1>5. ASSUME NEW u \in Threads PROVE LoggerOK(u)'
  <2>1. LoggerOK(u)
    BY <1>0
  <2>2. UNCHANGED <<message[u], it[u], ran[u], due[u], forwarded[u]>>
    BY DEF Install, Goto, once, list, logging
  <2>3. pc'[u] = pc[u] \/ (pc[u] \notin LogPcs /\ pc'[u] \notin LogPcs)
    BY <1>0 DEF Install, Goto, once, list, logging, TypeOK, PcOK, LogPcs
  <2>4. pushed' = pushed \/ \E c \in Callbacks : pushed' = Append(pushed, c)
    BY <1>0 DEF Install, Goto, once, list, logging
  <2> QED BY <1>0, <2>1, <2>2, <2>3, <2>4, LoggerUntouched
<1> QED BY <1>1, <1>2, <1>3, <1>4, <1>5 DEF Inv

\* Storing the old handler.
LEMMA StoreKeeps ==
  ASSUME Inv, NEW t \in Threads, Store(t)
  PROVE  Inv'
<1>0. TypeOK /\ OnceOK /\ NodesOK /\ Linked /\ \A u \in Threads : LoggerOK(u)
  BY DEF Inv
<1>1. TypeOK'
  BY <1>0, MessageHandlerAssumption DEF Store, Goto, once, list, logging, TypeOK, PcOK
<1>2. OnceOK'
  BY <1>0 DEF Store, Goto, once, list, logging, TypeOK, PcOK, OnceOK
<1>3. NodesOK'
  BY <1>0, MessageHandlerAssumption DEF Store, Goto, once, list, logging, TypeOK, PcOK, NodesOK, RegisterPcs
<1>4. Linked'
  BY <1>0 DEF Store, Goto, once, list, logging, TypeOK, PcOK, Linked
<1>5. ASSUME NEW u \in Threads PROVE LoggerOK(u)'
  <2>1. LoggerOK(u)
    BY <1>0
  <2>2. UNCHANGED <<message[u], it[u], ran[u], due[u], forwarded[u]>>
    BY DEF Store, Goto, once, list, logging
  <2>3. pc'[u] = pc[u] \/ (pc[u] \notin LogPcs /\ pc'[u] \notin LogPcs)
    BY <1>0 DEF Store, Goto, once, list, logging, TypeOK, PcOK, LogPcs
  <2>4. pushed' = pushed \/ \E c \in Callbacks : pushed' = Append(pushed, c)
    BY <1>0 DEF Store, Goto, once, list, logging
  <2> QED BY <1>0, <2>1, <2>2, <2>3, <2>4, LoggerUntouched
<1> QED BY <1>1, <1>2, <1>3, <1>4, <1>5 DEF Inv

\* Linking the new callback to the front of the list.
LEMMA LoadKeeps ==
  ASSUME Inv, NEW t \in Threads, Load(t)
  PROVE  Inv'
<1>0. TypeOK /\ OnceOK /\ NodesOK /\ Linked /\ \A u \in Threads : LoggerOK(u)
  BY DEF Inv
<1>1. TypeOK'
  BY <1>0, MessageHandlerAssumption DEF Load, Goto, once, list, logging, TypeOK, PcOK
<1>2. OnceOK'
  BY <1>0 DEF Load, Goto, once, list, logging, TypeOK, PcOK, OnceOK
<1>3. NodesOK'
  BY <1>0, MessageHandlerAssumption DEF Load, Goto, once, list, logging, TypeOK, PcOK, NodesOK, RegisterPcs
<1>4. Linked'
  <2>1. node[t] # None /\ node[t] \in Callbacks
    BY <1>0 DEF Load, Goto, NodesOK, RegisterPcs, TypeOK
  <2>2. \A i \in DOMAIN pushed : pushed[i] # node[t] /\ pushed[i] \in Callbacks
    BY <1>0, <2>1 DEF NodesOK, Range, TypeOK
  <2>3. \A i \in DOMAIN pushed : next'[pushed[i]] = next[pushed[i]]
    BY <1>0, <2>2 DEF Load, TypeOK
  <2> QED BY <1>0, <2>3 DEF Load, Linked
<1>5. ASSUME NEW u \in Threads PROVE LoggerOK(u)'
  <2>1. LoggerOK(u)
    BY <1>0
  <2>2. UNCHANGED <<message[u], it[u], ran[u], due[u], forwarded[u]>>
    BY DEF Load, Goto, once, list, logging
  <2>3. pc'[u] = pc[u] \/ (pc[u] \notin LogPcs /\ pc'[u] \notin LogPcs)
    BY <1>0 DEF Load, Goto, once, list, logging, TypeOK, PcOK, LogPcs
  <2>4. pushed' = pushed \/ \E c \in Callbacks : pushed' = Append(pushed, c)
    BY <1>0 DEF Load, Goto, once, list, logging
  <2> QED BY <1>0, <2>1, <2>2, <2>3, <2>4, LoggerUntouched
<1> QED BY <1>1, <1>2, <1>3, <1>4, <1>5 DEF Inv

\* Linking it again.
LEMMA SwapFailsKeeps ==
  ASSUME Inv, NEW t \in Threads, SwapFails(t)
  PROVE  Inv'
<1>0. TypeOK /\ OnceOK /\ NodesOK /\ Linked /\ \A u \in Threads : LoggerOK(u)
  BY DEF Inv
<1>1. TypeOK'
  BY <1>0, MessageHandlerAssumption DEF SwapFails, Goto, once, list, logging, TypeOK, PcOK
<1>2. OnceOK'
  BY <1>0 DEF SwapFails, Goto, once, list, logging, TypeOK, PcOK, OnceOK
<1>3. NodesOK'
  BY <1>0, MessageHandlerAssumption DEF SwapFails, Goto, once, list, logging, TypeOK, PcOK, NodesOK, RegisterPcs
<1>4. Linked'
  <2>1. node[t] # None /\ node[t] \in Callbacks
    BY <1>0 DEF SwapFails, Goto, NodesOK, RegisterPcs, TypeOK
  <2>2. \A i \in DOMAIN pushed : pushed[i] # node[t] /\ pushed[i] \in Callbacks
    BY <1>0, <2>1 DEF NodesOK, Range, TypeOK
  <2>3. \A i \in DOMAIN pushed : next'[pushed[i]] = next[pushed[i]]
    BY <1>0, <2>2 DEF SwapFails, TypeOK
  <2> QED BY <1>0, <2>3 DEF SwapFails, Linked
<1>5. ASSUME NEW u \in Threads PROVE LoggerOK(u)'
  <2>1. LoggerOK(u)
    BY <1>0
  <2>2. UNCHANGED <<message[u], it[u], ran[u], due[u], forwarded[u]>>
    BY DEF SwapFails, Goto, once, list, logging
  <2>3. pc'[u] = pc[u] \/ (pc[u] \notin LogPcs /\ pc'[u] \notin LogPcs)
    BY <1>0 DEF SwapFails, Goto, once, list, logging, TypeOK, PcOK, LogPcs
  <2>4. pushed' = pushed \/ \E c \in Callbacks : pushed' = Append(pushed, c)
    BY <1>0 DEF SwapFails, Goto, once, list, logging
  <2> QED BY <1>0, <2>1, <2>2, <2>3, <2>4, LoggerUntouched
<1> QED BY <1>1, <1>2, <1>3, <1>4, <1>5 DEF Inv

\* Pushing it.
LEMMA SwapKeeps ==
  ASSUME Inv, NEW t \in Threads, Swap(t)
  PROVE  Inv'
<1>0. TypeOK /\ OnceOK /\ NodesOK /\ Linked /\ \A u \in Threads : LoggerOK(u)
  BY DEF Inv
<1>a. node[t] # None /\ node[t] \in Callbacks /\ node[t] \notin free /\ node[t] \notin Range(pushed)
  BY <1>0 DEF Swap, Goto, NodesOK, RegisterPcs, TypeOK
<1>b. /\ pushed \in Seq(Callbacks) /\ pushed' = Append(pushed, node[t])
      /\ pushed' \in Seq(Callbacks) /\ pushed' # <<>>
      /\ Len(pushed') = Len(pushed) + 1 /\ Len(pushed) \in Nat
      /\ DOMAIN pushed = 1..Len(pushed) /\ DOMAIN pushed' = 1..Len(pushed) + 1
      /\ \A i \in 1..Len(pushed) : pushed'[i] = pushed[i]
      /\ pushed'[Len(pushed) + 1] = node[t]
      /\ Range(Append(pushed, node[t])) = Range(pushed) \cup {node[t]}
  BY <1>0, <1>a, AppendFacts DEF Swap, TypeOK
<1>c. Range(pushed)' = Range(pushed) \cup {node[t]}
  BY <1>b DEF Range
<1>d. /\ pc' = [pc EXCEPT ![t] = "elsewhere"] /\ node' = [node EXCEPT ![t] = None]
      /\ pc[t] = "swap" /\ callbacks = next[node[t]] /\ callbacks' = node[t]
      /\ UNCHANGED <<messageHandler, oldMessageHandler, oldMessageHandlerFlag, replaced, next, free, message, it, ran, due, forwarded>>
  BY DEF Swap, Goto, once, logging
<1>1. TypeOK'
  BY <1>0, <1>a, <1>b, <1>d DEF TypeOK, PcOK
<1>2. OnceOK'
  BY <1>0, <1>b, <1>d DEF TypeOK, PcOK, OnceOK
<1>3. NodesOK'
  <2>1. \A u \in Threads : u # t => node'[u] = node[u] /\ pc'[u] = pc[u]
    BY <1>0, <1>d DEF TypeOK, PcOK
  <2>2. node'[t] = None /\ pc'[t] = "elsewhere"
    BY <1>0, <1>d DEF TypeOK, PcOK
  <2>3. \A u \in Threads : u # t => node[u] # node[t]
    BY <1>0, <1>a DEF NodesOK
  <2>4. IsInjective(Append(pushed, node[t]))
    BY <1>0, <1>a, <1>b, AppendInjective DEF NodesOK
  <2>5. IsInjective(pushed)'
    BY <1>b, <2>4 DEF IsInjective
  <2>6. \A u \in Threads : node'[u] # None <=> pc'[u] \in RegisterPcs
    BY <1>0, <2>1, <2>2 DEF NodesOK, RegisterPcs
  <2>7. \A u \in Threads : node'[u] # None => node'[u] \notin free' /\ node'[u] \notin Range(pushed)'
    BY <1>0, <1>c, <1>d, <2>1, <2>2, <2>3 DEF NodesOK
  <2>8. \A u, v \in Threads : node'[u] # None /\ node'[u] = node'[v] => u = v
    BY <1>0, <2>1, <2>2 DEF NodesOK
  <2>9. free' \cap Range(pushed)' = {}
    BY <1>0, <1>a, <1>c, <1>d DEF NodesOK
  <2> QED BY <2>5, <2>6, <2>7, <2>8, <2>9 DEF NodesOK
<1>4. Linked'
  <2>1. callbacks' = pushed'[Len(pushed')]
    BY <1>b, <1>d
  <2>2. ASSUME NEW i \in 1..Len(pushed) + 1
        PROVE  next'[pushed'[i]] = IF i = 1 THEN None ELSE pushed'[i - 1]
    <3>1. CASE i \in 1..Len(pushed)
      <4>1. pushed'[i] = pushed[i] /\ (i # 1 => pushed'[i - 1] = pushed[i - 1])
        BY <1>b, <3>1
      <4>2. next[pushed[i]] = IF i = 1 THEN None ELSE pushed[i - 1]
        BY <1>0, <1>b, <3>1 DEF Linked
      <4> QED BY <1>d, <4>1, <4>2
    <3>2. CASE i = Len(pushed) + 1
      <4>1. next'[pushed'[i]] = callbacks
        BY <1>b, <1>d, <3>2
      <4>2. CASE pushed = <<>>
        <5>1. i = 1 /\ callbacks = None
          BY <1>0, <3>2, <4>2 DEF Linked
        <5> QED BY <4>1, <5>1
      <4>3. CASE pushed # <<>>
        <5>1. Len(pushed) \in 1..Len(pushed)
          BY <1>b, <4>3
        <5>2. i # 1 /\ i - 1 = Len(pushed) /\ pushed'[Len(pushed)] = pushed[Len(pushed)]
          BY <1>b, <3>2, <5>1
        <5>3. callbacks = pushed[Len(pushed)]
          BY <1>0, <4>3 DEF Linked
        <5> QED BY <4>1, <5>2, <5>3
      <4> QED BY <4>2, <4>3
    <3> QED BY <1>b, <3>1, <3>2
  <2> QED BY <1>b, <2>1, <2>2 DEF Linked
<1>5. ASSUME NEW u \in Threads PROVE LoggerOK(u)'
  <2>1. LoggerOK(u)
    BY <1>0
  <2>2. UNCHANGED <<message[u], it[u], ran[u], due[u], forwarded[u]>>
    BY DEF Swap, Goto, once, list, logging
  <2>3. pc'[u] = pc[u] \/ (pc[u] \notin LogPcs /\ pc'[u] \notin LogPcs)
    BY <1>0 DEF Swap, Goto, once, list, logging, TypeOK, PcOK, LogPcs
  <2>4. pushed' = pushed \/ \E c \in Callbacks : pushed' = Append(pushed, c)
    BY <1>a, <1>b
  <2> QED BY <1>0, <2>1, <2>2, <2>3, <2>4, LoggerUntouched
<1> QED BY <1>1, <1>2, <1>3, <1>4, <1>5 DEF Inv

\* Logging a message.
LEMMA LogKeeps ==
  ASSUME Inv, NEW t \in Threads, Log(t)
  PROVE  Inv'
<1>0. TypeOK /\ OnceOK /\ NodesOK /\ Linked /\ \A u \in Threads : LoggerOK(u)
  BY DEF Inv
<1>a. Range(pushed) \subseteq Callbacks
  BY <1>0 DEF TypeOK, Range
<1>1. TypeOK'
  <2>1. message' \in [Threads -> Messages \cup {None}]
    BY <1>0 DEF Log, TypeOK
  <2>2. due' \in [Threads -> SUBSET Callbacks]
    BY <1>0, <1>a DEF Log, TypeOK
  <2>3. forwarded' \in [Threads -> BOOLEAN]
    <3>1. CASE UNCHANGED forwarded
      BY <1>0, <3>1 DEF TypeOK
    <3>2. CASE forwarded' = [forwarded EXCEPT ![t] = TRUE]
      BY <1>0, <3>2, Zenon DEF TypeOK
    <3> QED BY <3>1, <3>2 DEF Log
  <2>4. PcOK'
    BY <1>0 DEF Log, Goto, TypeOK, PcOK
  <2>5. UNCHANGED <<once, list, free, node, it, ran>>
    BY DEF Log
  <2> QED BY <1>0, <2>1, <2>2, <2>3, <2>4, <2>5 DEF once, list, TypeOK
<1>b. /\ \A u \in Threads : pc'[u] = pc[u] \/ {pc[u], pc'[u]} \subseteq {"elsewhere", "enter", "logged"}
      /\ UNCHANGED <<oldMessageHandlerFlag, messageHandler, oldMessageHandler, replaced, node, free, pushed>>
  BY <1>0 DEF Log, Goto, once, list, TypeOK, PcOK
<1>2. OnceOK'
  BY <1>0, <1>b DEF OnceOK
<1>3. NodesOK'
  BY <1>0, <1>b DEF NodesOK, RegisterPcs
<1>4. Linked'
  BY <1>0 DEF Log, Goto, once, list, logging, TypeOK, PcOK, Linked
<1>5. ASSUME NEW u \in Threads PROVE LoggerOK(u)'
  <2>1. CASE u # t
    <3>1. LoggerOK(u)
      BY <1>0
    <3>2. UNCHANGED <<message[u], it[u], ran[u], due[u], forwarded[u]>>
      BY <1>0, <2>1 DEF Log, Goto, once, list, logging, TypeOK
    <3>3. pc'[u] = pc[u]
      BY <1>0, <2>1 DEF Log, Goto, once, list, logging, TypeOK, PcOK
    <3>4. pushed' = pushed
      BY DEF Log, Goto, once, list, logging
    <3> QED BY <1>0, <3>1, <3>2, <3>3, <3>4, LoggerUntouched
  <2>2. LoggerOK(t)'
    <3>1. /\ pc[t] = "elsewhere" /\ ran'[t] = ran[t] /\ ran[t] = <<>>
          /\ message'[t] \in Messages /\ due'[t] = Range(pushed) /\ pushed' = pushed
      BY <1>0 DEF Log, Goto, list, TypeOK, PcOK, LoggerOK, LogPcs
    <3>2. IsInjective(ran[t])' /\ Range(ran[t])' = {}
      BY <3>1 DEF IsInjective, Range
    <3>3. CASE messageHandler = "ours" /\ pc'[t] = "enter"
      BY <3>1, <3>2, <3>3 DEF LoggerOK, LogPcs, Range
    <3>4. CASE messageHandler = "default" /\ pc'[t] = "logged" /\ forwarded'[t] = TRUE
      <4>1. pushed = <<>>
        BY <1>0, <3>4 DEF OnceOK
      <4>2. due'[t] = {}
        BY <3>1, <4>1 DEF Range
      <4> QED BY <3>1, <3>2, <3>4, <4>2 DEF LoggerOK, LogPcs
    <3> QED BY <1>0, <3>3, <3>4 DEF Log, Goto, TypeOK, PcOK
  <2> QED BY <2>1, <2>2
<1> QED BY <1>1, <1>2, <1>3, <1>4, <1>5 DEF Inv

\* Beginning the walk.
LEMMA EnterKeeps ==
  ASSUME Inv, NEW t \in Threads, Enter(t)
  PROVE  Inv'
<1>0. TypeOK /\ OnceOK /\ NodesOK /\ Linked /\ \A u \in Threads : LoggerOK(u)
  BY DEF Inv
<1>1. TypeOK'
  BY <1>0, MessageHandlerAssumption DEF Enter, Goto, once, list, logging, TypeOK, PcOK
<1>2. OnceOK'
  BY <1>0 DEF Enter, Goto, once, list, logging, TypeOK, PcOK, OnceOK
<1>3. NodesOK'
  BY <1>0, MessageHandlerAssumption DEF Enter, Goto, once, list, logging, TypeOK, PcOK, NodesOK, RegisterPcs
<1>4. Linked'
  BY <1>0 DEF Enter, Goto, once, list, logging, TypeOK, PcOK, Linked
<1>5. ASSUME NEW u \in Threads PROVE LoggerOK(u)'
  <2>1. CASE u # t
    <3>1. LoggerOK(u)
      BY <1>0
    <3>2. UNCHANGED <<message[u], it[u], ran[u], due[u], forwarded[u]>>
      BY <1>0, <2>1 DEF Enter, Goto, once, list, logging, TypeOK
    <3>3. pc'[u] = pc[u]
      BY <1>0, <2>1 DEF Enter, Goto, once, list, logging, TypeOK, PcOK
    <3>4. pushed' = pushed
      BY DEF Enter, Goto, once, list, logging
    <3> QED BY <1>0, <3>1, <3>2, <3>3, <3>4, LoggerUntouched
  <2>2. LoggerOK(t)'
    <3>1. /\ pc[t] = "enter" /\ pc'[t] = "walk" /\ it'[t] = callbacks
          /\ UNCHANGED <<message, ran, due, forwarded, pushed>>
      BY <1>0 DEF Enter, Goto, list, TypeOK, PcOK
    <3>2. ran[t] = <<>> /\ Range(ran[t]) = {} /\ LoggerOK(t)
      BY <1>0, <3>1 DEF LoggerOK, Range
    <3>3. Len(pushed) \in Nat /\ Len(pushed) \in 0..Len(pushed) /\ (Len(pushed) = 0 <=> pushed = <<>>)
      BY <1>0 DEF TypeOK
    <3>4. it'[t] = IF Len(pushed) = 0 THEN None ELSE pushed[Len(pushed)]
      BY <1>0, <3>1, <3>3 DEF Linked
    <3>5. \A c \in due[t] : \E j \in 1..Len(pushed) : c = pushed[j]
      BY <1>0, <3>2 DEF LoggerOK, Range, TypeOK
    <3>6. WalkedTo(t, Len(pushed))'
      BY <3>1, <3>2, <3>4, <3>5 DEF WalkedTo, Range
    <3>7. \E k \in 0..Len(pushed)' : WalkedTo(t, k)'
      BY <3>1, <3>3, <3>6
    <3>8. Range(ran[t])' = Range(ran[t]) /\ IsInjective(ran[t])' /\ Range(pushed)' = Range(pushed)
      BY <3>1, <3>2 DEF Range, IsInjective, LoggerOK
    <3> QED BY <3>1, <3>2, <3>7, <3>8 DEF LoggerOK, LogPcs
  <2> QED BY <2>1, <2>2
<1> QED BY <1>1, <1>2, <1>3, <1>4, <1>5 DEF Inv

\* Going on to the next callback.
LEMMA VisitKeeps ==
  ASSUME Inv, NEW t \in Threads, Visit(t)
  PROVE  Inv'
<1>0. TypeOK /\ OnceOK /\ NodesOK /\ Linked /\ \A u \in Threads : LoggerOK(u)
  BY DEF Inv
<1>1. TypeOK'
  BY <1>0, MessageHandlerAssumption DEF Visit, Goto, once, list, logging, TypeOK, PcOK
<1>2. OnceOK'
  BY <1>0 DEF Visit, Goto, once, list, logging, TypeOK, PcOK, OnceOK
<1>3. NodesOK'
  BY <1>0, MessageHandlerAssumption DEF Visit, Goto, once, list, logging, TypeOK, PcOK, NodesOK, RegisterPcs
<1>4. Linked'
  BY <1>0 DEF Visit, Goto, once, list, logging, TypeOK, PcOK, Linked
<1>5. ASSUME NEW u \in Threads PROVE LoggerOK(u)'
  <2>1. CASE u # t
    <3>1. LoggerOK(u)
      BY <1>0
    <3>2. UNCHANGED <<message[u], it[u], ran[u], due[u], forwarded[u]>>
      BY <1>0, <2>1 DEF Visit, Goto, once, list, logging, TypeOK
    <3>3. pc'[u] = pc[u]
      BY <1>0, <2>1 DEF Visit, Goto, once, list, logging, TypeOK, PcOK
    <3>4. pushed' = pushed
      BY DEF Visit, Goto, once, list, logging
    <3> QED BY <1>0, <3>1, <3>2, <3>3, <3>4, LoggerUntouched
  <2>2. LoggerOK(t)'
    <3>1. /\ pc[t] = "walk" /\ it[t] # None /\ it'[t] = next[it[t]]
          /\ UNCHANGED <<pc, message, due, forwarded, pushed>>
          /\ ran'[t] = IF Wants(it[t], message[t]) THEN Append(ran[t], it[t]) ELSE ran[t]
      BY <1>0 DEF Visit, list, TypeOK
    <3>2. LoggerOK(t) /\ it[t] \in Callbacks /\ ran[t] \in Seq(Callbacks)
      BY <1>0, <3>1 DEF TypeOK
    <3>3. PICK k \in 0..Len(pushed) : WalkedTo(t, k)
      BY <3>1, <3>2 DEF LoggerOK
    <3>4. Len(pushed) \in Nat /\ DOMAIN pushed = 1..Len(pushed)
      BY <1>0 DEF TypeOK
    <3>5. k # 0 /\ it[t] = pushed[k] /\ k \in 1..Len(pushed) /\ k - 1 \in 0..Len(pushed)
      BY <3>1, <3>3, <3>4 DEF WalkedTo
    <3>6. it'[t] = IF k - 1 = 0 THEN None ELSE pushed[k - 1]
      BY <1>0, <3>1, <3>4, <3>5 DEF Linked
    <3>7. Range(ran[t])' = IF Wants(it[t], message[t]) THEN Range(ran[t]) \cup {it[t]} ELSE Range(ran[t])
      <4>1. Range(Append(ran[t], it[t])) = Range(ran[t]) \cup {it[t]}
        BY <3>2, AppendFacts
      <4>2. Range(ran[t])' = Range(ran'[t])
        BY DEF Range
      <4> QED BY <3>1, <4>1, <4>2
    <3>8. it[t] \notin Range(ran[t])
      <4>1. \A j \in k + 1..Len(pushed) : pushed[j] # pushed[k]
        BY <1>0, <3>4, <3>5 DEF NodesOK, IsInjective
      <4> QED BY <3>3, <3>5, <4>1 DEF WalkedTo
    <3>9. IsInjective(ran[t])'
      <4>1. IsInjective(ran[t])
        BY <3>2 DEF LoggerOK
      <4>2. IsInjective(Append(ran[t], it[t]))
        BY <3>2, <3>8, <4>1, AppendInjective
      <4>3. IsInjective(ran'[t])
        BY <3>1, <4>1, <4>2
      <4> QED BY <4>3 DEF IsInjective
    <3>10. \A c \in Range(ran[t])' : Wants(c, message[t])
      BY <3>2, <3>7 DEF LoggerOK
    <3>11. \A c \in due[t] : Wants(c, message[t]) =>
             c \in Range(ran[t])' \/ \E j \in 1..k - 1 : c = pushed[j]
      <4>1. ASSUME NEW c \in due[t], Wants(c, message[t]), c \notin Range(ran[t])'
            PROVE  \E j \in 1..k - 1 : c = pushed[j]
        <5>1. c \notin Range(ran[t])
          BY <3>7, <4>1
        <5>2. PICK j \in 1..k : c = pushed[j]
          BY <3>3, <4>1, <5>1 DEF WalkedTo
        <5>3. j # k
          BY <3>5, <3>7, <4>1, <5>2
        <5>4. j \in 1..k - 1
          BY <3>5, <5>2, <5>3
        <5> QED BY <5>2, <5>4
      <4> QED BY <4>1
    <3>12. \A c \in Range(ran[t])' : \E j \in k..Len(pushed) : c = pushed[j]
      <4>1. \A c \in Range(ran[t]) : \E j \in k + 1..Len(pushed) : c = pushed[j]
        BY <3>3 DEF WalkedTo
      <4>2. \A c \in Range(ran[t]) : \E j \in k..Len(pushed) : c = pushed[j]
        BY <3>5, <4>1
      <4>3. k \in k..Len(pushed)
        BY <3>4, <3>5
      <4> QED BY <3>5, <3>7, <4>2, <4>3
    <3>13. WalkedTo(t, k - 1)'
      <4>1. (k - 1) + 1 = k
        BY <3>5
      <4> QED BY <3>1, <3>6, <3>11, <3>12, <4>1 DEF WalkedTo
    <3>14. \E i \in 0..Len(pushed)' : WalkedTo(t, i)'
      BY <3>1, <3>5, <3>13
    <3>15. Range(pushed)' = Range(pushed)
      BY <3>1 DEF Range
    <3> QED BY <3>1, <3>2, <3>9, <3>10, <3>14, <3>15 DEF LoggerOK, LogPcs
  <2> QED BY <2>1, <2>2
<1> QED BY <1>1, <1>2, <1>3, <1>4, <1>5 DEF Inv

\* Ending the walk.
LEMMA ForwardKeeps ==
  ASSUME Inv, NEW t \in Threads, Forward(t)
  PROVE  Inv'
<1>0. TypeOK /\ OnceOK /\ NodesOK /\ Linked /\ \A u \in Threads : LoggerOK(u)
  BY DEF Inv
<1>1. TypeOK'
  BY <1>0, MessageHandlerAssumption DEF Forward, Goto, once, list, logging, TypeOK, PcOK
<1>2. OnceOK'
  BY <1>0 DEF Forward, Goto, once, list, logging, TypeOK, PcOK, OnceOK
<1>3. NodesOK'
  BY <1>0, MessageHandlerAssumption DEF Forward, Goto, once, list, logging, TypeOK, PcOK, NodesOK, RegisterPcs
<1>4. Linked'
  BY <1>0 DEF Forward, Goto, once, list, logging, TypeOK, PcOK, Linked
<1>5. ASSUME NEW u \in Threads PROVE LoggerOK(u)'
  <2>1. CASE u # t
    <3>1. LoggerOK(u)
      BY <1>0
    <3>2. UNCHANGED <<message[u], it[u], ran[u], due[u], forwarded[u]>>
      BY <1>0, <2>1 DEF Forward, Goto, once, list, logging, TypeOK
    <3>3. pc'[u] = pc[u]
      BY <1>0, <2>1 DEF Forward, Goto, once, list, logging, TypeOK, PcOK
    <3>4. pushed' = pushed
      BY DEF Forward, Goto, once, list, logging
    <3> QED BY <1>0, <3>1, <3>2, <3>3, <3>4, LoggerUntouched
  <2>2. LoggerOK(t)'
    <3>1. /\ pc[t] = "walk" /\ pc'[t] = "logged" /\ it[t] = None
          /\ UNCHANGED <<message, ran, due, pushed>>
          /\ forwarded'[t] = (oldMessageHandler = "default")
      BY <1>0 DEF Forward, Goto, list, TypeOK, PcOK
    <3>2. LoggerOK(t)
      BY <1>0
    <3>3. PICK k \in 0..Len(pushed) : WalkedTo(t, k)
      BY <3>1, <3>2 DEF LoggerOK
    <3>4. k = 0
      <4>1. \A i \in 1..Len(pushed) : pushed[i] \in Callbacks
        BY <1>0 DEF TypeOK
      <4>2. Len(pushed) \in Nat
        BY <1>0 DEF TypeOK
      <4> QED BY <3>1, <3>3, <4>1, <4>2, MessageHandlerAssumption DEF WalkedTo
    <3>5. \A c \in due[t] : Wants(c, message[t]) => c \in Range(ran[t])
      BY <3>3, <3>4 DEF WalkedTo
    <3>6. due[t] # {} => forwarded'[t]
      <4>1. due[t] # {} => pushed # <<>>
        BY <3>2 DEF LoggerOK, Range
      <4> QED BY <1>0, <3>1, <4>1 DEF OnceOK
    <3>7. Range(ran[t])' = Range(ran[t]) /\ IsInjective(ran[t])' /\ Range(pushed)' = Range(pushed)
      BY <3>1, <3>2 DEF Range, IsInjective, LoggerOK
    <3> QED BY <3>1, <3>2, <3>5, <3>6, <3>7 DEF LoggerOK, LogPcs
  <2> QED BY <2>1, <2>2
<1> QED BY <1>1, <1>2, <1>3, <1>4, <1>5 DEF Inv

\* Ending the call.
LEMMA ReturnKeeps ==
  ASSUME Inv, NEW t \in Threads, Return(t)
  PROVE  Inv'
<1>0. TypeOK /\ OnceOK /\ NodesOK /\ Linked /\ \A u \in Threads : LoggerOK(u)
  BY DEF Inv
<1>1. TypeOK'
  BY <1>0, MessageHandlerAssumption DEF Return, Goto, once, list, logging, TypeOK, PcOK
<1>2. OnceOK'
  BY <1>0 DEF Return, Goto, once, list, logging, TypeOK, PcOK, OnceOK
<1>3. NodesOK'
  BY <1>0, MessageHandlerAssumption DEF Return, Goto, once, list, logging, TypeOK, PcOK, NodesOK, RegisterPcs
<1>4. Linked'
  BY <1>0 DEF Return, Goto, once, list, logging, TypeOK, PcOK, Linked
<1>5. ASSUME NEW u \in Threads PROVE LoggerOK(u)'
  <2>1. CASE u # t
    <3>1. LoggerOK(u)
      BY <1>0
    <3>2. UNCHANGED <<message[u], it[u], ran[u], due[u], forwarded[u]>>
      BY <1>0, <2>1 DEF Return, Goto, once, list, logging, TypeOK
    <3>3. pc'[u] = pc[u]
      BY <1>0, <2>1 DEF Return, Goto, once, list, logging, TypeOK, PcOK
    <3>4. pushed' = pushed
      BY DEF Return, Goto, once, list, logging
    <3> QED BY <1>0, <3>1, <3>2, <3>3, <3>4, LoggerUntouched
  <2>2. LoggerOK(t)'
    BY <1>0 DEF Return, Goto, once, list, logging, TypeOK, PcOK, LoggerOK, LogPcs, WalkedTo, IsInjective, Range
  <2> QED BY <2>1, <2>2
<1> QED BY <1>1, <1>2, <1>3, <1>4, <1>5 DEF Inv

\* A step that changes nothing.
LEMMA StutterKeeps ==
  ASSUME Inv, UNCHANGED vars
  PROVE  Inv'
<1>0. TypeOK /\ OnceOK /\ NodesOK /\ Linked /\ \A u \in Threads : LoggerOK(u)
  BY DEF Inv
<1>1. TypeOK'
  BY <1>0 DEF vars, once, list, logging, TypeOK, PcOK
<1>2. OnceOK'
  BY <1>0 DEF vars, once, list, logging, OnceOK
<1>3. NodesOK'
  BY <1>0 DEF vars, once, list, logging, NodesOK, IsInjective, Range
<1>4. Linked'
  BY <1>0 DEF vars, once, list, logging, Linked
<1>5. ASSUME NEW u \in Threads PROVE LoggerOK(u)'
  <2>1. LoggerOK(u)
    BY <1>0
  <2>2. /\ UNCHANGED <<message[u], it[u], ran[u], due[u], forwarded[u]>>
        /\ pc'[u] = pc[u] /\ pushed' = pushed
    BY DEF vars, list, logging
  <2> QED BY <1>0, <2>1, <2>2, LoggerUntouched
<1> QED BY <1>1, <1>2, <1>3, <1>4, <1>5 DEF Inv

\* The invariant holds, whatever the threads do (lines 61-94).
THEOREM InvCorrect == Spec => []Inv
<1>1. Inv /\ [Next]_vars => Inv'
  <2> SUFFICES ASSUME Inv, [Next]_vars PROVE Inv'
    OBVIOUS
  <2>1. ASSUME NEW t \in Threads,
               Register(t) \/ RegisterStep(t) \/ Log(t) \/ LogStep(t)
        PROVE  Inv'
    <3>1. CASE Register(t)
      BY <3>1, RegisterKeeps
    <3>2. CASE CallOnce(t)
      BY <3>2, CallOnceKeeps
    <3>3. CASE Install(t)
      BY <3>3, InstallKeeps
    <3>4. CASE Store(t)
      BY <3>4, StoreKeeps
    <3>5. CASE Load(t)
      BY <3>5, LoadKeeps
    <3>6. CASE Swap(t)
      BY <3>6, SwapKeeps
    <3>7. CASE SwapFails(t)
      BY <3>7, SwapFailsKeeps
    <3>8. CASE Log(t)
      BY <3>8, LogKeeps
    <3>9. CASE Enter(t)
      BY <3>9, EnterKeeps
    <3>10. CASE Visit(t)
      BY <3>10, VisitKeeps
    <3>11. CASE Forward(t)
      BY <3>11, ForwardKeeps
    <3>12. CASE Return(t)
      BY <3>12, ReturnKeeps
    <3> QED BY <2>1, <3>1, <3>2, <3>3, <3>4, <3>5, <3>6, <3>7, <3>8, <3>9, <3>10,
               <3>11, <3>12 DEF RegisterStep, LogStep
  <2>2. CASE UNCHANGED vars
    BY <2>2, StutterKeeps
  <2> QED BY <2>1, <2>2 DEF Next
<1> QED BY InvInit, <1>1, PTL DEF Spec
-----------------------------------------------------------------------------
\* The types of the variables, for every number of threads and callbacks.
THEOREM TypeCorrect == Spec => []TypeOK
<1>1. Inv => TypeOK
  BY DEF Inv
<1> QED BY InvCorrect, <1>1, PTL

\* The lock-free list keeps every callback, however pushes interleave (lines
\* 87-93).
THEOREM ListLinked == Spec => []Linked
<1>1. Inv => Linked
  BY DEF Inv
<1> QED BY InvCorrect, <1>1, PTL

\* A walk that other threads overtake with pushes misses no callback that was
\* registered before its message (lines 63-69).
THEOREM CallbacksInformed == Spec => []Informed
<1>1. Inv => Informed
  BY DEF Inv, LoggerOK, Informed
<1> QED BY InvCorrect, <1>1, PTL

\* It calls no callback twice (lines 63-69).
THEOREM CallbacksInformedOnce == Spec => []InformedOnce
<1>1. Inv => InformedOnce
  BY DEF Inv, LoggerOK, InformedOnce
<1> QED BY InvCorrect, <1>1, PTL

\* Both together.
THEOREM CallbacksInformedExactly == Spec => []InformedExactly
<1>1. Informed /\ InformedOnce => InformedExactly
  BY DEF InformedExactly
<1> QED BY CallbacksInformed, CallbacksInformedOnce, <1>1, PTL

\* A message logged after a registration reaches the old handler: call_once
\* keeps threads waiting until its address is stored (lines 71-73, 81-85).
THEOREM MessagesForwarded == Spec => []Forwarded
<1>1. Inv => Forwarded
  BY DEF Inv, LoggerOK, Forwarded
<1> QED BY InvCorrect, <1>1, PTL

\* Who waits for the handler to be installed waits for a thread that does it.
InstallerWorks ==
  oldMessageHandlerFlag = "running" => \E t \in Threads : pc[t] \in {"install", "store"}

\* Registering threads are not all kept waiting: in call_once() they wait only for the one
\* that is installing the handler, which waits for nobody.
THEOREM RegisteringIsNotBlocked == Spec => []InstallerWorks
<1>1. Init => InstallerWorks
  BY DEF Init, InstallerWorks
<1>2. ASSUME TypeOK, OnceOK, InstallerWorks, [Next]_vars PROVE InstallerWorks'
  <2>1. CASE UNCHANGED vars
    BY <1>2, <2>1 DEF vars, once, InstallerWorks
  <2>2. ASSUME NEW t \in Threads, \/ Register(t) \/ RegisterStep(t) \/ Log(t) \/ LogStep(t)
        PROVE  InstallerWorks'
    <3>1. pc \in [Threads -> {"elsewhere", "once", "install", "store", "load", "swap", "enter", "walk", "logged"}]
      BY <1>2 DEF TypeOK, PcOK
    <3>2. CASE CallOnce(t)
      BY <1>2, <3>1, <3>2 DEF CallOnce, Goto, InstallerWorks
    <3>3. CASE Install(t)
      BY <1>2, <3>1, <3>3 DEF Install, Goto, InstallerWorks
    <3>4. CASE Store(t)
      BY <3>4 DEF Store, InstallerWorks
    <3>5. CASE Register(t) \/ Load(t) \/ Swap(t) \/ SwapFails(t) \/ Log(t) \/ LogStep(t)
      <4>1. oldMessageHandlerFlag' = oldMessageHandlerFlag
        BY <3>5 DEF Register, Load, Swap, SwapFails, Log, LogStep, Enter, Visit, Forward, Return, once
      <4>2. \A u \in Threads : pc[u] \in {"install", "store"} => pc'[u] = pc[u]
        BY <3>1, <3>5 DEF Register, Load, Swap, SwapFails, Log, LogStep, Enter, Visit, Forward, Return, Goto
      <4>. QED BY <1>2, <4>1, <4>2 DEF InstallerWorks
    <3>. QED BY <2>2, <3>2, <3>3, <3>4, <3>5 DEF RegisterStep
  <2>. QED BY <1>2, <2>1, <2>2 DEF Next
<1>3. Inv => TypeOK /\ OnceOK
  BY DEF Inv
<1>4. TypeOK /\ OnceOK /\ InstallerWorks /\ [Next]_vars => InstallerWorks'
  BY <1>2
<1>. QED BY <1>1, <1>3, <1>4, InvCorrect, PTL DEF Spec

\* Thread t has k callbacks to go, the k that were registered first.
ToGo(t, k) == it[t] = IF k = 0 THEN None ELSE pushed[k]

\* A walk gets shorter with each callback it comes to, and never longer, however many
\* callbacks other threads push meanwhile.
WalkGetsShorter ==
  [][\A t \in Threads :
       pc[t] = "walk" /\ pc'[t] = "walk" =>
         \E k \in 0 .. Len(pushed) : ToGo(t, k) /\ IF Visit(t) THEN k > 0 /\ ToGo(t, k - 1)' ELSE ToGo(t, k)']_vars

\* A walk visits no more callbacks than there were when it began: the safety part of
\* LoggingReturns.
THEOREM WalksGetShorter == Spec => WalkGetsShorter
<1>1. ASSUME Inv, Next, NEW t \in Threads, pc[t] = "walk", pc'[t] = "walk"
      PROVE  \E k \in 0 .. Len(pushed) : ToGo(t, k) /\ IF Visit(t) THEN k > 0 /\ ToGo(t, k - 1)' ELSE ToGo(t, k)'
  <2>1. /\ pc \in [Threads -> {"elsewhere", "once", "install", "store", "load", "swap", "enter", "walk", "logged"}]
        /\ it \in [Threads -> Callbacks \cup {None}] /\ node \in [Threads -> Callbacks \cup {None}]
        /\ pushed \in Seq(Callbacks) /\ Len(pushed) \in Nat /\ DOMAIN pushed = 1 .. Len(pushed)
    BY <1>1 DEF Inv, TypeOK, PcOK
  <2>2. PICK k \in 0 .. Len(pushed) : ToGo(t, k)
    BY <1>1 DEF Inv, LoggerOK, WalkedTo, ToGo
  <2>3. ASSUME it'[t] = it[t], pushed' = pushed PROVE ToGo(t, k)'
    BY <2>2, <2>3 DEF ToGo
  <2>4. PICK u \in Threads : Register(u) \/ RegisterStep(u) \/ Log(u) \/ LogStep(u)
    BY <1>1 DEF Next
  <2>5. CASE Visit(t)
    <3>1. it[t] # None /\ it'[t] = next[it[t]] /\ pushed' = pushed
      BY <2>1, <2>5 DEF Visit, list
    <3>2. k \in 1 .. Len(pushed) /\ it[t] = pushed[k]
      BY <2>2, <3>1 DEF ToGo
    <3>3. next[pushed[k]] = IF k = 1 THEN None ELSE pushed[k - 1]
      BY <1>1, <2>1, <3>2 DEF Inv, Linked
    <3>4. k > 0 /\ ToGo(t, k - 1)'
      BY <3>1, <3>2, <3>3 DEF ToGo
    <3>. QED BY <2>2, <2>5, <3>4
  <2>6. ASSUME ~Visit(t) PROVE ToGo(t, k)'
    <3>1. CASE Swap(u)
      <4>1. it' = it /\ pushed' = Append(pushed, node[u]) /\ pc[u] = "swap"
        BY <3>1 DEF Swap, Goto, logging
      <4>2. node[u] \in Callbacks
        BY <1>1, <2>1, <4>1 DEF Inv, NodesOK, RegisterPcs
      <4>3. \A i \in 1 .. Len(pushed) : pushed'[i] = pushed[i]
        BY <2>1, <4>1, <4>2, AppendFacts
      <4>. QED BY <2>2, <4>1, <4>3 DEF ToGo
    <3>2. CASE (Visit(u) \/ Enter(u) \/ Forward(u) \/ Return(u)) /\ u # t
      BY <2>1, <2>3, <3>2 DEF Visit, Enter, Forward, Return, list
    <3>3. CASE (Enter(u) \/ Forward(u) \/ Return(u)) /\ u = t
      BY <1>1, <2>1, <3>3 DEF Enter, Forward, Return, Goto
    <3>4. CASE Register(u) \/ CallOnce(u) \/ Install(u) \/ Store(u) \/ Load(u) \/ SwapFails(u) \/ Log(u)
      <4>1. it' = it /\ pushed' = pushed
        BY <3>4 DEF Register, CallOnce, Install, Store, Load, SwapFails, Log, list, logging
      <4>. QED BY <2>3, <4>1
    <3>. QED BY <2>4, <2>6, <3>1, <3>2, <3>3, <3>4 DEF RegisterStep, LogStep
  <2>. QED BY <2>2, <2>5, <2>6
<1>2. Inv /\ [Next]_vars =>
        [\A t \in Threads :
           pc[t] = "walk" /\ pc'[t] = "walk" =>
             \E k \in 0 .. Len(pushed) : ToGo(t, k) /\ IF Visit(t) THEN k > 0 /\ ToGo(t, k - 1)' ELSE ToGo(t, k)']_vars
  BY <1>1
<1>. QED BY <1>2, InvCorrect, PTL DEF Spec, WalkGetsShorter

=============================================================================
