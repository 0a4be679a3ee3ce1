-------------------------- MODULE ThrottlerProofs --------------------------
(***************************************************************************)
(* What Throttler guarantees for every set of intervals, every tolerance   *)
(* of the timer and every depth of re-entrant calls.                       *)
(***************************************************************************)
EXTENDS Throttler, SequenceTheorems, TLAPS

-----------------------------------------------------------------------------
(* The call stack. *)

LEMMA PushStack ==
  ASSUME NEW fn \in {"throttle", "timeout", "dtor"},
         stack \in Seq(Frames), Push(fn)
  PROVE  /\ stack' \in Seq(Frames)
         /\ Len(stack') = Len(stack) + 1
         /\ \A i \in 1..Len(stack) : stack'[i] = stack[i]
         /\ stack'[Len(stack')] = [fn |-> fn, at |-> "emit"]
BY DEF Push, Frames

LEMMA PopStack ==
  ASSUME stack \in Seq(Frames), stack # <<>>, Pop
  PROVE  /\ stack' \in Seq(Frames)
         /\ Len(stack') = Len(stack) - 1
         /\ \A i \in 1..Len(stack') : stack'[i] = stack[i]
<1> DEFINE n == Len(stack) - 1
<1>1. n \in Nat /\ \A i \in 1..n : stack[i] \in Frames
  OBVIOUS
<1>2. stack' = SubSeq(stack, 1, n)
  BY DEF Pop
<1> HIDE DEF n
<1>3. /\ stack' \in Seq(Frames)
      /\ Len(stack') = IF 1 <= n THEN n - 1 + 1 ELSE 0
      /\ \A i \in 1..(n - 1 + 1) : stack'[i] = stack[1 + i - 1]
  BY <1>1, <1>2, SubSeqProperties
<1>4. Len(stack') = n
  BY <1>1, <1>3
<1>5. ASSUME NEW i \in 1..n
      PROVE  stack'[i] = stack[i]
  BY <1>1, <1>3
<1>. QED
  BY <1>3, <1>4, <1>5 DEF n

LEMMA EmitStack ==
  ASSUME stack \in Seq(Frames), stack # <<>>,
         stack' = [stack EXCEPT ![Len(stack)].at = "slots"]
  PROVE  /\ stack' \in Seq(Frames)
         /\ Len(stack') = Len(stack)
         /\ \A i \in 1..Len(stack) - 1 : stack'[i] = stack[i]
         /\ stack'[Len(stack')] = [fn |-> Top.fn, at |-> "slots"]
<1> DEFINE top == [Top EXCEPT !.at = "slots"]
<1>1. Len(stack) \in 1..Len(stack) /\ Top \in Frames
  BY DEF Top
<1>2. top \in Frames /\ top = [fn |-> Top.fn, at |-> "slots"]
  BY <1>1 DEF Frames
<1>3. stack' = [stack EXCEPT ![Len(stack)] = top]
  BY DEF Top
<1> HIDE DEF top
<1>. QED
  BY <1>1, <1>2, <1>3, ExceptSeq
-----------------------------------------------------------------------------
(* Type correctness. *)

\* TypeOK without the call stack and the Boolean variables.
TimerOK ==
  /\ m_kind \in {"Throttler", "Debouncer"}
  /\ m_emissionPolicy \in {"Trailing", "Leading"}
  /\ interval \in Timeouts /\ floor \in Timeouts /\ calm \in Timeouts
  /\ left \in Int /\ -Late <= left /\ left <= interval + Early
  /\ ~active => left = 0
  /\ alive \in {"yes", "dying", "no"}
  /\ since \in 0..Cap /\ quiet \in 0..Cap

LEMMA ReturnTop ==
  ASSUME TypeOK, Return
  PROVE  Top.fn \in {"throttle", "timeout", "dtor"}
<1>1. stack # <<>> /\ stack \in Seq(Frames)
  BY DEF Return, InSlots, Idle, TypeOK
<1>2. stack[Len(stack)] \in Frames
  BY <1>1
<1>. QED
  BY <1>2 DEF Top, Frames

LEMMA TimerOKStep == TypeOK /\ [Next]_vars => TimerOK'
<1> SUFFICES ASSUME TypeOK, [Next]_vars
             PROVE  TimerOK'
  OBVIOUS
<1> USE ThrottlerAssumption DEF config, timer, ages, vars
<1>0. TimerOK
  BY DEF TypeOK, TimerOK
<1>1. StartTimer => /\ left' \in Int /\ -Late <= left' /\ left' <= interval' + Early
                    /\ interval' = interval /\ (~active' => left' = 0)
  BY <1>0 DEF StartTimer, TimerOK
<1>2. StopTimer => /\ left' \in Int /\ -Late <= left' /\ left' <= interval' + Early
                   /\ interval' = interval /\ (~active' => left' = 0)
  BY <1>0 DEF StopTimer, TimerOK
<1>3. active /\ left <= Early /\ Rearm
        => /\ left' \in Int /\ -Late <= left' /\ left' <= interval' + Early
           /\ interval' = interval /\ (~active' => left' = 0)
  <2> SUFFICES ASSUME active, left <= Early, Rearm
               PROVE  /\ left' \in Int /\ -Late <= left' /\ left' <= interval' + Early
                      /\ interval' = interval /\ (~active' => left' = 0)
    OBVIOUS
  <2>1. CASE Leading
    BY <1>0, <2>1 DEF Rearm, TimerOK
  <2>2. CASE ~Leading
    BY <1>2, <2>2 DEF Rearm
  <2>. QED
    BY <2>1, <2>2
<1>4. CASE Throttle
  BY <1>0, <1>1, <1>4 DEF Throttle, TimerOK
<1>5. CASE Emit
  BY <1>0, <1>5 DEF Emit, TimerOK
<1>6. CASE Return
  <2>1. CASE Top.fn = "throttle"
    BY <1>0, <1>1, <1>6, <2>1 DEF Return, TimerOK
  <2>2. CASE Top.fn = "timeout"
    BY <1>0, <1>6, <2>2 DEF Return, TimerOK
  <2>3. CASE Top.fn = "dtor"
    BY <1>0, <1>2, <1>6, <2>3 DEF Return, TimerOK
  <2>. QED
    BY <1>6, <2>1, <2>2, <2>3, ReturnTop
<1>7. CASE Timeout
  BY <1>0, <1>2, <1>3, <1>7 DEF Timeout, TimerOK
<1>8. CASE SetTimeout
  <2>1. PICK t \in Timeouts : /\ interval' = t
                              /\ left' = IF active THEN t ELSE left
                              /\ floor' = Least(floor, t)
                              /\ calm' = Least(calm, t)
    BY <1>8 DEF SetTimeout
  <2>2. floor \in Timeouts /\ calm \in Timeouts /\ (~active => left = 0)
    BY <1>0 DEF TimerOK
  <2>3. floor' \in Timeouts /\ calm' \in Timeouts
    BY <2>1, <2>2 DEF Least
  <2>4. left' \in {t, 0} /\ (~active => left' = 0)
    BY <2>1, <2>2
  <2>5. left' \in Int /\ -Late <= left' /\ left' <= interval' + Early
    <3>1. t \in Nat /\ interval' = t
      BY <2>1
    <3>2. left' = t \/ left' = 0
      BY <2>4
    <3>. QED
      BY <3>1, <3>2
  <2>. QED
    BY <1>0, <1>8, <2>1, <2>3, <2>4, <2>5 DEF SetTimeout, TimerOK
<1>9. CASE Destroy
  BY <1>0, <1>2, <1>9 DEF Destroy, TimerOK
<1>10. CASE Tick
  BY <1>0, <1>10 DEF Tick, Older, TimerOK
<1>11. CASE UNCHANGED vars
  BY <1>0, <1>11 DEF TimerOK
<1>. QED
  BY <1>4, <1>5, <1>6, <1>7, <1>8, <1>9, <1>10, <1>11 DEF Next

Flags == m_hasPendingEmission \in BOOLEAN /\ active \in BOOLEAN

LEMMA FlagsStep == TypeOK /\ [Next]_vars => Flags'
<1> SUFFICES ASSUME TypeOK, [Next]_vars
             PROVE  Flags'
  OBVIOUS
<1>0. Flags
  BY DEF TypeOK, Flags
<1> USE DEF Flags, timer, StartTimer, StopTimer
<1>1. CASE Throttle
  BY <1>0, <1>1 DEF Throttle
<1>2. CASE Emit
  BY <1>0, <1>2 DEF Emit
<1>3. CASE Return
  BY <1>0, <1>3, ReturnTop DEF Return
<1>4. CASE Timeout
  BY <1>0, <1>4 DEF Timeout, Rearm
<1>5. CASE SetTimeout \/ Tick \/ UNCHANGED vars
  BY <1>0, <1>5 DEF SetTimeout, Tick, vars
<1>6. CASE Destroy
  BY <1>0, <1>6 DEF Destroy
<1>. QED
  BY <1>1, <1>2, <1>3, <1>4, <1>5, <1>6 DEF Next

LEMMA StackStep == TypeOK /\ [Next]_vars => stack' \in Seq(Frames)
<1> SUFFICES ASSUME TypeOK, [Next]_vars
             PROVE  stack' \in Seq(Frames)
  OBVIOUS
<1>0. stack \in Seq(Frames)
  BY DEF TypeOK
<1>1. CASE Throttle
  BY <1>0, <1>1, PushStack DEF Throttle
<1>2. CASE Emit
  BY <1>0, <1>2, EmitStack DEF Emit, AtEmit, Idle
<1>3. CASE Return
  BY <1>0, <1>3, PopStack DEF Return, InSlots, Idle
<1>4. CASE Timeout
  BY <1>0, <1>4, PushStack DEF Timeout
<1>5. CASE Destroy
  BY <1>0, <1>5, PushStack DEF Destroy
<1>6. CASE SetTimeout \/ Tick \/ UNCHANGED vars
  BY <1>0, <1>6 DEF SetTimeout, Tick, vars
<1>. QED
  BY <1>1, <1>2, <1>3, <1>4, <1>5, <1>6 DEF Next

LEMMA TypeInit == Init => TypeOK
<1>1. Init => stack \in Seq(Frames)
  BY DEF Init
<1>2. Init => TimerOK
  BY ThrottlerAssumption DEF Init, TimerOK
<1>3. Init => Flags
  BY DEF Init, Flags
<1>. QED
  BY <1>1, <1>2, <1>3, Zenon DEF TypeOK, TimerOK, Flags

LEMMA TypeStep == TypeOK /\ [Next]_vars => TypeOK'
BY TimerOKStep, StackStep, FlagsStep, Zenon DEF TypeOK, TimerOK, Flags

\* The values of the variables: a running timer stays within its interval
\* whatever setTimeout(), throttle() and timeouts do (lines 60-133).
THEOREM TypeCorrect == Spec => []TypeOK
BY TypeInit, TypeStep, PTL DEF Spec
-----------------------------------------------------------------------------
(* The inductive invariant.  Its parts say what the call stack can look     *)
(* like, when the timer runs, and how far the ages have got when the timer  *)
(* has `left` to run.                                                       *)

\* Only the innermost frame is about to emit; what slots call is throttle(),
\* and only a leading one emits by itself; the outermost frame is the
\* destructor's exactly while the object dies.
StackInv ==
  /\ \A i \in 1..Len(stack) - 1 : stack[i].at = "slots"
  /\ \A i \in 2..Len(stack) : stack[i].fn = "throttle"
  /\ \A i \in 1..Len(stack) : stack[i].fn = "throttle" => Leading
  /\ alive = "dying" => stack # <<>> /\ stack[1].fn = "dtor"
  /\ alive = "yes" /\ stack # <<>> => stack[1].fn # "dtor"
  /\ alive = "no" => stack = <<>>

\* Which timer runs while an emission is going on.
ArmInv ==
  /\ AtEmit => m_hasPendingEmission
  /\ m_hasPendingEmission /\ alive # "no" => active \/ AtEmit
  /\ AtEmit /\ Top.fn = "throttle" => ~active
  /\ AtEmit /\ Top.fn = "timeout" => (active <=> Leading)
  /\ Leading /\ stack # <<>> /\ stack[1].fn = "timeout" => active
  /\ ~Leading /\ active /\ alive = "yes" => m_hasPendingEmission

\* The timer of a living object runs out when the distance is due or later.
SpacingInv ==
  /\ floor <= interval
  /\ alive = "yes" /\ active
       => since = Cap \/ since + left >= floor - (IF Leading THEN Late ELSE 0)
  /\ AtEmit /\ Leading /\ Top.fn = "timeout" => left >= interval - Late
  /\ alive = "yes" /\ AtEmit /\ Len(stack) = 1 => since >= floor - Slack
  /\ alive = "yes" /\ stack = <<>> /\ ~active /\ Leading => since >= floor - Slack

\* The same for the quiet period of a debouncer with a pending emission.
QuietInv ==
  m_kind = "Debouncer" =>
    /\ calm <= interval
    /\ m_hasPendingEmission /\ active /\ ~AtEmit
         => quiet = Cap \/ quiet + left >= calm
    /\ AtEmit /\ Top.fn = "timeout" => quiet >= calm - Early

IInv == TypeOK /\ StackInv /\ ArmInv /\ SpacingInv /\ QuietInv

-----------------------------------------------------------------------------
(* What the steps do to the call stack, without sequences. *)

Outer == stack[1].fn

LEMMA NonEmptyStack ==
  ASSUME stack \in Seq(Frames), stack # <<>>
  PROVE  Len(stack) \in Nat \ {0}
BY EmptySeq

\* Who is innermost: the outermost function itself, or a nested throttle().
LEMMA InnerAndOuter ==
  ASSUME stack \in Seq(Frames), StackInv, stack # <<>>
  PROVE  /\ Outer \in {"throttle", "timeout", "dtor"}
         /\ Len(stack) = 1 => Top.fn = Outer
         /\ Len(stack) # 1 => Top.fn = "throttle"
         /\ Top.fn = "throttle" => Leading
         /\ Top.fn # "throttle" => Len(stack) = 1
<1>1. /\ Len(stack) \in Nat /\ 1 \in 1..Len(stack) /\ Len(stack) \in 1..Len(stack)
      /\ Len(stack) # 1 => Len(stack) \in 2..Len(stack)
  <2>1. ASSUME NEW n \in Nat \ {0}
        PROVE  n \in Nat /\ 1 \in 1..n /\ n \in 1..n /\ (n # 1 => n \in 2..n)
    OBVIOUS
  <2>2. Len(stack) \in Nat \ {0}
    BY NonEmptyStack
  <2> HIDE <2>1
  <2>. QED
    BY <2>1, <2>2, Zenon
<1>2. \A i \in 1..Len(stack) : stack[i].fn \in {"throttle", "timeout", "dtor"}
  <2>1. \A i \in 1..Len(stack) : stack[i] \in Frames
    OBVIOUS
  <2>. QED
    BY <2>1 DEF Frames
<1>. QED
  BY <1>1, <1>2 DEF Top, Outer, StackInv

LEMMA AfterPush ==
  ASSUME NEW fn \in {"throttle", "timeout", "dtor"},
         stack \in Seq(Frames), Push(fn)
  PROVE  /\ Len(stack') = Len(stack) + 1 /\ stack' # <<>>
         /\ AtEmit' /\ Top'.fn = fn
         /\ Outer' = IF stack = <<>> THEN fn ELSE Outer
<1>1. stack' \in Seq(Frames) /\ Len(stack') = Len(stack) + 1 /\ Len(stack) \in Nat
  BY PushStack
<1>2. stack' # <<>>
  BY <1>1
<1>3. Top' = [fn |-> fn, at |-> "emit"]
  BY PushStack DEF Top
<1>4. stack = <<>> => Len(stack') = 1
  BY <1>1
<1>5. stack # <<>> => 1 \in 1..Len(stack)
  BY <1>1
<1>6. Outer' = IF stack = <<>> THEN fn ELSE Outer
  <2>1. CASE stack = <<>>
    <3>1. stack'[1] = [fn |-> fn, at |-> "emit"]
      BY <1>3, <1>4, <2>1 DEF Top
    <3>. QED
      BY <2>1, <3>1 DEF Outer
  <2>2. CASE stack # <<>>
    BY <1>5, <2>2, PushStack DEF Outer
  <2>. QED
    BY <2>1, <2>2
<1>. QED
  BY <1>1, <1>2, <1>3, <1>6 DEF AtEmit, Idle

LEMMA AfterEmit ==
  ASSUME stack \in Seq(Frames), Emit
  PROVE  /\ Len(stack') = Len(stack) /\ stack' # <<>> /\ stack # <<>>
         /\ ~AtEmit' /\ AtEmit /\ Top'.fn = Top.fn
         /\ Outer' = Outer
<1>1. /\ AtEmit /\ stack # <<>>
      /\ stack' = [stack EXCEPT ![Len(stack)].at = "slots"]
  BY DEF Emit, AtEmit, Idle
<1>2. /\ stack' \in Seq(Frames) /\ Len(stack') = Len(stack)
      /\ \A i \in 1..Len(stack) - 1 : stack'[i] = stack[i]
      /\ Top' = [fn |-> Top.fn, at |-> "slots"]
  BY <1>1, EmitStack DEF Top
<1>3. Len(stack) \in Nat /\ Len(stack) > 0 /\ stack' # <<>>
  BY <1>1, <1>2
<1>4. Outer' = Outer
  <2>1. CASE Len(stack) = 1
    BY <1>2, <2>1 DEF Outer, Top
  <2>2. CASE Len(stack) # 1
    BY <1>2, <1>3, <2>2 DEF Outer
  <2>. QED
    BY <2>1, <2>2
<1>. QED
  BY <1>1, <1>2, <1>3, <1>4 DEF AtEmit, Idle

LEMMA AfterPop ==
  ASSUME stack \in Seq(Frames), StackInv, InSlots, Pop
  PROVE  /\ Len(stack') = Len(stack) - 1 /\ stack # <<>>
         /\ ~AtEmit' /\ ~AtEmit
         /\ stack' = <<>> <=> Len(stack) = 1
         /\ stack' # <<>> => Outer' = Outer /\ Top.fn = "throttle"
         /\ stack' = <<>> => Top.fn = Outer
<1>1. stack # <<>> /\ ~AtEmit
  BY DEF InSlots, AtEmit, Idle
<1>2. /\ stack' \in Seq(Frames) /\ Len(stack') = Len(stack) - 1
      /\ \A i \in 1..Len(stack') : stack'[i] = stack[i]
  BY <1>1, PopStack
<1>3. Len(stack) \in Nat /\ Len(stack) > 0
  BY <1>1
<1>4. stack' = <<>> <=> Len(stack) = 1
  BY <1>2, <1>3
<1>5. ASSUME stack' # <<>>
      PROVE  Outer' = Outer /\ Top.fn = "throttle" /\ Top'.at = "slots"
  <2>1. Len(stack') \in 1..Len(stack) - 1 /\ 1 \in 1..Len(stack') /\ Len(stack) \in 2..Len(stack)
    BY <1>2, <1>3, <1>4, <1>5
  <2>2. Outer' = Outer /\ stack'[Len(stack')] = stack[Len(stack')]
    BY <1>2, <2>1 DEF Outer
  <2>. QED
    BY <2>1, <2>2 DEF StackInv, Top
<1>6. Len(stack) = 1 => Top.fn = Outer
  BY DEF Top, Outer
<1>. QED
  BY <1>1, <1>2, <1>4, <1>5, <1>6 DEF AtEmit, Idle

-----------------------------------------------------------------------------
(* The invariant is inductive: first the shape of the call stack. *)

LEMMA StackInvInit == Init => StackInv
BY DEF Init, StackInv

LEMMA StackInvStep == TypeOK /\ StackInv /\ [Next]_vars => StackInv'
<1> SUFFICES ASSUME TypeOK, StackInv, [Next]_vars
             PROVE  StackInv'
  OBVIOUS
<1>0. stack \in Seq(Frames) /\ Len(stack) \in Nat
  BY DEF TypeOK
<1>1. ASSUME NEW fn \in {"throttle", "timeout", "dtor"}, Push(fn),
             stack # <<>> => fn = "throttle" /\ InSlots,
             fn = "throttle" => Leading,
             m_emissionPolicy' = m_emissionPolicy,
             fn = "dtor" => alive' = "dying" /\ stack = <<>>,
             fn # "dtor" => alive' = alive,
             alive # "no", alive = "dying" => stack # <<>>
      PROVE  StackInv'
  <2>1. /\ Len(stack') = Len(stack) + 1
        /\ \A i \in 1..Len(stack) : stack'[i] = stack[i]
        /\ stack'[Len(stack')] = [fn |-> fn, at |-> "emit"]
        /\ stack' # <<>>
    BY <1>0, <1>1, PushStack, AfterPush
  <2>2. \A i \in 1..Len(stack') - 1 : stack'[i].at = "slots"
    BY <1>0, <1>1, <2>1 DEF StackInv, InSlots, Idle, Top
  <2>3. \A i \in 2..Len(stack') : stack'[i].fn = "throttle"
    BY <1>0, <1>1, <2>1 DEF StackInv
  <2>4. \A i \in 1..Len(stack') : stack'[i].fn = "throttle" => Leading'
    BY <1>0, <1>1, <2>1 DEF StackInv, Leading
  <2>5. Outer' = IF stack = <<>> THEN fn ELSE Outer
    BY <1>0, <1>1, AfterPush
  <2>. QED
    BY <1>1, <2>1, <2>2, <2>3, <2>4, <2>5 DEF StackInv, Outer
<1>2. CASE Throttle
  <2>1. CASE Leading /\ ~active
    <3>1. Push("throttle") /\ alive' = alive /\ m_emissionPolicy' = m_emissionPolicy
      BY <1>2, <2>1 DEF Throttle, config
    <3>2. alive # "no" /\ (stack # <<>> => InSlots) /\ (alive = "dying" => stack # <<>>)
      BY <1>2, <3>1 DEF Throttle, Callable, Idle, StackInv
    <3>. QED
      BY <1>1, <2>1, <3>1, <3>2
  <2>2. CASE ~(Leading /\ ~active)
    BY <1>2, <2>2 DEF Throttle, StackInv, Leading, config
  <2>. QED
    BY <2>1, <2>2
<1>3. CASE Emit
  <2>1. /\ stack # <<>>
        /\ stack' = [stack EXCEPT ![Len(stack)].at = "slots"]
        /\ m_emissionPolicy' = m_emissionPolicy /\ alive' = alive
    BY <1>3 DEF Emit, AtEmit, Idle, config
  <2>2. /\ Len(stack') = Len(stack) /\ stack' # <<>>
        /\ \A i \in 1..Len(stack) - 1 : stack'[i] = stack[i]
        /\ stack'[Len(stack)] = [fn |-> stack[Len(stack)].fn, at |-> "slots"]
    BY <1>0, <1>3, <2>1, EmitStack, AfterEmit DEF Top
  <2>3. \A i \in 1..Len(stack) : stack'[i].fn = stack[i].fn
    BY <1>0, <2>2
  <2>4. \A i \in 1..Len(stack') - 1 : stack'[i].at = "slots"
    BY <1>0, <2>2 DEF StackInv
  <2>5. 1 \in 1..Len(stack)
    BY <1>0, <2>1
  <2>. QED
    BY <2>1, <2>2, <2>3, <2>4, <2>5 DEF StackInv, Leading
<1>4. CASE Return
  <2>1. /\ Pop /\ InSlots /\ stack # <<>> /\ m_emissionPolicy' = m_emissionPolicy
        /\ alive' = IF Top.fn = "dtor" THEN "no" ELSE alive
    BY <1>4, ReturnTop DEF Return, InSlots, Idle, config
  <2>2. /\ Len(stack') = Len(stack) - 1
        /\ \A i \in 1..Len(stack') : stack'[i] = stack[i]
    BY <1>0, <2>1, PopStack
  <2>3. /\ \A i \in 1..Len(stack') - 1 : stack'[i].at = "slots"
        /\ \A i \in 2..Len(stack') : stack'[i].fn = "throttle"
        /\ \A i \in 1..Len(stack') : stack'[i].fn = "throttle" => Leading'
    BY <1>0, <2>1, <2>2 DEF StackInv, Leading
  <2>4. /\ stack' # <<>> => Outer' = Outer /\ Top.fn = "throttle"
        /\ stack' = <<>> => Top.fn = Outer
    BY <1>0, <2>1, AfterPop
  <2>5. CASE stack' # <<>>
    BY <2>1, <2>3, <2>4, <2>5 DEF StackInv, Outer
  <2>6. CASE stack' = <<>>
    BY <2>1, <2>3, <2>4, <2>6 DEF StackInv, Outer, TypeOK
  <2>. QED
    BY <2>5, <2>6
<1>5. CASE Timeout
  <2>1. CASE m_hasPendingEmission
    <3>1. /\ Push("timeout") /\ alive' = alive /\ alive = "yes" /\ stack = <<>>
          /\ m_emissionPolicy' = m_emissionPolicy
      BY <1>5, <2>1 DEF Timeout, Idle, config
    <3>. QED
      BY <1>1, <3>1
  <2>2. CASE ~m_hasPendingEmission
    BY <1>5, <2>2 DEF Timeout, StackInv, Leading, config
  <2>. QED
    BY <2>1, <2>2
<1>6. CASE Destroy
  <2>1. CASE m_hasPendingEmission
    BY <1>1, <1>6, <2>1 DEF Destroy, Idle, config
  <2>2. CASE ~m_hasPendingEmission
    BY <1>6, <2>2 DEF Destroy, StackInv, Leading, Idle, config
  <2>. QED
    BY <2>1, <2>2
<1>7. CASE SetTimeout \/ Tick \/ UNCHANGED vars
  BY <1>7 DEF SetTimeout, Tick, vars, config, StackInv, Leading
<1>. QED
  BY <1>2, <1>3, <1>4, <1>5, <1>6, <1>7 DEF Next

-----------------------------------------------------------------------------
(* When the timer runs. *)

LEMMA ArmInvInit == Init => ArmInv
BY DEF Init, ArmInv, AtEmit, Idle

LEMMA ArmInvStep == TypeOK /\ StackInv /\ ArmInv /\ [Next]_vars => ArmInv'
<1> SUFFICES ASSUME TypeOK, StackInv, ArmInv, [Next]_vars
             PROVE  ArmInv'
  OBVIOUS
<1>0. stack \in Seq(Frames) /\ Len(stack) \in Nat
  BY DEF TypeOK
<1>a. stack # <<>> => (Outer = "dtor" => alive = "dying")
  BY DEF StackInv, Outer, TypeOK
<1> USE DEF ArmInv, config, timer
<1>1. CASE Throttle
  <2>1. m_hasPendingEmission' /\ m_emissionPolicy' = m_emissionPolicy /\ alive' = alive
    BY <1>1 DEF Throttle
  <2>2. CASE Leading /\ ~active
    <3>1. AtEmit' /\ Top'.fn = "throttle" /\ active' = active
      BY <1>0, <1>1, <2>2, AfterPush DEF Throttle
    <3>2. Outer' = IF stack = <<>> THEN "throttle" ELSE Outer
      BY <1>0, <1>1, <2>2, AfterPush DEF Throttle
    <3>. QED
      BY <2>1, <2>2, <3>1, <3>2 DEF Leading, Outer
  <2>3. CASE ~(Leading /\ ~active)
    <3>1. stack' = stack /\ active' /\ ~AtEmit
      BY <1>1, <2>3 DEF Throttle, StartTimer, Callable, InSlots, AtEmit
    <3>2. ~AtEmit'
      BY <3>1 DEF AtEmit, Idle, Top
    <3>. QED
      BY <2>1, <3>1, <3>2 DEF Leading
  <2>. QED
    BY <2>2, <2>3
<1>2. CASE Emit
  <2>1. /\ stack' # <<>> /\ ~AtEmit' /\ AtEmit /\ Outer' = Outer /\ stack # <<>>
    BY <1>0, <1>2, AfterEmit
  <2>2. /\ ~m_hasPendingEmission' /\ active' = active
        /\ m_emissionPolicy' = m_emissionPolicy /\ alive' = alive
    BY <1>2 DEF Emit
  <2>3. ~Leading /\ active /\ alive = "yes" => FALSE
    <3>1. alive = "yes" => Outer # "dtor"
      BY <2>1 DEF StackInv, Outer
    <3>. QED
      BY <1>0, <2>1, <3>1, InnerAndOuter
  <2>. QED
    BY <2>1, <2>2, <2>3 DEF Leading, Outer
<1>3. CASE Return
  <2>1. /\ ~AtEmit' /\ ~AtEmit
        /\ stack' # <<>> => Outer' = Outer /\ Top.fn = "throttle"
        /\ stack' = <<>> => Top.fn = Outer
        /\ stack # <<>>
    BY <1>0, <1>3, AfterPop DEF Return
  <2>2. /\ m_hasPendingEmission' = m_hasPendingEmission
        /\ m_emissionPolicy' = m_emissionPolicy
    BY <1>3 DEF Return
  <2>3. CASE Top.fn = "throttle"
    <3>1. active' /\ alive' = alive /\ Leading
      <4>1. Len(stack) \in 1..Len(stack)
        BY <1>0, <2>1
      <4>. QED
        BY <1>3, <2>3, <4>1 DEF Return, StartTimer, StackInv, Top
    <3>. QED
      BY <2>1, <2>2, <3>1 DEF Leading, Outer
  <2>4. CASE Top.fn = "timeout"
    BY <1>3, <2>1, <2>2, <2>4 DEF Return, Leading, Outer
  <2>5. CASE Top.fn = "dtor"
    BY <1>3, <2>1, <2>2, <2>5 DEF Return, StopTimer, Leading, Outer
  <2>. QED
    BY <1>3, <2>3, <2>4, <2>5, ReturnTop
<1>4. CASE Timeout
  <2>1. /\ active /\ alive = "yes" /\ alive' = alive /\ stack = <<>>
        /\ m_hasPendingEmission' = m_hasPendingEmission
        /\ m_emissionPolicy' = m_emissionPolicy
    BY <1>4 DEF Timeout, Idle
  <2>2. CASE m_hasPendingEmission
    <3>1. AtEmit' /\ Top'.fn = "timeout" /\ Outer' = "timeout"
      BY <1>0, <1>4, <2>1, <2>2, AfterPush DEF Timeout
    <3>2. active' <=> Leading
      BY <1>4, <2>1, <2>2 DEF Timeout, Rearm, StopTimer
    <3>. QED
      BY <2>1, <2>2, <3>1, <3>2 DEF Leading, Outer
  <2>3. CASE ~m_hasPendingEmission
    <3>1. ~active' /\ stack' = <<>>
      BY <1>4, <2>1, <2>3 DEF Timeout, StopTimer
    <3>. QED
      BY <2>1, <2>3, <3>1 DEF Leading, AtEmit, Idle
  <2>. QED
    BY <2>2, <2>3
<1>5. CASE Destroy
  <2>1. /\ stack = <<>> /\ m_hasPendingEmission' = m_hasPendingEmission
        /\ m_emissionPolicy' = m_emissionPolicy /\ alive = "yes"
    BY <1>5 DEF Destroy, Idle
  <2>2. CASE m_hasPendingEmission
    <3>1. AtEmit' /\ Top'.fn = "dtor" /\ Outer' = "dtor"
      BY <1>0, <1>5, <2>1, <2>2, AfterPush DEF Destroy
    <3>2. active' = active /\ alive' = "dying"
      BY <1>5, <2>2 DEF Destroy
    <3>. QED
      BY <2>1, <2>2, <3>1, <3>2 DEF Leading, Outer, AtEmit, Idle
  <2>3. CASE ~m_hasPendingEmission
    <3>1. ~active' /\ stack' = <<>> /\ alive' = "no"
      BY <1>5, <2>1, <2>3 DEF Destroy, StopTimer
    <3>. QED
      BY <2>1, <2>3, <3>1 DEF Leading, AtEmit, Idle
  <2>. QED
    BY <2>2, <2>3
<1>6. CASE SetTimeout \/ Tick \/ UNCHANGED vars
  <2>1. /\ stack' = stack /\ m_hasPendingEmission' = m_hasPendingEmission
        /\ active' = active /\ alive' = alive /\ m_emissionPolicy' = m_emissionPolicy
    BY <1>6 DEF SetTimeout, Tick, vars
  <2>. QED
    BY <2>1 DEF AtEmit, Idle, Top, Leading
<1>. QED
  BY <1>1, <1>2, <1>3, <1>4, <1>5, <1>6 DEF Next

-----------------------------------------------------------------------------
(* How far the ages have got. *)

LEMMA SpacingInvInit == Init => SpacingInv
BY ThrottlerAssumption DEF Init, SpacingInv, AtEmit, Idle, Slack

LEMMA SpacingInvStep ==
  TypeOK /\ StackInv /\ ArmInv /\ SpacingInv /\ [Next]_vars => SpacingInv'
<1> SUFFICES ASSUME TypeOK, StackInv, ArmInv, SpacingInv, [Next]_vars
             PROVE  SpacingInv'
  OBVIOUS
<1>0. /\ stack \in Seq(Frames) /\ Len(stack) \in Nat
      /\ interval \in Nat /\ floor \in Nat /\ floor <= Cap /\ interval <= Cap
      /\ left \in Int /\ -Late <= left /\ since \in Nat /\ since <= Cap
      /\ Early \in Nat /\ Late \in Nat /\ Cap \in Nat
  BY ThrottlerAssumption DEF TypeOK
<1>a. StartTimer => /\ interval' = interval /\ active'
                    /\ (left' = interval \/ (active /\ left' = left))
  <2>1. CASE m_kind = "Debouncer" \/ ~active
    BY <2>1 DEF StartTimer
  <2>2. CASE ~(m_kind = "Debouncer" \/ ~active)
    BY <2>2 DEF StartTimer, timer
  <2>. QED
    BY <2>1, <2>2
<1>1. CASE Throttle
  <2>1. /\ since' = since /\ floor' = floor /\ alive' = alive
        /\ m_emissionPolicy' = m_emissionPolicy
    BY <1>1 DEF Throttle, config
  <2>2. CASE Leading /\ ~active
    <3>1. /\ AtEmit' /\ Top'.fn = "throttle" /\ Len(stack') = Len(stack) + 1
          /\ stack' # <<>> /\ interval' = interval /\ left' = left /\ active' = active
      BY <1>0, <1>1, <2>2, AfterPush DEF Throttle, timer
    <3>2. Len(stack') = 1 => stack = <<>>
      <4>1. stack # <<>> => Len(stack) \in Nat \ {0}
        BY <1>0, NonEmptyStack
      <4>2. \A n \in Nat \ {0} : n + 1 # 1
        OBVIOUS
      <4>3. stack # <<>> => Len(stack') # 1
        BY <3>1, <4>1, <4>2
      <4>. QED
        BY <4>3
    <3>. QED
      BY <1>0, <2>1, <2>2, <3>1, <3>2 DEF SpacingInv, Leading, Slack
  <2>3. CASE ~(Leading /\ ~active)
    <3>1. /\ stack' = stack /\ active' /\ ~AtEmit /\ interval' = interval
          /\ (left' = interval \/ (active /\ left' = left))
      BY <1>1, <1>a, <2>3 DEF Throttle, Callable, InSlots, AtEmit
    <3>2. ~AtEmit'
      BY <3>1 DEF AtEmit, Idle, Top
    <3>. QED
      BY <1>0, <2>1, <2>3, <3>1, <3>2 DEF SpacingInv, Leading, Slack
  <2>. QED
    BY <2>2, <2>3
<1>2. CASE Emit
  <2>1. /\ stack' # <<>> /\ ~AtEmit' /\ AtEmit /\ stack # <<>>
    BY <1>0, <1>2, AfterEmit
  <2>2. /\ since' = 0 /\ floor' = interval /\ interval' = interval /\ left' = left
        /\ m_emissionPolicy' = m_emissionPolicy /\ alive' = alive /\ active' = active
    BY <1>2 DEF Emit, config, timer
  <2>3. alive = "yes" /\ active => Leading /\ Top.fn = "timeout"
    <3>1. alive = "yes" => Outer # "dtor"
      BY <2>1 DEF StackInv, Outer
    <3>. QED
      BY <1>0, <2>1, <3>1, InnerAndOuter DEF ArmInv
  <2>. QED
    BY <1>0, <2>1, <2>2, <2>3 DEF SpacingInv, Leading
<1>3. CASE Return
  <2>1. /\ ~AtEmit' /\ stack # <<>>
        /\ stack' = <<>> => Top.fn = Outer
    BY <1>0, <1>3, AfterPop DEF Return
  <2>2. /\ m_emissionPolicy' = m_emissionPolicy /\ since' = since /\ floor' = floor
    BY <1>3 DEF Return, config, ages
  <2>3. CASE Top.fn = "throttle"
    <3>1. /\ active' /\ alive' = alive /\ interval' = interval
          /\ (left' = interval \/ (active /\ left' = left))
      BY <1>3, <1>a, <2>3 DEF Return
    <3>. QED
      BY <1>0, <2>1, <2>2, <3>1 DEF SpacingInv, Leading
  <2>4. CASE Top.fn = "timeout"
    <3>1. active' = active /\ alive' = alive /\ interval' = interval /\ left' = left
      BY <1>3, <2>4 DEF Return, timer
    <3>2. stack' = <<>> => (Leading => active)
      BY <2>1, <2>4 DEF ArmInv, Outer
    <3>. QED
      BY <1>0, <2>1, <2>2, <3>1, <3>2 DEF SpacingInv, Leading
  <2>5. CASE Top.fn = "dtor"
    <3>1. alive' = "no" /\ interval' = interval
      BY <1>3, <2>5 DEF Return, StopTimer
    <3>. QED
      BY <2>1, <2>2, <3>1 DEF SpacingInv
  <2>. QED
    BY <1>3, <2>3, <2>4, <2>5, ReturnTop
<1>4. CASE Timeout
  <2>1. /\ active /\ left <= Early /\ alive = "yes" /\ alive' = alive /\ stack = <<>>
        /\ since' = since /\ floor' = floor /\ m_emissionPolicy' = m_emissionPolicy
    BY <1>4 DEF Timeout, Idle, config, ages
  <2>2. since >= floor - Slack
    BY <1>0, <2>1 DEF SpacingInv, Slack
  <2>3. CASE m_hasPendingEmission
    <3>1. AtEmit' /\ Top'.fn = "timeout" /\ stack' # <<>> /\ Rearm
      BY <1>0, <1>4, <2>1, <2>3, AfterPush DEF Timeout
    <3>2. CASE Leading
      <4>1. /\ interval' = interval /\ active' = active /\ left' \in Int
            /\ left' >= interval - Late /\ left' >= left
        BY <1>0, <3>1, <3>2 DEF Rearm
      <4>2. since = Cap \/ since + left' >= floor - Late
        <5>1. since = Cap \/ since + left >= floor - Late
          BY <2>1, <3>2 DEF SpacingInv
        <5>2. CASE since = Cap
          BY <5>2
        <5>3. CASE since + left >= floor - Late
          <6>1. \A a, b, c, d, e \in Int : a + b >= d - e /\ c >= b => a + c >= d - e
            OBVIOUS
          <6>2. since \in Int /\ floor \in Int /\ Late \in Int
            BY <1>0
          <6>. QED
            BY <1>0, <4>1, <5>3, <6>1, <6>2
        <5>. QED
          BY <5>1, <5>2, <5>3
      <4>3. Leading' /\ Slack' = Slack
        BY <2>1, <3>2 DEF Leading, Slack
      <4>4. floor <= interval
        BY DEF SpacingInv
      <4>. QED
        BY <1>0, <2>1, <2>2, <3>1, <4>1, <4>2, <4>3, <4>4 DEF SpacingInv
    <3>3. CASE ~Leading
      <4>1. interval' = interval /\ ~active'
        BY <3>1, <3>3 DEF Rearm, StopTimer
      <4>. QED
        BY <1>0, <2>1, <2>2, <3>1, <3>3, <4>1 DEF SpacingInv, Leading, Slack
    <3>. QED
      BY <3>2, <3>3
  <2>4. CASE ~m_hasPendingEmission
    <3>1. ~active' /\ stack' = <<>> /\ interval' = interval
      BY <1>4, <2>1, <2>4 DEF Timeout, StopTimer
    <3>2. ~AtEmit'
      BY <3>1 DEF AtEmit, Idle
    <3>. QED
      BY <1>0, <2>1, <2>2, <3>1, <3>2 DEF SpacingInv, Leading, Slack
  <2>. QED
    BY <2>3, <2>4
<1>5. CASE SetTimeout
  <2>1. PICK t \in Timeouts : /\ interval' = t
                              /\ left' = IF active THEN t ELSE left
                              /\ floor' = Least(floor, t)
    BY <1>5 DEF SetTimeout
  <2>2. t \in Nat
    BY <2>1, ThrottlerAssumption
  <2>3. /\ floor' \in Nat /\ floor' <= floor /\ floor' <= t
    BY <1>0, <2>1, <2>2 DEF Least
  <2>4. /\ stack' = stack /\ active' = active /\ alive' = alive /\ since' = since
        /\ m_emissionPolicy' = m_emissionPolicy /\ ~AtEmit
    BY <1>5 DEF SetTimeout, config, Callable, InSlots, AtEmit
  <2>5. ~AtEmit'
    BY <2>4 DEF AtEmit, Idle, Top
  <2>6. active => left' = t
    BY <2>1
  <2>. QED
    BY <1>0, <2>1, <2>2, <2>3, <2>4, <2>5, <2>6 DEF SpacingInv, Leading, Slack
<1>6. CASE Destroy
  <2>1. /\ alive' # "yes" /\ floor' = floor /\ interval' = interval
        /\ m_emissionPolicy' = m_emissionPolicy
    BY <1>6 DEF Destroy, StopTimer, config, timer, ages
  <2>2. AtEmit' => Top'.fn = "dtor"
    <3>1. CASE m_hasPendingEmission
      BY <1>0, <1>6, <3>1, AfterPush DEF Destroy
    <3>2. CASE ~m_hasPendingEmission
      BY <1>6, <3>2 DEF Destroy, AtEmit, Idle
    <3>. QED
      BY <3>1, <3>2
  <2>. QED
    BY <2>1, <2>2 DEF SpacingInv
<1>7. CASE Tick
  <2>1. /\ stack' = stack /\ active' = active /\ alive' = alive /\ floor' = floor
        /\ interval' = interval /\ m_emissionPolicy' = m_emissionPolicy /\ ~AtEmit
        /\ left' = IF active THEN left - 1 ELSE left
        /\ since' = IF since < Cap THEN since + 1 ELSE since
    BY <1>7 DEF Tick, config, Older
  <2>2. ~AtEmit'
    BY <2>1 DEF AtEmit, Idle, Top
  <2>3. since' \in Nat /\ since' >= since /\ (since' = Cap \/ since' = since + 1)
    BY <1>0, <2>1
  <2>4. active => left' = left - 1
    BY <2>1
  <2>. QED
    BY <1>0, <2>1, <2>2, <2>3, <2>4 DEF SpacingInv, Leading, Slack
<1>8. CASE UNCHANGED vars
  BY <1>8 DEF vars, config, timer, ages, SpacingInv, AtEmit, Idle, Top, Leading, Slack
<1>. QED
  BY <1>1, <1>2, <1>3, <1>4, <1>5, <1>6, <1>7, <1>8 DEF Next

LEMMA QuietInvInit == Init => QuietInv
BY ThrottlerAssumption DEF Init, QuietInv, AtEmit, Idle

LEMMA QuietInvStep ==
  TypeOK /\ StackInv /\ QuietInv /\ [Next]_vars => QuietInv'
<1> SUFFICES ASSUME TypeOK, StackInv, QuietInv, [Next]_vars, m_kind' = "Debouncer"
             PROVE  QuietInv'
  BY DEF QuietInv
<1>0. /\ stack \in Seq(Frames)
      /\ interval \in Nat /\ calm \in Nat /\ calm <= Cap /\ interval <= Cap
      /\ left \in Int /\ quiet \in Nat /\ quiet <= Cap
      /\ Early \in Nat /\ Cap \in Nat
  BY ThrottlerAssumption DEF TypeOK
<1>a. m_kind = "Debouncer"
  BY DEF Next, Throttle, Emit, Return, Timeout, SetTimeout, Destroy, Tick,
         vars, config
<1>b. /\ calm <= interval
      /\ m_hasPendingEmission /\ active /\ ~AtEmit
           => quiet = Cap \/ quiet + left >= calm
  BY <1>a DEF QuietInv
<1>c. StartTimer => interval' = interval /\ left' = interval
  BY <1>a DEF StartTimer
<1>1. CASE Throttle
  <2>1. quiet' = 0 /\ calm' = interval
    BY <1>1 DEF Throttle
  <2>2. CASE Leading /\ ~active
    <3>1. AtEmit' /\ Top'.fn = "throttle" /\ interval' = interval
      BY <1>0, <1>1, <2>2, AfterPush DEF Throttle, timer
    <3>. QED
      BY <1>0, <2>1, <3>1 DEF QuietInv
  <2>3. CASE ~(Leading /\ ~active)
    <3>1. stack' = stack /\ ~AtEmit /\ interval' = interval /\ left' = interval
      BY <1>1, <1>c, <2>3 DEF Throttle, Callable, InSlots, AtEmit
    <3>2. ~AtEmit'
      BY <3>1 DEF AtEmit, Idle, Top
    <3>. QED
      BY <1>0, <2>1, <3>1, <3>2 DEF QuietInv
  <2>. QED
    BY <2>2, <2>3
<1>2. CASE Emit
  <2>1. /\ ~AtEmit' /\ ~m_hasPendingEmission'
        /\ calm' = calm /\ interval' = interval
    BY <1>0, <1>2, AfterEmit DEF Emit, timer
  <2>. QED
    BY <1>b, <2>1 DEF QuietInv
<1>3. CASE Return
  <2>1. /\ ~AtEmit /\ ~AtEmit'
        /\ quiet' = quiet /\ calm' = calm
        /\ m_hasPendingEmission' = m_hasPendingEmission
    BY <1>0, <1>3, AfterPop DEF Return, ages
  <2>2. CASE Top.fn = "throttle"
    <3>1. interval' = interval /\ left' = interval
      BY <1>3, <1>c, <2>2 DEF Return
    <3>. QED
      BY <1>0, <1>b, <2>1, <3>1 DEF QuietInv
  <2>3. CASE Top.fn = "timeout"
    <3>1. interval' = interval /\ left' = left /\ active' = active
      BY <1>3, <2>3 DEF Return, timer
    <3>. QED
      BY <1>b, <2>1, <3>1 DEF QuietInv
  <2>4. CASE Top.fn = "dtor"
    <3>1. interval' = interval /\ ~active'
      BY <1>3, <2>4 DEF Return, StopTimer
    <3>. QED
      BY <1>b, <2>1, <3>1 DEF QuietInv
  <2>. QED
    BY <1>3, <2>2, <2>3, <2>4, ReturnTop
<1>4. CASE Timeout
  <2>1. /\ active /\ left <= Early /\ stack = <<>>
        /\ quiet' = quiet /\ calm' = calm
        /\ m_hasPendingEmission' = m_hasPendingEmission
    BY <1>4 DEF Timeout, Idle, ages
  <2>2. CASE m_hasPendingEmission
    <3>1. AtEmit' /\ interval' = interval
      BY <1>0, <1>4, <2>1, <2>2, AfterPush
      DEF Timeout, Rearm, StopTimer
    <3>2. quiet >= calm - Early
      <4>1. quiet = Cap \/ quiet + left >= calm
        BY <1>b, <2>1, <2>2 DEF AtEmit, Idle
      <4>2. CASE quiet = Cap
        BY <1>0, <4>2
      <4>3. CASE quiet + left >= calm
        BY <1>0, <2>1, <4>3
      <4>. QED
        BY <4>1, <4>2, <4>3
    <3>. QED
      BY <1>b, <2>1, <3>1, <3>2 DEF QuietInv
  <2>3. CASE ~m_hasPendingEmission
    <3>1. ~active' /\ stack' = <<>> /\ interval' = interval
      BY <1>4, <2>1, <2>3 DEF Timeout, StopTimer
    <3>. QED
      BY <1>b, <2>1, <3>1 DEF QuietInv, AtEmit, Idle
  <2>. QED
    BY <2>2, <2>3
<1>5. CASE SetTimeout
  <2>1. PICK t \in Timeouts : /\ interval' = t
                              /\ left' = IF active THEN t ELSE left
                              /\ calm' = Least(calm, t)
    BY <1>5 DEF SetTimeout
  <2>2. t \in Nat /\ calm' \in Nat /\ calm' <= t
    BY <1>0, <2>1, ThrottlerAssumption DEF Least
  <2>3. stack' = stack /\ active' = active /\ quiet' = quiet /\ ~AtEmit
    BY <1>5 DEF SetTimeout, Callable, InSlots, AtEmit
  <2>4. ~AtEmit'
    BY <2>3 DEF AtEmit, Idle, Top
  <2>5. active => left' = t
    BY <2>1
  <2>. QED
    BY <1>0, <2>1, <2>2, <2>3, <2>4, <2>5 DEF QuietInv
<1>6. CASE Destroy
  <2>1. interval' = interval /\ calm' = calm
    BY <1>6 DEF Destroy, StopTimer, timer, ages
  <2>2. CASE m_hasPendingEmission
    <3>1. AtEmit' /\ Top'.fn = "dtor"
      BY <1>0, <1>6, <2>2, AfterPush DEF Destroy
    <3>. QED
      BY <1>b, <2>1, <3>1 DEF QuietInv
  <2>3. CASE ~m_hasPendingEmission
    <3>1. ~active' /\ ~AtEmit'
      BY <1>6, <2>3 DEF Destroy, StopTimer, AtEmit, Idle
    <3>. QED
      BY <1>b, <2>1, <3>1 DEF QuietInv
  <2>. QED
    BY <2>2, <2>3
<1>7. CASE Tick
  <2>1. /\ stack' = stack /\ active' = active /\ calm' = calm /\ ~AtEmit
        /\ interval' = interval /\ m_hasPendingEmission' = m_hasPendingEmission
        /\ left' = IF active THEN left - 1 ELSE left
        /\ quiet' = IF quiet < Cap THEN quiet + 1 ELSE quiet
    BY <1>7 DEF Tick, Older
  <2>2. ~AtEmit'
    BY <2>1 DEF AtEmit, Idle, Top
  <2>3. quiet' = Cap \/ quiet' = quiet + 1
    BY <1>0, <2>1
  <2>4. active => left' = left - 1
    BY <2>1
  <2>. QED
    BY <1>0, <1>b, <2>1, <2>2, <2>3, <2>4 DEF QuietInv
<1>8. CASE UNCHANGED vars
  BY <1>8 DEF vars, config, timer, ages, QuietInv, AtEmit, Idle, Top
<1>. QED
  BY <1>1, <1>2, <1>3, <1>4, <1>5, <1>6, <1>7, <1>8 DEF Next
-----------------------------------------------------------------------------
(* The theorems. *)

\* The inductive invariant holds of every reachable state.
THEOREM InvCorrect == Spec => []IInv
<1>1. Init => IInv
  BY TypeInit, StackInvInit, ArmInvInit, SpacingInvInit, QuietInvInit DEF IInv
<1>2. IInv /\ [Next]_vars => IInv'
  BY TypeStep, StackInvStep, ArmInvStep, SpacingInvStep, QuietInvStep DEF IInv
<1>. QED
  BY <1>1, <1>2, PTL DEF Spec

\* No lost wakeup: a pending emission always has a running timer or is just
\* being emitted, whatever the slots call (lines 86-133).
THEOREM ThrottlerPendingIsArmed == Spec => []PendingIsArmed
<1>1. IInv => PendingIsArmed
  BY DEF IInv, ArmInv, PendingIsArmed
<1>. QED
  BY <1>1, InvCorrect, PTL

\* Trailing objects never keep an idle timer (lines 30-36, 103-115).
THEOREM ThrottlerTrailingTimerHasWork == Spec => []TrailingTimerHasWork
<1>1. IInv => TrailingTimerHasWork
  BY DEF IInv, ArmInv, TrailingTimerHasWork
<1>. QED
  BY <1>1, InvCorrect, PTL

\* Both together.
THEOREM ThrottlerTimerHasWork == Spec => []TimerHasWork
<1>1. PendingIsArmed /\ TrailingTimerHasWork => TimerHasWork
  BY DEF TimerHasWork
<1>. QED
  BY <1>1, ThrottlerPendingIsArmed, ThrottlerTrailingTimerHasWork, PTL

\* The distance between two emissions, for every set of intervals and every
\* tolerance of the timer (lines 60-133).
THEOREM ThrottlerSpacing == Spec => []Spacing
<1>1. IInv => Spacing
  <2> SUFFICES ASSUME IInv, AtEmit, Top.fn # "dtor", ~Nested
               PROVE  since >= floor - Slack
    BY DEF Spacing
  <2>1. stack \in Seq(Frames) /\ stack # <<>> /\ StackInv /\ TypeOK
    BY DEF IInv, TypeOK, AtEmit, Idle
  <2>2. Len(stack) = 1
    <3>1. \A n \in Nat \ {0} : ~(n > 1) => n = 1
      OBVIOUS
    <3>. QED
      BY <2>1, <3>1, NonEmptyStack DEF Nested
  <2>3. alive = "yes"
    <3>1. Outer # "dtor" /\ stack # <<>>
      BY <2>1, <2>2, InnerAndOuter
    <3>. QED
      BY <2>1, <3>1 DEF TypeOK, StackInv, Outer
  <2>. QED
    BY <2>2, <2>3 DEF IInv, SpacingInv
<1>. QED
  BY <1>1, InvCorrect, PTL

\* A debouncer that its timer makes emit has been left alone for a whole quiet
\* period (lines 103-126).
THEOREM ThrottlerDebounced == Spec => []Debounced
<1>1. IInv => Debounced
  BY DEF IInv, QuietInv, Debounced
<1>. QED
  BY <1>1, InvCorrect, PTL
-----------------------------------------------------------------------------
(* The refinement. *)

LEMMA RunningNow ==
  ASSUME stack \in Seq(Frames)
  PROVE  /\ Running \in Nat
         /\ AtEmit => stack # <<>> /\ Running = Len(stack) - 1
         /\ InSlots => stack # <<>> /\ Running = Len(stack) /\ Running > 0
         /\ stack = <<>> => Running = 0
<1>1. AtEmit \/ InSlots => stack # <<>>
  BY DEF AtEmit, InSlots, Idle
<1>2. stack # <<>> => Len(stack) \in Nat \ {0}
  BY NonEmptyStack
<1>3. stack = <<>> => Len(stack) = 0 /\ ~AtEmit
  BY DEF AtEmit, Idle
<1>4. InSlots => ~AtEmit
  BY DEF InSlots, AtEmit
<1>. QED
  BY <1>1, <1>2, <1>3, <1>4 DEF Running

LEMMA RefineInit == Init => Limiter!LimiterInit
<1>1. Init => ~AtEmit /\ Len(stack) = 0
  BY DEF Init, AtEmit, Idle
<1>. QED
  BY <1>1, ThrottlerAssumption DEF Init, Limiter!LimiterInit, Running

LEMMA RefineStep ==
  IInv /\ [Next]_vars => [Limiter!LimiterNext]_(Limiter!limiterVars)
<1> SUFFICES ASSUME IInv, [Next]_vars
             PROVE  Limiter!LimiterNext \/ UNCHANGED Limiter!limiterVars
  OBVIOUS
<1>0. /\ stack \in Seq(Frames) /\ Len(stack) \in Nat
      /\ TypeOK /\ StackInv /\ ArmInv /\ SpacingInv
  BY DEF IInv, TypeOK
<1>1. CASE Throttle
  <2>1. alive = "yes" \/ Running > 0
    BY <1>0, <1>1, RunningNow DEF Throttle, Callable
  <2>2. Running' = Running
    <3>1. ~AtEmit
      BY <1>1 DEF Throttle, Callable, InSlots, AtEmit
    <3>2. CASE Leading /\ ~active
      <4>1. AtEmit' /\ Len(stack') = Len(stack) + 1
        BY <1>0, <1>1, <3>2, AfterPush DEF Throttle
      <4>. QED
        BY <1>0, <3>1, <4>1 DEF Running
    <3>3. CASE ~(Leading /\ ~active)
      <4>1. stack' = stack
        BY <1>1, <3>3 DEF Throttle
      <4>. QED
        BY <4>1 DEF Running, AtEmit, Idle, Top
    <3>. QED
      BY <3>2, <3>3
  <2>3. /\ m_hasPendingEmission' = TRUE /\ alive' = alive /\ interval' = interval
        /\ since' = since /\ floor' = floor
    BY <1>1 DEF Throttle, StartTimer, timer
  <2>. QED
    BY <2>1, <2>2, <2>3 DEF Limiter!LimiterNext, Limiter!Request
<1>2. CASE Emit
  <2>1. /\ AtEmit /\ ~AtEmit' /\ Len(stack') = Len(stack) /\ stack # <<>>
    BY <1>0, <1>2, AfterEmit
  <2>2. Running' = Running + 1
    BY <1>0, <2>1 DEF Running
  <2>3. /\ m_hasPendingEmission' = FALSE /\ alive' = alive /\ interval' = interval
        /\ since' = 0 /\ floor' = interval
    BY <1>2 DEF Emit, timer
  <2>4. m_hasPendingEmission
    BY <1>0, <2>1 DEF ArmInv
  <2>5. Limiter!Answer
    BY <2>2, <2>3, <2>4 DEF Limiter!Answer
  <2>6. CASE alive = "yes"
    <3>1. CASE Len(stack) = 1
      <4>1. since >= floor - Slack
        BY <1>0, <2>1, <2>6, <3>1 DEF SpacingInv
      <4>2. since >= floor - (Early + Late)
        <5>1. since \in Int /\ floor \in Int /\ Early \in Nat /\ Late \in Nat
          BY <1>0, ThrottlerAssumption DEF TypeOK
        <5>. QED
          BY <4>1, <5>1 DEF Slack
      <4>. QED
        BY <2>5, <2>6, <4>2 DEF Limiter!LimiterNext, Limiter!Activate
    <3>2. CASE Len(stack) # 1
      <4>1. Running > 0
        <5>1. Len(stack) \in Nat \ {0}
          BY <1>0, <2>1, NonEmptyStack
        <5>. QED
          BY <2>1, <3>2, <5>1 DEF Running
      <4>. QED
        BY <2>5, <2>6, <4>1 DEF Limiter!LimiterNext, Limiter!Activate
    <3>. QED
      BY <3>1, <3>2
  <2>7. CASE alive # "yes"
    BY <2>5, <2>7 DEF Limiter!LimiterNext, Limiter!Flush
  <2>. QED
    BY <2>6, <2>7
<1>3. CASE Return
  <2>1. /\ ~AtEmit /\ ~AtEmit' /\ Len(stack') = Len(stack) - 1 /\ stack # <<>>
    BY <1>0, <1>3, AfterPop DEF Return
  <2>2. Running' = Running - 1 /\ Running > 0
    <3>1. Running > 0
      BY <1>0, <1>3, RunningNow DEF Return
    <3>. QED
      BY <1>0, <2>1, <3>1 DEF Running
  <2>3. /\ m_hasPendingEmission' = m_hasPendingEmission
        /\ since' = since /\ floor' = floor
    BY <1>3 DEF Return, ages
  <2>4. interval' = interval
    BY <1>3, <1>0, ReturnTop DEF Return, StartTimer, StopTimer, timer
  <2>5. (alive = "yes") = (alive' = "yes")
    <3>1. CASE Top.fn # "dtor"
      BY <1>0, <1>3, <3>1, ReturnTop DEF Return
    <3>2. CASE Top.fn = "dtor"
      <4>1. alive' = "no"
        BY <1>3, <3>2 DEF Return
      <4>2. alive # "yes"
        BY <1>0, <2>1, <3>2, InnerAndOuter DEF StackInv, Outer
      <4>. QED
        BY <4>1, <4>2
    <3>. QED
      BY <3>1, <3>2
  <2>. QED
    BY <2>2, <2>3, <2>4, <2>5 DEF Limiter!LimiterNext, Limiter!Finish
<1>4. CASE Timeout
  <2>1. Running' = Running
    <3>1. stack = <<>> /\ Running = 0
      BY <1>0, <1>4, RunningNow DEF Timeout, Idle
    <3>2. CASE m_hasPendingEmission
      <4>1. AtEmit' /\ Len(stack') = 1
        BY <1>0, <1>4, <3>1, <3>2, AfterPush DEF Timeout
      <4>. QED
        BY <3>1, <4>1 DEF Running
    <3>3. CASE ~m_hasPendingEmission
      <4>1. stack' = stack
        BY <1>4, <3>3 DEF Timeout
      <4>. QED
        BY <4>1 DEF Running, AtEmit, Idle, Top
    <3>. QED
      BY <3>2, <3>3
  <2>2. /\ m_hasPendingEmission' = m_hasPendingEmission /\ alive' = alive
        /\ since' = since /\ floor' = floor
    BY <1>4 DEF Timeout, ages
  <2>3. interval' = interval
    BY <1>4 DEF Timeout, Rearm, StopTimer
  <2>. QED
    BY <2>1, <2>2, <2>3 DEF Limiter!limiterVars
<1>5. CASE SetTimeout
  <2>1. alive = "yes" \/ Running > 0
    BY <1>0, <1>5, RunningNow DEF SetTimeout, Callable
  <2>2. stack' = stack /\ alive' = alive /\ since' = since
        /\ m_hasPendingEmission' = m_hasPendingEmission
    BY <1>5 DEF SetTimeout
  <2>3. Running' = Running
    BY <2>2 DEF Running, AtEmit, Idle, Top
  <2>4. /\ interval' \in Timeouts
        /\ floor' = IF interval' < floor THEN interval' ELSE floor
    <3>1. PICK t \in Timeouts : interval' = t /\ floor' = Least(floor, t)
      BY <1>5 DEF SetTimeout
    <3>2. t \in Nat /\ floor \in Nat
      BY <1>0, <3>1, ThrottlerAssumption DEF TypeOK
    <3>. QED
      BY <3>1, <3>2 DEF Least
  <2>. QED
    BY <2>1, <2>2, <2>3, <2>4 DEF Limiter!LimiterNext, Limiter!Configure
<1>6. CASE Destroy
  <2>1. Running = 0 /\ Running' = 0
    <3>1. stack = <<>> /\ Running = 0
      BY <1>0, <1>6, RunningNow DEF Destroy, Idle
    <3>2. CASE m_hasPendingEmission
      <4>1. AtEmit' /\ Len(stack') = 1
        BY <1>0, <1>6, <3>1, <3>2, AfterPush DEF Destroy
      <4>. QED
        BY <3>1, <4>1 DEF Running
    <3>3. CASE ~m_hasPendingEmission
      <4>1. stack' = stack
        BY <1>6, <3>3 DEF Destroy
      <4>. QED
        BY <3>1, <4>1 DEF Running, AtEmit, Idle, Top
    <3>. QED
      BY <3>1, <3>2, <3>3
  <2>2. /\ m_hasPendingEmission' = m_hasPendingEmission
        /\ alive = "yes" /\ alive' # "yes"
        /\ since' = since /\ floor' = floor /\ interval' = interval
    BY <1>6 DEF Destroy, StopTimer, timer, ages
  <2>. QED
    BY <2>1, <2>2 DEF Limiter!LimiterNext, Limiter!Close
<1>7. CASE Tick
  <2>1. /\ stack' = stack /\ alive' = alive /\ floor' = floor /\ interval' = interval
        /\ m_hasPendingEmission' = m_hasPendingEmission
        /\ since' = IF since < Cap THEN since + 1 ELSE since
    BY <1>7 DEF Tick, Older
  <2>2. Running' = Running
    BY <2>1 DEF Running, AtEmit, Idle, Top
  <2>. QED
    BY <2>1, <2>2 DEF Limiter!LimiterNext, Limiter!Age
<1>8. CASE UNCHANGED vars
  BY <1>8 DEF vars, config, timer, ages, Running, AtEmit, Idle, Top,
              Limiter!limiterVars
<1>. QED
  BY <1>1, <1>2, <1>3, <1>4, <1>5, <1>6, <1>7, <1>8 DEF Next

\* Every behaviour of the throttler is one RateLimiter allows: requests
\* coalesce, activations keep their distance, the destructor flushes, and the
\* timer, its early, late and repeated timeouts are invisible (lines 15-163).
THEOREM ThrottlerLimitsRate == Spec => LimitsRate
BY RefineInit, RefineStep, InvCorrect, PTL
   DEF Spec, LimitsRate, Limiter!LimiterSpec
=============================================================================
