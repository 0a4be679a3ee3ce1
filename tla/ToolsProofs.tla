----------------------------- MODULE ToolsProofs -----------------------------
(***************************************************************************)
(* What UiWatchdog guarantees for any frequency, any time that the UI      *)
(* thread may be blocked, and however late the threads are; and what       *)
(* setItemData(), StdVectorAdaptor, PropertySelector, the iterators over   *)
(* item models and QStringTokenizer do for any roles, elements, rules,     *)
(* trees and texts.                                                        *)
(***************************************************************************)
EXTENDS UiWatchdog, TableToListItemData, StdVectorAdaptor, PropertySelector, ModelIterator,
        StringTokenizer, ModelRowsProofs

-----------------------------------------------------------------------------
(* UiWatchdog *)

\* What a timer has left, and the values of the other variables.
Timers == Nat \cup {Off}

StateTypes ==
  /\ ui \in {"loop", "busy", "connecting", "waiting", "leaving", "gone", "aborted"}
  /\ thread \in {"none", "created", "setup", "loop", "reporting", "finished"}
  /\ connected \in BOOLEAN /\ quitting \in BOOLEAN /\ torn \in BOOLEAN /\ reported \in BOOLEAN
ClockTypes ==
  /\ maxTimeBlocked \in MaxTimes /\ frequency \in Frequencies \cup {Off}
  /\ untilBeat \in Timers /\ untilCheck \in Timers
  /\ elapsed \in Int /\ lag \in 0 .. MaxLag /\ waited \in 0 .. WaitTimeout /\ silent \in 0 .. MaxAge
TypeOK == StateTypes /\ ClockTypes

\* The timers of a thread that runs are its own, and stop before it.
Lifetimes ==
  /\ thread # "none" => frequency \in Frequencies
  /\ quitting => untilBeat = Off /\ ui \in {"waiting", "leaving", "aborted"}
  /\ ui \in {"waiting", "leaving"} => quitting
  /\ thread = "finished" => quitting
  /\ thread = "none" => untilBeat = Off /\ ~quitting
  /\ untilCheck # Off => thread \in {"loop", "reporting"}
  /\ thread \in {"created", "setup", "loop", "reporting"} /\ ~quitting => untilBeat # Off

\* The elapsed timer was started when the UI's event loop ran last, or earlier,
\* but not by more than a period; the next beat is due within one.
ElapsedFits ==
  untilCheck # Off /\ ~torn =>
    /\ elapsed >= silent /\ elapsed <= silent + frequency + Late
    /\ untilBeat \notin {Off, 0} => elapsed + untilBeat <= frequency + Late

\* The next check comes in time: after the time that may be blocked at the
\* latest, unless a report keeps it waiting.
CheckIsDue ==
  untilCheck # Off =>
    /\ untilCheck <= frequency + Late
    /\ thread = "reporting" /\ untilCheck # 0 => lag + untilCheck <= frequency + Late
    /\ ~torn /\ ~reported =>
         IF thread = "loop" THEN silent + untilCheck <= maxTimeBlocked + Larger(frequency + Late, MaxLag)
         ELSE silent <= lag

\* The invariant.
WatchdogInv == TypeOK /\ Lifetimes /\ ElapsedFits /\ CheckIsDue

\* The numbers that the clocks are compared with.
LEMMA Numbers ==
  /\ Late \in Nat /\ MaxLag \in Nat /\ MaxAge \in Nat /\ WaitTimeout \in Nat /\ Second \in Nat /\ Off \notin Int
  /\ \A f \in Frequencies : f \in Nat
  /\ \A m \in MaxTimes : m \in Nat
BY UiWatchdogAssumption

\* Nothing runs at first.
LEMMA WatchdogInvInit == Init => WatchdogInv
<1> SUFFICES ASSUME Init PROVE WatchdogInv
  OBVIOUS
<1> USE Numbers DEF Init
<1>1. StateTypes
  BY DEF StateTypes
<1>2. ClockTypes
  BY DEF ClockTypes, Timers
<1>3. Lifetimes
  BY DEF Lifetimes
<1>4. ElapsedFits /\ CheckIsDue
  BY DEF ElapsedFits, CheckIsDue
<1>. QED BY <1>1, <1>2, <1>3, <1>4 DEF WatchdogInv, TypeOK

\* Every step of either thread keeps its timers, and time does not pass where one
\* of them is to fire.
LEMMA WatchdogInvStep == WatchdogInv /\ [Next]_vars => WatchdogInv'
<1> SUFFICES ASSUME WatchdogInv, [Next]_vars PROVE WatchdogInv'
  OBVIOUS
<1> USE Numbers DEF WatchdogInv, TypeOK, StateTypes, ClockTypes, Timers, Lifetimes, ElapsedFits, CheckIsDue,
      Larger, Period, Heard, workerVars, shared, silence
<1>1. CASE Block
  BY <1>1 DEF Block
<1>2. CASE Resume
  <2> USE <1>2 DEF Resume
  <2>1. StateTypes'
    OBVIOUS
  <2>2. ClockTypes'
    OBVIOUS
  <2>3. Lifetimes'
    OBVIOUS
  <2>4. ElapsedFits'
    OBVIOUS
  <2>5. CheckIsDue'
    OBVIOUS
  <2>. QED BY <2>1, <2>2, <2>3, <2>4, <2>5 DEF WatchdogInv
<1>3. CASE Beat
  <2> USE <1>3 DEF Beat
  <2>1. StateTypes'
    OBVIOUS
  <2>2. ClockTypes'
    OBVIOUS
  <2>3. Lifetimes'
    OBVIOUS
  <2>4. ElapsedFits'
    OBVIOUS
  <2>5. CheckIsDue'
    OBVIOUS
  <2>. QED BY <2>1, <2>2, <2>3, <2>4, <2>5 DEF WatchdogInv
<1>4. CASE SetMaxTimeBlocked
  BY <1>4 DEF SetMaxTimeBlocked
<1>5. CASE Start
  BY <1>5 DEF Start
<1>6. CASE Connect
  BY <1>6 DEF Connect
<1>7. CASE Stop
  BY <1>7 DEF Stop
<1>8. CASE DestroyStopped
  BY <1>8 DEF DestroyStopped
<1>9. CASE Stopped
  BY <1>9 DEF Stopped
<1>10. CASE Started
  BY <1>10 DEF Started, uiVars
<1>11. CASE SetUp
  BY <1>11 DEF SetUp, uiVars
<1>12. CASE CheckUI
  <2> USE <1>12 DEF CheckUI, uiVars
  <2>1. StateTypes'
    OBVIOUS
  <2>2. ClockTypes'
    OBVIOUS
  <2>3. Lifetimes'
    OBVIOUS
  <2>4. ElapsedFits'
    OBVIOUS
  <2>5. CheckIsDue'
    OBVIOUS
  <2>. QED BY <2>1, <2>2, <2>3, <2>4, <2>5 DEF WatchdogInv
<1>13. CASE Reported
  <2> USE <1>13 DEF Reported, uiVars
  <2>1. StateTypes'
    OBVIOUS
  <2>2. ClockTypes'
    OBVIOUS
  <2>3. Lifetimes'
    OBVIOUS
  <2>4. ElapsedFits'
    OBVIOUS
  <2>5. CheckIsDue'
    OBVIOUS
  <2>. QED BY <2>1, <2>2, <2>3, <2>4, <2>5 DEF WatchdogInv
<1>14. CASE Finish
  BY <1>14 DEF Finish, uiVars
<1>15. CASE Tick
  <2> USE <1>15 DEF Tick, Lagging, Older, Sooner
  <2>1. StateTypes'
    OBVIOUS
  <2>2. ClockTypes'
    OBVIOUS
  <2>3. Lifetimes'
    OBVIOUS
  <2>4. ElapsedFits'
    OBVIOUS
  <2>5. CheckIsDue'
    OBVIOUS
  <2>. QED BY <2>1, <2>2, <2>3, <2>4, <2>5 DEF WatchdogInv
<1>16. CASE UNCHANGED vars
  BY <1>16 DEF vars, uiVars
<1>. QED BY <1>1, <1>2, <1>3, <1>4, <1>5, <1>6, <1>7, <1>8, <1>9, <1>10, <1>11, <1>12, <1>13, <1>14, <1>15, <1>16
         DEF Next, UiStep, WorkerStep, Aborted

\* The types hold.
THEOREM WatchdogTypeCorrect == Spec => []TypeOK
<1>1. WatchdogInv => TypeOK
  BY DEF WatchdogInv
<1>. QED BY <1>1, WatchdogInvInit, WatchdogInvStep, PTL DEF Spec

\* The UI thread's timer runs only while there is a worker, and a UI thread that
\* hangs for too long is reported while it hangs, whatever the frequency, the time
\* it may be blocked and the delays of the threads.
THEOREM WatchdogWorkerWatches == Spec => []WorkerWatches
<1>1. WatchdogInv => WorkerWatches
  <2> SUFFICES ASSUME WatchdogInv PROVE BeatHasWorker /\ Detected
    BY DEF WorkerWatches
  <2> USE Numbers DEF WatchdogInv, TypeOK, StateTypes, ClockTypes, Timers, Lifetimes
  <2>1. BeatHasWorker
    BY DEF BeatHasWorker
  <2>2. Detected
    BY DEF Detected, Overdue, CheckIsDue, Larger
  <2>. QED BY <2>1, <2>2
<1>. QED BY <1>1, WatchdogInvInit, WatchdogInvStep, PTL DEF Spec

\* A report is about a UI thread that did not beat in time.
THEOREM WatchdogJustified == Spec => Justified
<1>1. ASSUME WatchdogInv, [Next]_vars
      PROVE  [thread # "reporting" /\ thread' = "reporting" /\ ~torn =>
                silent + frequency + Late > maxTimeBlocked]_vars
  <2>1. SUFFICES ASSUME Next, thread # "reporting", thread' = "reporting", ~torn
                 PROVE  silent + frequency + Late > maxTimeBlocked
    BY <1>1
  <2>2. CheckUI
    BY <2>1 DEF Next, UiStep, WorkerStep, Aborted, vars, workerVars, Block, Resume, Beat, SetMaxTimeBlocked, Start,
                Connect, Stop, DestroyStopped, Stopped, Started, SetUp, Reported, Finish, Tick
  <2>. QED BY <1>1, <2>1, <2>2, Numbers DEF CheckUI, WatchdogInv, TypeOK, StateTypes, ClockTypes, Timers, Lifetimes, ElapsedFits
<1>. QED BY <1>1, WatchdogInvInit, WatchdogInvStep, PTL DEF Spec, Justified

\* Whoever waits for the thread has waited no longer than the thread has kept its event
\* loop waiting, or the thread has ended.
WaitsForLag == ui \in {"waiting", "leaving"} => waited <= lag \/ thread = "finished"

\* Time passes for both alike, and not in an event loop that has been asked to end.
LEMMA WaitsForLagStep == WatchdogInv /\ WaitsForLag /\ [Next]_vars => WaitsForLag'
<1> SUFFICES ASSUME WatchdogInv, WaitsForLag, [Next]_vars PROVE WaitsForLag'
  OBVIOUS
<1> USE Numbers DEF WaitsForLag, Lagging, WatchdogInv, TypeOK, StateTypes, ClockTypes, Timers, Lifetimes,
      workerVars, shared, silence
<1>1. CASE Block \/ Resume \/ Beat \/ SetMaxTimeBlocked \/ Start \/ Connect \/ DestroyStopped
  BY <1>1 DEF Block, Resume, Beat, SetMaxTimeBlocked, Start, Connect, DestroyStopped
<1>2. CASE Stop
  BY <1>2 DEF Stop
<1>3. CASE Stopped
  BY <1>3 DEF Stopped
<1>4. CASE Started
  BY <1>4 DEF Started, uiVars
<1>5. CASE SetUp
  BY <1>5 DEF SetUp, Period, uiVars
<1>6. CASE CheckUI
  BY <1>6 DEF CheckUI, uiVars
<1>7. CASE Reported \/ Finish
  BY <1>7 DEF Reported, Finish, uiVars
<1>8. CASE Tick
  BY <1>8 DEF Tick
<1>9. CASE UNCHANGED vars
  BY <1>9 DEF vars, uiVars
<1>. QED BY <1>1, <1>2, <1>3, <1>4, <1>5, <1>6, <1>7, <1>8, <1>9 DEF Next, UiStep, WorkerStep, Aborted

\* stop() and the destructor delete a thread that still runs, which aborts the program,
\* only if its event loop has been kept waiting for as long as they waited for it:
\* however long that is, wherever quit() found the thread, and however short the wait.
THEOREM WatchdogAbortsOnlyLate == Spec => AbortsOnlyLate
<1>1. Init => WaitsForLag
  BY DEF Init, WaitsForLag
<1>2. WatchdogInv /\ WaitsForLag /\ [Next]_vars =>
        [(ui \in {"waiting", "leaving"} /\ ui' = "aborted") => lag >= WaitTimeout]_vars
  <2> SUFFICES ASSUME WatchdogInv, WaitsForLag, Next, ui \in {"waiting", "leaving"}, ui' = "aborted"
               PROVE  lag >= WaitTimeout
    OBVIOUS
  <2>1. CASE Stopped
    <3>1. waited = WaitTimeout /\ thread # "finished"
      BY <2>1 DEF Stopped
    <3>2. waited <= lag
      BY <3>1 DEF WaitsForLag
    <3>. QED BY <3>1, <3>2, Numbers DEF WatchdogInv, TypeOK, ClockTypes
  <2>. QED BY <2>1 DEF Next, UiStep, WorkerStep, Block, Resume, Beat, SetMaxTimeBlocked, Start, Connect, Stop,
                 DestroyStopped, Started, SetUp, CheckUI, Reported, Finish, Tick, Aborted, vars, uiVars
<1>. QED BY <1>1, <1>2, WaitsForLagStep, WatchdogInvInit, WatchdogInvStep, PTL DEF Spec, AbortsOnlyLate

-----------------------------------------------------------------------------
(* TableToListItemData *)

\* Which of the roles that were asked for are anywhere, which are in one cell, and where.
Asked          == asked.roles \cap DOMAIN mappings
Together(q, r) == mappings[q].column = mappings[r].column /\ mappings[q].columnRole = mappings[r].columnRole
LastOf(r)      == Max({q \in Asked : Together(q, r)})
Placed(c, r)   == c[1] \in asked.of /\ c[2] = mappings[r].column /\ c[3] = mappings[r].columnRole

\* The types, and the invariant.
ItemTypeOK ==
  /\ order \in SetToSeqs(TableRows) /\ mappings \in Mappings
  /\ cells \in [Cells -> Nat]
  /\ call \in [row : DOMAIN order, left : SUBSET ItemRoles, ok : BOOLEAN]
  /\ asked \in [of : SUBSET TableRows, roles : SUBSET ItemRoles] /\ remapped \in BOOLEAN

\* What the row and the roles of a call are, unless roles are mapped anew under its hand.
AsAsked == order[call.row] \in asked.of /\ call.left \subseteq asked.roles

\* Values are where their roles are mapped to, once, and not written again.
InPlace     == \A c \in Cells : cells[c] # 0 => cells[c] \in Asked \ call.left /\ Placed(c, cells[c])
WrittenOnce == \A c, d \in Cells : cells[c] # 0 /\ cells[c] = cells[d] => c = d

\* While nothing has been refused a role is still to be written, with all others of its
\* column, or its cell has the last that belongs there.
ToCome ==
  /\ ~Returned => call.ok
  /\ call.ok => \A r \in Asked : r \in call.left \/ \E c \in Cells : Placed(c, r) /\ cells[c] = LastOf(r)
  /\ \A r \in call.left \cap Asked, q \in Asked : mappings[q].column = mappings[r].column => q \in call.left

ItemInv == ItemTypeOK /\ (~remapped => AsAsked /\ InPlace /\ WrittenOnce /\ ToCome)

\* Of some roles there is a first and a last.
LEMMA RolesRight ==
  ASSUME ItemDataAssumption, NEW R \in SUBSET ItemRoles, R # {}
  PROVE  Min(R) \in R /\ Max(R) \in R
<1>1. R \in SUBSET Nat /\ IsFiniteSet(R)
  BY FS_Subset DEF ItemDataAssumption
<1>2. PICK b \in Nat : \A i \in R : i <= b
  BY <1>1, FiniteSetIsBounded
<1>. QED BY <1>1, <1>2, MinRight, MaxRight

\* In whatever order, the rows are the same.
LEMMA RowsRight ==
  ASSUME ItemDataAssumption, NEW o \in SetToSeqs(TableRows)
  PROVE  /\ DOMAIN o = 1 .. Cardinality(TableRows) /\ 1 \in DOMAIN o
         /\ \A i \in DOMAIN o : o[i] \in TableRows
<1>1. PICK n : n = Cardinality(TableRows)
  OBVIOUS
<1>2. n \in Nat /\ n # 0
  BY <1>1, FS_CardinalityType, FS_EmptySet DEF ItemDataAssumption
<1>3. o \in [1 .. n -> TableRows]
  BY <1>1 DEF SetToSeqs
<1>. QED BY ONLY <1>1, <1>2, <1>3

\* What a mapping is.
LEMMA MappingRight ==
  ASSUME ItemDataAssumption, ItemTypeOK
  PROVE  /\ DOMAIN mappings \subseteq ItemRoles /\ \A r \in DOMAIN mappings : mappings[r].columnRole \in CellRoles
         /\ 0 \notin ItemRoles /\ ItemRoles \subseteq Nat
         /\ order[call.row] \in TableRows /\ Asked \subseteq ItemRoles
BY RowsRight DEF ItemDataAssumption, ItemTypeOK, Asked

\* At first nothing is asked for.
LEMMA ItemStarts ==
  ASSUME ItemDataAssumption, ItemDataInit
  PROVE  ItemInv
<1>1. order \in SetToSeqs(TableRows) /\ mappings \in Mappings
  BY DEF ItemDataInit
<1>2. 1 \in DOMAIN order /\ order[1] \in TableRows
  BY <1>1, RowsRight
<1>3. cells = [c \in Cells |-> 0] /\ call = [row |-> 1, left |-> {}, ok |-> FALSE] /\ remapped = FALSE
      /\ asked = [of |-> {order[1]}, roles |-> {}]
  BY DEF ItemDataInit, Untouched
<1>4. ItemTypeOK
  BY <1>1, <1>2, <1>3 DEF ItemTypeOK
<1>. QED BY <1>3, <1>4 DEF ItemInv, AsAsked, InPlace, WrittenOnce, ToCome, Returned, Asked

\* A call begins.
LEMMA AskKeeps ==
  ASSUME ItemDataAssumption, ItemInv, NEW row \in DOMAIN order, NEW roles \in SUBSET ItemRoles,
         NEW left, NEW valid \in BOOLEAN, Ask(row, roles, left, valid), left = roles \cap DOMAIN mappings \/ left = roles,
         left # {} => valid
  PROVE  ItemInv'
<1>1. /\ call' = [row |-> row, left |-> left, ok |-> valid] /\ asked' = [of |-> {order[row]}, roles |-> roles]
      /\ cells' = [c \in Cells |-> 0] /\ remapped' = FALSE /\ order' = order /\ mappings' = mappings
  BY DEF Ask, Untouched
<1>2. order \in SetToSeqs(TableRows) /\ mappings \in Mappings /\ order[row] \in TableRows
  BY RowsRight DEF ItemInv, ItemTypeOK
<1>3. left \subseteq roles
  OBVIOUS
<1>4. ItemTypeOK'
  <2>1. call' \in [row : DOMAIN order, left : SUBSET ItemRoles, ok : BOOLEAN]
    BY <1>1, <1>3
  <2>2. asked' \in [of : SUBSET TableRows, roles : SUBSET ItemRoles]
    BY <1>1, <1>2
  <2>3. cells' \in [Cells -> Nat]
    BY <1>1
  <2>. QED BY <1>1, <1>2, <2>1, <2>2, <2>3 DEF ItemTypeOK
<1>5. AsAsked' /\ InPlace' /\ WrittenOnce'
  BY <1>1, <1>3 DEF AsAsked, InPlace, WrittenOnce
<1>6. Asked' = roles \cap DOMAIN mappings /\ Asked' \subseteq left
  BY <1>1 DEF Asked
<1>7. ToCome'
  <2>1. call'.left = left /\ call'.ok = valid
    BY <1>1
  <2>. QED BY <1>6, <2>1 DEF ToCome, Returned
<1>. QED BY <1>4, <1>5, <1>7 DEF ItemInv

\* None of the roles that are left is mapped.
LEMMA NoneMappedKeeps ==
  ASSUME ItemDataAssumption, ItemInv, NoneMapped
  PROVE  ItemInv'
<1>1. /\ call' = [call EXCEPT !.left = {}] /\ order' = order /\ mappings' = mappings /\ cells' = cells
      /\ asked' = asked /\ remapped' = remapped /\ call.left \cap DOMAIN mappings = {}
  BY DEF NoneMapped
<1>2. call'.row = call.row /\ call'.left = {} /\ call'.ok = call.ok
      /\ call' \in [row : DOMAIN order, left : SUBSET ItemRoles, ok : BOOLEAN]
  BY <1>1 DEF ItemInv, ItemTypeOK
<1>3. ItemTypeOK'
  BY <1>1, <1>2 DEF ItemInv, ItemTypeOK
<1>4. ASSUME ~remapped PROVE AsAsked' /\ InPlace' /\ WrittenOnce' /\ ToCome'
  <2>1. AsAsked /\ InPlace /\ WrittenOnce /\ ToCome
    BY <1>4 DEF ItemInv
  <2>2. Asked' = Asked /\ (\A r : LastOf(r)' = LastOf(r)) /\ \A c, r : Placed(c, r)' <=> Placed(c, r)
    BY <1>1, Zenon DEF Asked, Together, LastOf, Placed
  <2>3. AsAsked'
    BY <1>1, <1>2, <2>1 DEF AsAsked
  <2>4. InPlace' /\ WrittenOnce'
    BY <1>1, <1>2, <2>1, <2>2 DEF InPlace, WrittenOnce
  <2>5. ToCome'
    <3>1. \A r \in Asked : r \notin call.left
      BY <1>1 DEF Asked
    <3>. QED BY <1>1, <1>2, <2>1, <2>2, <3>1 DEF ToCome, Returned
  <2>. QED BY <2>3, <2>4, <2>5
<1>. QED BY <1>1, <1>3, <1>4 DEF ItemInv

\* Rows move, or roles are mapped anew.
LEMMA DisturbKeeps ==
  ASSUME ItemDataAssumption, ItemInv, Disturb
  PROVE  ItemInv'
<1>1. ItemTypeOK /\ cells' = cells /\ call' = call
  BY DEF Disturb, ItemInv
<1>2. CASE mappings' \in Mappings /\ remapped' = TRUE /\ order' = order /\ asked' = asked
  BY <1>1, <1>2 DEF ItemInv, ItemTypeOK
<1>3. CASE order' \in SetToSeqs(TableRows) /\ asked' = [asked EXCEPT !.of = @ \cup {order'[call.row]}]
           /\ mappings' = mappings /\ remapped' = remapped
  <2>1. DOMAIN order' = DOMAIN order /\ \A i \in DOMAIN order : order'[i] \in TableRows
    BY <1>1, <1>3, RowsRight DEF ItemTypeOK
  <2>2. call.row \in DOMAIN order
    BY <1>1 DEF ItemTypeOK
  <2>3. asked'.of = asked.of \cup {order'[call.row]} /\ asked'.roles = asked.roles
        /\ asked' \in [of : SUBSET TableRows, roles : SUBSET ItemRoles]
    BY <1>1, <1>3, <2>1, <2>2 DEF ItemTypeOK
  <2>4. ItemTypeOK'
    BY <1>1, <1>3, <2>1, <2>3 DEF ItemTypeOK
  <2>5. ASSUME ~remapped PROVE AsAsked' /\ InPlace' /\ WrittenOnce' /\ ToCome'
    <3>1. AsAsked /\ InPlace /\ WrittenOnce /\ ToCome
      BY <2>5 DEF ItemInv
    <3>2. Asked' = Asked /\ \A r : LastOf(r)' = LastOf(r)
      BY <1>3, <2>3, Zenon DEF Asked, Together, LastOf
    <3>3. \A c, r : Placed(c, r) => Placed(c, r)'
      BY <1>3, <2>3 DEF Placed
    <3>4. AsAsked' /\ InPlace' /\ WrittenOnce'
      BY <1>1, <2>3, <3>1, <3>2, <3>3 DEF AsAsked, InPlace, WrittenOnce
    <3>5. ToCome'
      BY <1>1, <1>3, <3>1, <3>2, <3>3 DEF ToCome, Returned
    <3>. QED BY <3>4, <3>5
  <2>. QED BY <1>3, <2>4, <2>5 DEF ItemInv
<1>. QED BY <1>2, <1>3 DEF Disturb

\* A column is written, or refused.
LEMMA SetColumnKeeps ==
  ASSUME ItemDataAssumption, ItemInv, SetColumn
  PROVE  ItemInv'
<1>1. ItemTypeOK
  BY DEF ItemInv
<1>2. PICK left, mapped, column, same, row :
        /\ left = call.left /\ mapped = left \cap DOMAIN mappings /\ column = mappings[Min(mapped)].column
        /\ same = {r \in mapped : mappings[r].column = column} /\ row = order[call.row]
  OBVIOUS
<1>3. PICK values : values = ValuesOf(same)
  OBVIOUS
<1>4. /\ left # {} /\ mapped # {} /\ order' = order /\ mappings' = mappings /\ asked' = asked /\ remapped' = remapped
      /\ \E stored \in SUBSET DOMAIN values :
          /\ column \in 1..TableColumns \/ stored = {}
          /\ cells' = [c \in Cells |-> IF c[1] = row /\ c[2] = column /\ c[3] \in stored
                                       THEN values[c[3]] ELSE cells[c]]
          /\ call' = IF stored = DOMAIN values THEN [call EXCEPT !.left = mapped \ same]
                     ELSE [call EXCEPT !.left = {}, !.ok = FALSE]
  BY <1>2, <1>3 DEF SetColumn, InColumn, Returned
<1>5. PICK stored \in SUBSET DOMAIN values :
          /\ column \in 1..TableColumns \/ stored = {}
          /\ cells' = [c \in Cells |-> IF c[1] = row /\ c[2] = column /\ c[3] \in stored
                                       THEN values[c[3]] ELSE cells[c]]
          /\ call' = IF stored = DOMAIN values THEN [call EXCEPT !.left = mapped \ same]
                     ELSE [call EXCEPT !.left = {}, !.ok = FALSE]
  BY <1>4
<1>6. /\ left \subseteq ItemRoles /\ mapped \subseteq ItemRoles /\ same \subseteq mapped
      /\ row \in TableRows /\ Min(mapped) \in same
  <2>1. left \subseteq ItemRoles /\ row \in TableRows
    BY <1>1, <1>2, MappingRight DEF ItemTypeOK
  <2>2. Min(mapped) \in mapped
    BY <1>2, <1>4, <2>1, RolesRight
  <2>. QED BY <1>2, <2>1, <2>2
<1>7. /\ DOMAIN values = {mappings[r].columnRole : r \in same}
      /\ \A d \in DOMAIN values : /\ values[d] = Max({r \in same : mappings[r].columnRole = d})
                                  /\ values[d] \in same /\ mappings[values[d]].columnRole = d
  <2>1. DOMAIN values = {mappings[r].columnRole : r \in same}
        /\ \A d \in DOMAIN values : values[d] = Max({r \in same : mappings[r].columnRole = d})
    BY <1>3 DEF ValuesOf
  <2>2. ASSUME NEW d \in DOMAIN values PROVE values[d] \in same /\ mappings[values[d]].columnRole = d
    <3>1. PICK R : R = {r \in same : mappings[r].columnRole = d}
      OBVIOUS
    <3>2. R \in SUBSET ItemRoles /\ R # {}
      BY <1>6, <2>1, <3>1
    <3>3. Max(R) \in R
      BY <3>2, RolesRight
    <3>. QED BY <2>1, <3>1, <3>3
  <2>. QED BY <2>1, <2>2
<1>8. \A r \in ItemRoles : r \in Nat /\ r # 0
  BY DEF ItemDataAssumption
<1>9. \A c \in Cells : cells'[c] = IF c[1] = row /\ c[2] = column /\ c[3] \in stored THEN values[c[3]] ELSE cells[c]
  BY <1>5
<1>10. cells' \in [Cells -> Nat]
  <2>1. \A c \in Cells : cells[c] \in Nat
    BY <1>1 DEF ItemTypeOK
  <2>2. \A d \in stored : values[d] \in Nat
    BY <1>6, <1>7, <1>8
  <2>. QED BY <1>5, <2>1, <2>2
<1>11. /\ call'.row = call.row
       /\ call' \in [row : DOMAIN order, left : SUBSET ItemRoles, ok : BOOLEAN]
       /\ IF stored = DOMAIN values THEN call'.left = mapped \ same /\ call'.ok = call.ok
          ELSE call'.left = {} /\ call'.ok = FALSE
  <2>1. call \in [row : DOMAIN order, left : SUBSET ItemRoles, ok : BOOLEAN]
    BY <1>1 DEF ItemTypeOK
  <2>2. CASE stored = DOMAIN values
    <3>1. call' = [call EXCEPT !.left = mapped \ same] /\ mapped \ same \in SUBSET ItemRoles
      BY <1>5, <1>6, <2>2
    <3>. QED BY <2>1, <2>2, <3>1
  <2>3. CASE stored # DOMAIN values
    <3>1. PICK call1 : call1 = [call EXCEPT !.left = {}]
      OBVIOUS
    <3>2. call1 \in [row : DOMAIN order, left : SUBSET ItemRoles, ok : BOOLEAN] /\ call1.left = {} /\ call1.row = call.row
      BY <2>1, <3>1
    <3>3. call' = [call1 EXCEPT !.ok = FALSE]
      BY <1>5, <2>3, <3>1
    <3>. QED BY <2>3, <3>2, <3>3
  <2>. QED BY <2>2, <2>3
<1>12. ItemTypeOK'
  BY <1>1, <1>4, <1>10, <1>11 DEF ItemTypeOK
<1>13. ASSUME ~remapped PROVE AsAsked' /\ InPlace' /\ WrittenOnce' /\ ToCome'
  <2>1. AsAsked /\ InPlace /\ WrittenOnce /\ ToCome
    BY <1>13 DEF ItemInv
  <2>2. Asked' = Asked /\ (\A r : LastOf(r)' = LastOf(r)) /\ \A c, r : Placed(c, r)' <=> Placed(c, r)
    BY <1>4, Zenon DEF Asked, Together, LastOf, Placed
  <2>3. row \in asked.of /\ left \subseteq asked.roles /\ call.ok
    BY <1>2, <1>4, <2>1 DEF AsAsked, ToCome, Returned
  <2>4. mapped \subseteq Asked
    BY <1>2, <2>3 DEF Asked
  <2>5. AsAsked'
    BY <1>2, <1>4, <1>6, <1>11, <2>3 DEF AsAsked
  <2>6. InPlace' /\ WrittenOnce'
    <3>1. call'.left \subseteq mapped \ same
      BY <1>11
    <3>2. ASSUME NEW c \in Cells, c[1] = row /\ c[2] = column /\ c[3] \in stored
          PROVE  /\ cells'[c] = values[c[3]] /\ cells'[c] \in same /\ cells'[c] \in Asked \ call'.left
                 /\ mappings[cells'[c]].columnRole = c[3] /\ Placed(c, cells'[c])
      <4>1. cells'[c] = values[c[3]] /\ c[3] \in DOMAIN values
        BY <1>9, <3>2
      <4>2. cells'[c] \in same /\ mappings[cells'[c]].columnRole = c[3]
        BY <1>7, <4>1
      <4>3. mappings[cells'[c]].column = column
        BY <1>2, <4>2
      <4>. QED BY <1>6, <2>3, <2>4, <3>1, <3>2, <4>1, <4>2, <4>3 DEF Placed
    <3>3. ASSUME NEW c \in Cells, cells'[c] # 0, ~(c[1] = row /\ c[2] = column /\ c[3] \in stored)
          PROVE  cells'[c] = cells[c] /\ cells'[c] \in Asked \ left /\ Placed(c, cells'[c])
      BY <1>2, <1>9, <2>1, <3>3 DEF InPlace
    <3>4. InPlace'
      <4>1. ASSUME NEW c \in Cells, cells'[c] # 0 PROVE cells'[c] \in Asked \ call'.left /\ Placed(c, cells'[c])
        BY ONLY <1>2, <3>1, <3>2, <3>3, <4>1
      <4>. QED BY <2>2, <4>1 DEF InPlace
    <3>5. ASSUME NEW c \in Cells, NEW d \in Cells, cells'[c] # 0, cells'[c] = cells'[d] PROVE c = d
      <4>1. same \subseteq left
        BY ONLY <1>2, <1>6
      <4>2. CASE (c[1] = row /\ c[2] = column /\ c[3] \in stored) /\ (d[1] = row /\ d[2] = column /\ d[3] \in stored)
        <5>1. c[3] = d[3]
          BY ONLY <3>2, <3>5, <4>2
        <5>2. c = <<c[1], c[2], c[3]>> /\ d = <<d[1], d[2], d[3]>>
          BY DEF Cells
        <5>. QED BY ONLY <4>2, <5>1, <5>2
      <4>3. CASE ~(c[1] = row /\ c[2] = column /\ c[3] \in stored) /\ ~(d[1] = row /\ d[2] = column /\ d[3] \in stored)
        <5>1. cells'[c] = cells[c] /\ cells'[d] = cells[d]
          BY ONLY <3>3, <3>5, <4>3
        <5>. QED BY <2>1, <3>5, <5>1 DEF WrittenOnce
      <4>4. CASE (c[1] = row /\ c[2] = column /\ c[3] \in stored) /\ ~(d[1] = row /\ d[2] = column /\ d[3] \in stored)
        BY ONLY <3>2, <3>3, <3>5, <4>1, <4>4
      <4>5. CASE ~(c[1] = row /\ c[2] = column /\ c[3] \in stored) /\ (d[1] = row /\ d[2] = column /\ d[3] \in stored)
        BY ONLY <3>2, <3>3, <3>5, <4>1, <4>5
      <4>. QED BY ONLY <4>2, <4>3, <4>4, <4>5
    <3>6. WrittenOnce'
      BY ONLY <3>5 DEF WrittenOnce
    <3>. QED BY <3>4, <3>6
  <2>7. CASE stored # DOMAIN values
    <3>1. ToCome'
      BY <1>11, <2>7 DEF ToCome, Returned
    <3>. QED BY <2>5, <2>6, <3>1
  <2>8. CASE stored = DOMAIN values
    <3>1. call'.left = mapped \ same /\ call'.ok
      BY <1>11, <2>3, <2>8
    <3>2. column \in 1..TableColumns
      BY <1>5, <1>6, <1>7, <2>8
    <3>3. ASSUME NEW r \in Asked, NEW q \in Asked, r \in left, mappings[q].column = mappings[r].column PROVE q \in left
      BY <1>2, <2>1, <3>3 DEF ToCome
    <3>4. ASSUME NEW r \in same PROVE \E c \in Cells : Placed(c, r) /\ cells'[c] = LastOf(r)
      <4>1. PICK d : d = mappings[r].columnRole
        OBVIOUS
      <4>2. r \in Asked /\ r \in left /\ mappings[r].column = column
        BY <1>2, <1>6, <2>4
      <4>3. d \in CellRoles /\ d \in DOMAIN values
        BY <1>1, <1>7, <4>1, <4>2, MappingRight DEF Asked
      <4>4. PICK c : c = <<row, column, d>>
        OBVIOUS
      <4>5. c \in Cells /\ c[1] = row /\ c[2] = column /\ c[3] = d
        BY <1>6, <3>2, <4>3, <4>4 DEF Cells
      <4>6. cells'[c] = values[d]
        BY <1>9, <2>8, <4>3, <4>5
      <4>7. Placed(c, r)
        BY <2>3, <4>1, <4>2, <4>5 DEF Placed
      <4>8. {q \in same : mappings[q].columnRole = d} = {q \in Asked : Together(q, r)}
        <5>1. ASSUME NEW q \in Asked, Together(q, r) PROVE q \in same /\ mappings[q].columnRole = d
          <6>1. mappings[q].column = column /\ mappings[q].columnRole = d
            BY <4>1, <4>2, <5>1 DEF Together
          <6>2. q \in left
            BY <3>3, <4>2, <6>1
          <6>3. q \in DOMAIN mappings
            BY DEF Asked
          <6>. QED BY <1>2, <6>1, <6>2, <6>3
        <5>2. ASSUME NEW q \in same, mappings[q].columnRole = d PROVE q \in Asked /\ Together(q, r)
          <6>1. q \in Asked /\ mappings[q].column = column
            BY <1>2, <1>6, <2>4
          <6>. QED BY <4>1, <4>2, <5>2, <6>1 DEF Together
        <5>. QED BY <5>1, <5>2
      <4>9. values[d] = LastOf(r)
        BY <1>7, <4>3, <4>8 DEF LastOf
      <4>. QED BY <4>5, <4>6, <4>7, <4>9
    <3>5. ASSUME NEW r \in Asked, r \notin left PROVE \E c \in Cells : Placed(c, r) /\ cells'[c] = LastOf(r)
      <4>1. PICK c \in Cells : Placed(c, r) /\ cells[c] = LastOf(r)
        BY <2>1, <2>3, <1>2, <3>5 DEF ToCome
      <4>2. mappings[r].column # column
        <5>1. Min(mapped) \in Asked /\ Min(mapped) \in left /\ mappings[Min(mapped)].column = column
          BY <1>2, <1>6, <2>4
        <5>. QED BY <3>3, <3>5, <5>1
      <4>3. c[2] = mappings[r].column
        BY <4>1 DEF Placed
      <4>4. cells'[c] = cells[c]
        BY <1>9, <4>2, <4>3
      <4>. QED BY <4>1, <4>4
    <3>6. ASSUME NEW r \in Asked PROVE r \in call'.left \/ \E c \in Cells : Placed(c, r) /\ cells'[c] = LastOf(r)
      <4>1. r \in left => r \in mapped
        BY <1>2 DEF Asked
      <4>. QED BY <3>1, <3>4, <3>5, <4>1
    <3>7. ASSUME NEW r \in Asked, r \in call'.left, NEW q \in Asked, mappings[q].column = mappings[r].column
          PROVE  q \in call'.left
      <4>1. r \in left /\ mappings[r].column # column
        BY <1>2, <3>1, <3>7
      <4>2. q \in left /\ q \in mapped
        BY <1>2, <3>3, <3>7, <4>1 DEF Asked
      <4>. QED BY <1>2, <3>1, <3>7, <4>1, <4>2
    <3>8. ToCome'
      BY <1>4, <2>2, <3>1, <3>6, <3>7 DEF ToCome
    <3>. QED BY <2>5, <2>6, <3>8
  <2>. QED BY <2>7, <2>8
<1>. QED BY <1>4, <1>12, <1>13 DEF ItemInv

\* Every step keeps what holds of a call.
LEMMA ItemSteps ==
  ASSUME ItemDataAssumption, ItemInv, [ItemDataNext]_itemDataVars
  PROVE  ItemInv'
<1>1. ASSUME NEW row \in DOMAIN order, NEW role \in ItemRoles, SetData(row, role) PROVE ItemInv'
  <2>1. PICK roles, left : roles = {role} /\ left = roles \cap DOMAIN mappings
    OBVIOUS
  <2>2. Ask(row, roles, left, role \in DOMAIN mappings)
    BY <1>1, <2>1, Zenon DEF SetData
  <2>3. CASE role \in DOMAIN mappings
    <3>1. Ask(row, roles, left, TRUE)
      BY <2>2, <2>3 DEF Ask
    <3>. QED BY <2>1, <3>1, AskKeeps
  <2>4. CASE role \notin DOMAIN mappings
    <3>1. (role \in DOMAIN mappings) = FALSE /\ left = {}
      BY <2>1, <2>4
    <3>2. Ask(row, roles, left, FALSE)
      BY <2>2, <3>1, Zenon DEF Ask
    <3>. QED BY <2>1, <3>1, <3>2, AskKeeps
  <2>. QED BY <2>3, <2>4
<1>2. ASSUME NEW row \in DOMAIN order, NEW roles \in SUBSET ItemRoles, SetItemData(row, roles) PROVE ItemInv'
  BY <1>2, AskKeeps DEF SetItemData
<1>3. CASE UNCHANGED itemDataVars
  <2>1. order' = order /\ mappings' = mappings /\ cells' = cells /\ call' = call /\ asked' = asked /\ remapped' = remapped
    BY <1>3 DEF itemDataVars
  <2>2. ItemTypeOK'
    BY <2>1 DEF ItemInv, ItemTypeOK
  <2>3. Asked' = Asked /\ (\A r : LastOf(r)' = LastOf(r)) /\ \A c, r : Placed(c, r)' <=> Placed(c, r)
    BY <2>1, Zenon DEF Asked, Together, LastOf, Placed
  <2>. QED BY <2>1, <2>2, <2>3 DEF ItemInv, AsAsked, InPlace, WrittenOnce, ToCome, Returned
<1>. QED BY <1>1, <1>2, <1>3, SetColumnKeeps, NoneMappedKeeps, DisturbKeeps DEF ItemDataNext

\* What holds of a call, at all times.
LEMMA ItemAlways == ItemDataSpec => []ItemInv
<1>1. ItemDataInit => ItemInv
  BY ItemStarts, ItemDataAssumption
<1>2. ItemInv /\ [ItemDataNext]_itemDataVars => ItemInv'
  BY ItemSteps, ItemDataAssumption
<1>. QED BY <1>1, <1>2, PTL DEF ItemDataSpec

\* A write goes to the columns and roles that its roles are mapped to and to no other,
\* in a row that has been where the call said, and to all of them if it returns true,
\* unless mappings change under its hand.
THEOREM ItemIsSet == ItemDataSpec => []ItemDataSet
<1>1. ASSUME ItemInv PROVE ItemDataSet
  <2>. SUFFICES ASSUME ~remapped PROVE ItemDataSet
    BY DEF ItemDataSet
  <2>1. InPlace /\ WrittenOnce /\ ToCome
    BY <1>1 DEF ItemInv
  <2>2. \A c \in Cells : cells[c] # 0 => cells[c] \in Asked /\ Placed(c, cells[c])
    BY <2>1 DEF InPlace
  <2>3. Returned /\ call.ok => \A r \in Asked : \E c \in Cells : Placed(c, r) /\ cells[c] = LastOf(r)
    BY <2>1 DEF ToCome, Returned
  <2>4. \A c, d \in Cells : cells[c] # 0 /\ cells[c] = cells[d] => c = d
    BY <2>1 DEF WrittenOnce
  <2>. QED BY <2>2, <2>3, <2>4, Zenon DEF ItemDataSet, Asked, Together, LastOf, Placed
<1>. QED BY <1>1, ItemAlways, PTL

-----------------------------------------------------------------------------
(* StdVectorAdaptor *)

\* The recursion of std::remove() has a solution.
TurnsOf(f, k, first, x) == f = [n \in 0 .. k |-> IF n = 0 THEN first ELSE Compact(f[n - 1], n, x)]

\* There is a function of the turns, whatever the list is.
LEMMA TurnsExist ==
  ASSUME NEW l \in Nat, NEW first, NEW x
  PROVE  \E turn : TurnsOf(turn, l, first, x)
<1> DEFINE Turns(f, k) == f = [n \in 0 .. k |-> IF n = 0 THEN first ELSE Compact(f[n - 1], n, x)]
           missing == {k \in Nat : ~\E f : Turns(f, k)}
<1>1. ASSUME missing # {} PROVE FALSE
  <2>1. PICK k \in missing : \A m \in missing : k <= m
    <3>1. missing \in SUBSET Nat
      OBVIOUS
    <3> HIDE DEF missing
    <3>. QED BY ONLY <1>1, <3>1, LeastNumber
  <2>2. k \in Nat
    OBVIOUS
  <2>3. CASE k = 0
    <3>1. PICK f : f = [n \in 0 .. 0 |-> first]
      OBVIOUS
    <3>2. Turns(f, 0)
      BY <3>1
    <3>. QED BY <2>3, <3>2
  <2>4. CASE k # 0
    <3>1. k - 1 \in Nat /\ ~(k <= k - 1)
      BY <2>2, <2>4
    <3>2. PICK f : Turns(f, k - 1)
      BY <2>1, <3>1
    <3>3. PICK g : g = [n \in 0 .. k |-> IF n = k THEN Compact(f[k - 1], k, x) ELSE f[n]]
      OBVIOUS
    <3>4. ASSUME NEW n \in 0 .. k
          PROVE  g[n] = IF n = 0 THEN first ELSE Compact(g[n - 1], n, x)
      <4>1. CASE n = k
        <5>1. n - 1 \in 0 .. k /\ n - 1 # k /\ n # 0
          BY <2>2, <2>4, <4>1
        <5>2. g[n - 1] = f[n - 1]
          BY <3>3, <5>1
        <5>. QED BY <3>3, <4>1, <5>1, <5>2
      <4>2. CASE n # k
        <5>1. n \in 0 .. k - 1
          BY <2>2, <4>2
        <5>2. g[n] = f[n]
          BY <3>3, <4>2
        <5>3. f[n] = IF n = 0 THEN first ELSE Compact(f[n - 1], n, x)
          BY <3>2, <5>1
        <5>4. ASSUME n # 0 PROVE g[n - 1] = f[n - 1]
          <6>1. n - 1 \in 0 .. k /\ n - 1 # k
            BY <2>2, <5>1, <5>4
          <6>. QED BY <3>3, <6>1
        <5>. QED BY <5>2, <5>3, <5>4
      <4>. QED BY <4>1, <4>2
    <3>5. Turns(g, k)
      BY <3>3, <3>4
    <3>. QED BY <3>5
  <2>. QED BY <2>3, <2>4
<1>2. \E f : Turns(f, l)
  BY <1>1
<1>. QED BY <1>2, Zenon DEF TurnsOf

\* std::remove() of a value leaves what does not equal it.
LEMMA CompactedRight ==
  ASSUME vector \in Seq(Elements), NEW x, x.place = -1
  PROVE  /\ Compacted(x).kept \in 0 .. Len(vector) /\ Compacted(x).kept = Len(Among(vector, Elements \ {x.value}))
         /\ Part(Compacted(x).v, 0, Compacted(x).kept) = Among(vector, Elements \ {x.value})
<1>1. PICK l, T : l = Len(vector) /\ T = Elements \ {x.value}
  OBVIOUS
<1>2. l \in Nat /\ DOMAIN vector = 1 .. l /\ \A i \in 1 .. l : vector[i] \in Elements
  BY <1>1, LenProperties, ElementOfSeq
<1>3. PICK part : /\ Among(vector, T) = part[l] /\ part[0] = <<>>
                  /\ \A n \in 1 .. l : part[n] = IF vector[n] \in T THEN Append(part[n - 1], vector[n]) ELSE part[n - 1]
  <2>1. \E part : /\ Among(vector, T) = part[Len(vector)] /\ part[0] = <<>>
                  /\ \A n \in 1 .. Len(vector) : part[n] = IF vector[n] \in T THEN Append(part[n - 1], vector[n]) ELSE part[n - 1]
    BY AmongParts
  <2>. QED BY ONLY <1>1, <2>1
<1> DEFINE Turns(f) == f = [n \in 0 .. l |-> IF n = 0 THEN [v |-> vector, kept |-> 0] ELSE Compact(f[n - 1], n, x)]
<1>4. PICK turn : Compacted(x) = turn[l] /\ Turns(turn)
  <2>1. PICK turn : turn = CHOOSE f : Turns(f)
    OBVIOUS
  <2>2. \E f : Turns(f)
    <3>1. PICK first : first = [v |-> vector, kept |-> 0]
      OBVIOUS
    <3>2. \E f : TurnsOf(f, l, first, x)
      BY <1>2, TurnsExist
    <3>. QED BY ONLY <3>1, <3>2, Zenon DEF TurnsOf
  <2>3. Turns(turn)
    <3> HIDE DEF Turns
    <3>. QED BY ONLY <2>1, <2>2, Zenon
  <2>4. Compacted(x) = turn[l]
    BY <1>1, <2>1, Zenon DEF Compacted
  <2>. QED BY <2>3, <2>4
<1>5. turn[0] = [v |-> vector, kept |-> 0] /\ \A n \in 1 .. l : turn[n] = Compact(turn[n - 1], n, x)
  <2>1. \A n \in 0 .. l : turn[n] = IF n = 0 THEN [v |-> vector, kept |-> 0] ELSE Compact(turn[n - 1], n, x)
    BY ONLY <1>4, Zenon
  <2>2. 0 \in 0 .. l /\ \A n \in 1 .. l : n \in 0 .. l /\ n # 0
    BY ONLY <1>2
  <2>. QED BY ONLY <2>1, <2>2
<1> DEFINE Right(n) == /\ part[n] \in Seq(Elements) /\ turn[n].kept \in 0 .. n /\ Len(part[n]) = turn[n].kept
                       /\ turn[n].v \in [1 .. l -> Elements]
                       /\ \A i \in 1 .. turn[n].kept : turn[n].v[i] = part[n][i]
                       /\ \A i \in n + 1 .. l : turn[n].v[i] = vector[i]
           bad      == {n \in 0 .. l : ~Right(n)}
<1>6. ASSUME bad # {} PROVE FALSE
  <2>1. PICK n \in bad : \A m \in bad : n <= m
    <3>1. bad \in SUBSET Nat
      BY <1>2
    <3> HIDE DEF bad
    <3>. QED BY ONLY <1>6, <3>1, LeastNumber
  <2>2. n \in 0 .. l /\ ~Right(n)
    OBVIOUS
  <2>3. n # 0
    <3>1. turn[0].v = vector /\ turn[0].kept = 0 /\ part[0] \in Seq(Elements) /\ Len(part[0]) = 0
      BY <1>3, <1>5
    <3>2. vector \in [1 .. l -> Elements]
      <4>1. vector = [i \in 1 .. l |-> vector[i]]
        BY <1>1, LenProperties
      <4>. QED BY ONLY <1>2, <4>1
    <3>3. Right(0)
      BY <3>1, <3>2
    <3>. QED BY <2>2, <3>3
  <2>4. n \in 1 .. l /\ n - 1 \in 0 .. l /\ n \in Nat /\ ~(n <= n - 1)
    BY ONLY <1>2, <2>2, <2>3
  <2>5. PICK old, v, k, e : old = part[n - 1] /\ v = turn[n - 1].v /\ k = turn[n - 1].kept /\ e = vector[n]
    OBVIOUS
  <2>6. /\ old \in Seq(Elements) /\ k \in 0 .. n - 1 /\ Len(old) = k /\ v \in [1 .. l -> Elements]
        /\ \A i \in 1 .. k : v[i] = old[i]
        /\ \A i \in n .. l : v[i] = vector[i]
    <3>1. Right(n - 1)
      BY <2>1, <2>4
    <3>2. n - 1 + 1 = n
      BY <2>4
    <3>. QED BY <2>5, <3>1, <3>2
  <2>7. e \in Elements /\ v[n] = e
    BY <1>2, <2>4, <2>5, <2>6
  <2>8. turn[n] = IF e = x.value THEN turn[n - 1] ELSE [v |-> [v EXCEPT ![k + 1] = e], kept |-> k + 1]
    <3>1. turn[n] = Compact(turn[n - 1], n, x)
      BY <1>5, <2>4
    <3>. QED BY <2>5, <2>7, <3>1 DEF Compact
  <2>9. CASE e = x.value
    <3>1. turn[n] = turn[n - 1] /\ part[n] = old
      BY <1>1, <1>3, <2>4, <2>5, <2>8, <2>9
    <3>2. \A i \in n + 1 .. l : i \in n .. l
      BY <2>4
    <3>3. k \in 0 .. n
      BY <2>4, <2>6
    <3>4. turn[n].v = v /\ turn[n].kept = k
      BY <2>5, <3>1
    <3>. QED BY <2>2, <2>6, <3>1, <3>2, <3>3, <3>4
  <2>10. CASE e # x.value
    <3>1. PICK new, w : new = Append(old, e) /\ w = [v EXCEPT ![k + 1] = e]
      OBVIOUS
    <3>2. part[n] = new /\ turn[n].v = w /\ turn[n].kept = k + 1
      <4>1. e \in T
        BY <1>1, <2>7, <2>10
      <4>2. part[n] = new
        BY <1>3, <2>4, <2>5, <3>1, <4>1
      <4>3. turn[n] = [v |-> w, kept |-> k + 1]
        BY <2>8, <2>10, <3>1
      <4>. QED BY <4>2, <4>3
    <3>3. /\ new \in Seq(Elements) /\ Len(new) = k + 1
          /\ (\A i \in 1 .. k : new[i] = old[i]) /\ new[k + 1] = e
      BY ONLY <2>6, <2>7, <3>1, AppendProperties
    <3>4. k + 1 \in 1 .. l /\ k + 1 \in 0 .. n /\ ~(k + 1 > n)
      BY ONLY <1>2, <2>4, <2>6
    <3>5. w \in [1 .. l -> Elements] /\ w[k + 1] = e /\ \A i \in 1 .. l : i # k + 1 => w[i] = v[i]
      BY ONLY <2>6, <2>7, <3>1, <3>4
    <3>6. \A i \in 1 .. k + 1 : w[i] = new[i]
      <4>1. \A i \in 1 .. k + 1 : i = k + 1 \/ (i \in 1 .. k /\ i \in 1 .. l /\ i # k + 1)
        BY ONLY <1>2, <2>4, <2>6
      <4>. QED BY ONLY <2>6, <3>3, <3>5, <4>1
    <3>7. \A i \in n + 1 .. l : w[i] = vector[i]
      <4>1. \A i \in n + 1 .. l : i \in n .. l /\ i \in 1 .. l /\ i # k + 1
        BY ONLY <1>2, <2>4, <2>6
      <4>. QED BY ONLY <2>6, <3>5, <4>1
    <3>. QED BY <2>2, <3>2, <3>3, <3>4, <3>5, <3>6, <3>7
  <2>. QED BY <2>9, <2>10
<1>7. Right(l)
  <2> HIDE DEF Right
  <2>1. l \in 0 .. l
    BY ONLY <1>2
  <2>. QED BY <1>6, <2>1, Zenon
<1>8. PICK v, k : v = Compacted(x).v /\ k = Compacted(x).kept
  OBVIOUS
<1>9. /\ part[l] \in Seq(Elements) /\ k \in 0 .. l /\ Len(part[l]) = k
      /\ v \in [1 .. l -> Elements] /\ \A i \in 1 .. k : v[i] = part[l][i]
  BY <1>4, <1>7, <1>8
<1>10. Part(v, 0, k) = part[l]
  <2>1. v \in Seq(Elements) /\ Len(v) = l
    BY ONLY <1>2, <1>9, FunctionIsSeq
  <2>2. PICK p : p = SubSeq(v, 1, k)
    OBVIOUS
  <2>3. p \in Seq(Elements) /\ Len(p) = k /\ \A i \in 1 .. k : p[i] = v[i]
    <3>1. 1 \in 1 .. Len(v) + 1 /\ k \in 1 - 1 .. Len(v) /\ k - 1 + 1 = k /\ \A i \in 1 .. k : 1 + i - 1 = i
      BY ONLY <1>2, <1>9, <2>1
    <3>. QED BY ONLY <2>1, <2>2, <3>1, PartOfRows
  <2>4. p = part[l]
    BY ONLY <1>9, <2>3, SameList
  <2>5. Part(v, 0, k) = p
    BY <2>2 DEF Part
  <2>. QED BY <2>4, <2>5
<1>. QED BY <1>1, <1>3, <1>8, <1>9, <1>10

\* As long as no reference into the vector was given, both hold and answer the same.
VectorInv ==
  /\ aliased \in BOOLEAN
  /\ ~aliased => vector \in Seq(Elements) /\ vector = qvector /\ answer = qanswer

\* What the invariant says of a vector into which no reference was given.
LEMMA VectorFacts ==
  ASSUME VectorInv, ~aliased
  PROVE  /\ vector \in Seq(Elements) /\ qvector = vector
         /\ Len(vector) \in Nat /\ DOMAIN vector = 1 .. Len(vector)
         /\ \A i \in 1 .. Len(vector) : vector[i] \in Elements
BY LenProperties, ElementOfSeq DEF VectorInv

\* A part of a vector.
LEMMA PartRight ==
  ASSUME NEW S, NEW v \in Seq(S)
  PROVE  \A b \in 0 .. Len(v) : \A e \in b .. Len(v) :
           /\ Part(v, b, e) \in Seq(S) /\ Len(Part(v, b, e)) = e - b
           /\ \A k \in 1 .. e - b : Part(v, b, e)[k] = v[b + k]
<1>1. PICK l : l = Len(v)
  OBVIOUS
<1>2. l \in Nat
  BY <1>1, LenProperties
<1>3. ASSUME NEW b \in 0 .. l, NEW e \in b .. l
      PROVE  /\ Part(v, b, e) \in Seq(S) /\ Len(Part(v, b, e)) = e - b
             /\ \A k \in 1 .. e - b : Part(v, b, e)[k] = v[b + k]
  <2>1. PICK p, a : p = Part(v, b, e) /\ a = b + 1
    OBVIOUS
  <2>2. p = SubSeq(v, a, e)
    BY <2>1 DEF Part
  <2>3. a \in 1 .. l + 1 /\ e \in a - 1 .. l /\ e - a + 1 = e - b /\ \A k \in Int : a + k - 1 = b + k
    BY <1>2, <2>1
  <2>4. a \in 1 .. Len(v) + 1 /\ e \in a - 1 .. Len(v)
    BY ONLY <1>1, <2>3
  <2>5. p \in Seq(S) /\ Len(p) = e - a + 1 /\ \A k \in 1 .. e - a + 1 : p[k] = v[a + k - 1]
    BY ONLY v \in Seq(S), <2>2, <2>4, PartOfRows
  <2>6. \A k \in 1 .. e - b : k \in 1 .. e - a + 1 /\ a + k - 1 = b + k
    BY <1>2, <2>3
  <2>. QED BY ONLY <2>1, <2>3, <2>5, <2>6
<1>. QED BY ONLY <1>1, <1>3

\* What is before a place and what is behind another one.
LEMMA ErasedRight ==
  ASSUME NEW S, NEW v \in Seq(S)
  PROVE  \A b \in 0 .. Len(v) : \A e \in b .. Len(v) :
           /\ Erase(v, b, e) \in Seq(S) /\ Len(Erase(v, b, e)) = Len(v) - (e - b)
           /\ \A k \in 1 .. Len(v) - (e - b) : Erase(v, b, e)[k] = IF k <= b THEN v[k] ELSE v[k + (e - b)]
<1>1. PICK l : l = Len(v)
  OBVIOUS
<1> SUFFICES \A b \in 0 .. l : \A e \in b .. l :
               /\ Erase(v, b, e) \in Seq(S) /\ Len(Erase(v, b, e)) = l - (e - b)
               /\ \A k \in 1 .. l - (e - b) : Erase(v, b, e)[k] = IF k <= b THEN v[k] ELSE v[k + (e - b)]
  BY <1>1, Zenon
<1> TAKE b \in 0 .. l
<1> TAKE e \in b .. l
<1>2. l \in Nat
  BY <1>1, LenProperties
<1>3. \A f \in 0 .. l : \A g \in f .. l :
        /\ Part(v, f, g) \in Seq(S) /\ Len(Part(v, f, g)) = g - f
        /\ \A k \in 1 .. g - f : Part(v, f, g)[k] = v[f + k]
  <2>1. \A f \in 0 .. Len(v) : \A g \in f .. Len(v) :
          /\ Part(v, f, g) \in Seq(S) /\ Len(Part(v, f, g)) = g - f
          /\ \A k \in 1 .. g - f : Part(v, f, g)[k] = v[f + k]
    BY PartRight
  <2>. QED BY ONLY <2>1, <1>1
<1>4. PICK p, q : p = Part(v, 0, b) /\ q = Part(v, e, l)
  OBVIOUS
<1>5. p \in Seq(S) /\ Len(p) = b /\ \A k \in 1 .. b : p[k] = v[k]
  <2>1. 0 \in 0 .. l /\ b \in 0 .. l /\ b - 0 = b /\ \A k \in 1 .. b : 0 + k = k
    BY <1>2
  <2>2. p \in Seq(S) /\ Len(p) = b - 0 /\ \A k \in 1 .. b - 0 : p[k] = v[0 + k]
    BY ONLY <1>3, <1>4, <2>1, Zenon
  <2>3. 0 + 0 = 0 /\ b \in Int
    BY <1>2
  <2>. QED BY ONLY <2>1, <2>2, <2>3
<1>6. q \in Seq(S) /\ Len(q) = l - e /\ \A k \in 1 .. l - e : q[k] = v[e + k]
  <2>1. e \in 0 .. l /\ l \in e .. l
    BY <1>2
  <2>. QED BY ONLY <1>3, <1>4, <2>1
<1>7. PICK r : r = p \o q
  OBVIOUS
<1>8. /\ r \in Seq(S) /\ Len(r) = b + (l - e)
      /\ \A k \in 1 .. b + (l - e) : r[k] = IF k <= b THEN p[k] ELSE q[k - b]
  <2>1. /\ r \in Seq(S) /\ Len(r) = Len(p) + Len(q)
        /\ \A k \in 1 .. Len(p) + Len(q) : r[k] = IF k <= Len(p) THEN p[k] ELSE q[k - Len(p)]
    BY <1>5, <1>6, <1>7, ConcatProperties
  <2>. QED BY ONLY <1>5, <1>6, <2>1
<1>9. b + (l - e) = l - (e - b)
  BY <1>2
<1>10. ASSUME NEW k \in 1 .. l - (e - b) PROVE r[k] = IF k <= b THEN v[k] ELSE v[k + (e - b)]
  <2>1. CASE k <= b
    <3>1. k \in 1 .. b
      BY <1>2, <2>1
    <3>. QED BY <1>5, <1>8, <1>9, <2>1, <3>1
  <2>2. CASE ~(k <= b)
    <3>1. k - b \in 1 .. l - e /\ e + (k - b) = k + (e - b)
      BY <1>2, <2>2
    <3>. QED BY <1>6, <1>8, <1>9, <2>2, <3>1
  <2>. QED BY <2>1, <2>2
<1>11. Erase(v, b, e) = r
  BY <1>4, <1>7, <1>1 DEF Erase
<1>. QED BY <1>8, <1>9, <1>10, <1>11

\* Parts of a vector in another order.
LEMMA RotatedRight ==
  ASSUME NEW l, l = Len(vector), vector \in Seq(Elements), NEW a \in 0 .. l, NEW m \in a .. l, NEW e \in m .. l
  PROVE  /\ Rotate(a, m, e) \in Seq(Elements) /\ Len(Rotate(a, m, e)) = l
         /\ \A k \in 1 .. l : Rotate(a, m, e)[k] =
              IF k <= a \/ k > e THEN vector[k] ELSE IF k <= a + (e - m) THEN vector[k + (m - a)] ELSE vector[k - (e - m)]
<1>1. l \in Nat
  BY LenProperties
<1>2. \A f \in 0 .. l : \A g \in f .. l :
        /\ Part(vector, f, g) \in Seq(Elements) /\ Len(Part(vector, f, g)) = g - f
        /\ \A k \in 1 .. g - f : Part(vector, f, g)[k] = vector[f + k]
  <2>1. \A f \in 0 .. Len(vector) : \A g \in f .. Len(vector) :
          /\ Part(vector, f, g) \in Seq(Elements) /\ Len(Part(vector, f, g)) = g - f
          /\ \A k \in 1 .. g - f : Part(vector, f, g)[k] = vector[f + k]
    BY PartRight
  <2>. QED BY ONLY <2>1, l = Len(vector)
<1>3. PICK p, q, r, t : p = Part(vector, 0, a) /\ q = Part(vector, m, e) /\ r = Part(vector, a, m) /\ t = Part(vector, e, l)
  OBVIOUS
<1>4. p \in Seq(Elements) /\ Len(p) = a /\ \A k \in 1 .. a : p[k] = vector[k]
  <2>1. 0 \in 0 .. l /\ a \in 0 .. l /\ a - 0 = a /\ \A k \in 1 .. a : 0 + k = k
    BY <1>1
  <2>2. p \in Seq(Elements) /\ Len(p) = a - 0 /\ \A k \in 1 .. a - 0 : p[k] = vector[0 + k]
    BY ONLY <1>2, <1>3, <2>1, Zenon
  <2>3. 0 + 0 = 0 /\ a \in Int
    BY <1>1
  <2>. QED BY ONLY <2>1, <2>2, <2>3
<1>5. q \in Seq(Elements) /\ Len(q) = e - m /\ \A k \in 1 .. e - m : q[k] = vector[m + k]
  <2>1. m \in 0 .. l /\ e \in m .. l
    BY <1>1
  <2>. QED BY ONLY <1>2, <1>3, <2>1
<1>6. r \in Seq(Elements) /\ Len(r) = m - a /\ \A k \in 1 .. m - a : r[k] = vector[a + k]
  <2>1. a \in 0 .. l /\ m \in a .. l
    BY <1>1
  <2>. QED BY ONLY <1>2, <1>3, <2>1
<1>7. t \in Seq(Elements) /\ Len(t) = l - e /\ \A k \in 1 .. l - e : t[k] = vector[e + k]
  <2>1. e \in 0 .. l /\ l \in e .. l
    BY <1>1
  <2>. QED BY ONLY <1>2, <1>3, <2>1
<1>8. PICK w : w = p \o q \o r \o t
  OBVIOUS
<1>9. /\ w \in Seq(Elements) /\ Len(w) = a + (e - m) + (m - a) + (l - e)
      /\ \A k \in 1 .. a + (e - m) + (m - a) + (l - e) : w[k] =
           IF k <= a THEN p[k]
           ELSE IF k <= a + (e - m) THEN q[k - a]
           ELSE IF k <= a + (e - m) + (m - a) THEN r[k - a - (e - m)]
           ELSE t[k - a - (e - m) - (m - a)]
  <2>1. /\ w \in Seq(Elements) /\ Len(w) = Len(p) + Len(q) + Len(r) + Len(t)
        /\ \A k \in 1 .. Len(p) + Len(q) + Len(r) + Len(t) :
             w[k] = IF k <= Len(p) THEN p[k]
                    ELSE IF k <= Len(p) + Len(q) THEN q[k - Len(p)]
                    ELSE IF k <= Len(p) + Len(q) + Len(r) THEN r[k - Len(p) - Len(q)]
                    ELSE t[k - Len(p) - Len(q) - Len(r)]
    <3>1. p \in Seq(Elements) /\ q \in Seq(Elements) /\ r \in Seq(Elements) /\ t \in Seq(Elements)
      BY <1>4, <1>5, <1>6, <1>7
    <3>. QED BY ONLY <1>8, <3>1, FourParts, SMTT(20)
  <2>. QED BY ONLY <1>4, <1>5, <1>6, <1>7, <2>1
<1>10. a + (e - m) + (m - a) + (l - e) = l /\ a + (e - m) + (m - a) = e
  BY <1>1
<1>11. ASSUME NEW k \in 1 .. l
       PROVE  w[k] = IF k <= a \/ k > e THEN vector[k]
                     ELSE IF k <= a + (e - m) THEN vector[k + (m - a)] ELSE vector[k - (e - m)]
  <2>1. CASE k <= a
    <3>1. k \in 1 .. a
      BY <1>1, <2>1
    <3>. QED BY <1>4, <1>9, <1>10, <2>1, <3>1
  <2>2. CASE ~(k <= a) /\ k <= a + (e - m)
    <3>1. k - a \in 1 .. e - m /\ m + (k - a) = k + (m - a) /\ ~(k > e)
      BY <1>1, <2>2
    <3>. QED BY <1>5, <1>9, <1>10, <2>2, <3>1
  <2>3. CASE ~(k <= a) /\ ~(k <= a + (e - m)) /\ k <= e
    <3>1. k - a - (e - m) \in 1 .. m - a /\ a + (k - a - (e - m)) = k - (e - m) /\ ~(k > e)
      BY <1>1, <2>3
    <3>. QED BY <1>6, <1>9, <1>10, <2>3, <3>1
  <2>4. CASE ~(k <= e)
    <3>1. k - a - (e - m) - (m - a) \in 1 .. l - e /\ e + (k - a - (e - m) - (m - a)) = k
          /\ ~(k <= a) /\ ~(k <= a + (e - m)) /\ k > e
      BY <1>1, <2>4
    <3>. QED BY <1>7, <1>9, <1>10, <2>4, <3>1
  <2>. QED BY <1>1, <2>1, <2>2, <2>3, <2>4
<1>12. Rotate(a, m, e) = w
  BY <1>3, <1>8 DEF Rotate
<1>. QED BY <1>9, <1>10, <1>11, <1>12

\* A call that does to the vector what it does to a QVector.
LEMMA CallRight ==
  ASSUME NEW v \in Seq(Elements), NEW a, Call(v, a, v, a), VectorInv, ~aliased
  PROVE  VectorInv'
<1>1. /\ vector' = v /\ answer' = a /\ qvector' = v /\ qanswer' = a /\ aliased' = aliased
  BY Zenon DEF Call
<1>2. aliased' \in BOOLEAN
  BY <1>1, Zenon DEF VectorInv
<1>3. vector' \in Seq(Elements) /\ vector' = qvector' /\ answer' = qanswer'
  BY ONLY v \in Seq(Elements), <1>1, Zenon
<1>. QED BY ONLY <1>2, <1>3, Zenon DEF VectorInv

\* A new element is where it should be.
LEMMA InsertRight ==
  ASSUME VectorInv, ~aliased, NEW x \in Elements, NEW i \in 0 .. Len(vector), Insert(i, x)
  PROVE  VectorInv'
<1>1. PICK l : l = Len(vector)
  OBVIOUS
<1>2. vector \in Seq(Elements) /\ qvector = vector /\ l \in Nat
  BY <1>1, VectorFacts
<1>3. PICK p, q : p = Part(vector, 0, i) /\ q = Part(vector, i, l)
  OBVIOUS
<1>4. p = SubSeq(vector, 1, i) /\ q = SubSeq(vector, i + 1, l) /\ i + 1 - 1 = i
  BY <1>1, <1>2, <1>3 DEF Part
<1>5. p \in Seq(Elements) /\ q \in Seq(Elements)
  <2>1. 0 \in 0 .. l /\ i \in 0 .. l /\ l \in i .. l /\ i \in 0 .. i
    BY <1>1, <1>2
  <2>2. \A b \in 0 .. Len(vector) : \A e \in b .. Len(vector) : Part(vector, b, e) \in Seq(Elements)
    BY <1>2, PartRight
  <2>. QED BY ONLY <1>1, <1>3, <2>1, <2>2
<1>6. p \o <<x>> \o q \in Seq(Elements)
  <2>1. <<x>> \in Seq(Elements)
    OBVIOUS
  <2>2. p \o <<x>> \in Seq(Elements)
    BY ONLY <1>5, <2>1, ConcatProperties
  <2>. QED BY ONLY <1>5, <2>2, ConcatProperties
<1>7. InsertAt(qvector, i + 1, x) = p \o <<x>> \o q
  <2>1. PICK j : j = i + 1
    OBVIOUS
  <2>2. InsertAt(vector, j, x) = SubSeq(vector, 1, j - 1) \o <<x>> \o SubSeq(vector, j, Len(vector))
    BY Zenon DEF InsertAt
  <2>3. j - 1 = i
    BY ONLY <1>4, <2>1
  <2>. QED BY ONLY <1>1, <1>2, <1>4, <2>1, <2>2, <2>3
<1>8. Call(p \o <<x>> \o q, Nothing, p \o <<x>> \o q, Nothing)
  BY ONLY Insert(i, x), <1>1, <1>3, <1>7, Zenon DEF Insert
<1>. QED BY <1>6, <1>8, CallRight, Zenon

\* Another vector is appended, ...
LEMMA ConcatRight ==
  ASSUME VectorInv, ~aliased, NEW v \in Seq(Elements), Concat(v)
  PROVE  VectorInv'
<1>1. vector \in Seq(Elements) /\ qvector = vector
  BY VectorFacts
<1>2. vector \o v \in Seq(Elements)
  BY <1>1, ConcatProperties
<1>3. Call(vector \o v, Nothing, vector \o v, Nothing)
  BY ONLY Concat(v), <1>1, Zenon DEF Concat
<1>. QED BY <1>2, <1>3, CallRight, Zenon

\* ... or the vector itself.
LEMMA AppendSelfRight ==
  ASSUME VectorInv, ~aliased, AppendSelf
  PROVE  VectorInv'
<1>1. vector \in Seq(Elements) /\ qvector = vector
  BY VectorFacts
<1>2. vector \o vector \in Seq(Elements)
  BY <1>1, ConcatProperties
<1>3. Call(vector \o vector, Nothing, vector \o vector, Nothing)
  BY ONLY AppendSelf, <1>1, Zenon DEF AppendSelf
<1>. QED BY <1>2, <1>3, CallRight, Zenon

\* The elements behind a range that is removed move up.
LEMMA RemoveRangeRight ==
  ASSUME VectorInv, ~aliased, NEW i \in Positions, NEW count \in 1 .. Len(vector) - i, RemoveRange(i, count)
  PROVE  VectorInv'
<1>1. PICK l : l = Len(vector)
  OBVIOUS
<1>2. vector \in Seq(Elements) /\ qvector = vector /\ l \in Nat /\ \A k \in 1 .. l : vector[k] \in Elements
  BY <1>1, VectorFacts
<1>3. i \in 0 .. l /\ i + count \in i .. l /\ (i + count) - i = count /\ l - count \in Nat /\ count \in Nat
  BY <1>1, <1>2 DEF Positions
<1>4. PICK e, r : e = i + count /\ r = Erase(vector, i, e)
  OBVIOUS
<1>5. /\ r \in Seq(Elements) /\ Len(r) = l - count
      /\ \A k \in 1 .. l - count : r[k] = IF k <= i THEN vector[k] ELSE vector[k + count]
  <2>1. \A b \in 0 .. Len(vector) : \A f \in b .. Len(vector) :
          /\ Erase(vector, b, f) \in Seq(Elements) /\ Len(Erase(vector, b, f)) = Len(vector) - (f - b)
          /\ \A k \in 1 .. Len(vector) - (f - b) :
               Erase(vector, b, f)[k] = IF k <= b THEN vector[k] ELSE vector[k + (f - b)]
    BY <1>2, ErasedRight
  <2>2. \A b \in 0 .. l : \A f \in b .. l :
          /\ Erase(vector, b, f) \in Seq(Elements) /\ Len(Erase(vector, b, f)) = l - (f - b)
          /\ \A k \in 1 .. l - (f - b) : Erase(vector, b, f)[k] = IF k <= b THEN vector[k] ELSE vector[k + (f - b)]
    BY ONLY <1>1, <2>1
  <2>3. e \in i .. l /\ e - i = count
    BY ONLY <1>3, <1>4
  <2>4. /\ r \in Seq(Elements) /\ Len(r) = l - (e - i)
        /\ \A k \in 1 .. l - (e - i) : r[k] = IF k <= i THEN vector[k] ELSE vector[k + (e - i)]
    BY ONLY <1>3, <1>4, <2>2, <2>3
  <2>. QED BY ONLY <2>3, <2>4
<1>6. PICK t : t = [k \in 1 .. l - count |-> IF k <= i THEN vector[k] ELSE vector[k + count]]
  OBVIOUS
<1>7. t \in Seq(Elements) /\ Len(t) = l - count /\ \A k \in 1 .. l - count : r[k] = t[k]
  <2>1. \A k \in 1 .. l - count : k \in 1 .. l /\ k + count \in 1 .. l
    BY ONLY <1>2, <1>3
  <2>2. t \in [1 .. l - count -> Elements]
    BY ONLY <1>2, <1>6, <2>1
  <2>3. t \in Seq(Elements) /\ Len(t) = l - count
    BY ONLY <1>3, <2>2, FunctionIsSeq
  <2>. QED BY ONLY <1>5, <1>6, <2>3
<1>8. r = t
  BY ONLY <1>5, <1>7, SameList
<1>9. Call(r, Nothing, t, Nothing)
  <2>1. Call(Erase(vector, i, i + count), Nothing,
             [k \in 1 .. Len(qvector) - count |-> IF k <= i THEN qvector[k] ELSE qvector[k + count]], Nothing)
    BY Zenon DEF RemoveRange
  <2>. QED BY ONLY <1>1, <1>2, <1>4, <1>6, <2>1
<1>. QED BY <1>5, <1>8, <1>9, CallRight, Zenon

\* A range of one element.
LEMMA OneErased ==
  ASSUME vector \in Seq(Elements), NEW i \in Positions
  PROVE  Erase(vector, i, i + 1) = RemoveAt(vector, i + 1) /\ Erase(vector, i, i + 1) \in Seq(Elements)
<1>1. PICK l, e : l = Len(vector) /\ e = i + 1
  OBVIOUS
<1>2. l \in Nat
  BY <1>1, LenProperties
<1>3. i \in 0 .. l /\ e \in i .. l /\ e - 1 = i /\ 0 + 1 = 1
  BY <1>1, <1>2 DEF Positions
<1>4. Erase(vector, i, e) \in Seq(Elements)
  <2>1. \A b \in 0 .. Len(vector) : \A f \in b .. Len(vector) : Erase(vector, b, f) \in Seq(Elements)
    BY ErasedRight
  <2>. QED BY ONLY <1>1, <1>3, <2>1
<1>5. Erase(vector, i, e) = SubSeq(vector, 1, i) \o SubSeq(vector, e + 1, l)
  BY ONLY <1>1, <1>3 DEF Erase, Part
<1>6. RemoveAt(vector, e) = SubSeq(vector, 1, i) \o SubSeq(vector, e + 1, l)
  BY ONLY <1>1, <1>3 DEF RemoveAt
<1>. QED BY ONLY <1>1, <1>4, <1>5, <1>6

\* The element that is taken is the answer.
LEMMA TakeAtRight ==
  ASSUME VectorInv, ~aliased, NEW i \in Positions, TakeAt(i)
  PROVE  VectorInv'
<1>1. vector \in Seq(Elements) /\ qvector = vector
  BY VectorFacts
<1>2. PICK r : r = Erase(vector, i, i + 1)
  OBVIOUS
<1>3. r = RemoveAt(vector, i + 1) /\ r \in Seq(Elements)
  BY ONLY i \in Positions, <1>1, <1>2, OneErased
<1>4. Call(Erase(vector, i, i + 1), vector[i + 1], RemoveAt(qvector, i + 1), qvector[i + 1])
  BY Zenon DEF TakeAt, At
<1>5. Call(r, vector[i + 1], r, vector[i + 1])
  BY ONLY <1>1, <1>2, <1>3, <1>4, Zenon
<1>. QED BY <1>3, <1>5, CallRight, Zenon

\* removeAll() of a value.
LEMMA RemoveAllRight ==
  ASSUME VectorInv, ~aliased, NEW x, x.place = -1, x.value \in Elements, RemoveAll(x)
  PROVE  VectorInv'
<1>1. vector \in Seq(Elements) /\ qvector = vector /\ \A i \in DOMAIN vector : vector[i] \in Elements
  BY VectorFacts
<1>2. PICK kept, T, e, v, n, l : /\ e = x.value /\ T = Elements \ {e} /\ kept = Among(vector, T)
                                 /\ v = Compacted(x).v /\ n = Compacted(x).kept /\ l = Len(vector)
  OBVIOUS
<1>3. n = Len(kept) /\ Part(v, 0, n) = kept
  BY <1>1, <1>2, CompactedRight
<1>4. kept \in Seq(Elements)
  BY <1>1, <1>2, AmongRight
<1>5. Cardinality({i \in DOMAIN vector : vector[i] = e}) = l - n
  <2>1. {i \in DOMAIN vector : vector[i] = e} = {i \in DOMAIN vector : vector[i] \notin T}
    BY <1>1, <1>2
  <2>2. Cardinality({i \in DOMAIN vector : vector[i] \notin T}) = Len(vector) - Len(Among(vector, T))
    BY <1>1, AmongCount
  <2>. QED BY ONLY <1>2, <1>3, <2>1, <2>2
<1>6. ~(x.place >= 0)
  OBVIOUS
<1>7. /\ vector' = Part(v, 0, n) /\ answer' = l - n
      /\ qvector' = Among(qvector, Elements \ {IF x.place >= 0 THEN At(x.place) ELSE x.value})
      /\ qanswer' = Cardinality({i \in DOMAIN qvector : qvector[i] = IF x.place >= 0 THEN At(x.place) ELSE x.value})
      /\ aliased' = (aliased \/ x.place >= 0)
  BY ONLY RemoveAll(x), <1>2 DEF RemoveAll
<1>8. aliased' \in BOOLEAN
  BY ONLY <1>7, Zenon
<1>9. vector' = kept /\ qvector' = kept /\ answer' = qanswer'
  BY ONLY <1>1, <1>2, <1>3, <1>5, <1>6, <1>7
<1>. QED BY ONLY <1>4, <1>8, <1>9, Zenon DEF VectorInv

\* The places from b on that hold x, as positions of the sequence.
FoundFrom(b, x) == {k \in DOMAIN vector : vector[k] = x /\ k - 1 >= b}

\* std::find() finds the first of them.
LEMMA FindRight ==
  ASSUME vector \in Seq(Elements), NEW b \in 0 .. Len(vector), NEW x
  PROVE  /\ FoundFrom(b, x) = {} => Find(b, Len(vector), x) = Len(vector)
         /\ FoundFrom(b, x) # {} => /\ Min(FoundFrom(b, x)) \in FoundFrom(b, x)
                                    /\ Find(b, Len(vector), x) = Min(FoundFrom(b, x)) - 1
<1>1. PICK l, S, found : /\ l = Len(vector) /\ S = {i \in b .. l - 1 : vector[i + 1] = x} \cup {l}
                         /\ found = FoundFrom(b, x)
  OBVIOUS
<1>2. l \in Nat /\ DOMAIN vector = 1 .. l /\ b \in 0 .. l
  BY <1>1, LenProperties
<1>3. Find(b, l, x) = Min(S)
  BY <1>1 DEF Find, At
<1>4. \A k : k \in found <=> k \in 1 .. l /\ vector[k] = x /\ k - 1 >= b
  BY <1>1, <1>2 DEF FoundFrom
<1>5. S \in SUBSET Int
  BY <1>1, <1>2
<1>6. CASE found = {}
  <2>1. S = {l}
    <3>1. ASSUME NEW i \in b .. l - 1 PROVE vector[i + 1] # x
      <4>1. i + 1 \in 1 .. l /\ i + 1 - 1 >= b
        BY <1>2
      <4>. QED BY <1>4, <1>6, <4>1
    <3>. QED BY <1>1, <3>1
  <2>2. l \in S /\ \A i \in S : l <= i
    BY <1>2, <2>1
  <2>3. Min(S) = l
    BY ONLY <1>5, <2>2, LeastIs
  <2>. QED BY <1>1, <1>3, <1>6, <2>3
<1>7. CASE found # {}
  <2>1. found \in SUBSET Nat
    BY <1>2, <1>4
  <2>2. PICK m : m = Min(found)
    OBVIOUS
  <2>3. m \in found /\ \A k \in found : m <= k
    BY ONLY <1>7, <2>1, <2>2, MinRight
  <2>4. m \in 1 .. l /\ vector[m] = x /\ m - 1 >= b
    BY <1>4, <2>3
  <2>5. m - 1 \in b .. l - 1 /\ m - 1 + 1 = m
    BY <1>2, <2>4
  <2>6. m - 1 \in S
    BY <1>1, <2>4, <2>5
  <2>7. ASSUME NEW i \in S PROVE m - 1 <= i
    <3>1. CASE i = l
      BY <1>2, <2>4, <3>1
    <3>2. CASE i # l
      <4>1. i \in b .. l - 1 /\ vector[i + 1] = x
        BY <1>1, <3>2
      <4>2. i + 1 \in 1 .. l /\ i + 1 - 1 >= b
        BY <1>2, <4>1
      <4>3. i + 1 \in found
        BY <1>4, <4>1, <4>2
      <4>4. m <= i + 1
        BY <2>3, <4>3
      <4>. QED BY <2>4, <4>1, <4>4, <1>2
    <3>. QED BY <3>1, <3>2
  <2>8. Min(S) = m - 1
    BY ONLY <1>5, <2>6, <2>7, LeastIs
  <2>. QED BY <1>1, <1>3, <1>7, <2>2, <2>3, <2>8
<1>. QED BY <1>1, <1>6, <1>7

\* Only the first that equals the value goes.
LEMMA RemoveOneRight ==
  ASSUME VectorInv, ~aliased, NEW x, RemoveOne(x)
  PROVE  VectorInv'
<1>1. vector \in Seq(Elements) /\ qvector = vector
  BY VectorFacts
<1>2. PICK l, i, found, m : l = Len(vector) /\ i = Find(0, l, x) /\ found = FoundFrom(0, x) /\ m = Min(found)
  OBVIOUS
<1>3. l \in Nat /\ DOMAIN vector = 1 .. l
  BY <1>1, <1>2, LenProperties
<1>4. /\ found = {} => i = l
      /\ found # {} => m \in found /\ i = m - 1
  <2>1. 0 \in 0 .. Len(vector)
    BY <1>1, LenProperties
  <2>. QED BY ONLY <1>1, <1>2, <2>1, FindRight
<1>5. {k \in DOMAIN qvector : qvector[k] = x} = found
  BY <1>1, <1>2, <1>3 DEF FoundFrom
<1>6. Call(IF i = l THEN vector ELSE Erase(vector, i, i + 1), i # l,
           IF {k \in DOMAIN qvector : qvector[k] = x} = {} THEN qvector
           ELSE RemoveAt(qvector, Min({k \in DOMAIN qvector : qvector[k] = x})),
           {k \in DOMAIN qvector : qvector[k] = x} # {})
  BY ONLY RemoveOne(x), <1>2 DEF RemoveOne
<1>7. Call(IF i = l THEN vector ELSE Erase(vector, i, i + 1), i # l,
           IF found = {} THEN vector ELSE RemoveAt(vector, m), found # {})
  BY ONLY <1>1, <1>2, <1>5, <1>6
<1>8. CASE found = {}
  <2>1. (i # l) = FALSE /\ (found # {}) = FALSE
    BY <1>4, <1>8
  <2>2. Call(vector, FALSE, vector, FALSE)
    BY ONLY <1>4, <1>7, <1>8, <2>1
  <2>. QED BY <1>1, <2>2, CallRight, Zenon
<1>9. CASE found # {}
  <2>1. m \in 1 .. l
    BY <1>2, <1>3, <1>4, <1>9 DEF FoundFrom
  <2>2. i \in 0 .. l - 1 /\ i + 1 = m /\ i # l
    BY <1>3, <1>4, <1>9, <2>1
  <2>3. (i # l) = TRUE /\ (found # {}) = TRUE
    BY <1>9, <2>2
  <2>4. PICK r : r = Erase(vector, i, i + 1)
    OBVIOUS
  <2>5. r = RemoveAt(vector, m) /\ r \in Seq(Elements)
    <3>1. i \in Positions
      BY <1>2, <2>2 DEF Positions
    <3>2. Erase(vector, i, i + 1) = RemoveAt(vector, i + 1) /\ Erase(vector, i, i + 1) \in Seq(Elements)
      BY ONLY <1>1, <3>1, OneErased
    <3>. QED BY ONLY <2>2, <2>4, <3>2
  <2>6. Call(r, TRUE, r, TRUE)
    BY ONLY <1>7, <1>9, <2>2, <2>3, <2>4, <2>5
  <2>. QED BY <2>5, <2>6, CallRight, Zenon
<1>. QED BY <1>8, <1>9

\* The elements that are removed are counted.
LEMMA RemoveIfRight ==
  ASSUME VectorInv, ~aliased, NEW p \in SUBSET Elements, RemoveIf(p)
  PROVE  VectorInv'
<1>1. vector \in Seq(Elements) /\ qvector = vector /\ \A i \in DOMAIN vector : vector[i] \in Elements
  BY VectorFacts
<1>2. PICK kept, T : T = Elements \ p /\ kept = Among(vector, T)
  OBVIOUS
<1>3. kept \in Seq(Elements)
  BY <1>1, <1>2, AmongRight
<1>4. Cardinality({i \in DOMAIN vector : vector[i] \in p}) = Len(vector) - Len(kept)
  <2>1. {i \in DOMAIN vector : vector[i] \in p} = {i \in DOMAIN vector : vector[i] \notin T}
    BY <1>1, <1>2
  <2>2. Cardinality({i \in DOMAIN vector : vector[i] \notin T}) = Len(vector) - Len(Among(vector, T))
    BY <1>1, AmongCount
  <2>. QED BY ONLY <1>2, <2>1, <2>2
<1>5. Call(kept, Len(vector) - Len(kept), Among(qvector, T), Cardinality({k \in DOMAIN qvector : qvector[k] \in p}))
  BY ONLY RemoveIf(p), <1>2 DEF RemoveIf
<1>6. PICK a : a = Len(vector) - Len(kept)
  OBVIOUS
<1>7. Call(kept, a, kept, a)
  BY ONLY <1>1, <1>2, <1>4, <1>5, <1>6
<1>. QED BY <1>3, <1>7, CallRight, Zenon

\* Only -1 leaves the size as it is.
LEMMA FillRight ==
  ASSUME VectorInv, ~aliased, NEW x \in Elements, NEW i \in -1 .. MaxSize, Fill(x, i)
  PROVE  VectorInv'
<1>1. vector \in Seq(Elements) /\ qvector = vector /\ Len(vector) \in Nat
  BY VectorFacts
<1>2. i \in Int /\ (i < 0 <=> i = -1) /\ (i # -1 => i \in Nat)
  BY VectorAssumption
<1>3. PICK size : size = IF i < 0 THEN Len(vector) ELSE i
  OBVIOUS
<1>4. size \in Nat /\ size = IF i = -1 THEN Len(qvector) ELSE i
  BY ONLY <1>1, <1>2, <1>3
<1>5. PICK v : v = [k \in 1 .. size |-> x]
  OBVIOUS
<1>6. v \in Seq(Elements)
  <2>1. v \in [1 .. size -> Elements]
    BY ONLY <1>5, x \in Elements
  <2>. QED BY ONLY <1>4, <2>1, FunctionIsSeq
<1>7. Call([k \in 1 .. IF i < 0 THEN Len(vector) ELSE i |-> x], Nothing,
           [k \in 1 .. IF i = -1 THEN Len(qvector) ELSE i |-> x], Nothing)
  BY ONLY Fill(x, i) DEF Fill
<1>8. Call(v, Nothing, v, Nothing)
  BY ONLY <1>3, <1>4, <1>5, <1>7
<1>. QED BY <1>6, <1>8, CallRight, Zenon

\* A rotation moves one element and shifts those in between.
LEMMA MoveRight ==
  ASSUME VectorInv, ~aliased, NEW from \in Positions, NEW to \in Positions, move(from, to)
  PROVE  VectorInv'
<1>1. PICK l : l = Len(vector)
  OBVIOUS
<1>2. vector \in Seq(Elements) /\ qvector = vector /\ l \in Nat /\ DOMAIN vector = 1 .. l /\ \A k \in 1 .. l : vector[k] \in Elements
  BY <1>1, VectorFacts
<1>3. from \in 0 .. l - 1 /\ to \in 0 .. l - 1
  BY <1>1 DEF Positions
<1>4. PICK r : r = IF from < to THEN Rotate(from, from + 1, to + 1) ELSE Rotate(to, from, from + 1)
  OBVIOUS
<1>5. PICK t : t = Moved(from, to)
  OBVIOUS
<1>6. /\ DOMAIN t = 1 .. l
      /\ \A i \in 1 .. l : t[i] = IF i - 1 = to THEN vector[from + 1]
                                  ELSE IF from <= i - 1 /\ i - 1 < to THEN vector[i + 1]
                                  ELSE IF to < i - 1 /\ i - 1 <= from THEN vector[i - 1] ELSE vector[i]
  BY <1>2, <1>5 DEF Moved
<1>7. t \in Seq(Elements) /\ Len(t) = l
  <2>1. ASSUME NEW i \in 1 .. l PROVE t[i] \in Elements
    <3>1. from + 1 \in 1 .. l
      BY <1>2, <1>3
    <3>2. from <= i - 1 /\ i - 1 < to => i + 1 \in 1 .. l
      BY <1>2, <1>3
    <3>3. to < i - 1 /\ i - 1 <= from => i - 1 \in 1 .. l
      BY <1>2, <1>3
    <3>. QED BY <1>2, <1>6, <3>1, <3>2, <3>3
  <2>2. t = [i \in 1 .. l |-> t[i]]
    <3>1. t = [i \in DOMAIN t |-> t[i]]
      BY <1>5 DEF Moved
    <3>. QED BY ONLY <1>6, <3>1
  <2>3. t \in [1 .. l -> Elements]
    BY ONLY <2>1, <2>2
  <2>. QED BY ONLY <1>2, <2>3, FunctionIsSeq
<1>8. ASSUME NEW a \in 0 .. l, NEW m \in a .. l, NEW e \in m .. l
      PROVE  /\ Rotate(a, m, e) \in Seq(Elements) /\ Len(Rotate(a, m, e)) = l
             /\ \A k \in 1 .. l : Rotate(a, m, e)[k] =
                  IF k <= a \/ k > e THEN vector[k] ELSE IF k <= a + (e - m) THEN vector[k + (m - a)] ELSE vector[k - (e - m)]
  BY <1>1, <1>2, RotatedRight
<1>9. r \in Seq(Elements) /\ Len(r) = l /\ \A i \in 1 .. l : r[i] = t[i]
  <2>1. CASE from < to
    <3>1. from \in 0 .. l /\ from + 1 \in from .. l /\ to + 1 \in from + 1 .. l
      BY <1>2, <1>3, <2>1
    <3>2. PICK m, e : m = from + 1 /\ e = to + 1
      OBVIOUS
    <3>3. r = Rotate(from, m, e) /\ m \in from .. l /\ e \in m .. l
      BY ONLY <1>4, <2>1, <3>1, <3>2
    <3>4. /\ r \in Seq(Elements) /\ Len(r) = l
          /\ \A k \in 1 .. l : r[k] =
               IF k <= from \/ k > e THEN vector[k]
               ELSE IF k <= from + (e - m) THEN vector[k + (m - from)] ELSE vector[k - (e - m)]
      BY ONLY <1>8, <3>1, <3>3
    <3>5. ASSUME NEW i \in 1 .. l PROVE r[i] = t[i]
      <4>1. e = to + 1 /\ m - from = 1 /\ from + (e - m) = to /\ e - m = to - from
        BY <1>2, <1>3, <3>2
      <4>2. r[i] = IF i <= from \/ i > to + 1 THEN vector[i] ELSE IF i <= to THEN vector[i + 1] ELSE vector[i - (to - from)]
        BY ONLY <3>4, <4>1, i \in 1 .. l
      <4>3. CASE i <= from \/ i > to + 1
        BY ONLY <1>2, <1>3, <1>6, <2>1, <4>2, <4>3, i \in 1 .. l
      <4>4. CASE ~(i <= from) /\ i <= to
        BY ONLY <1>2, <1>3, <1>6, <2>1, <4>2, <4>4, i \in 1 .. l
      <4>5. CASE i = to + 1
        <5>1. i - (to - from) = from + 1 /\ i - 1 = to /\ ~(i <= from \/ i > to + 1) /\ ~(i <= to)
          BY ONLY <1>2, <1>3, <2>1, <4>5
        <5>. QED BY ONLY <1>6, <4>2, <5>1, i \in 1 .. l
      <4>. QED BY ONLY <1>2, <1>3, <4>3, <4>4, <4>5, i \in 1 .. l
    <3>. QED BY <3>4, <3>5
  <2>2. CASE ~(from < to)
    <3>1. to \in 0 .. l /\ from \in to .. l /\ from + 1 \in from .. l
      BY <1>2, <1>3, <2>2
    <3>2. PICK e : e = from + 1
      OBVIOUS
    <3>3. r = Rotate(to, from, e) /\ e \in from .. l
      BY ONLY <1>4, <2>2, <3>1, <3>2
    <3>4. /\ r \in Seq(Elements) /\ Len(r) = l
          /\ \A k \in 1 .. l : r[k] =
               IF k <= to \/ k > e THEN vector[k]
               ELSE IF k <= to + (e - from) THEN vector[k + (from - to)] ELSE vector[k - (e - from)]
      BY ONLY <1>8, <3>1, <3>3
    <3>5. ASSUME NEW i \in 1 .. l PROVE r[i] = t[i]
      <4>1. e = from + 1 /\ e - from = 1
        BY <1>2, <1>3, <3>2
      <4>2. r[i] = IF i <= to \/ i > from + 1 THEN vector[i] ELSE IF i <= to + 1 THEN vector[i + (from - to)] ELSE vector[i - 1]
        BY ONLY <3>4, <4>1, i \in 1 .. l
      <4>3. CASE i <= to \/ i > from + 1
        BY ONLY <1>2, <1>3, <1>6, <2>2, <4>2, <4>3, i \in 1 .. l
      <4>4. CASE i = to + 1
        <5>1. i + (from - to) = from + 1 /\ i - 1 = to /\ ~(i <= to \/ i > from + 1) /\ i <= to + 1
          BY ONLY <1>2, <1>3, <2>2, <4>4
        <5>. QED BY ONLY <1>6, <4>2, <5>1, i \in 1 .. l
      <4>5. CASE i > to + 1 /\ i <= from + 1
        BY ONLY <1>2, <1>3, <1>6, <2>2, <4>2, <4>5, i \in 1 .. l
      <4>. QED BY ONLY <1>2, <1>3, <4>3, <4>4, <4>5, i \in 1 .. l
    <3>. QED BY <3>4, <3>5
  <2>. QED BY <2>1, <2>2
<1>10. r = t
  BY ONLY <1>7, <1>9, SameList
<1>11. Call(r, Nothing, t, Nothing)
  BY ONLY move(from, to), <1>4, <1>5, Zenon DEF move
<1>. QED BY <1>7, <1>10, <1>11, CallRight, Zenon

\* A call that only answers.
LEMMA AnswerRight ==
  ASSUME VectorInv, ~aliased, NEW a, Answer(a, a)
  PROVE  VectorInv'
<1>1. vector \in Seq(Elements) /\ qvector = vector
  BY VectorFacts
<1>2. Call(vector, a, vector, a)
  BY ONLY <1>1, Answer(a, a), Zenon DEF Answer
<1>. QED BY <1>1, <1>2, CallRight, Zenon

\* Outside of the vector there is the default.
LEMMA VectorValueRight ==
  ASSUME VectorInv, ~aliased, NEW i \in -1 .. MaxSize, NEW x, Value(i, x)
  PROVE  VectorInv'
<1>1. PICK l : l = Len(vector)
  OBVIOUS
<1>2. qvector = vector /\ l \in Nat /\ DOMAIN vector = 1 .. l
  BY <1>1, VectorFacts
<1>3. (i >= 0 /\ i < l) <=> i + 1 \in 1 .. l
  BY <1>2, VectorAssumption
<1>4. PICK a : a = IF i >= 0 /\ i < l THEN vector[i + 1] ELSE x
  OBVIOUS
<1>5. a = IF i + 1 \in DOMAIN qvector THEN qvector[i + 1] ELSE x
  BY ONLY <1>2, <1>3, <1>4
<1>6. Answer(a, a)
  BY ONLY Value(i, x), <1>1, <1>4, <1>5 DEF Value, At
<1>. QED BY <1>6, AnswerRight, Zenon

\* The first and the last element.
LEMMA EndsRight ==
  ASSUME VectorInv, ~aliased, NEW x, StartsWith(x) \/ EndsWith(x)
  PROVE  VectorInv'
<1>1. PICK l : l = Len(vector)
  OBVIOUS
<1>2. qvector = vector /\ l \in Nat
  BY <1>1, VectorFacts
<1>3. 0 + 1 = 1 /\ l - 1 + 1 = l
  BY <1>2
<1>4. CASE StartsWith(x)
  <2>1. Answer(vector[0 + 1] = x, Head(qvector) = x)
    BY <1>4, Zenon DEF StartsWith, At
  <2>2. (vector[0 + 1] = x) = (vector[1] = x) /\ (Head(qvector) = x) = (vector[1] = x)
    <3>1. Head(qvector) = vector[1]
      BY <1>2, HeadTailProperties
    <3>. QED BY ONLY <1>3, <3>1
  <2>3. Answer(vector[1] = x, vector[1] = x)
    BY ONLY <2>1, <2>2, Zenon
  <2>. QED BY <2>3, AnswerRight, Zenon
<1>5. CASE EndsWith(x)
  <2>1. Answer(vector[l - 1 + 1] = x, qvector[Len(qvector)] = x)
    BY ONLY <1>1, <1>5, Zenon DEF EndsWith, At, Last
  <2>2. Answer(vector[l] = x, vector[l] = x)
    BY ONLY <1>1, <1>2, <1>3, <2>1, Zenon
  <2>. QED BY <2>2, AnswerRight, Zenon
<1>. QED BY <1>4, <1>5

\* A search starts at the place, a negative one counted from the end, ...
LEMMA IndexOfRight ==
  ASSUME VectorInv, ~aliased, NEW x, NEW from \in -MaxSize - 1 .. MaxSize + 1, IndexOf(x, from)
  PROVE  VectorInv'
<1>1. PICK l : l = Len(vector)
  OBVIOUS
<1>2. vector \in Seq(Elements) /\ qvector = vector /\ l \in Nat /\ DOMAIN vector = 1 .. l
  BY <1>1, VectorFacts
<1>3. from \in Int
  BY VectorAssumption
<1>4. PICK b : b = IF from < 0 THEN Max({from + l, 0}) ELSE from
  OBVIOUS
<1>5. b \in Nat /\ (from < 0 => (b = from + l \/ b = 0) /\ from + l <= b) /\ (~(from < 0) => b = from)
  <2>1. CASE from < 0
    <3>1. PICK S : S = {from + l, 0}
      OBVIOUS
    <3>2. b = Max(S)
      BY <1>4, <2>1, <3>1
    <3>3. S \in SUBSET Int /\ from + l \in S /\ 0 \in S
      BY <1>2, <1>3, <3>1
    <3>4. CASE from + l >= 0
      <4>1. \A i \in S : i <= from + l
        BY <1>2, <1>3, <3>1, <3>4
      <4>2. Max(S) = from + l
        BY ONLY <3>3, <4>1, GreatestIs
      <4>. QED BY <1>2, <1>3, <2>1, <3>2, <3>4, <4>2
    <3>5. CASE ~(from + l >= 0)
      <4>1. \A i \in S : i <= 0
        BY <1>2, <1>3, <3>1, <3>5
      <4>2. Max(S) = 0
        BY ONLY <3>3, <4>1, GreatestIs
      <4>. QED BY <1>2, <1>3, <2>1, <3>2, <3>5, <4>2
    <3>. QED BY <3>4, <3>5
  <2>2. CASE ~(from < 0)
    BY <1>3, <1>4, <2>2
  <2>. QED BY <2>1, <2>2
<1>6. PICK found, i : found = {k \in 1 .. l : vector[k] = x /\ k - 1 >= b} /\ i = Find(b, l, x)
  OBVIOUS
<1>7. {k \in DOMAIN qvector : qvector[k] = x /\ k - 1 >= Place(from)} = found
  <2>1. Place(from) = IF from < 0 THEN from + l ELSE from
    BY <1>1, <1>2 DEF Place
  <2>2. \A k \in 1 .. l : k - 1 >= Place(from) <=> k - 1 >= b
    BY <1>2, <1>3, <1>5, <2>1
  <2>. QED BY ONLY <1>2, <1>6, <2>2
<1>8. Answer(IF b < l /\ i # l THEN i ELSE -1, IF found = {} THEN -1 ELSE Min(found) - 1)
  <2>1. Answer(IF b < l /\ i # l THEN i ELSE -1,
               IF {k \in DOMAIN qvector : qvector[k] = x /\ k - 1 >= Place(from)} = {} THEN -1
               ELSE Min({k \in DOMAIN qvector : qvector[k] = x /\ k - 1 >= Place(from)}) - 1)
    BY ONLY IndexOf(x, from), <1>1, <1>4, <1>6 DEF IndexOf
  <2>. QED BY ONLY <1>7, <2>1
<1>9. PICK m, a : m = Min(found) /\ a = IF found = {} THEN -1 ELSE m - 1
  OBVIOUS
<1>10. CASE b < l
  <2>1. b \in 0 .. Len(vector)
    BY <1>1, <1>2, <1>5, <1>10
  <2>2. /\ FoundFrom(b, x) = {} => Find(b, Len(vector), x) = Len(vector)
        /\ FoundFrom(b, x) # {} => /\ Min(FoundFrom(b, x)) \in FoundFrom(b, x)
                                   /\ Find(b, Len(vector), x) = Min(FoundFrom(b, x)) - 1
    BY ONLY <1>2, <2>1, FindRight
  <2>3. FoundFrom(b, x) = found
    BY <1>2, <1>6 DEF FoundFrom
  <2>4. (found = {} => i = l) /\ (found # {} => m \in found /\ i = m - 1)
    BY ONLY <1>1, <1>6, <1>9, <2>2, <2>3
  <2>5. found # {} => m \in 1 .. l
    BY ONLY <1>6, <2>4
  <2>6. (IF b < l /\ i # l THEN i ELSE -1) = a
    BY ONLY <1>2, <1>9, <1>10, <2>4, <2>5
  <2>7. Answer(a, a)
    BY ONLY <1>8, <1>9, <2>6
  <2>. QED BY <2>7, AnswerRight, Zenon
<1>11. CASE ~(b < l)
  <2>1. found = {}
    BY <1>2, <1>5, <1>6, <1>11
  <2>2. Answer(-1, -1)
    BY ONLY <1>8, <1>11, <2>1
  <2>. QED BY <2>2, AnswerRight, Zenon
<1>. QED BY <1>10, <1>11

\* ... and backwards at the last element when the place is behind it.
LEMMA LastIndexOfRight ==
  ASSUME VectorInv, ~aliased, NEW x, NEW from \in -MaxSize - 1 .. MaxSize + 1, LastIndexOf(x, from)
  PROVE  VectorInv'
<1>1. PICK l : l = Len(vector)
  OBVIOUS
<1>2. vector \in Seq(Elements) /\ qvector = vector /\ l \in Nat /\ DOMAIN vector = 1 .. l
  BY <1>1, VectorFacts
<1>3. from \in Int
  BY VectorAssumption
<1>4. PICK b : b = IF from < 0 THEN from + l ELSE IF from >= l THEN l - 1 ELSE from
  OBVIOUS
<1>5. b \in Int /\ b <= l - 1
  BY <1>2, <1>3, <1>4
<1>6. PICK found, ahead : /\ found = {k \in 1 .. l : vector[k] = x /\ k - 1 <= b}
                          /\ ahead = {i \in 0 .. b : vector[i + 1] = x}
  OBVIOUS
<1>7. {k \in DOMAIN qvector : qvector[k] = x /\ k - 1 <= Place(from)} = found
  <2>1. Place(from) = IF from < 0 THEN from + l ELSE from
    BY <1>1, <1>2 DEF Place
  <2>2. \A k \in 1 .. l : k - 1 <= Place(from) <=> k - 1 <= b
    BY <1>2, <1>3, <1>4, <2>1
  <2>. QED BY ONLY <1>2, <1>6, <2>2
<1>8. Answer(IF b >= 0 /\ ahead # {} THEN Max(ahead) ELSE -1, IF found = {} THEN -1 ELSE Max(found) - 1)
  <2>1. Answer(IF b >= 0 /\ ahead # {} THEN Max(ahead) ELSE -1,
               IF {k \in DOMAIN qvector : qvector[k] = x /\ k - 1 <= Place(from)} = {} THEN -1
               ELSE Max({k \in DOMAIN qvector : qvector[k] = x /\ k - 1 <= Place(from)}) - 1)
    BY ONLY LastIndexOf(x, from), <1>1, <1>4, <1>6 DEF LastIndexOf, At
  <2>. QED BY ONLY <1>7, <2>1
<1>9. \A i : i \in ahead <=> i \in Int /\ i + 1 \in found
  <2>1. \A i \in Int : i \in 0 .. b <=> i + 1 \in 1 .. l /\ i + 1 - 1 <= b
    BY ONLY <1>2, <1>5
  <2>. QED BY <1>6, <2>1
<1>10. CASE found = {}
  <2>1. ahead = {}
    BY ONLY <1>9, <1>10
  <2>2. Answer(-1, -1)
    BY ONLY <1>8, <1>10, <2>1
  <2>. QED BY <2>2, AnswerRight, Zenon
<1>11. CASE found # {}
  <2>1. PICK m : m = Max(found)
    OBVIOUS
  <2>2. m \in found /\ \A k \in found : k <= m
    <3>1. found \in SUBSET Nat /\ \A k \in found : k <= l
      BY <1>2, <1>6
    <3>. QED BY ONLY <1>2, <1>11, <2>1, <3>1, MaxRight
  <2>3. m \in 1 .. l /\ m - 1 <= b /\ m - 1 + 1 = m
    BY <1>2, <1>6, <2>2
  <2>4. m - 1 \in ahead /\ b >= 0
    BY <1>5, <1>9, <2>2, <2>3
  <2>5. \A i \in ahead : i <= m - 1
    <3>1. \A i \in ahead : i \in Int /\ i + 1 <= m
      BY ONLY <1>9, <2>2
    <3>. QED BY ONLY <2>3, <3>1
  <2>6. Max(ahead) = m - 1
    <3>1. ahead \in SUBSET Int
      BY ONLY <1>9
    <3>. QED BY ONLY <2>4, <2>5, <3>1, GreatestIs
  <2>7. ahead # {}
    BY ONLY <2>4
  <2>8. Answer(m - 1, m - 1)
    BY ONLY <1>8, <1>11, <2>1, <2>4, <2>6, <2>7
  <2>. QED BY <2>8, AnswerRight, Zenon
<1>. QED BY <1>10, <1>11

\* A part ends with the vector.
LEMMA SubRight ==
  ASSUME VectorInv, ~aliased, NEW pos \in 0 .. Len(vector), NEW len \in -1 .. MaxSize, Sub(pos, len)
  PROVE  VectorInv'
<1>1. PICK l : l = Len(vector)
  OBVIOUS
<1>2. qvector = vector /\ l \in Nat /\ pos \in 0 .. l /\ len \in Int
  BY <1>1, VectorFacts, VectorAssumption
<1>3. PICK c, n : c = (IF len < 0 THEN l ELSE len) /\ n = Min({c, l - pos})
  OBVIOUS
<1>4. c \in Nat
  BY <1>2, <1>3
<1>5. n = IF c <= l - pos THEN c ELSE l - pos
  <2>1. PICK S : S = {c, l - pos}
    OBVIOUS
  <2>2. S \in SUBSET Int /\ c \in S /\ l - pos \in S
    BY <1>2, <1>4, <2>1
  <2>3. CASE c <= l - pos
    <3>1. \A i \in S : c <= i
      BY <1>2, <1>4, <2>1, <2>3
    <3>2. Min(S) = c
      BY ONLY <2>2, <3>1, LeastIs
    <3>. QED BY ONLY <1>3, <2>1, <2>3, <3>2
  <2>4. CASE ~(c <= l - pos)
    <3>1. \A i \in S : l - pos <= i
      BY <1>2, <1>4, <2>1, <2>4
    <3>2. Min(S) = l - pos
      BY ONLY <2>2, <3>1, LeastIs
    <3>. QED BY ONLY <1>3, <2>1, <2>4, <3>2
  <2>. QED BY <2>3, <2>4
<1>6. PICK d : d = IF len < 0 THEN l ELSE Min({l, pos + len})
  OBVIOUS
<1>7. pos + n = d
  <2>1. CASE len < 0
    <3>1. c = l /\ d = l
      BY ONLY <1>3, <1>6, <2>1
    <3>. QED BY ONLY <1>2, <1>5, <3>1
  <2>2. CASE ~(len < 0)
    <3>1. c = len
      BY ONLY <1>3, <2>2
    <3>2. PICK S : S = {l, pos + len}
      OBVIOUS
    <3>3. S \in SUBSET Int /\ l \in S /\ pos + len \in S
      BY <1>2, <3>2
    <3>4. CASE c <= l - pos
      <4>1. \A i \in S : pos + len <= i
        BY <1>2, <3>1, <3>2, <3>4
      <4>2. Min(S) = pos + len
        BY ONLY <3>3, <4>1, LeastIs
      <4>. QED BY ONLY <1>2, <1>5, <1>6, <2>2, <3>1, <3>2, <3>4, <4>2
    <3>5. CASE ~(c <= l - pos)
      <4>1. \A i \in S : l <= i
        BY <1>2, <3>1, <3>2, <3>5
      <4>2. Min(S) = l
        BY ONLY <3>3, <4>1, LeastIs
      <4>. QED BY ONLY <1>2, <1>5, <1>6, <2>2, <3>2, <3>5, <4>2
    <3>. QED BY <3>4, <3>5
  <2>. QED BY <2>1, <2>2
<1>8. PICK a : a = SubSeq(vector, pos + 1, d)
  OBVIOUS
<1>9. Answer(SubSeq(vector, pos + 1, pos + n),
             SubSeq(qvector, pos + 1, IF len < 0 THEN Len(qvector) ELSE Min({Len(qvector), pos + len})))
  BY ONLY Sub(pos, len), <1>1, <1>3 DEF Sub, Part
<1>10. Answer(a, a)
  BY ONLY <1>1, <1>2, <1>6, <1>7, <1>8, <1>9
<1>. QED BY <1>10, AnswerRight, Zenon

\* No call changes that, except the one that is given a reference into the vector.
LEMMA VectorStepRight == VectorInv /\ [VectorNext]_vectorVars => VectorInv'
<1> SUFFICES ASSUME VectorInv, [VectorNext]_vectorVars PROVE VectorInv'
  OBVIOUS
<1>1. CASE UNCHANGED vectorVars
  BY ONLY <1>1, VectorInv, Zenon DEF VectorInv, vectorVars
<1>2. CASE ~aliased /\ VectorStep
  <2>1. VectorInv /\ ~aliased
    BY <1>2
  <2>2. ASSUME NEW x \in Elements, NEW i \in 0 .. Len(vector), Insert(i, x) PROVE VectorInv'
    BY <2>1, <2>2, InsertRight
  <2>3. ASSUME NEW x \in Elements, RemoveAll([place |-> -1, value |-> x]) PROVE VectorInv'
    <3>1. PICK y : y = [place |-> -1, value |-> x]
      OBVIOUS
    <3>2. y.place = -1 /\ y.value \in Elements /\ RemoveAll(y)
      BY <2>3, <3>1
    <3>. QED BY ONLY <2>1, <3>2, RemoveAllRight
  <2>4. ASSUME NEW x \in Elements, RemoveOne(x) PROVE VectorInv'
    BY <2>1, <2>4, RemoveOneRight
  <2>5. ASSUME NEW x \in Elements, StartsWith(x) \/ EndsWith(x) PROVE VectorInv'
    BY <2>1, <2>5, EndsRight
  <2>6. ASSUME NEW x \in Elements, NEW i \in -1 .. MaxSize, Fill(x, i) \/ Value(i, x) PROVE VectorInv'
    BY <2>1, <2>6, FillRight, VectorValueRight
  <2>7. ASSUME NEW x \in Elements, NEW i \in -MaxSize - 1 .. MaxSize + 1, IndexOf(x, i) \/ LastIndexOf(x, i)
        PROVE  VectorInv'
    BY <2>1, <2>7, IndexOfRight, LastIndexOfRight
  <2>8. ASSUME NEW v \in BoundedSeq(Elements, 2), Concat(v) PROVE VectorInv'
    <3>1. PICK k \in 0 .. 2 : v \in [1 .. k -> Elements]
      BY DEF BoundedSeq, SeqOf
    <3>2. v \in Seq(Elements)
      <4>1. k \in Nat
        OBVIOUS
      <4>. QED BY ONLY <3>1, <4>1, FunctionIsSeq
    <3>. QED BY <2>1, <2>8, <3>2, ConcatRight
  <2>9. ASSUME AppendSelf PROVE VectorInv'
    BY <2>1, <2>9, AppendSelfRight
  <2>10. ASSUME NEW p \in SUBSET Elements, RemoveIf(p) PROVE VectorInv'
    BY <2>1, <2>10, RemoveIfRight
  <2>11. ASSUME NEW i \in Positions, TakeAt(i) PROVE VectorInv'
    BY <2>1, <2>11, TakeAtRight
  <2>12. ASSUME NEW i \in Positions, NEW count \in 1 .. Len(vector) - i, RemoveRange(i, count) PROVE VectorInv'
    BY <2>1, <2>12, RemoveRangeRight
  <2>13. ASSUME NEW i \in Positions, RemoveAll([place |-> i, value |-> At(i)]) PROVE VectorInv'
    <3>1. PICK y : y = [place |-> i, value |-> At(i)]
      OBVIOUS
    <3>2. y.place >= 0
      BY <3>1 DEF Positions
    <3>3. aliased' = (aliased \/ y.place >= 0)
      BY ONLY <2>13, <3>1 DEF RemoveAll
    <3>4. aliased' = TRUE
      BY ONLY <3>2, <3>3, Zenon
    <3>. QED BY ONLY <3>4, Zenon DEF VectorInv
  <2>14. ASSUME NEW from \in Positions, NEW to \in Positions, move(from, to) PROVE VectorInv'
    BY <2>1, <2>14, MoveRight
  <2>15. ASSUME NEW pos \in 0 .. Len(vector), NEW len \in -1 .. MaxSize, Sub(pos, len) PROVE VectorInv'
    BY <2>1, <2>15, SubRight
  <2>. QED BY <1>2, <2>2, <2>3, <2>4, <2>5, <2>6, <2>7, <2>8, <2>9, <2>10, <2>11, <2>12, <2>13, <2>14, <2>15,
           Zenon DEF VectorStep
<1>. QED BY <1>1, <1>2, Zenon DEF VectorNext

\* The vector holds, and answers, what a QVector would after the same calls,
\* up to the first one that is given a reference into it.
THEOREM VectorIsAsQVector == VectorSpec => []AsQVector
<1>1. VectorInit => VectorInv
  <2>1. <<>> \in Seq(Elements)
    OBVIOUS
  <2>2. ASSUME VectorInit PROVE VectorInv
    BY <2>1, <2>2, Zenon DEF VectorInit, VectorInv
  <2>. QED BY <2>2
<1>2. VectorInv => AsQVector
  BY Zenon DEF VectorInv, AsQVector
<1>. QED BY <1>1, <1>2, VectorStepRight, PTL DEF VectorSpec

-----------------------------------------------------------------------------
(* PropertySelector *)

\* The elements of R that come before r.
Lower(R, less, r) == {s \in R : <<s, r>> \in less}

\* A total order, and the place that it gives to each of finitely many elements.
Orders(R, less) ==
  /\ less \subseteq R \X R
  /\ \A r \in R : <<r, r>> \notin less
  /\ \A r, s, t \in R : <<r, s>> \in less /\ <<s, t>> \in less => <<r, t>> \in less
  /\ \A r, s \in R : r # s => <<r, s>> \in less \/ <<s, r>> \in less

Ranks(R, less, rank) ==
  /\ rank \in [R -> 0 .. Cardinality(R) - 1]
  /\ \A r \in R : rank[r] = Cardinality(Lower(R, less, r))
  /\ \A r, s \in R : <<s, r>> \in less => rank[s] < rank[r]
  /\ \A k \in 0 .. Cardinality(R) - 1 : \E r \in R : rank[r] = k

\* In an order of a finite set there is one element for each number of elements that
\* come before it.
LEMMA RanksRight ==
  ASSUME NEW R, IsFiniteSet(R), NEW less, Orders(R, less)
  PROVE  \E rank : Ranks(R, less, rank)
<1> DEFINE Behind(r) == {s \in R : <<s, r>> \in less}
<1> USE DEF Orders
<1>1. ASSUME NEW r \in R
      PROVE  /\ IsFiniteSet(Behind(r)) /\ Cardinality(Behind(r)) \in Nat
             /\ Cardinality(Behind(r)) < Cardinality(R)
  <2>1. PICK B : B = Behind(r)
    OBVIOUS
  <2>2. B \in SUBSET R /\ r \notin B
    BY <2>1
  <2>3. IsFiniteSet(B) /\ Cardinality(B) <= Cardinality(R) /\ (Cardinality(R) = Cardinality(B) => R = B)
    BY ONLY <2>2, FS_Subset, IsFiniteSet(R)
  <2>4. Cardinality(B) \in Nat /\ Cardinality(R) \in Nat
    BY ONLY <2>3, FS_CardinalityType, IsFiniteSet(R)
  <2>5. Cardinality(R) # Cardinality(B)
    BY <2>2, <2>3
  <2>6. Cardinality(B) < Cardinality(R)
    BY ONLY <2>3, <2>4, <2>5
  <2>. QED BY ONLY <2>1, <2>3, <2>4, <2>6
<1>2. ASSUME NEW r \in R, NEW s \in R, <<s, r>> \in less
      PROVE  Cardinality(Behind(s)) < Cardinality(Behind(r))
  <2>1. PICK B, C : B = Behind(r) /\ C = Behind(s)
    OBVIOUS
  <2>2. C \in SUBSET B /\ s \in B /\ s \notin C
    BY <1>2, <2>1
  <2>3. IsFiniteSet(B) /\ Cardinality(B) \in Nat /\ Cardinality(C) \in Nat
    BY <1>1, <2>1
  <2>4. Cardinality(C) <= Cardinality(B) /\ (Cardinality(B) = Cardinality(C) => B = C)
    BY ONLY <2>2, <2>3, FS_Subset
  <2>5. Cardinality(B) # Cardinality(C)
    BY <2>2, <2>4
  <2>. QED BY ONLY <2>1, <2>3, <2>4, <2>5
<1>3. PICK rank : rank = [r \in R |-> Cardinality(Behind(r))]
  OBVIOUS
<1>4. PICK n : n = Cardinality(R)
  OBVIOUS
<1>5. n \in Nat
  BY <1>4, FS_CardinalityType
<1>6. rank \in [R -> 0 .. n - 1]
  <2>1. \A r \in R : Cardinality(Behind(r)) \in 0 .. n - 1
    <3>1. ASSUME NEW r \in R PROVE Cardinality(Behind(r)) \in 0 .. n - 1
      <4>1. PICK c : c = Cardinality(Behind(r))
        OBVIOUS
      <4>2. c \in Nat /\ c < n
        BY <1>1, <1>4, <4>1
      <4>. QED BY ONLY <1>5, <4>1, <4>2
    <3>. QED BY <3>1
  <2> HIDE DEF Behind
  <2>. QED BY <1>3, <2>1
<1>7. \A r, s \in R : <<s, r>> \in less => rank[s] < rank[r]
  <2> HIDE DEF Behind
  <2>. QED BY <1>2, <1>3
<1>8. rank \in Injection(R, 0 .. n - 1)
  <2>1. ASSUME NEW r \in R, NEW s \in R, rank[r] = rank[s] PROVE r = s
    <3>1. rank[r] \in Int /\ rank[s] \in Int
      BY <1>6
    <3>2. ~(rank[s] < rank[r]) /\ ~(rank[r] < rank[s])
      BY ONLY <2>1, <3>1
    <3>. QED BY <1>7, <3>2
  <2>2. IsInjective(rank)
    BY ONLY <1>6, <2>1 DEF IsInjective
  <2>. QED BY ONLY <1>6, <2>2 DEF Injection
<1>9. rank \in Surjection(R, 0 .. n - 1)
  <2>1. PICK T : T = 0 .. n - 1
    OBVIOUS
  <2>2. IsFiniteSet(T) /\ Cardinality(T) = n
    BY ONLY <1>5, <2>1, FS_Interval
  <2>. QED BY ONLY <1>4, <1>8, <2>1, <2>2, FS_Injection
<1>10. \A k \in 0 .. n - 1 : \E r \in R : rank[r] = k
  BY ONLY <1>9 DEF Surjection
<1>11. \A r \in R : rank[r] = Cardinality(Lower(R, less, r))
  BY <1>3 DEF Lower
<1>. QED BY <1>4, <1>6, <1>7, <1>10, <1>11 DEF Ranks

\* The rules, and what a rule is.
AllRules == ToSet(Rules)

RulesType == [conditions : SUBSET Conditions, property : Int, line : Nat \ {0}, script : BOOLEAN]

\* A rule has a property, a line, and finitely many conditions.
LEMMA RuleTypes ==
  ASSUME SelectorAssumption, NEW r \in AllRules
  PROVE  /\ r.conditions \subseteq Conditions /\ r.property \in Int /\ r.line \in Nat /\ r.line # 0
         /\ Cardinality(r.conditions) \in Nat
<1>1. Rules \in Seq(RulesType) /\ \E i \in DOMAIN Rules : r = Rules[i]
  BY DEF SelectorAssumption, RulesType, AllRules, ToSet
<1>2. r \in RulesType
  BY ONLY <1>1, ElementOfSeq, LenProperties
<1>3. r.conditions \subseteq Conditions /\ r.property \in Int /\ r.line \in Nat /\ r.line # 0
  BY ONLY <1>2 DEF RulesType
<1>4. IsFiniteSet(Conditions)
  BY DEF SelectorAssumption
<1>5. IsFiniteSet(r.conditions)
  BY ONLY <1>3, <1>4, FS_Subset
<1>. QED BY <1>3, <1>5, FS_CardinalityType

\* operator< orders the rules.
LEMMA BeforeOrders ==
  ASSUME SelectorAssumption
  PROVE  /\ \A r \in AllRules : ~Before(r, r)
         /\ \A r, s, t \in AllRules : Before(r, s) /\ Before(s, t) => Before(r, t)
         /\ \A r, s \in AllRules : r # s => Before(r, s) \/ Before(s, r)
<1>1. \A r \in AllRules : \E i \in DOMAIN Rules : r = Rules[i]
  BY DEF AllRules, ToSet
<1>2. ASSUME NEW r \in AllRules
      PROVE  r.property \in Int /\ r.line \in Nat /\ Cardinality(r.conditions) \in Nat
  BY RuleTypes
<1>3. \A r, s \in AllRules : r.line = s.line => r = s
  <2>1. ASSUME NEW r \in AllRules, NEW s \in AllRules, r.line = s.line PROVE r = s
    <3>1. PICK i, j \in DOMAIN Rules : r = Rules[i] /\ s = Rules[j]
      BY <1>1
    <3>. QED BY <2>1, <3>1 DEF SelectorAssumption
  <2>. QED BY <2>1
<1>4. ASSUME NEW r \in AllRules, NEW s \in AllRules, NEW t \in AllRules
      PROVE  /\ ~Before(r, r) /\ (Before(r, s) /\ Before(s, t) => Before(r, t))
             /\ (r # s => Before(r, s) \/ Before(s, r))
  <2>1. PICK a, b, c : a = Cardinality(r.conditions) /\ b = Cardinality(s.conditions) /\ c = Cardinality(t.conditions)
    OBVIOUS
  <2>2. a \in Nat /\ b \in Nat /\ c \in Nat
    BY <1>2, <2>1
  <2>3. /\ r.property \in Int /\ s.property \in Int /\ t.property \in Int
        /\ r.line \in Nat /\ s.line \in Nat /\ t.line \in Nat
    BY <1>2
  <2>4. PICK i, j, k : i = r.property /\ j = s.property /\ k = t.property
    OBVIOUS
  <2>5. PICK u, v, w : u = r.line /\ v = s.line /\ w = t.line
    OBVIOUS
  <2>6. ~Before(r, r)
    BY ONLY <2>1, <2>2, <2>3 DEF Before
  <2>7. Before(r, s) /\ Before(s, t) => Before(r, t)
    BY ONLY <2>1, <2>2, <2>3, <2>4, <2>5 DEF Before
  <2>8. r # s => Before(r, s) \/ Before(s, r)
    <3>1. r # s => r.line # s.line
      BY <1>3
    <3>. QED BY ONLY <2>1, <2>2, <2>3, <2>4, <2>5, <3>1 DEF Before
  <2>. QED BY <2>6, <2>7, <2>8
<1>. QED BY ONLY <1>4

\* There are as many rules as the list has.
LEMMA CountOfRules ==
  ASSUME SelectorAssumption
  PROVE  IsFiniteSet(AllRules) /\ Cardinality(AllRules) = Len(Rules) /\ Len(Rules) \in Nat /\ DOMAIN Rules = 1 .. Len(Rules)
<1>1. PICK n : n = Len(Rules)
  OBVIOUS
<1>2. n \in Nat /\ DOMAIN Rules = 1 .. n /\ Rules \in [1 .. n -> AllRules]
  <2>1. Rules \in Seq(RulesType)
    BY DEF SelectorAssumption, RulesType
  <2>2. n \in Nat /\ DOMAIN Rules = 1 .. n /\ Rules = [i \in 1 .. n |-> Rules[i]]
    BY ONLY <1>1, <2>1, LenProperties
  <2>. QED BY ONLY <2>2 DEF AllRules, ToSet
<1>3. \A i, j \in 1 .. n : Rules[i] = Rules[j] => i = j
  BY <1>2 DEF SelectorAssumption
<1>4. \A r \in AllRules : \E i \in 1 .. n : Rules[i] = r
  BY <1>2 DEF AllRules, ToSet
<1>5. Rules \in Bijection(1 .. n, AllRules)
  BY ONLY <1>2, <1>3, <1>4 DEF Bijection, Injection, Surjection, IsInjective
<1>6. ExistsBijection(1 .. n, AllRules)
  BY ONLY <1>5 DEF ExistsBijection
<1>7. PICK T : T = 1 .. n
  OBVIOUS
<1>8. IsFiniteSet(T) /\ Cardinality(T) = n
  BY ONLY <1>2, <1>7, FS_Interval
<1>9. IsFiniteSet(AllRules) /\ Cardinality(AllRules) = n
  BY ONLY <1>6, <1>7, <1>8, FS_Bijection
<1>. QED BY <1>1, <1>2, <1>9

\* The list of rules has all of them, sorted.
LEMMA RuleListRight ==
  ASSUME SelectorAssumption
  PROVE  /\ RuleList \in [1 .. Len(Rules) -> AllRules]
         /\ \A r \in AllRules : \E i \in 1 .. Len(Rules) : RuleList[i] = r
         /\ \A i, j \in 1 .. Len(Rules) : i < j => Before(RuleList[i], RuleList[j])
<1>1. PICK n : n = Len(Rules)
  OBVIOUS
<1>2. IsFiniteSet(AllRules) /\ Cardinality(AllRules) = n /\ n \in Nat /\ DOMAIN Rules = 1 .. n
  BY <1>1, CountOfRules
<1>3. PICK less : less = {p \in AllRules \X AllRules : Before(p[1], p[2])}
  OBVIOUS
<1>4. less \in SUBSET (AllRules \X AllRules) /\ \A r, s \in AllRules : <<r, s>> \in less <=> Before(r, s)
  BY ONLY <1>3
<1>5. Orders(AllRules, less)
  BY <1>4, BeforeOrders DEF Orders
<1>6. PICK rank : Ranks(AllRules, less, rank)
  BY ONLY <1>2, <1>5, RanksRight, Zenon
<1>7. /\ rank \in [AllRules -> 0 .. n - 1]
      /\ \A r \in AllRules : rank[r] = Cardinality(Lower(AllRules, less, r))
      /\ \A r, s \in AllRules : Before(s, r) => rank[s] < rank[r]
      /\ \A k \in 0 .. n - 1 : \E r \in AllRules : rank[r] = k
  BY <1>2, <1>4, <1>6 DEF Ranks
<1>8. \A r \in AllRules : rank[r] = Cardinality({s \in AllRules : Before(s, r)})
  <2>1. ASSUME NEW r \in AllRules PROVE rank[r] = Cardinality({s \in AllRules : Before(s, r)})
    <3>1. {s \in AllRules : Before(s, r)} = {s \in AllRules : <<s, r>> \in less}
      BY ONLY <1>4
    <3>. QED BY <1>7, <3>1 DEF Lower
  <2>. QED BY <2>1
<1>9. RuleList = [i \in 1 .. n |-> CHOOSE r \in AllRules : Cardinality({s \in AllRules : Before(s, r)}) = i - 1]
  BY ONLY <1>2 DEF RuleList, AllRules
<1>10. \A i \in 1 .. n : RuleList[i] \in AllRules /\ rank[RuleList[i]] = i - 1
  <2>1. ASSUME NEW i \in 1 .. n PROVE RuleList[i] \in AllRules /\ rank[RuleList[i]] = i - 1
    <3>1. PICK k : k = i - 1
      OBVIOUS
    <3>2. k \in 0 .. n - 1
      BY ONLY <1>2, <3>1, i \in 1 .. n
    <3>3. \E r \in AllRules : rank[r] = i - 1
      BY ONLY <1>7, <3>1, <3>2
    <3>4. \E r \in AllRules : Cardinality({s \in AllRules : Before(s, r)}) = i - 1
      BY <1>8, <3>3
    <3>5. RuleList[i] \in AllRules /\ Cardinality({s \in AllRules : Before(s, RuleList[i])}) = i - 1
      BY ONLY <1>9, <3>4
    <3>. QED BY <1>8, <3>5
  <2>. QED BY <2>1
<1>11. RuleList \in [1 .. n -> AllRules]
  BY ONLY <1>9, <1>10
<1>12. \A r, s \in AllRules : rank[r] = rank[s] => r = s
  <2>1. ASSUME NEW r \in AllRules, NEW s \in AllRules, rank[r] = rank[s], r # s PROVE FALSE
    <3>1. rank[r] \in Int /\ rank[s] \in Int
      BY <1>7
    <3>2. rank[r] < rank[s] \/ rank[s] < rank[r]
      BY <2>1, <1>7, BeforeOrders
    <3>. QED BY ONLY <2>1, <3>1, <3>2
  <2>. QED BY <2>1
<1>13. ASSUME NEW r \in AllRules PROVE \E i \in 1 .. n : RuleList[i] = r
  <2>1. PICK i : i = rank[r] + 1
    OBVIOUS
  <2>2. rank[r] \in 0 .. n - 1
    BY <1>7
  <2>3. i \in 1 .. n /\ i - 1 = rank[r]
    BY ONLY <1>2, <2>1, <2>2
  <2>. QED BY <1>10, <1>12, <2>3
<1>14. ASSUME NEW i \in 1 .. n, NEW j \in 1 .. n, i < j PROVE Before(RuleList[i], RuleList[j])
  <2>1. PICK r, s : r = RuleList[i] /\ s = RuleList[j]
    OBVIOUS
  <2>2. r \in AllRules /\ s \in AllRules /\ rank[r] = i - 1 /\ rank[s] = j - 1
    BY <1>10, <2>1
  <2>3. r # s /\ ~(rank[s] < rank[r])
    BY ONLY <1>2, <1>14, <2>2
  <2>. QED BY <1>7, <2>1, <2>2, <2>3, BeforeOrders
<1>. QED BY <1>1, <1>11, <1>13, <1>14

\* What apply() finds is a rule of the property, or none.
LEMMA FoundIsRule ==
  ASSUME SelectorAssumption, NEW p, NEW holds
  PROVE  Found(p, holds) = NoRule \/ (Found(p, holds) \in AllRules /\ Found(p, holds).property = p)
<1> DEFINE matching == {i \in DOMAIN RuleList : RuleList[i].property = p /\ RuleList[i].conditions \subseteq holds}
<1>1. DOMAIN RuleList = 1 .. Len(Rules) /\ Len(Rules) \in Nat /\ \A i \in 1 .. Len(Rules) : RuleList[i] \in AllRules
  BY RuleListRight, CountOfRules
<1>2. CASE matching = {}
  BY <1>2 DEF Found
<1>3. CASE matching # {}
  <2>1. matching \in SUBSET Nat
    BY <1>1
  <2>2. Min(matching) \in matching
    <3> HIDE DEF matching
    <3>. QED BY <1>3, <2>1, MinRight
  <2>3. Found(p, holds) = RuleList[Min(matching)]
    BY <1>3 DEF Found
  <2>4. PICK i \in matching : Found(p, holds) = RuleList[i]
    <3> HIDE DEF matching
    <3>. QED BY <2>2, <2>3
  <2>. QED BY <1>1, <2>4
<1>. QED BY <1>2, <1>3

\* apply() finds the rule that the documentation asks for, although it only knows the
\* conditions that are used.
LEMMA FoundRight ==
  ASSUME SelectorAssumption, NEW p, NEW holds, NEW r, IsRuleFor(r, p, holds)
  PROVE  Found(p, holds \cap UsedConditions) = r /\ r # NoRule
<1> DEFINE matching == {i \in DOMAIN RuleList :
             RuleList[i].property = p /\ RuleList[i].conditions \subseteq holds \cap UsedConditions}
<1>1. PICK n : n = Len(Rules)
  OBVIOUS
<1>2. /\ n \in Nat /\ DOMAIN RuleList = 1 .. n /\ \A i \in 1 .. n : RuleList[i] \in AllRules
      /\ \A s \in AllRules : \E i \in 1 .. n : RuleList[i] = s
      /\ \A i, j \in 1 .. n : i < j => Before(RuleList[i], RuleList[j])
  BY <1>1, RuleListRight, CountOfRules
<1>3. \A i \in 1 .. n : RuleList[i].conditions \subseteq UsedConditions
  BY <1>2 DEF UsedConditions
<1>4. r \in AllRules /\ r.property = p /\ r.conditions \subseteq holds
  BY DEF IsRuleFor, AllRules
<1>5. PICK k \in 1 .. n : RuleList[k] = r
  BY <1>2, <1>4
<1>6. k \in matching
  BY <1>2, <1>3, <1>4, <1>5
<1>7. ASSUME NEW i \in matching, ~(k <= i) PROVE FALSE
  <2>1. i \in 1 .. n /\ RuleList[i].property = p /\ RuleList[i].conditions \subseteq holds
    BY <1>2
  <2>2. i < k
    BY ONLY <1>2, <1>7, <2>1, k \in 1 .. n
  <2>3. PICK s : s = RuleList[i]
    OBVIOUS
  <2>4. s \in AllRules /\ s.property = p /\ s.conditions \subseteq holds /\ Before(s, r)
    BY <1>2, <1>5, <2>1, <2>2, <2>3
  <2>5. s # r
    BY <2>4, BeforeOrders
  <2>6. PICK a, b : a = Cardinality(s.conditions) /\ b = Cardinality(r.conditions)
    OBVIOUS
  <2>7. a < b \/ (a = b /\ s.line < r.line)
    <3>1. \A q \in AllRules : q.property = p /\ q.conditions \subseteq holds /\ q # r =>
            \/ Cardinality(q.conditions) < Cardinality(r.conditions)
            \/ Cardinality(q.conditions) = Cardinality(r.conditions) /\ q.line < r.line
      BY ONLY IsRuleFor(r, p, holds), Zenon DEF IsRuleFor, AllRules
    <3>2. \/ Cardinality(s.conditions) < Cardinality(r.conditions)
          \/ Cardinality(s.conditions) = Cardinality(r.conditions) /\ s.line < r.line
      BY ONLY <2>4, <2>5, <3>1, Zenon
    <3>. QED BY ONLY <2>6, <3>2
  <2>8. a > b \/ (a = b /\ s.line > r.line)
    <3>1. p \in Int
      BY <1>4, RuleTypes
    <3>. QED BY ONLY <1>4, <2>4, <2>6, <3>1 DEF Before
  <2>9. a \in Nat /\ b \in Nat /\ s.line \in Nat /\ r.line \in Nat
    BY <1>4, <2>4, <2>6, RuleTypes
  <2>. QED BY ONLY <2>7, <2>8, <2>9
<1>8. Min(matching) = k
  <2>1. matching \subseteq 1 .. n
    BY ONLY <1>2
  <2> HIDE DEF matching
  <2>2. \A i \in matching : k <= i
    BY ONLY <1>7, Zenon
  <2>3. matching \in SUBSET Int
    BY ONLY <1>2, <2>1
  <2>. QED BY ONLY <1>6, <2>2, <2>3, LeastIs
<1>9. Found(p, holds \cap UsedConditions) = RuleList[k]
  BY <1>6, <1>8 DEF Found
<1>10. r # NoRule
  <2>1. r.line # 0
    BY <1>4, RuleTypes
  <2>. QED BY <2>1 DEF NoRule
<1>. QED BY <1>5, <1>9, <1>10

\* m_properties has the properties that rules can be found for.
LEMMA PropertyListRight ==
  ASSUME SelectorAssumption
  PROVE  /\ PropertyList \in Seq(Declared)
         /\ \A r \in AllRules : r.property \in Declared => r.property \in ToSet(PropertyList)
<1>1. PICK n : n = Len(Rules)
  OBVIOUS
<1>2. n \in Nat /\ DOMAIN RuleList = 1 .. n /\ \A s \in AllRules : \E i \in 1 .. n : RuleList[i] = s
  BY <1>1, RuleListRight, CountOfRules
<1> DEFINE starts == {i \in DOMAIN RuleList : i = 1 \/ RuleList[i].property # RuleList[i - 1].property}
           known  == {i \in DOMAIN RuleList : RuleList[i].property \in Declared}
<1>3. PICK all : all = [i \in 1 .. n |-> i]
  OBVIOUS
<1>4. all \in Seq(Nat) /\ DOMAIN all = 1 .. n /\ \A i \in 1 .. n : all[i] = i
  <2>1. all \in [1 .. n -> Nat]
    BY ONLY <1>3
  <2>2. all \in Seq(Nat)
    BY ONLY <1>2, <2>1, FunctionIsSeq
  <2>. QED BY <1>3, <2>2
<1>5. PICK part : part = starts \cap known
  OBVIOUS
<1>6. PICK list : list = Among(all, part)
  OBVIOUS
<1>7. list \in Seq(Nat) /\ Range(list) = Range(all) \cap part
  BY ONLY <1>4, <1>6, AmongRight
<1>8. PICK m : m = Len(list)
  OBVIOUS
<1>9. m \in Nat /\ DOMAIN list = 1 .. m
  BY ONLY <1>7, <1>8, LenProperties
<1>10. PropertyList = [i \in 1 .. m |-> RuleList[list[i]].property]
  BY ONLY <1>2, <1>3, <1>5, <1>6, <1>9 DEF PropertyList
<1>11. \A i \in 1 .. m : list[i] \in known
  BY ONLY <1>5, <1>7, <1>9 DEF Range
<1>12. PropertyList \in Seq(Declared) /\ DOMAIN PropertyList = 1 .. m
  <2>1. PropertyList \in [1 .. m -> Declared]
    BY ONLY <1>10, <1>11
  <2>. QED BY ONLY <1>9, <2>1, FunctionIsSeq
<1>13. ASSUME NEW r \in AllRules, r.property \in Declared PROVE r.property \in ToSet(PropertyList)
  <2>1. PICK same : same = {i \in 1 .. n : RuleList[i].property = r.property}
    OBVIOUS
  <2>2. same \in SUBSET Nat /\ same # {}
    BY <1>2, <2>1
  <2>3. PICK k \in same : \A i \in same : k <= i
    BY ONLY <2>2, LeastNumber
  <2>4. k \in 1 .. n /\ RuleList[k].property = r.property
    BY ONLY <2>1, <2>3
  <2>5. k = 1 \/ RuleList[k - 1].property # r.property
    <3>1. ASSUME k # 1, RuleList[k - 1].property = r.property PROVE FALSE
      <4>1. PICK j : j = k - 1
        OBVIOUS
      <4>2. j \in 1 .. n /\ ~(k <= j)
        BY ONLY <1>2, <2>4, <3>1, <4>1
      <4>. QED BY ONLY <2>1, <2>3, <3>1, <4>1, <4>2
    <3>. QED BY <3>1
  <2>6. k \in part
    BY ONLY <1>2, <1>5, <1>13, <2>4, <2>5
  <2>7. PICK i \in 1 .. m : list[i] = k
    <3>1. k \in Range(all)
      BY ONLY <1>4, <2>4 DEF Range
    <3>2. k \in Range(list)
      BY ONLY <1>7, <2>6, <3>1
    <3>. QED BY ONLY <1>9, <3>2 DEF Range
  <2>8. PropertyList[i] = r.property
    BY ONLY <1>10, <2>4, <2>7
  <2>. QED BY <1>12, <2>8 DEF ToSet
<1>. QED BY <1>12, <1>13

\* The calls of apply().
Calls == [read : BOOLEAN, holds : SUBSET Conditions, left : Seq(Declared), rule : AllRules \cup {NoRule}]

\* A call reads before it does anything, and a rule is of a property that is left.
CallOK(f) == (f.read \/ f = Called) /\ (f.rule # NoRule => f.left # <<>>)

\* The types.
SelectorTypeOK ==
  /\ holding \in [Targets -> SUBSET Conditions] /\ written \in [Targets -> [Declared -> Nat]]
  /\ m_target \in Targets \cup {NoTarget} /\ rulesTarget \in Targets \cup {NoTarget}
  /\ connections \in [Targets -> Nat] /\ currentRule \in [Declared -> AllRules \cup {NoRule}]
  /\ applying \in Seq(Calls) /\ \A i \in DOMAIN applying : CallOK(applying[i])
  /\ invalid \subseteq Declared

\* Nothing is applied before there are rules, and then the target is watched.
Prepared ==
  IF rulesTarget = NoTarget
  THEN /\ applying = <<>> /\ \A t \in Targets : connections[t] = 0
       /\ \A p \in Declared : currentRule[p] = NoRule
  ELSE connections[target] > 0

\* The used conditions that hold now.
HoldNow == holding[target] \cap UsedConditions

\* A call that has begun is writing, unless it is the innermost one.
OthersWrite == \A i \in DOMAIN applying : applying[i] # Called /\ i # Len(applying) => applying[i].rule # NoRule

\* What is left for a call is overtaken when one inside of it has read conditions.
LeftOvertaken ==
  \A i, j \in DOMAIN applying : i < j /\ applying[j] # Called => ToSet(applying[i].left) \subseteq overtaken

\* A property has the rule that is found for it, if there is one.
Fits(p, holds) == Found(p, holds) \in {NoRule, currentRule[p]}

\* The innermost call has read what holds now, unless what is left for it is overtaken,
\* and a property it does not come to any more has its rule.
ReadingRight ==
  applying # <<>> /\ Top # Called =>
    /\ Top.holds = HoldNow \/ ToSet(Top.left) \subseteq overtaken
    /\ \A p \in Declared \ overtaken : p \in ToSet(Top.left) \/ Fits(p, HoldNow)

\* A rule whose value is being written was found, and the value is there unless it is
\* invalid or overtaken.
WritingRight ==
  \A i \in DOMAIN applying :
    applying[i].rule # NoRule =>
      /\ applying[i].rule = Found(Head(applying[i].left), applying[i].holds)
      /\ \/ applying[i].rule.property \in invalid \cup overtaken
         \/ written[rulesTarget][applying[i].rule.property] = applying[i].rule.line

\* A property has the value of its current rule, or is being written.
ValuesRight ==
  \A p \in Declared \ (invalid \cup overtaken) :
    currentRule[p] # NoRule =>
      \/ written[rulesTarget][p] = currentRule[p].line
      \/ \E i \in DOMAIN applying : applying[i].rule # NoRule /\ applying[i].rule.property = p

\* When apply() has returned, each property has the rule that is found for it.
AllFit == applying = <<>> /\ rulesTarget # NoTarget => \A p \in Declared \ overtaken : Fits(p, HoldNow)

\* The invariant.  Whatever a property is overtaken by, the others are right.
SelectorRight == OthersWrite /\ LeftOvertaken /\ ReadingRight /\ WritingRight /\ ValuesRight /\ AllFit

SelectorInv == SelectorTypeOK /\ Prepared /\ SelectorRight

\* Nothing is prepared at first.
LEMMA SelectorStarts == SelectorAssumption /\ SelectorInit => SelectorInv
<1> SUFFICES ASSUME SelectorAssumption, SelectorInit PROVE SelectorInv
  OBVIOUS
<1> USE DEF SelectorInit
<1>1. applying = <<>> /\ applying \in Seq(Calls) /\ DOMAIN applying = {}
  <2>1. <<>> \in Seq(Calls) /\ DOMAIN <<>> = {}
    BY EmptySeq, LenProperties
  <2>. QED BY <2>1
<1>2. SelectorTypeOK
  <2>1. holding \in [Targets -> SUBSET Conditions] /\ written \in [Targets -> [Declared -> Nat]]
    OBVIOUS
  <2>2. connections \in [Targets -> Nat] /\ currentRule \in [Declared -> AllRules \cup {NoRule}]
    OBVIOUS
  <2>3. invalid \subseteq Declared
    OBVIOUS
  <2>. QED BY <1>1, <2>1, <2>2, <2>3 DEF SelectorTypeOK
<1>3. Prepared
  BY <1>1 DEF Prepared
<1>4. SelectorRight
  BY <1>1 DEF SelectorRight, OthersWrite, LeftOvertaken, ReadingRight, WritingRight, ValuesRight, AllFit
<1>. QED BY <1>2, <1>3, <1>4 DEF SelectorInv

\* The target is one of the targets.
LEMMA TargetRight ==
  ASSUME SelectorAssumption, SelectorTypeOK
  PROVE  target \in Targets
BY DEF SelectorAssumption, SelectorTypeOK, target

\* The innermost call, ...
LEMMA TopRight ==
  ASSUME SelectorTypeOK, applying # <<>>
  PROVE  /\ Len(applying) \in Nat /\ Len(applying) >= 1 /\ DOMAIN applying = 1 .. Len(applying)
         /\ Len(applying) \in DOMAIN applying /\ Top = applying[Len(applying)]
         /\ Top \in Calls /\ (Top.read \/ Top = Called) /\ (Top.rule # NoRule => Top.left # <<>>)
<1>1. applying \in Seq(Calls)
  BY DEF SelectorTypeOK
<1>2. Len(applying) \in Nat /\ Len(applying) >= 1 /\ DOMAIN applying = 1 .. Len(applying)
  BY <1>1, EmptySeq, LenProperties
<1>3. Len(applying) \in 1 .. Len(applying)
  BY <1>2
<1>4. Top \in Calls
  BY <1>1, <1>2, <1>3, ElementOfSeq DEF Top
<1>. QED BY <1>2, <1>3, <1>4 DEF SelectorTypeOK, CallOK, Top

\* ... which is what SetTop changes.
LEMMA SetTopRight ==
  ASSUME SelectorTypeOK, applying # <<>>, NEW made \in Calls, SetTop(made)
  PROVE  /\ applying' \in Seq(Calls) /\ applying' # <<>> /\ Len(applying') = Len(applying)
         /\ DOMAIN applying' = DOMAIN applying /\ Top' = made /\ applying'[Len(applying)] = made
         /\ \A i \in DOMAIN applying : i # Len(applying) => applying'[i] = applying[i]
<1>1. PICK n : n = Len(applying)
  OBVIOUS
<1>2. n \in Nat /\ n >= 1 /\ DOMAIN applying = 1 .. n /\ applying \in Seq(Calls)
  BY <1>1, TopRight DEF SelectorTypeOK
<1>3. applying' = [applying EXCEPT ![n] = made]
  BY <1>1 DEF SetTop
<1>4. applying \in [1 .. n -> Calls]
  BY ONLY <1>2, ElementOfSeq, LenProperties
<1>5. applying' \in [1 .. n -> Calls] /\ DOMAIN applying' = 1 .. n
  BY ONLY <1>3, <1>4, made \in Calls
<1>6. applying' \in Seq(Calls) /\ Len(applying') = n
  BY ONLY <1>2, <1>5, FunctionIsSeq, LenProperties
<1>7. n \in 1 .. n
  BY <1>2
<1>8. applying'[n] = made /\ \A i \in 1 .. n : i # n => applying'[i] = applying[i]
  BY ONLY <1>3, <1>4, <1>7
<1>9. applying' # <<>>
  BY ONLY <1>2, <1>6, EmptySeq, LenProperties
<1>. QED BY <1>1, <1>2, <1>5, <1>6, <1>8, <1>9 DEF Top

\* What was called and has not read anything is writing nothing.
LEMMA CalledRight == Called \in Calls /\ Called.rule = NoRule /\ Called.read = FALSE
<1>1. Called.rule = NoRule /\ Called.read = FALSE
  BY DEF Called
<1>2. <<>> \in Seq(Declared)
  BY EmptySeq
<1>3. Called \in Calls
  BY <1>2 DEF Called, Calls
<1>. QED BY <1>1, <1>3

\* A call that has read something.
LEMMA ReadIsNotCalled == ASSUME NEW f, f.read = TRUE PROVE f # Called
BY CalledRight

\* apply() reads what holds, and overtakes the calls that it is inside of.
LEMMA ReadConditionsKeeps ==
  ASSUME SelectorAssumption, SelectorInv, ReadConditions
  PROVE  SelectorInv'
<1>1. SelectorTypeOK /\ Prepared /\ SelectorRight
  BY DEF SelectorInv
<1>2. PICK made : made = [Called EXCEPT !.read = TRUE, !.holds = holding[target] \cap UsedConditions, !.left = PropertyList]
  OBVIOUS
<1>3. /\ made.read = TRUE /\ made.holds = holding[target] \cap UsedConditions /\ made.left = PropertyList /\ made.rule = NoRule
      /\ made = [read |-> TRUE, holds |-> holding[target] \cap UsedConditions, left |-> PropertyList, rule |-> NoRule]
  BY ONLY <1>2 DEF Called
<1>4. made \in Calls /\ made # Called
  <2>1. holding[target] \cap UsedConditions \in SUBSET Conditions
    BY <1>1, TargetRight DEF SelectorTypeOK
  <2>2. PropertyList \in Seq(Declared)
    BY PropertyListRight
  <2>3. made \in Calls
    BY ONLY <1>3, <2>1, <2>2 DEF Calls
  <2>. QED BY <1>3, <2>3, ReadIsNotCalled
<1>5. /\ applying # <<>> /\ SetTop(made) /\ Top = Called
      /\ UNCHANGED <<holding, written, m_target, rulesTarget, connections, currentRule, targets, invalid>>
      /\ overtaken' = overtaken \cup UNION {ToSet(applying[i].left) : i \in DOMAIN applying}
  BY <1>1, <1>2, TopRight DEF ReadConditions
<1>6. PICK n : n = Len(applying)
  OBVIOUS
<1>7. n \in Nat /\ n >= 1 /\ DOMAIN applying = 1 .. n /\ n \in 1 .. n /\ applying[n] = Called
  BY <1>1, <1>5, <1>6, TopRight
<1>8. /\ applying' \in Seq(Calls) /\ applying' # <<>> /\ Len(applying') = n /\ DOMAIN applying' = 1 .. n
      /\ Top' = made /\ applying'[n] = made /\ \A i \in 1 .. n : i # n => applying'[i] = applying[i]
  BY <1>1, <1>4, <1>5, <1>6, <1>7, SetTopRight
<1>9. target' = target /\ UNCHANGED <<holding, written, m_target, rulesTarget, connections, currentRule, invalid>>
  BY <1>5 DEF target
<1>10. SelectorTypeOK'
  <2>1. \A i \in 1 .. n : CallOK(applying'[i])
    <3>1. \A i \in 1 .. n : CallOK(applying[i])
      BY <1>1, <1>7 DEF SelectorTypeOK
    <3>. QED BY ONLY <3>1, <1>3, <1>8 DEF CallOK
  <2>. QED BY <1>1, <1>8, <1>9, <2>1 DEF SelectorTypeOK
<1>11. Prepared'
  BY <1>1, <1>5, <1>9 DEF Prepared
<1>12. SelectorRight'
  <2>1. OthersWrite /\ WritingRight /\ ValuesRight
    BY <1>1 DEF SelectorRight
  <2>2. overtaken \subseteq overtaken' /\ \A i \in 1 .. n : ToSet(applying[i].left) \subseteq overtaken'
    BY ONLY <1>5, <1>7
  <2>3. OthersWrite'
    BY ONLY <1>6, <1>7, <1>8, <2>1 DEF OthersWrite
  <2>4. LeftOvertaken'
    <3>1. \A i, j \in 1 .. n : i < j => i # n
      BY ONLY <1>7
    <3>. QED BY ONLY <1>8, <2>2, <3>1 DEF LeftOvertaken
  <2>5. \A p \in Declared : p \in ToSet(made.left) \/ Found(p, made.holds) = NoRule
    <3>1. ASSUME NEW p \in Declared, Found(p, made.holds) # NoRule PROVE p \in ToSet(made.left)
      <4>1. Found(p, made.holds) \in AllRules /\ Found(p, made.holds).property = p
        BY <3>1, FoundIsRule
      <4>2. p \in ToSet(PropertyList)
        BY <4>1, PropertyListRight
      <4>. QED BY <1>3, <4>2
    <3>. QED BY <3>1
  <2>6. ReadingRight'
    <3>1. HoldNow' = made.holds
      BY <1>3, <1>9 DEF HoldNow
    <3>. QED BY ONLY <1>8, <2>5, <3>1 DEF ReadingRight, Fits
  <2>7. \A i \in 1 .. n : applying'[i].rule # NoRule => applying'[i] = applying[i]
    BY ONLY <1>3, <1>8
  <2>8. WritingRight'
    BY ONLY <1>7, <1>8, <1>9, <2>1, <2>2, <2>7 DEF WritingRight
  <2>9. ValuesRight'
    <3>1. \A i \in 1 .. n : applying[i].rule # NoRule => applying'[i] = applying[i]
      BY <1>7, <1>8, CalledRight
    <3>. QED BY ONLY <1>7, <1>8, <1>9, <2>1, <2>2, <3>1 DEF ValuesRight
  <2>10. AllFit'
    BY <1>8 DEF AllFit
  <2>. QED BY <2>3, <2>4, <2>6, <2>8, <2>9, <2>10 DEF SelectorRight
<1>. QED BY <1>10, <1>11, <1>12 DEF SelectorInv

\* What is left to do for a call, which has read conditions.
LEMMA LeftRight ==
  ASSUME SelectorTypeOK, applying # <<>>, Top # Called, Top.left # <<>>
  PROVE  /\ Top \in Calls /\ Top.read = TRUE /\ Head(Top.left) \in Declared /\ Tail(Top.left) \in Seq(Declared)
         /\ \A p \in ToSet(Top.left) : p = Head(Top.left) \/ p \in ToSet(Tail(Top.left))
         /\ Head(Top.left) \in ToSet(Top.left) /\ ToSet(Tail(Top.left)) \subseteq ToSet(Top.left)
         /\ Next1(Top) \in Calls /\ Next1(Top) # Called /\ Next1(Top).read = TRUE /\ Next1(Top).holds = Top.holds
         /\ Next1(Top).left = Tail(Top.left) /\ Next1(Top).rule = NoRule
<1>1. PICK top : top = Top
  OBVIOUS
<1>2. top \in Calls /\ top.read = TRUE /\ top.left # <<>>
  BY <1>1, TopRight DEF Calls
<1>3. top.left \in Seq(Declared)
  BY ONLY <1>2 DEF Calls
<1>4. /\ Head(top.left) \in Declared /\ Tail(top.left) \in Seq(Declared)
      /\ \A p \in ToSet(top.left) : p = Head(top.left) \/ p \in ToSet(Tail(top.left))
      /\ Head(top.left) \in ToSet(top.left) /\ ToSet(Tail(top.left)) \subseteq ToSet(top.left)
  BY ONLY <1>2, <1>3, HeadAndTail
<1>5. PICK next : next = Next1(top)
  OBVIOUS
<1>6. /\ next.read = TRUE /\ next.holds = top.holds /\ next.left = Tail(top.left) /\ next.rule = NoRule
      /\ next = [read |-> TRUE, holds |-> top.holds, left |-> Tail(top.left), rule |-> NoRule]
  <2>1. top = [read |-> top.read, holds |-> top.holds, left |-> top.left, rule |-> top.rule]
    BY ONLY <1>2 DEF Calls
  <2>2. next = [top EXCEPT !.left = Tail(@), !.rule = NoRule]
    BY ONLY <1>5 DEF Next1
  <2>. QED BY ONLY <1>2, <2>1, <2>2
<1>7. next \in Calls
  BY ONLY <1>2, <1>4, <1>6 DEF Calls
<1>8. next # Called
  BY ONLY <1>6, ReadIsNotCalled
<1>. QED BY <1>1, <1>2, <1>4, <1>5, <1>6, <1>7, <1>8

\* What the calls around one that has read conditions have left, and what they write,
\* is overtaken.
LEMMA OthersRight ==
  ASSUME SelectorAssumption, SelectorTypeOK, LeftOvertaken, WritingRight, applying # <<>>, Top # Called
  PROVE  \A i \in DOMAIN applying : i # Len(applying) =>
           /\ ToSet(applying[i].left) \subseteq overtaken
           /\ applying[i].rule # NoRule => applying[i].rule.property \in overtaken
<1>1. PICK n : n = Len(applying)
  OBVIOUS
<1>2. n \in Nat /\ DOMAIN applying = 1 .. n /\ n \in 1 .. n /\ applying[n] = Top /\ applying \in Seq(Calls)
  BY <1>1, TopRight DEF SelectorTypeOK
<1>3. ASSUME NEW i \in 1 .. n, i # n PROVE ToSet(applying[i].left) \subseteq overtaken
  <2>1. i < n
    BY ONLY <1>2, <1>3
  <2>. QED BY <1>2, <2>1 DEF LeftOvertaken
<1>4. ASSUME NEW i \in 1 .. n, i # n, applying[i].rule # NoRule PROVE applying[i].rule.property \in overtaken
  <2>1. PICK f : f = applying[i]
    OBVIOUS
  <2>2. f \in Calls
    BY ONLY <1>2, <2>1, ElementOfSeq, LenProperties
  <2>3. f.left \in Seq(Declared) /\ f.left # <<>>
    BY <1>2, <1>4, <2>1, <2>2 DEF SelectorTypeOK, CallOK, Calls
  <2>4. f.rule = Found(Head(f.left), f.holds)
    BY <1>2, <1>4, <2>1 DEF WritingRight
  <2>5. f.rule.property = Head(f.left)
    BY <1>4, <2>1, <2>4, FoundIsRule
  <2>6. Head(f.left) \in ToSet(f.left)
    BY ONLY <2>3, HeadAndTail
  <2>. QED BY <1>3, <1>4, <2>1, <2>5, <2>6
<1>. QED BY <1>1, <1>2, <1>3, <1>4

\* A step of the innermost call leaves the ones around it as they are.
LEMMA OthersKept ==
  ASSUME SelectorAssumption, SelectorTypeOK, OthersWrite, LeftOvertaken, WritingRight, applying # <<>>, Top # Called,
         NEW made \in Calls, SetTop(made), Len(applying) # 1 => overtaken \subseteq overtaken'
  PROVE  OthersWrite' /\ LeftOvertaken'
<1>1. PICK n : n = Len(applying)
  OBVIOUS
<1>2. /\ n \in Nat /\ DOMAIN applying = 1 .. n /\ Len(applying') = n /\ DOMAIN applying' = 1 .. n
      /\ \A i \in 1 .. n : i # n => applying'[i] = applying[i]
  BY <1>1, TopRight, SetTopRight
<1>3. \A i \in 1 .. n : i # n => ToSet(applying[i].left) \subseteq overtaken
  BY <1>1, <1>2, OthersRight
<1>4. \A i, j \in 1 .. n : i < j => i # n /\ n # 1
  BY ONLY <1>2
<1>5. LeftOvertaken'
  BY ONLY <1>1, <1>2, <1>3, <1>4, (Len(applying) # 1 => overtaken \subseteq overtaken') DEF LeftOvertaken
<1>6. OthersWrite'
  BY ONLY <1>1, <1>2, OthersWrite DEF OthersWrite
<1>. QED BY <1>5, <1>6

\* The next property has its rule, or none.
LEMMA KeepRuleKeeps ==
  ASSUME SelectorAssumption, SelectorInv, KeepRule
  PROVE  SelectorInv'
<1>1. SelectorTypeOK /\ Prepared /\ SelectorRight
  BY DEF SelectorInv
<1>2. /\ applying # <<>> /\ Top.left # <<>> /\ Top.rule = NoRule /\ SetTop(Next1(Top))
      /\ Found(Head(Top.left), Top.holds) \in {NoRule, currentRule[Head(Top.left)]}
      /\ UNCHANGED <<holding, written, m_target, rulesTarget, connections, currentRule, targets, invalid, overtaken>>
  BY DEF KeepRule, Searching, Applicable
<1>3. Top # Called
  BY <1>2 DEF Called
<1>4. PICK n : n = Len(applying)
  OBVIOUS
<1>5. n \in Nat /\ n >= 1 /\ DOMAIN applying = 1 .. n /\ n \in 1 .. n /\ applying[n] = Top
  BY <1>1, <1>2, <1>4, TopRight
<1>6. PICK made : made = Next1(Top)
  OBVIOUS
<1>7. made \in Calls /\ made # Called /\ made.read = TRUE /\ made.rule = NoRule /\ made.holds = Top.holds
  BY <1>1, <1>2, <1>3, <1>6, LeftRight
<1>8. /\ applying' \in Seq(Calls) /\ applying' # <<>> /\ Len(applying') = n /\ DOMAIN applying' = 1 .. n
      /\ Top' = made /\ applying'[n] = made /\ \A i \in 1 .. n : i # n => applying'[i] = applying[i]
  BY <1>1, <1>2, <1>4, <1>5, <1>6, <1>7, SetTopRight
<1>9. target' = target /\ UNCHANGED <<holding, written, m_target, rulesTarget, connections, currentRule, invalid, overtaken>>
  BY <1>2 DEF target
<1>10. SelectorTypeOK'
  <2>1. \A i \in 1 .. n : CallOK(applying'[i])
    <3>1. \A i \in 1 .. n : CallOK(applying[i])
      BY <1>1, <1>5 DEF SelectorTypeOK
    <3>. QED BY ONLY <3>1, <1>7, <1>8 DEF CallOK
  <2>. QED BY <1>1, <1>8, <1>9, <2>1 DEF SelectorTypeOK
<1>11. Prepared'
  BY <1>1, <1>2, <1>9 DEF Prepared
<1>12. SelectorRight'
  <2>1. OthersWrite /\ LeftOvertaken /\ ReadingRight /\ WritingRight /\ ValuesRight
    BY <1>1 DEF SelectorRight
  <2>2. OthersWrite' /\ LeftOvertaken'
    BY <1>1, <1>2, <1>3, <1>6, <1>7, <1>9, <2>1, OthersKept
  <2>3. PICK p : p = Head(Top.left)
    OBVIOUS
  <2>4. /\ p \in ToSet(Top.left) /\ ToSet(made.left) \subseteq ToSet(Top.left)
        /\ \A q \in ToSet(Top.left) : q = p \/ q \in ToSet(made.left)
    BY <1>1, <1>2, <1>3, <1>6, <2>3, LeftRight
  <2>5. ReadingRight'
    <3>1. /\ Top.holds = HoldNow \/ ToSet(Top.left) \subseteq overtaken
          /\ \A q \in Declared \ overtaken : q \in ToSet(Top.left) \/ Fits(q, HoldNow)
      BY <1>2, <1>3, <2>1 DEF ReadingRight
    <3>2. p \in overtaken \/ Fits(p, HoldNow)
      BY <1>2, <2>3, <2>4, <3>1 DEF Fits
    <3>3. \A q \in Declared \ overtaken : q \in ToSet(made.left) \/ Fits(q, HoldNow)
      BY ONLY <2>4, <3>1, <3>2
    <3>4. made.holds = HoldNow \/ ToSet(made.left) \subseteq overtaken
      BY ONLY <1>7, <2>4, <3>1
    <3>5. HoldNow' = HoldNow /\ \A q : Fits(q, HoldNow)' <=> Fits(q, HoldNow)
      BY <1>9 DEF HoldNow, Fits
    <3>. QED BY ONLY <1>8, <1>9, <3>3, <3>4, <3>5 DEF ReadingRight
  <2>6. WritingRight'
    BY <1>5, <1>7, <1>8, <1>9, <2>1 DEF WritingRight
  <2>7. ValuesRight'
    <3>1. \A i \in 1 .. n : applying[i].rule # NoRule => applying'[i] = applying[i]
      BY <1>2, <1>5, <1>8
    <3>. QED BY ONLY <1>5, <1>8, <1>9, <2>1, <3>1 DEF ValuesRight
  <2>8. AllFit'
    BY <1>8 DEF AllFit
  <2>. QED BY <2>2, <2>5, <2>6, <2>7, <2>8 DEF SelectorRight
<1>. QED BY <1>10, <1>11, <1>12 DEF SelectorInv

\* The property has another rule, whose value it is given.
LEMMA WriteValueKeeps ==
  ASSUME SelectorAssumption, SelectorInv, WriteValue
  PROVE  SelectorInv'
<1>1. SelectorTypeOK /\ Prepared /\ SelectorRight
  BY DEF SelectorInv
<1>2. PICK r : r = Found(Head(Top.left), Top.holds)
  OBVIOUS
<1>3. /\ applying # <<>> /\ Top.left # <<>> /\ Top.rule = NoRule /\ r # NoRule
      /\ SetTop([Top EXCEPT !.rule = r])
      /\ \/ /\ written' = [written EXCEPT ![rulesTarget][r.property] = r.line]
            /\ invalid' = invalid \ {r.property}
         \/ invalid' = invalid \cup {r.property} /\ UNCHANGED written
      /\ UNCHANGED <<holding, m_target, rulesTarget, connections, currentRule, targets, overtaken>>
  BY <1>2 DEF WriteValue, Searching, Applicable
<1>4. Top # Called
  BY <1>3 DEF Called
<1>5. r \in AllRules /\ r.property = Head(Top.left) /\ r.property \in Declared /\ r.line \in Nat
  <2>1. r \in AllRules /\ r.property = Head(Top.left)
    BY <1>2, <1>3, FoundIsRule
  <2>. QED BY <1>1, <1>3, <1>4, <2>1, LeftRight, RuleTypes
<1>6. PICK n : n = Len(applying)
  OBVIOUS
<1>7. n \in Nat /\ n >= 1 /\ DOMAIN applying = 1 .. n /\ n \in 1 .. n /\ applying[n] = Top
  BY <1>1, <1>3, <1>6, TopRight
<1>8. PICK made : made = [Top EXCEPT !.rule = r]
  OBVIOUS
<1>9. /\ made \in Calls /\ made # Called /\ made.read = TRUE /\ made.rule = r
      /\ made.holds = Top.holds /\ made.left = Top.left
  <2>1. PICK top : top = Top
    OBVIOUS
  <2>2. top \in Calls /\ top.read = TRUE
    BY <1>1, <1>3, <1>4, <2>1, LeftRight
  <2>3. top = [read |-> TRUE, holds |-> top.holds, left |-> top.left, rule |-> top.rule]
    BY ONLY <2>2 DEF Calls
  <2>4. made = [read |-> TRUE, holds |-> top.holds, left |-> top.left, rule |-> r]
    <3>1. made = [top EXCEPT !.rule = r]
      BY ONLY <1>8, <2>1
    <3>2. PICK h, l, u : top = [read |-> TRUE, holds |-> h, left |-> l, rule |-> u]
      BY ONLY <2>3
    <3>3. made = [read |-> TRUE, holds |-> h, left |-> l, rule |-> r]
      BY ONLY <3>1, <3>2
    <3>. QED BY ONLY <3>2, <3>3
  <2>5. made \in Calls /\ made.read = TRUE /\ made.rule = r /\ made.holds = top.holds /\ made.left = top.left
    BY ONLY <1>5, <2>2, <2>4 DEF Calls
  <2>. QED BY <2>1, <2>5, ReadIsNotCalled
<1>10. /\ applying' \in Seq(Calls) /\ applying' # <<>> /\ Len(applying') = n /\ DOMAIN applying' = 1 .. n
       /\ Top' = made /\ applying'[n] = made /\ \A i \in 1 .. n : i # n => applying'[i] = applying[i]
  BY <1>1, <1>3, <1>6, <1>7, <1>8, <1>9, SetTopRight
<1>11. target' = target /\ UNCHANGED <<holding, m_target, rulesTarget, connections, currentRule, overtaken>>
  BY <1>3 DEF target
<1>12. rulesTarget \in Targets
  BY <1>1, <1>3 DEF Prepared, SelectorTypeOK
<1>13. /\ written' \in [Targets -> [Declared -> Nat]] /\ invalid' \subseteq Declared
       /\ r.property \in invalid' \/ written'[rulesTarget][r.property] = r.line
       /\ \A p \in Declared : p # r.property =>
            written'[rulesTarget][p] = written[rulesTarget][p] /\ (p \in invalid' <=> p \in invalid)
  <2>1. written \in [Targets -> [Declared -> Nat]] /\ invalid \subseteq Declared
    BY <1>1 DEF SelectorTypeOK
  <2>2. PICK q, l : q = r.property /\ l = r.line
    OBVIOUS
  <2>3. CASE written' = [written EXCEPT ![rulesTarget][q] = l] /\ invalid' = invalid \ {q}
    <3>1. written' = [written EXCEPT ![rulesTarget] = [written[rulesTarget] EXCEPT ![q] = l]]
      BY ONLY <2>3
    <3>2. written[rulesTarget] \in [Declared -> Nat]
      BY ONLY <1>12, <2>1
    <3>3. PICK row : row = [written[rulesTarget] EXCEPT ![q] = l]
      OBVIOUS
    <3>4. row \in [Declared -> Nat] /\ row[q] = l /\ \A p \in Declared : p # q => row[p] = written[rulesTarget][p]
      BY ONLY <1>5, <2>2, <3>2, <3>3
    <3>5. written' \in [Targets -> [Declared -> Nat]] /\ written'[rulesTarget] = row
      BY ONLY <1>12, <2>1, <3>1, <3>3, <3>4
    <3>. QED BY ONLY <2>1, <2>2, <2>3, <3>4, <3>5
  <2>4. CASE invalid' = invalid \cup {q} /\ written' = written
    BY ONLY <1>5, <2>1, <2>2, <2>4
  <2>. QED BY <1>3, <2>2, <2>3, <2>4
<1>14. SelectorTypeOK'
  <2>1. \A i \in 1 .. n : CallOK(applying'[i])
    <3>1. \A i \in 1 .. n : CallOK(applying[i])
      BY <1>1, <1>7 DEF SelectorTypeOK
    <3>. QED BY ONLY <3>1, <1>9, <1>10, <1>3 DEF CallOK
  <2>. QED BY <1>1, <1>10, <1>11, <1>13, <2>1 DEF SelectorTypeOK
<1>15. Prepared'
  BY <1>1, <1>3, <1>11 DEF Prepared
<1>16. SelectorRight'
  <2>1. OthersWrite /\ LeftOvertaken /\ ReadingRight /\ WritingRight /\ ValuesRight
    BY <1>1 DEF SelectorRight
  <2>2. OthersWrite' /\ LeftOvertaken'
    BY <1>1, <1>3, <1>4, <1>8, <1>9, <1>11, <2>1, OthersKept
  <2>3. ReadingRight'
    <3>1. /\ Top.holds = HoldNow \/ ToSet(Top.left) \subseteq overtaken
          /\ \A p \in Declared \ overtaken : p \in ToSet(Top.left) \/ Fits(p, HoldNow)
      BY <1>3, <1>4, <2>1 DEF ReadingRight
    <3>2. HoldNow' = HoldNow /\ \A q : Fits(q, HoldNow)' <=> Fits(q, HoldNow)
      BY <1>11 DEF HoldNow, Fits
    <3>. QED BY ONLY <1>9, <1>10, <1>11, <3>1, <3>2 DEF ReadingRight
  <2>4. \A i \in 1 .. n : i # n => (applying[i].rule # NoRule => applying[i].rule.property \in overtaken)
    BY <1>1, <1>3, <1>4, <1>6, <1>7, <2>1, OthersRight
  <2>5. WritingRight'
    <3>1. ASSUME NEW i \in 1 .. n, applying'[i].rule # NoRule
          PROVE  /\ applying'[i].rule = Found(Head(applying'[i].left), applying'[i].holds)
                 /\ \/ applying'[i].rule.property \in invalid' \cup overtaken'
                    \/ written'[rulesTarget'][applying'[i].rule.property] = applying'[i].rule.line
      <4>1. CASE i = n
        BY ONLY <1>2, <1>9, <1>10, <1>11, <1>13, <4>1
      <4>2. CASE i # n
        <5>1. applying'[i] = applying[i]
          BY <1>10, <4>2
        <5>. QED BY <1>7, <1>11, <2>1, <2>4, <3>1, <4>2, <5>1 DEF WritingRight
      <4>. QED BY <4>1, <4>2
    <3>. QED BY ONLY <1>10, <3>1 DEF WritingRight
  <2>6. ValuesRight'
    <3>1. ASSUME NEW p \in Declared \ (invalid' \cup overtaken), currentRule[p] # NoRule
          PROVE  \/ written'[rulesTarget][p] = currentRule[p].line
                 \/ \E i \in 1 .. n : applying'[i].rule # NoRule /\ applying'[i].rule.property = p
      <4>1. CASE p = r.property
        BY <1>3, <1>7, <1>9, <1>10, <4>1
      <4>2. CASE p # r.property
        <5>1. p \in Declared \ (invalid \cup overtaken) /\ written'[rulesTarget][p] = written[rulesTarget][p]
          BY <1>13, <3>1, <4>2
        <5>2. \A i \in 1 .. n : applying[i].rule # NoRule => applying[i].rule.property # p
          <6>1. applying[n].rule = NoRule
            BY <1>3, <1>7
          <6>. QED BY ONLY <2>4, <3>1, <6>1
        <5>. QED BY <1>7, <2>1, <3>1, <5>1, <5>2 DEF ValuesRight
      <4>. QED BY <4>1, <4>2
    <3>. QED BY ONLY <1>10, <1>11, <3>1 DEF ValuesRight
  <2>7. AllFit'
    BY <1>10 DEF AllFit
  <2>. QED BY <2>2, <2>3, <2>5, <2>6, <2>7 DEF SelectorRight
<1>. QED BY <1>14, <1>15, <1>16 DEF SelectorInv

\* The value is written, and the property has a new current rule.
LEMMA SetCurrentRuleKeeps ==
  ASSUME SelectorAssumption, SelectorInv, SetCurrentRule
  PROVE  SelectorInv'
<1>1. SelectorTypeOK /\ Prepared /\ SelectorRight
  BY DEF SelectorInv
<1>2. PICK r : r = Top.rule
  OBVIOUS
<1>3. /\ applying # <<>> /\ r # NoRule /\ SetTop(Next1(Top))
      /\ currentRule' = [currentRule EXCEPT ![r.property] = r]
      /\ UNCHANGED <<holding, written, m_target, rulesTarget, connections, targets, invalid>>
      /\ overtaken' = IF Undisturbed THEN overtaken \ {r.property} ELSE overtaken
  BY <1>2 DEF SetCurrentRule
<1>4. Top # Called
  BY <1>2, <1>3, CalledRight
<1>5. PICK n : n = Len(applying)
  OBVIOUS
<1>6. n \in Nat /\ n >= 1 /\ DOMAIN applying = 1 .. n /\ n \in 1 .. n /\ applying[n] = Top /\ Top \in Calls /\ Top.read = TRUE
  <2>1. Top \in Calls /\ (Top.read \/ Top = Called)
    BY <1>1, <1>3, TopRight
  <2>2. Top.read = TRUE
    BY <1>4, <2>1 DEF Calls
  <2>. QED BY <1>1, <1>3, <1>5, <2>1, <2>2, TopRight
<1>7. PICK made : made = Next1(Top)
  OBVIOUS
<1>8. /\ made \in Calls /\ made.read = TRUE /\ made.rule = NoRule /\ made.holds = Top.holds /\ made.left = Tail(Top.left) /\ made # Called
      /\ Top.left # <<>> /\ Head(Top.left) \in Declared
      /\ \A p \in ToSet(Top.left) : p = Head(Top.left) \/ p \in ToSet(made.left)
      /\ Head(Top.left) \in ToSet(Top.left) /\ ToSet(made.left) \subseteq ToSet(Top.left)
  <2>1. Top.left # <<>>
    BY <1>1, <1>2, <1>3, TopRight
  <2>. QED BY <1>1, <1>3, <1>4, <1>7, <2>1, LeftRight
<1>9. /\ applying' \in Seq(Calls) /\ applying' # <<>> /\ Len(applying') = n /\ DOMAIN applying' = 1 .. n
      /\ Top' = made /\ applying'[n] = made /\ \A i \in 1 .. n : i # n => applying'[i] = applying[i]
  BY <1>1, <1>3, <1>5, <1>6, <1>7, <1>8, SetTopRight
<1>10. target' = target /\ UNCHANGED <<holding, written, m_target, rulesTarget, connections, invalid>>
  BY <1>3 DEF target
<1>11. SelectorTypeOK'
  <2>1. \A i \in 1 .. n : CallOK(applying'[i])
    <3>1. \A i \in 1 .. n : CallOK(applying[i])
      BY <1>1, <1>6 DEF SelectorTypeOK
    <3>. QED BY ONLY <3>1, <1>8, <1>9 DEF CallOK
  <2>2. currentRule' \in [Declared -> AllRules \cup {NoRule}]
    <3>1. currentRule \in [Declared -> AllRules \cup {NoRule}] /\ r \in AllRules \cup {NoRule}
      BY <1>1, <1>2, <1>6 DEF SelectorTypeOK, Calls
    <3>2. PICK T, q : T = AllRules \cup {NoRule} /\ q = r.property
      OBVIOUS
    <3>. QED BY ONLY <1>3, <3>1, <3>2
  <2>. QED BY <1>1, <1>9, <1>10, <2>1, <2>2 DEF SelectorTypeOK
<1>12. Prepared'
  BY <1>1, <1>3, <1>10 DEF Prepared
<1>13. SelectorRight'
  <2>1. OthersWrite /\ LeftOvertaken /\ ReadingRight /\ WritingRight /\ ValuesRight
    BY <1>1 DEF SelectorRight
  <2>2. PICK p : p = Head(Top.left)
    OBVIOUS
  <2>3. /\ r = Found(p, Top.holds) /\ r.property = p /\ p \in Declared
        /\ r.property \in invalid \cup overtaken \/ written[rulesTarget][r.property] = r.line
    <3>1. /\ r = Found(p, Top.holds)
          /\ r.property \in invalid \cup overtaken \/ written[rulesTarget][r.property] = r.line
      BY <1>2, <1>3, <1>6, <2>1, <2>2 DEF WritingRight
    <3>. QED BY <1>3, <1>8, <2>2, <3>1, FoundIsRule
  <2>4. \/ overtaken' = overtaken
        \/ n = 1 /\ overtaken' = overtaken \ {p} /\ Top.holds = HoldNow /\ written[rulesTarget][p] = r.line
    BY <1>2, <1>3, <1>5, <2>3 DEF Undisturbed, HoldNow
  <2>5. OthersWrite' /\ LeftOvertaken'
    <3>1. Len(applying) # 1 => overtaken \subseteq overtaken'
      BY ONLY <1>5, <2>4
    <3>. QED BY <1>1, <1>3, <1>4, <1>7, <1>8, <2>1, <3>1, OthersKept
  <2>6. currentRule'[p] = r /\ \A q \in Declared : q # p => currentRule'[q] = currentRule[q]
    <3>1. currentRule \in [Declared -> AllRules \cup {NoRule}]
      BY <1>1 DEF SelectorTypeOK
    <3>. QED BY ONLY <1>3, <2>3, <3>1
  <2>7. ReadingRight'
    <3>1. /\ Top.holds = HoldNow \/ ToSet(Top.left) \subseteq overtaken
          /\ \A q \in Declared \ overtaken : q \in ToSet(Top.left) \/ Fits(q, HoldNow)
      BY <1>3, <1>4, <2>1 DEF ReadingRight
    <3>2. HoldNow' = HoldNow
      BY <1>10 DEF HoldNow
    <3>3. made.holds = HoldNow' \/ ToSet(made.left) \subseteq overtaken'
      BY ONLY <1>8, <2>4, <3>1, <3>2
    <3>4. ASSUME NEW q \in Declared \ overtaken' PROVE q \in ToSet(made.left) \/ Found(q, HoldNow) \in {NoRule, currentRule'[q]}
      <4>1. CASE q = p
        <5>1. Top.holds = HoldNow
          BY ONLY <1>8, <2>2, <2>4, <3>1, <3>4, <4>1
        <5>. QED BY <2>3, <2>6, <4>1, <5>1
      <4>2. CASE q # p
        <5>1. q \in Declared \ overtaken
          BY ONLY <2>4, <3>4, <4>2
        <5>2. q \in ToSet(Top.left) => q \in ToSet(made.left)
          BY ONLY <1>8, <2>2, <4>2
        <5>. QED BY <2>6, <3>1, <4>2, <5>1, <5>2 DEF Fits
      <4>. QED BY <4>1, <4>2
    <3>. QED BY ONLY <1>9, <3>2, <3>3, <3>4 DEF ReadingRight, Fits
  <2>8. \A i \in 1 .. n : i # n => (applying[i].rule # NoRule => applying[i].rule.property \in overtaken)
    BY <1>1, <1>3, <1>4, <1>5, <1>6, <2>1, OthersRight
  <2>9. WritingRight'
    <3>1. ASSUME NEW i \in 1 .. n, applying'[i].rule # NoRule
          PROVE  i # n /\ applying'[i] = applying[i] /\ overtaken' = overtaken
      <4>1. i # n
        BY <1>8, <1>9, <3>1
      <4>2. n # 1
        BY ONLY <1>6, <4>1
      <4>. QED BY ONLY <1>9, <2>4, <4>1, <4>2
    <3>. QED BY ONLY <1>6, <1>9, <1>10, <2>1, <3>1 DEF WritingRight
  <2>10. ValuesRight'
    <3>1. ASSUME NEW q \in Declared \ (invalid \cup overtaken'), currentRule'[q] # NoRule
          PROVE  written[rulesTarget][q] = currentRule'[q].line
      <4>1. CASE q = p
        BY <2>3, <2>4, <2>6, <3>1, <4>1
      <4>2. CASE q # p
        <5>1. q \in Declared \ (invalid \cup overtaken)
          BY ONLY <2>4, <3>1, <4>2
        <5>2. \A i \in 1 .. n : applying[i].rule # NoRule => applying[i].rule.property # q
          <6>1. applying[n].rule.property = p
            BY <1>2, <1>6, <2>3
          <6>. QED BY ONLY <2>8, <4>2, <5>1, <6>1
        <5>. QED BY <1>6, <2>1, <2>6, <3>1, <4>2, <5>1, <5>2 DEF ValuesRight
      <4>. QED BY <4>1, <4>2
    <3>. QED BY ONLY <1>10, <3>1 DEF ValuesRight
  <2>11. AllFit'
    BY <1>9 DEF AllFit
  <2>. QED BY <2>5, <2>7, <2>9, <2>10, <2>11 DEF SelectorRight
<1>. QED BY <1>11, <1>12, <1>13 DEF SelectorInv

\* A call that has gone through all properties returns.
LEMMA ApplyReturnsKeeps ==
  ASSUME SelectorAssumption, SelectorInv, ApplyReturns
  PROVE  SelectorInv'
<1>1. SelectorTypeOK /\ Prepared /\ SelectorRight
  BY DEF SelectorInv
<1>2. /\ applying # <<>> /\ Top.read /\ Top.left = <<>> /\ applying' = Front(applying)
      /\ UNCHANGED <<holding, written, m_target, rulesTarget, connections, currentRule, targets, invalid, overtaken>>
  BY DEF ApplyReturns
<1>3. Top # Called
  BY <1>2, CalledRight
<1>4. PICK n : n = Len(applying)
  OBVIOUS
<1>5. n \in Nat /\ n >= 1 /\ DOMAIN applying = 1 .. n /\ n \in 1 .. n /\ applying[n] = Top
  BY <1>1, <1>2, <1>4, TopRight
<1>6. applying \in Seq(Calls)
  BY <1>1 DEF SelectorTypeOK
<1>7. /\ applying' \in Seq(Calls) /\ Len(applying') = n - 1 /\ DOMAIN applying' = 1 .. n - 1
      /\ \A i \in 1 .. n - 1 : applying'[i] = applying[i]
  <2>1. applying' = SubSeq(applying, 1, n - 1)
    BY ONLY <1>2, <1>4 DEF Front
  <2>2. PICK b : b = n - 1
    OBVIOUS
  <2>3. 1 \in 1 .. Len(applying) + 1 /\ b \in 1 - 1 .. Len(applying)
    BY ONLY <1>4, <1>5, <2>2
  <2>4. /\ SubSeq(applying, 1, b) \in Seq(Calls) /\ Len(SubSeq(applying, 1, b)) = b - 1 + 1
        /\ \A i \in 1 .. b - 1 + 1 : SubSeq(applying, 1, b)[i] = applying[1 + i - 1]
    BY ONLY <1>6, <2>3, PartOfRows
  <2>5. b - 1 + 1 = b /\ b \in Nat /\ \A i \in 1 .. b : 1 + i - 1 = i
    BY ONLY <1>5, <2>2
  <2>6. applying' \in Seq(Calls) /\ Len(applying') = b /\ \A i \in 1 .. b : applying'[i] = applying[i]
    BY ONLY <2>1, <2>2, <2>4, <2>5
  <2>. QED BY ONLY <2>2, <2>6, LenProperties
<1>8. target' = target /\ UNCHANGED <<holding, written, m_target, rulesTarget, connections, currentRule, invalid, overtaken>>
  BY <1>2 DEF target
<1>9. \A i \in 1 .. n - 1 : i \in 1 .. n /\ i # n
  BY ONLY <1>5
<1>10. SelectorTypeOK'
  <2>1. \A i \in 1 .. n - 1 : CallOK(applying'[i])
    BY <1>1, <1>5, <1>7, <1>9 DEF SelectorTypeOK
  <2>. QED BY <1>1, <1>7, <1>8, <2>1 DEF SelectorTypeOK
<1>11. Prepared'
  BY <1>1, <1>2, <1>8 DEF Prepared
<1>12. SelectorRight'
  <2>1. OthersWrite /\ LeftOvertaken /\ ReadingRight /\ WritingRight /\ ValuesRight
    BY <1>1 DEF SelectorRight
  <2>2. Top.rule = NoRule
    BY <1>1, <1>2, TopRight
  <2>3. \A i \in 1 .. n - 1 : ToSet(applying[i].left) \subseteq overtaken /\ (applying[i] # Called => applying[i].rule # NoRule)
    <3>1. \A i \in 1 .. n : i # n => ToSet(applying[i].left) \subseteq overtaken
      BY <1>1, <1>2, <1>3, <1>4, <1>5, <2>1, OthersRight
    <3>. QED BY ONLY <1>4, <1>5, <1>9, <2>1, <3>1 DEF OthersWrite
  <2>4. OthersWrite' /\ LeftOvertaken'
    BY ONLY <1>7, <1>8, <2>3 DEF OthersWrite, LeftOvertaken
  <2>5. \A p \in Declared \ overtaken : Fits(p, HoldNow)
    <3>1. \A p \in Declared \ overtaken : p \in ToSet(Top.left) \/ Fits(p, HoldNow)
      BY <1>2, <1>3, <2>1 DEF ReadingRight
    <3>2. ToSet(Top.left) = {}
      BY <1>2, EmptySeq, LenProperties DEF ToSet
    <3>. QED BY ONLY <3>1, <3>2
  <2>6. HoldNow' = HoldNow /\ \A q : Fits(q, HoldNow)' <=> Fits(q, HoldNow)
    BY <1>8 DEF HoldNow, Fits
  <2>7. ReadingRight'
    <3>1. ASSUME applying' # <<>> PROVE ToSet(Top'.left) \subseteq overtaken
      <4>1. n - 1 \in 1 .. n - 1
        BY ONLY <1>5, <1>7, <3>1, EmptySeq
      <4>2. Top' = applying[n - 1]
        BY <1>7, <4>1 DEF Top
      <4>. QED BY <2>3, <4>1, <4>2
    <3>. QED BY ONLY <1>8, <2>5, <2>6, <3>1 DEF ReadingRight
  <2>8. WritingRight'
    BY ONLY <1>5, <1>7, <1>8, <1>9, <2>1 DEF WritingRight
  <2>9. ValuesRight'
    <3>1. \A i \in 1 .. n : applying[i].rule # NoRule => i \in 1 .. n - 1 /\ applying'[i] = applying[i]
      <4>1. \A i \in 1 .. n : i = n \/ i \in 1 .. n - 1
        BY ONLY <1>5
      <4>. QED BY ONLY <1>5, <1>7, <2>2, <4>1
    <3>. QED BY ONLY <1>5, <1>7, <1>8, <2>1, <3>1 DEF ValuesRight
  <2>10. AllFit'
    BY ONLY <1>8, <2>5, <2>6 DEF AllFit
  <2>. QED BY <2>4, <2>7, <2>8, <2>9, <2>10 DEF SelectorRight
<1>. QED BY <1>10, <1>11, <1>12 DEF SelectorInv

\* A condition that changes calls apply(), inside of the call that is writing.
LEMMA ChangeConditionKeeps ==
  ASSUME SelectorAssumption, SelectorInv, NEW t \in Targets, NEW c \in Conditions, ChangeCondition(t, c)
  PROVE  SelectorInv'
<1>1. SelectorTypeOK /\ Prepared /\ SelectorRight /\ applying \in Seq(Calls) /\ connections \in [Targets -> Nat]
  BY DEF SelectorInv, SelectorTypeOK
<1>2. PICK k : k = IF c \in UsedConditions THEN connections[t] ELSE 0
  OBVIOUS
<1>3. k \in Nat
  BY <1>1, <1>2
<1>4. PICK n : n = Len(applying)
  OBVIOUS
<1>5. n \in Nat /\ DOMAIN applying = 1 .. n
  BY <1>1, <1>4, LenProperties
<1>6. /\ (applying # <<>> => Top.rule # NoRule)
      /\ holding' = [holding EXCEPT ![t] = IF c \in @ THEN @ \ {c} ELSE @ \cup {c}]
      /\ UNCHANGED <<written, m_target, rulesTarget, connections, currentRule, targets, invalid, overtaken>>
  BY DEF ChangeCondition, InProgram
<1>7. /\ applying' \in Seq(Calls) /\ Len(applying') = n + k /\ DOMAIN applying' = 1 .. n + k
      /\ \A i \in 1 .. n : applying'[i] = applying[i]
      /\ \A i \in 1 .. n + k : i > n => applying'[i] = Called
      /\ k = 0 => applying' = applying
  <2>1. CASE c \in UsedConditions
    <3>1. PICK new : new = [i \in 1 .. k |-> Called]
      OBVIOUS
    <3>2. new \in Seq(Calls) /\ Len(new) = k /\ \A i \in 1 .. k : new[i] = Called
      <4>1. new \in [1 .. k -> Calls]
        BY ONLY <3>1, CalledRight
      <4>. QED BY ONLY <1>3, <3>1, <4>1, FunctionIsSeq
    <3>3. applying' = applying \o new
      BY <1>2, <2>1, <3>1 DEF ChangeCondition
    <3>4. /\ applying \o new \in Seq(Calls) /\ Len(applying \o new) = Len(applying) + Len(new)
          /\ \A i \in 1 .. Len(applying) + Len(new) :
               (applying \o new)[i] = IF i <= Len(applying) THEN applying[i] ELSE new[i - Len(applying)]
      BY ONLY <1>1, <3>2, ConcatProperties
    <3>5. /\ applying' \in Seq(Calls) /\ Len(applying') = n + k
          /\ \A i \in 1 .. n + k : applying'[i] = IF i <= n THEN applying[i] ELSE new[i - n]
      BY ONLY <1>4, <3>2, <3>3, <3>4
    <3>6. \A i \in 1 .. n : i \in 1 .. n + k /\ i <= n
      BY ONLY <1>3, <1>5
    <3>7. \A i \in 1 .. n + k : i > n => ~(i <= n) /\ i - n \in 1 .. k
      BY ONLY <1>3, <1>5
    <3>8. k = 0 => applying' = applying
      <4>1. ASSUME k = 0 PROVE applying' = applying
        <5>1. \A i \in 1 .. n : applying'[i] = applying[i]
          BY ONLY <3>5, <3>6
        <5>2. Len(applying') = n /\ applying' \in Seq(Calls)
          BY ONLY <1>5, <3>5, <4>1
        <5>. QED BY ONLY <1>1, <1>4, <5>1, <5>2, SameList
      <4>. QED BY <4>1
    <3>9. DOMAIN applying' = 1 .. n + k
      BY ONLY <3>5, LenProperties
    <3>10. \A i \in 1 .. n + k : i > n => applying'[i] = Called
      BY ONLY <3>2, <3>5, <3>7
    <3>11. \A i \in 1 .. n : applying'[i] = applying[i]
      BY ONLY <3>5, <3>6
    <3>. QED BY ONLY <3>5, <3>8, <3>9, <3>10, <3>11
  <2>2. CASE c \notin UsedConditions
    <3>1. applying' = applying /\ k = 0
      BY <1>2, <2>2 DEF ChangeCondition
    <3>2. n + k = n /\ \A i \in 1 .. n : ~(i > n)
      BY ONLY <1>5, <3>1
    <3>. QED BY <1>1, <1>4, <1>5, <3>1, <3>2
  <2>. QED BY <2>1, <2>2
<1>8. target' = target /\ target \in Targets
  BY <1>1, <1>6, TargetRight DEF target
<1>9. holding' \in [Targets -> SUBSET Conditions]
  <2>1. holding \in [Targets -> SUBSET Conditions]
    BY <1>1 DEF SelectorTypeOK
  <2>2. holding[t] \in SUBSET Conditions
    BY <2>1
  <2>3. PICK H : H = IF c \in holding[t] THEN holding[t] \ {c} ELSE holding[t] \cup {c}
    OBVIOUS
  <2>4. H \in SUBSET Conditions
    BY <2>2, <2>3
  <2>5. holding' = [holding EXCEPT ![t] = H]
    BY <1>6, <2>3
  <2>. QED BY ONLY <2>1, <2>4, <2>5
<1>10. rulesTarget # NoTarget /\ k = 0 => holding'[target] \cap UsedConditions = holding[target] \cap UsedConditions
  <2>1. ASSUME rulesTarget # NoTarget, k = 0, t = target PROVE c \notin UsedConditions
    <3>1. connections[target] > 0
      BY <1>1, <2>1 DEF Prepared
    <3>2. connections[target] # 0
      BY <1>1, <1>8, <3>1
    <3>. QED BY <1>2, <2>1, <3>2
  <2>2. holding \in [Targets -> SUBSET Conditions]
    BY <1>1 DEF SelectorTypeOK
  <2>3. t # target => holding'[target] = holding[target]
    BY <1>6, <1>8, <2>2
  <2>4. ASSUME t = target, c \notin UsedConditions
        PROVE  holding'[target] \cap UsedConditions = holding[target] \cap UsedConditions
    <3>1. holding'[target] = IF c \in holding[t] THEN holding[t] \ {c} ELSE holding[t] \cup {c}
      BY <1>6, <1>8, <2>2, <2>4
    <3>. QED BY ONLY <2>4, <3>1
  <2>. QED BY <2>1, <2>3, <2>4
<1>11. \A i \in 1 .. n + k : i \in 1 .. n \/ i > n
  BY ONLY <1>3, <1>5
<1>12. \A i \in 1 .. n : i \in 1 .. n + k
  BY ONLY <1>3, <1>5
<1>13. SelectorTypeOK'
  <2>1. \A i \in 1 .. n + k : CallOK(applying'[i])
    <3>1. \A i \in 1 .. n : CallOK(applying[i])
      BY <1>1, <1>5 DEF SelectorTypeOK
    <3>2. CallOK(Called)
      BY CalledRight DEF CallOK
    <3>. QED BY ONLY <3>1, <3>2, <1>7, <1>11
  <2>. QED BY <1>1, <1>6, <1>7, <1>9, <2>1 DEF SelectorTypeOK
<1>14. Prepared'
  <2>1. CASE rulesTarget = NoTarget
    <3>1. applying = <<>> /\ k = 0
      BY <1>1, <1>2, <2>1 DEF Prepared
    <3>2. applying' = <<>>
      BY <1>7, <3>1
    <3>. QED BY <1>1, <1>6, <2>1, <3>2 DEF Prepared
  <2>2. CASE rulesTarget # NoTarget
    BY <1>1, <1>6, <1>8, <2>2 DEF Prepared
  <2>. QED BY <2>1, <2>2
<1>15. SelectorRight'
  <2>1. OthersWrite /\ LeftOvertaken /\ ReadingRight /\ WritingRight /\ ValuesRight /\ AllFit
    BY <1>1 DEF SelectorRight
  <2>2. \A i \in 1 .. n + k : applying'[i] # Called => i \in 1 .. n /\ applying'[i] = applying[i]
    BY ONLY <1>7, <1>11
  <2>3. \A i \in 1 .. n : applying[i] # Called => applying[i].rule # NoRule
    <3>1. ASSUME NEW i \in 1 .. n, applying[i] # Called PROVE applying[i].rule # NoRule
      <4>1. CASE i = n
        <5>1. applying # <<>>
          BY ONLY <1>4, <1>5, <4>1, EmptySeq, i \in 1 .. n
        <5>. QED BY <1>4, <1>6, <4>1, <5>1 DEF Top
      <4>2. CASE i # n
        BY <1>4, <1>5, <2>1, <3>1, <4>2 DEF OthersWrite
      <4>. QED BY <4>1, <4>2
    <3>. QED BY <3>1
  <2>4. OthersWrite'
    BY ONLY <1>7, <2>2, <2>3 DEF OthersWrite
  <2>5. LeftOvertaken'
    <3>1. \A i \in 1 .. n + k, j \in 1 .. n : i < j => i \in 1 .. n
      BY ONLY <1>3, <1>5
    <3>. QED BY ONLY <1>5, <1>6, <1>7, <2>1, <2>2, <3>1 DEF LeftOvertaken
  <2>6. WritingRight'
    <3>1. \A i \in 1 .. n + k : applying'[i].rule # NoRule => i \in 1 .. n /\ applying'[i] = applying[i]
      BY ONLY <2>2, CalledRight
    <3>. QED BY ONLY <1>5, <1>6, <1>7, <2>1, <3>1 DEF WritingRight
  <2>7. ValuesRight'
    BY ONLY <1>5, <1>6, <1>7, <1>12, <2>1 DEF ValuesRight
  <2>8. CASE k = 0
    <3>1. applying' = applying /\ Top' = Top
      BY <1>7, <2>8 DEF Top
    <3>2. applying # <<>> => rulesTarget # NoTarget
      BY <1>1 DEF Prepared
    <3>3. rulesTarget # NoTarget => HoldNow' = HoldNow /\ \A q : Fits(q, HoldNow)' <=> Fits(q, HoldNow)
      BY <1>6, <1>8, <1>10, <2>8 DEF HoldNow, Fits
    <3>4. ReadingRight'
      BY ONLY <1>6, <2>1, <3>1, <3>2, <3>3 DEF ReadingRight
    <3>5. AllFit'
      BY ONLY <1>6, <2>1, <3>1, <3>3 DEF AllFit
    <3>. QED BY <2>4, <2>5, <2>6, <2>7, <3>4, <3>5 DEF SelectorRight
  <2>9. CASE k # 0
    <3>1. n + k \in 1 .. n + k /\ n + k > n /\ n + k # 0
      BY ONLY <1>3, <1>5, <2>9
    <3>2. Top' = Called
      BY <1>7, <3>1 DEF Top
    <3>3. applying' # <<>>
      BY ONLY <1>7, <3>1, EmptySeq
    <3>4. ReadingRight' /\ AllFit'
      BY <3>2, <3>3 DEF ReadingRight, AllFit
    <3>. QED BY <2>4, <2>5, <2>6, <2>7, <3>4 DEF SelectorRight
  <2>. QED BY <2>8, <2>9
<1>. QED BY <1>13, <1>14, <1>15 DEF SelectorInv

\* A call that is the only one.
LEMMA FirstCall == /\ <<Called>> \in Seq(Calls) /\ DOMAIN <<Called>> = 1 .. 1 /\ Len(<<Called>>) = 1
                   /\ <<Called>>[1] = Called /\ <<Called>> # <<>>
BY CalledRight

\* One call that has read nothing is right.
LEMMA CalledIsRight ==
  ASSUME SelectorTypeOK, SelectorTypeOK', applying = <<>>, applying' = <<Called>>, UNCHANGED <<written, currentRule, invalid, overtaken>>,
         rulesTarget' = rulesTarget \/ \A p \in Declared : currentRule[p] = NoRule,
         ValuesRight
  PROVE  SelectorRight'
<1>1. DOMAIN applying' = 1 .. 1 /\ Len(applying') = 1 /\ applying'[1] = Called /\ applying' # <<>> /\ Called.rule = NoRule
  BY FirstCall, CalledRight
<1>2. \A i \in 1 .. 1 : i = 1
  OBVIOUS
<1>3. \A i \in DOMAIN applying' : applying'[i] = Called
  BY ONLY <1>1, <1>2
<1>4. OthersWrite' /\ LeftOvertaken' /\ WritingRight'
  BY ONLY <1>1, <1>3 DEF OthersWrite, LeftOvertaken, WritingRight
<1>5. Top' = Called
  BY ONLY <1>1 DEF Top
<1>6. ReadingRight' /\ AllFit'
  BY ONLY <1>1, <1>5 DEF ReadingRight, AllFit
<1>7. DOMAIN applying = {}
  BY EmptySeq, LenProperties
<1>8. ValuesRight'
  BY <1>7 DEF ValuesRight
<1>. QED BY <1>4, <1>6, <1>8 DEF SelectorRight

\* Another target calls apply() if there are rules.
LEMMA SetTargetKeeps ==
  ASSUME SelectorAssumption, SelectorInv, NEW t \in Targets \cup {NoTarget}, SetTarget(t)
  PROVE  SelectorInv'
<1>1. SelectorTypeOK /\ Prepared /\ SelectorRight
  BY DEF SelectorInv
<1>2. /\ applying = <<>> /\ m_target' = t /\ UNCHANGED <<holding, written, rulesTarget, currentRule, invalid, overtaken>>
      /\ IF rulesTarget = NoTarget THEN UNCHANGED <<connections, applying>>
         ELSE connections' = [connections EXCEPT ![target'] = @ + 1] /\ applying' = <<Called>>
  BY DEF SetTarget
<1>3. target' \in Targets
  BY <1>2 DEF target, SelectorAssumption
<1>4. CASE rulesTarget = NoTarget
  <2>1. SelectorTypeOK'
    BY <1>1, <1>2, <1>4 DEF SelectorTypeOK
  <2>2. Prepared'
    BY <1>1, <1>2, <1>4 DEF Prepared
  <2>3. DOMAIN applying = {}
    BY <1>2, EmptySeq, LenProperties
  <2>4. SelectorRight'
    BY <1>1, <1>2, <1>4, <2>3
       DEF SelectorRight, OthersWrite, LeftOvertaken, ReadingRight, WritingRight, ValuesRight, AllFit, Prepared
  <2>. QED BY <2>1, <2>2, <2>4 DEF SelectorInv
<1>5. CASE rulesTarget # NoTarget
  <2>1. connections \in [Targets -> Nat]
    BY <1>1 DEF SelectorTypeOK
  <2>2. connections' \in [Targets -> Nat] /\ connections'[target'] > 0
    <3>1. PICK u : u = target'
      OBVIOUS
    <3>2. connections' = [connections EXCEPT ![u] = @ + 1] /\ u \in Targets
      BY <1>2, <1>3, <1>5, <3>1
    <3>3. connections' \in [Targets -> Nat] /\ connections'[u] > 0
      BY ONLY <2>1, <3>2
    <3>. QED BY ONLY <3>1, <3>3
  <2>3. applying' = <<Called>>
    BY <1>2, <1>5
  <2>4. SelectorTypeOK'
    <3>1. CallOK(Called)
      BY CalledRight DEF CallOK
    <3>2. \A i \in DOMAIN applying' : CallOK(applying'[i])
      BY <2>3, <3>1, FirstCall
    <3>. QED BY <1>1, <1>2, <2>2, <2>3, <3>2, FirstCall DEF SelectorTypeOK
  <2>5. Prepared'
    BY <1>2, <1>5, <2>2 DEF Prepared
  <2>6. SelectorRight'
    <3>1. ValuesRight
      BY <1>1 DEF SelectorRight
    <3>. QED BY <1>1, <1>2, <2>3, <2>4, <3>1, CalledIsRight
  <2>. QED BY <2>4, <2>5, <2>6 DEF SelectorInv
<1>. QED BY <1>4, <1>5

\* The rules are prepared and applied.
LEMMA ComponentCompleteKeeps ==
  ASSUME SelectorAssumption, SelectorInv, ComponentComplete
  PROVE  SelectorInv'
<1>1. SelectorTypeOK /\ Prepared
  BY DEF SelectorInv
<1>2. /\ rulesTarget = NoTarget /\ rulesTarget' = target /\ applying' = <<Called>>
      /\ connections' = [connections EXCEPT ![target] = @ + 1]
      /\ UNCHANGED <<holding, written, m_target, currentRule, targets, invalid, overtaken>>
  BY DEF ComponentComplete
<1>3. target \in Targets /\ target' = target /\ target # NoTarget
  BY <1>1, <1>2, TargetRight DEF target, SelectorAssumption
<1>4. connections' \in [Targets -> Nat] /\ connections'[target] > 0
  <2>1. connections \in [Targets -> Nat]
    BY <1>1 DEF SelectorTypeOK
  <2>. QED BY ONLY <1>2, <1>3, <2>1
<1>5. applying = <<>> /\ \A p \in Declared : currentRule[p] = NoRule
  BY <1>1, <1>2 DEF Prepared
<1>6. SelectorTypeOK'
  <2>1. CallOK(Called)
    BY CalledRight DEF CallOK
  <2>2. \A i \in DOMAIN applying' : CallOK(applying'[i])
    BY <1>2, <2>1, FirstCall
  <2>. QED BY <1>1, <1>2, <1>3, <1>4, <2>2, FirstCall DEF SelectorTypeOK
<1>7. Prepared'
  BY <1>2, <1>3, <1>4 DEF Prepared
<1>8. SelectorRight'
  <2>1. ValuesRight
    BY <1>5 DEF ValuesRight
  <2>. QED BY <1>1, <1>2, <1>5, <1>6, <2>1, CalledIsRight
<1>. QED BY <1>6, <1>7, <1>8 DEF SelectorInv

\* No step disturbs that.
LEMMA SelectorSteps ==
  ASSUME SelectorAssumption, SelectorInv, [SelectorNext]_selectorVars
  PROVE  SelectorInv'
<1>1. CASE SelectorNext
  BY <1>1, ChangeConditionKeeps, SetTargetKeeps, ComponentCompleteKeeps, ReadConditionsKeeps, KeepRuleKeeps,
     WriteValueKeeps, SetCurrentRuleKeeps, ApplyReturnsKeeps DEF SelectorNext
<1>2. CASE UNCHANGED selectorVars
  <2>1. UNCHANGED <<holding, written, m_target, rulesTarget, connections, currentRule, applying, targets, invalid, overtaken>>
    BY <1>2 DEF selectorVars
  <2>2. target' = target /\ Top' = Top
    BY <2>1 DEF target, Top
  <2>3. SelectorTypeOK' /\ Prepared'
    BY <2>1, <2>2 DEF SelectorInv, SelectorTypeOK, Prepared
  <2>4. SelectorRight'
    <3>1. HoldNow' = HoldNow /\ \A q : Fits(q, HoldNow)' <=> Fits(q, HoldNow)
      BY <2>1, <2>2 DEF HoldNow, Fits
    <3>. QED BY <2>1, <2>2, <3>1
             DEF SelectorInv, SelectorRight, OthersWrite, LeftOvertaken, ReadingRight, WritingRight, ValuesRight, AllFit
  <2>. QED BY <2>1, <2>3, <2>4 DEF SelectorInv
<1>. QED BY <1>1, <1>2

\* PropertySelector keeps the rule in effect that its documentation promises, whatever
\* the rules, and however conditions change between and inside of the calls of apply(),
\* for each property that a call inside of another one has not overtaken.
THEOREM SelectorRuleInEffect == SelectorSpec => []RuleInEffect
<1>1. SelectorInv => RuleInEffect
  <2> SUFFICES ASSUME SelectorInv, Settled, target = rulesTarget, NEW p \in Declared \ (invalid \cup overtaken),
                      NEW r \in ToSet(RuleList), IsRuleFor(r, p, holding[target])
               PROVE  written[target][p] = r.line
    BY DEF RuleInEffect, InEffect
  <2>1. SelectorTypeOK /\ ValuesRight /\ AllFit /\ applying = <<>> /\ rulesTarget # NoTarget
    BY DEF SelectorInv, SelectorRight, Settled
  <2>2. Found(p, HoldNow) = r /\ r # NoRule
    BY SelectorAssumption, FoundRight DEF HoldNow
  <2>3. currentRule[p] = r
    BY <2>1, <2>2 DEF AllFit, Fits
  <2>4. DOMAIN applying = {}
    BY <2>1, EmptySeq, LenProperties
  <2>. QED BY <2>1, <2>2, <2>3, <2>4 DEF ValuesRight
<1>2. SelectorAssumption
  BY SelectorAssumption
<1>. QED BY <1>1, <1>2, SelectorStarts, SelectorSteps, PTL DEF SelectorSpec

-----------------------------------------------------------------------------
(* ModelIterator *)

\* The ancestor of an index that is n levels below the root.
Ancestor(i, n) == SubSeq(i, 1, n)

\* An index is its parent and its row.
LEMMA FrontAndLast ==
  ASSUME NEW i \in Seq(Nat), i # <<>>
  PROVE  /\ Len(i) \in Nat /\ Len(i) >= 1 /\ Last(i) = i[Len(i)] /\ Last(i) \in Nat
         /\ Front(i) = Ancestor(i, Len(i) - 1)
         /\ Front(i) \in Seq(Nat) /\ Len(Front(i)) = Len(i) - 1 /\ \A k \in 1 .. Len(i) - 1 : Front(i)[k] = i[k]
         /\ Append(Front(i), Last(i)) = i
<1>1. PICK l, f, m : l = Len(i) /\ f = Front(i) /\ m = l - 1
  OBVIOUS
<1>2. l \in Nat /\ l >= 1 /\ l \in 1 .. l /\ \A k \in 1 .. l : i[k] \in Nat
  <2>1. l \in Nat /\ l >= 1
    BY ONLY <1>1, i \in Seq(Nat), i # <<>>, LenProperties, EmptySeq
  <2>2. \A k \in 1 .. l : i[k] \in Nat
    BY ONLY <1>1, i \in Seq(Nat), ElementOfSeq
  <2>. QED BY <2>1, <2>2
<1>3. Last(i) = i[l] /\ Last(i) \in Nat
  BY ONLY <1>1, <1>2 DEF Last
<1>4. f = SubSeq(i, 1, m)
  BY ONLY <1>1 DEF Front
<1>5. 1 \in 1 .. l + 1 /\ m \in 1 - 1 .. l /\ m - 1 + 1 = m /\ m \in Nat /\ m + 1 = l /\ \A k \in 1 .. m : 1 + k - 1 = k
  BY ONLY <1>1, <1>2
<1>6. f \in Seq(Nat) /\ Len(f) = m - 1 + 1 /\ \A k \in 1 .. m - 1 + 1 : f[k] = i[1 + k - 1]
  BY ONLY <1>1, <1>4, <1>5, i \in Seq(Nat), PartOfRows
<1>7. f \in Seq(Nat) /\ Len(f) = m /\ \A k \in 1 .. m : f[k] = i[k]
  BY ONLY <1>5, <1>6
<1>8. PICK r : r = Last(i)
  OBVIOUS
<1>9. PICK a : a = Append(f, r)
  OBVIOUS
<1>10. /\ a \in Seq(Nat) /\ Len(a) = m + 1 /\ a[m + 1] = r
       /\ \A k \in 1 .. m : a[k] = f[k]
  BY ONLY <1>3, <1>5, <1>7, <1>8, <1>9, AppendProperties
<1>11. \A k \in 1 .. l : k \in 1 .. m \/ k = l
  BY ONLY <1>2, <1>5
<1>12. \A k \in 1 .. l : a[k] = i[k]
  BY ONLY <1>3, <1>5, <1>7, <1>8, <1>10, <1>11
<1>13. a = i
  BY ONLY <1>1, <1>5, <1>10, <1>12, i \in Seq(Nat), SameList
<1>. QED BY ONLY <1>1, <1>2, <1>3, <1>4, <1>7, <1>8, <1>9, <1>13 DEF Ancestor

\* A child has its parent and its row.
LEMMA ChildRight ==
  ASSUME NEW p \in Seq(Nat), NEW r \in Nat
  PROVE  /\ Append(p, r) \in Seq(Nat) /\ Append(p, r) # <<>> /\ Len(Append(p, r)) = Len(p) + 1 /\ Len(p) \in Nat
         /\ Append(p, r)[Len(p) + 1] = r /\ \A k \in 1 .. Len(p) : Append(p, r)[k] = p[k]
         /\ Front(Append(p, r)) = p /\ Last(Append(p, r)) = r
<1>1. PICK l, a : l = Len(p) /\ a = Append(p, r)
  OBVIOUS
<1>2. l \in Nat
  BY ONLY <1>1, p \in Seq(Nat), LenProperties
<1>3. a \in Seq(Nat) /\ Len(a) = l + 1 /\ a[l + 1] = r /\ \A k \in 1 .. l : a[k] = p[k]
  BY ONLY <1>1, <1>2, p \in Seq(Nat), r \in Nat, AppendProperties
<1>4. a # <<>>
  BY ONLY <1>2, <1>3, EmptySeq
<1>5. PICK f : f = Front(a)
  OBVIOUS
<1>6. /\ Last(a) = a[Len(a)] /\ f \in Seq(Nat) /\ Len(f) = Len(a) - 1
      /\ \A k \in 1 .. Len(a) - 1 : f[k] = a[k]
  BY ONLY <1>3, <1>4, <1>5, FrontAndLast
<1>7. Last(a) = r /\ Len(f) = l /\ \A k \in 1 .. l : f[k] = p[k]
  <2>1. Len(a) - 1 = l
    BY ONLY <1>2, <1>3
  <2>. QED BY ONLY <1>3, <1>6, <2>1
<1>8. f = p
  BY ONLY <1>1, <1>6, <1>7, p \in Seq(Nat), SameList
<1>. QED BY ONLY <1>1, <1>2, <1>3, <1>4, <1>5, <1>7, <1>8

\* An ancestor begins as the index does.
LEMMA AncestorRight ==
  ASSUME NEW i \in Seq(Nat), NEW n \in 0 .. Len(i)
  PROVE  /\ Ancestor(i, n) \in Seq(Nat) /\ Len(Ancestor(i, n)) = n /\ \A k \in 1 .. n : Ancestor(i, n)[k] = i[k]
         /\ n = Len(i) => Ancestor(i, n) = i
<1>1. PICK l, a : l = Len(i) /\ a = Ancestor(i, n)
  OBVIOUS
<1>2. l \in Nat
  BY ONLY <1>1, i \in Seq(Nat), LenProperties
<1>3. 1 \in 1 .. Len(i) + 1 /\ n \in 1 - 1 .. Len(i) /\ n - 1 + 1 = n /\ \A k \in 1 .. n : 1 + k - 1 = k
  BY ONLY <1>1, <1>2, n \in 0 .. Len(i)
<1>4. a = SubSeq(i, 1, n)
  BY ONLY <1>1 DEF Ancestor
<1>5. a \in Seq(Nat) /\ Len(a) = n - 1 + 1 /\ \A k \in 1 .. n - 1 + 1 : a[k] = i[1 + k - 1]
  BY ONLY <1>3, <1>4, i \in Seq(Nat), PartOfRows
<1>6. Len(a) = n /\ \A k \in 1 .. n : a[k] = i[k]
  BY ONLY <1>3, <1>5
<1>7. n = l => a = i
  <2>1. ASSUME n = l PROVE a = i
    <3>1. Len(i) = l /\ Len(a) = l /\ \A k \in 1 .. l : a[k] = i[k]
      BY ONLY <1>1, <1>6, <2>1
    <3>. QED BY ONLY <1>5, <3>1, i \in Seq(Nat), SameList
  <2>. QED BY <2>1
<1>. QED BY ONLY <1>1, <1>5, <1>6, <1>7

\* Of two indexes one comes first, ...
LEMMA OneComesFirst ==
  ASSUME NEW i \in Seq(Nat), NEW j \in Seq(Nat), i # j
  PROVE  Precedes(i, j) \/ Precedes(j, i)
<1>1. PICK l, m : l = Len(i) /\ m = Len(j)
  OBVIOUS
<1>2. l \in Nat /\ m \in Nat /\ (\A k \in 1 .. l : i[k] \in Nat) /\ (\A k \in 1 .. m : j[k] \in Nat)
  BY ONLY <1>1, i \in Seq(Nat), j \in Seq(Nat), LenProperties, ElementOfSeq
<1>3. PICK differ : differ = {k \in 1 .. l : k <= m /\ i[k] # j[k]}
  OBVIOUS
<1>4. CASE differ # {}
  <2>1. differ \in SUBSET Nat
    BY ONLY <1>2, <1>3
  <2>2. PICK k \in differ : \A q \in differ : k <= q
    BY ONLY <1>4, <2>1, LeastNumber
  <2>3. k \in 1 .. l /\ k \in 1 .. m /\ i[k] # j[k]
    BY ONLY <1>2, <1>3, <2>2
  <2>4. PICK n : n = k - 1
    OBVIOUS
  <2>5. n + 1 = k /\ n \in 0 .. l - 1 /\ n \in 0 .. m - 1 /\ n <= l /\ n <= m
    BY ONLY <1>2, <2>3, <2>4
  <2>6. \A q \in 1 .. n : i[q] = j[q]
    <3>1. ASSUME NEW q \in 1 .. n, i[q] # j[q] PROVE FALSE
      <4>1. q \in 1 .. l /\ q <= m /\ ~(k <= q)
        BY ONLY <1>2, <2>3, <2>5, q \in 1 .. n
      <4>. QED BY ONLY <1>3, <2>2, <3>1, <4>1
    <3>. QED BY <3>1
  <2>7. i[k] < j[k] \/ j[k] < i[k]
    <3>1. i[k] \in Nat /\ j[k] \in Nat
      BY ONLY <1>2, <2>3
    <3>. QED BY ONLY <2>3, <3>1
  <2>. QED BY ONLY <1>1, <2>5, <2>6, <2>7 DEF Precedes
<1>5. CASE differ = {}
  <2>1. \A k \in 1 .. l : k <= m => i[k] = j[k]
    BY ONLY <1>3, <1>5
  <2>2. l # m
    <3>1. ASSUME l = m PROVE FALSE
      <4>1. \A k \in 1 .. l : i[k] = j[k]
        BY ONLY <1>2, <2>1, <3>1
      <4>2. i = j
        BY ONLY <1>1, <3>1, <4>1, i \in Seq(Nat), j \in Seq(Nat), SameList
      <4>. QED BY <4>2
    <3>. QED BY <3>1
  <2>3. CASE l < m
    <3>1. l \in 0 .. m - 1 /\ l <= l /\ \A k \in 1 .. l : i[k] = j[k]
      BY ONLY <1>2, <2>1, <2>3
    <3>. QED BY ONLY <1>1, <3>1 DEF Precedes
  <2>4. CASE m < l
    <3>1. m \in 0 .. l - 1 /\ m <= m /\ \A k \in 1 .. m : j[k] = i[k]
      BY ONLY <1>2, <2>1, <2>4
    <3>. QED BY ONLY <1>1, <3>1 DEF Precedes
  <2>. QED BY ONLY <1>2, <2>2, <2>3, <2>4
<1>. QED BY <1>4, <1>5

\* ... and only one.
LEMMA NotBothFirst ==
  ASSUME NEW i \in Seq(Nat), NEW j \in Seq(Nat), Precedes(i, j)
  PROVE  ~Precedes(j, i)
<1>1. PICK l, m : l = Len(i) /\ m = Len(j)
  OBVIOUS
<1>2. l \in Nat /\ m \in Nat /\ (\A k \in 1 .. l : i[k] \in Nat) /\ (\A k \in 1 .. m : j[k] \in Nat)
  BY ONLY <1>1, i \in Seq(Nat), j \in Seq(Nat), LenProperties, ElementOfSeq
<1> SUFFICES ASSUME Precedes(j, i) PROVE FALSE
  OBVIOUS
<1>3. PICK n \in 0 .. m - 1 : n <= l /\ (\A k \in 1 .. n : i[k] = j[k]) /\ (n = l \/ i[n + 1] < j[n + 1])
  BY ONLY <1>1, Precedes(i, j) DEF Precedes
<1>4. PICK q \in 0 .. l - 1 : q <= m /\ (\A k \in 1 .. q : j[k] = i[k]) /\ (q = m \/ j[q + 1] < i[q + 1])
  BY ONLY <1>1, Precedes(j, i) DEF Precedes
<1>5. n \in Nat /\ q \in Nat
  BY ONLY <1>2, <1>3, <1>4
<1>6. CASE n < q
  <2>1. n + 1 \in 1 .. q /\ n # l /\ n + 1 \in 1 .. l /\ n + 1 \in 1 .. m
    BY ONLY <1>2, <1>3, <1>4, <1>5, <1>6
  <2>2. i[n + 1] \in Nat /\ i[n + 1] < j[n + 1] /\ i[n + 1] = j[n + 1]
    BY ONLY <1>2, <1>3, <1>4, <2>1
  <2>. QED BY ONLY <2>2
<1>7. CASE q < n
  <2>1. q + 1 \in 1 .. n /\ q # m /\ q + 1 \in 1 .. l /\ q + 1 \in 1 .. m
    BY ONLY <1>2, <1>3, <1>4, <1>5, <1>7
  <2>2. i[q + 1] \in Nat /\ j[q + 1] < i[q + 1] /\ i[q + 1] = j[q + 1]
    BY ONLY <1>2, <1>3, <1>4, <2>1
  <2>. QED BY ONLY <2>2
<1>8. CASE n = q
  <2>1. n # l /\ q # m /\ n + 1 \in 1 .. l /\ n + 1 \in 1 .. m
    BY ONLY <1>2, <1>3, <1>4, <1>5, <1>8
  <2>2. i[n + 1] \in Nat /\ j[n + 1] \in Nat /\ i[n + 1] < j[n + 1] /\ j[n + 1] < i[n + 1]
    BY ONLY <1>2, <1>3, <1>4, <1>8, <2>1
  <2>. QED BY ONLY <2>2
<1>. QED BY ONLY <1>5, <1>6, <1>7, <1>8

\* None comes before itself.
LEMMA NotBeforeItself ==
  ASSUME NEW i \in Seq(Nat)
  PROVE  ~Precedes(i, i)
BY NotBothFirst

\* The model is a tree: with an index there are its ancestors and the indexes in front of it.
TreeOK ==
  /\ IsFiniteSet(model)
  /\ \A i \in model :
       /\ i \in Seq(Nat) /\ i # <<>>
       /\ Len(i) > 1 => Front(i) \in model
       /\ Last(i) > 0 => Append(Front(i), Last(i) - 1) \in model

\* The index of the row after the one of an ancestor.
Younger(i, n) == Append(Ancestor(i, n - 1), i[n] + 1)

\* Sets with as many elements.
LEMMA AsMany ==
  ASSUME NEW S, NEW T, IsFiniteSet(S), NEW f \in [S -> T],
         \A a, b \in S : f[a] = f[b] => a = b, \A t \in T : \E a \in S : f[a] = t
  PROVE  IsFiniteSet(T) /\ Cardinality(T) = Cardinality(S)
<1>1. f \in Bijection(S, T)
  BY DEF Bijection, Injection, Surjection, IsInjective
<1>2. ExistsBijection(S, T)
  BY <1>1 DEF ExistsBijection
<1>. QED BY ONLY <1>2, IsFiniteSet(S), FS_Bijection

\* The rows of an index count from 0 up.
LEMMA RowsCountUp ==
  ASSUME TreeOK, NEW p \in Seq(Nat)
  PROVE  RowCount(p) \in Nat /\ \A r \in Nat : Append(p, r) \in model <=> r < RowCount(p)
<1>1. PICK rows, kids : rows = {r \in Nat : Append(p, r) \in model} /\ kids = {j \in model : ParentOf(j) = p}
  OBVIOUS
<1>2. RowCount(p) = Cardinality(kids)
  BY ONLY <1>1 DEF RowCount
<1>3. \A j \in kids : Last(j) \in rows /\ Append(p, Last(j)) = j
  <2>1. ASSUME NEW j \in kids PROVE Last(j) \in rows /\ Append(p, Last(j)) = j
    <3>1. j \in model /\ ParentOf(j) = p /\ j \in Seq(Nat) /\ j # <<>>
      BY ONLY <1>1, TreeOK, j \in kids DEF TreeOK
    <3>2. Front(j) = p
      BY ONLY <3>1 DEF ParentOf
    <3>3. Last(j) \in Nat /\ Append(p, Last(j)) = j
      BY ONLY <3>1, <3>2, FrontAndLast
    <3>. QED BY ONLY <1>1, <3>1, <3>3
  <2>. QED BY ONLY <2>1
<1>4. \A r \in rows : Append(p, r) \in kids /\ Last(Append(p, r)) = r
  <2>1. ASSUME NEW r \in rows PROVE Append(p, r) \in kids /\ Last(Append(p, r)) = r
    <3>1. r \in Nat /\ Append(p, r) \in model
      BY ONLY <1>1, r \in rows
    <3>2. Append(p, r) # <<>> /\ Front(Append(p, r)) = p /\ Last(Append(p, r)) = r
      BY ONLY <3>1, p \in Seq(Nat), ChildRight
    <3>3. ParentOf(Append(p, r)) = p
      BY ONLY <3>2 DEF ParentOf
    <3>. QED BY ONLY <1>1, <3>1, <3>2, <3>3
  <2>. QED BY ONLY <2>1
<1>5. IsFiniteSet(kids)
  <2>1. kids \in SUBSET model
    BY ONLY <1>1
  <2>. QED BY ONLY <2>1, TreeOK, FS_Subset DEF TreeOK
<1>6. IsFiniteSet(rows) /\ Cardinality(rows) = Cardinality(kids)
  <2>1. PICK f : f = [j \in kids |-> Last(j)]
    OBVIOUS
  <2>2. f \in [kids -> rows] /\ \A j \in kids : f[j] = Last(j)
    BY ONLY <1>3, <2>1
  <2>3. \A a, b \in kids : f[a] = f[b] => a = b
    BY ONLY <1>3, <2>2
  <2>4. \A r \in rows : \E j \in kids : f[j] = r
    BY ONLY <1>4, <2>2
  <2>. QED BY ONLY <1>5, <2>2, <2>3, <2>4, AsMany
<1>7. rows \in SUBSET Nat
  BY ONLY <1>1
<1>8. \A r \in rows : r > 0 => r - 1 \in rows
  <2>1. ASSUME NEW r \in rows, r > 0 PROVE r - 1 \in rows
    <3>1. r \in Nat /\ r - 1 \in Nat
      BY ONLY <1>7, <2>1
    <3>2. PICK j : j = Append(p, r)
      OBVIOUS
    <3>3. j \in model /\ Front(j) = p /\ Last(j) = r
      <4>1. j \in model
        BY ONLY <1>1, <3>2, r \in rows
      <4>. QED BY ONLY <3>1, <3>2, <4>1, p \in Seq(Nat), ChildRight
    <3>4. Append(Front(j), Last(j) - 1) \in model
      BY ONLY <2>1, <3>3, TreeOK DEF TreeOK
    <3>. QED BY ONLY <1>1, <3>1, <3>3, <3>4
  <2>. QED BY ONLY <2>1
<1>9. PICK b \in Nat : \A r \in rows : r <= b
  BY ONLY <1>6, <1>7, FiniteSetIsBounded
<1>10. PICK gaps : gaps = {q \in Nat : q \notin rows}
  OBVIOUS
<1>11. gaps \in SUBSET Nat /\ gaps # {}
  <2>1. b + 1 \in Nat /\ ~(b + 1 <= b)
    OBVIOUS
  <2>2. b + 1 \in gaps
    BY ONLY <1>9, <1>10, <2>1
  <2>. QED BY ONLY <1>10, <2>2
<1>12. PICK m \in gaps : \A q \in gaps : m <= q
  BY ONLY <1>11, LeastNumber
<1>13. m \in Nat /\ m \notin rows /\ \A q \in Nat : q < m => q \in rows
  <2>1. m \in Nat /\ m \notin rows
    BY ONLY <1>10, <1>12
  <2>2. ASSUME NEW q \in Nat, q < m PROVE q \in rows
    <3>1. ~(m <= q)
      BY ONLY <2>1, <2>2
    <3>. QED BY ONLY <1>10, <1>12, <3>1, q \in Nat
  <2>. QED BY ONLY <2>1, <2>2
<1>14. \A r \in rows : r < m
  <2>1. PICK above : above = {r \in rows : ~(r < m)}
    OBVIOUS
  <2>2. ASSUME above # {} PROVE FALSE
    <3>1. above \in SUBSET Nat
      BY ONLY <1>7, <2>1
    <3>2. PICK r \in above : \A q \in above : r <= q
      BY ONLY <2>2, <3>1, LeastNumber
    <3>3. r \in rows /\ r \in Nat /\ ~(r < m) /\ r # m
      BY ONLY <1>7, <1>13, <2>1, <3>2
    <3>4. r > 0 /\ ~(r - 1 < m) /\ ~(r <= r - 1)
      BY ONLY <1>13, <3>3
    <3>5. r - 1 \in rows
      BY ONLY <1>8, <3>3, <3>4
    <3>. QED BY ONLY <2>1, <3>2, <3>4, <3>5
  <2>. QED BY ONLY <2>1, <2>2
<1>15. Cardinality(rows) = m
  <2>1. rows = 0 .. m - 1
    <3>1. \A r \in rows : r \in 0 .. m - 1
      BY ONLY <1>7, <1>13, <1>14
    <3>2. \A r \in 0 .. m - 1 : r \in Nat /\ r < m
      BY ONLY <1>13
    <3>3. \A r \in 0 .. m - 1 : r \in rows
      BY ONLY <1>13, <3>2
    <3>. QED BY ONLY <3>1, <3>3
  <2>2. 0 \in Int /\ m - 1 \in Int
    BY ONLY <1>13
  <2>3. Cardinality(0 .. m - 1) = IF 0 > m - 1 THEN 0 ELSE m - 1 - 0 + 1
    BY ONLY <2>2, FS_Interval
  <2>. QED BY ONLY <1>13, <2>1, <2>3
<1>. QED
  <2>1. RowCount(p) = m
    BY ONLY <1>2, <1>6, <1>15
  <2>2. \A r \in Nat : r \in rows <=> r < m
    BY ONLY <1>13, <1>14
  <2>. QED BY ONLY <1>1, <1>13, <2>1, <2>2

\* Where there is a row, there are those in front of it.
LEMMA ElderThere ==
  ASSUME TreeOK, NEW p \in Seq(Nat), NEW r \in Nat, Append(p, r) \in model, NEW q \in Nat, q <= r
  PROVE  Append(p, q) \in model
<1>1. PICK n : n = RowCount(p)
  OBVIOUS
<1>2. n \in Nat /\ \A k \in Nat : Append(p, k) \in model <=> k < n
  BY ONLY <1>1, TreeOK, p \in Seq(Nat), RowsCountUp
<1>3. r < n /\ q < n
  BY ONLY <1>2, r \in Nat, q \in Nat, q <= r, Append(p, r) \in model
<1>. QED BY ONLY <1>2, <1>3, q \in Nat

\* What holds of an index when it does of its parent, holds of all.
LEMMA FromTheRoot ==
  ASSUME TreeOK, NEW S, \A i \in model : (Len(i) > 1 => Front(i) \in S) => i \in S
  PROVE  model \subseteq S
<1>1. PICK bad : bad = {n \in Nat : \E i \in model : Len(i) = n /\ i \notin S}
  OBVIOUS
<1>2. ASSUME bad # {} PROVE FALSE
  <2>1. bad \in SUBSET Nat
    BY ONLY <1>1
  <2>2. PICK n \in bad : \A m \in bad : n <= m
    BY ONLY <1>2, <2>1, LeastNumber
  <2>3. PICK i \in model : Len(i) = n /\ i \notin S
    BY ONLY <1>1, <2>2
  <2>4. Len(i) > 1 /\ Front(i) \notin S
    BY ONLY <2>3, \A j \in model : (Len(j) > 1 => Front(j) \in S) => j \in S
  <2>5. Front(i) \in model /\ i \in Seq(Nat) /\ i # <<>>
    BY ONLY <2>4, TreeOK DEF TreeOK
  <2>6. Len(Front(i)) = n - 1 /\ n - 1 \in Nat /\ ~(n <= n - 1)
    <3>1. Len(Front(i)) = Len(i) - 1
      BY ONLY <2>5, FrontAndLast
    <3>2. n \in Nat /\ n > 1
      BY ONLY <2>1, <2>2, <2>3, <2>4
    <3>. QED BY ONLY <2>3, <3>1, <3>2
  <2>7. n - 1 \in bad
    BY ONLY <1>1, <2>4, <2>5, <2>6
  <2>. QED BY ONLY <2>2, <2>6, <2>7
<1>3. ASSUME NEW i \in model, i \notin S PROVE FALSE
  <2>1. Len(i) \in Nat
    BY ONLY TreeOK, i \in model, LenProperties DEF TreeOK
  <2>. QED BY ONLY <1>1, <1>2, <1>3, <2>1
<1>. QED BY ONLY <1>3

\* What holds of an index when it does of its children, holds of all.
LEMMA FromTheLeaves ==
  ASSUME TreeOK, NEW S,
         \A i \in model \cup {<<>>} : (\A r \in Nat : Append(i, r) \in model => Append(i, r) \in S) => i \in S
  PROVE  model \cup {<<>>} \subseteq S
<1>1. PICK nodes : nodes = model \cup {<<>>}
  OBVIOUS
<1>2. \A i \in nodes : i \in Seq(Nat) /\ Len(i) \in Nat
  <2>1. \A i \in nodes : i \in Seq(Nat)
    <3>1. <<>> \in Seq(Nat)
      OBVIOUS
    <3>. QED BY ONLY <1>1, <3>1, TreeOK DEF TreeOK
  <2>. QED BY ONLY <2>1, LenProperties
<1>3. PICK lengths : lengths = {Len(i) : i \in nodes}
  OBVIOUS
<1>4. lengths \in SUBSET Nat /\ IsFiniteSet(lengths)
  <2>1. lengths \in SUBSET Nat
    BY ONLY <1>2, <1>3
  <2>2. IsFiniteSet(nodes)
    BY ONLY <1>1, TreeOK, FS_AddElement DEF TreeOK
  <2>3. PICK f : f = [i \in nodes |-> Len(i)]
    OBVIOUS
  <2>4. f \in Surjection(nodes, lengths)
    BY ONLY <1>3, <2>3 DEF Surjection
  <2>. QED BY ONLY <2>1, <2>2, <2>4, FS_Surjection
<1>5. PICK b \in Nat : \A n \in lengths : n <= b
  BY ONLY <1>4, FiniteSetIsBounded
<1>6. \A i \in nodes : Len(i) <= b
  BY ONLY <1>3, <1>5
<1>7. PICK bad : bad = {n \in Nat : \E i \in nodes : b - Len(i) = n /\ i \notin S}
  OBVIOUS
<1>8. ASSUME bad # {} PROVE FALSE
  <2>1. bad \in SUBSET Nat
    BY ONLY <1>7
  <2>2. PICK n \in bad : \A m \in bad : n <= m
    BY ONLY <1>8, <2>1, LeastNumber
  <2>3. PICK i \in nodes : b - Len(i) = n /\ i \notin S
    BY ONLY <1>7, <2>2
  <2>4. PICK r \in Nat : Append(i, r) \in model /\ Append(i, r) \notin S
    BY ONLY <1>1, <2>3, \A j \in model \cup {<<>>} : (\A q \in Nat : Append(j, q) \in model => Append(j, q) \in S) => j \in S
  <2>5. PICK j : j = Append(i, r)
    OBVIOUS
  <2>6. Len(j) = Len(i) + 1 /\ Len(i) \in Nat
    BY ONLY <1>2, <2>3, <2>4, <2>5, ChildRight
  <2>7. j \in nodes /\ j \notin S
    BY ONLY <1>1, <2>4, <2>5
  <2>8. Len(j) \in Nat /\ Len(j) <= b
    BY ONLY <1>2, <1>6, <2>7
  <2>9. PICK k, l : k = Len(j) /\ l = Len(i)
    OBVIOUS
  <2>10. b - k \in Nat /\ ~(n <= b - k)
    BY ONLY <2>3, <2>6, <2>8, <2>9, b \in Nat
  <2>11. b - k \in bad
    BY ONLY <1>7, <2>7, <2>9, <2>10
  <2>. QED BY ONLY <2>2, <2>10, <2>11
<1>9. ASSUME NEW i \in nodes, i \notin S PROVE FALSE
  <2>1. b - Len(i) \in Nat
    <3>1. PICK l : l = Len(i)
      OBVIOUS
    <3>2. l \in Nat /\ l <= b
      BY ONLY <1>2, <1>6, <3>1, i \in nodes
    <3>. QED BY ONLY <3>1, <3>2, b \in Nat
  <2>. QED BY ONLY <1>7, <1>8, <1>9, <2>1
<1>. QED BY ONLY <1>1, <1>9

\* An ancestor's last row and parent.
LEMMA AncestorParent ==
  ASSUME NEW i \in Seq(Nat), NEW n \in 1 .. Len(i)
  PROVE  /\ n - 1 \in 0 .. Len(i) /\ n - 1 \in Nat /\ i[n] \in Nat
         /\ Ancestor(i, n) # <<>> /\ Front(Ancestor(i, n)) = Ancestor(i, n - 1) /\ Last(Ancestor(i, n)) = i[n]
         /\ Ancestor(i, n) = Append(Ancestor(i, n - 1), i[n])
         /\ \A m \in 0 .. n : Ancestor(Ancestor(i, n), m) = Ancestor(i, m)
<1>1. PICK l, a : l = Len(i) /\ a = Ancestor(i, n)
  OBVIOUS
<1>2. l \in Nat /\ \A k \in 1 .. l : i[k] \in Nat
  BY ONLY <1>1, i \in Seq(Nat), LenProperties, ElementOfSeq
<1>3. n \in Nat /\ n >= 1 /\ n <= l /\ n \in 0 .. Len(i) /\ n - 1 \in 0 .. Len(i) /\ n - 1 \in Nat /\ n \in 1 .. n
  BY ONLY <1>1, <1>2, n \in 1 .. Len(i)
<1>4. a \in Seq(Nat) /\ Len(a) = n /\ \A k \in 1 .. n : a[k] = i[k]
  BY ONLY <1>1, <1>3, i \in Seq(Nat), AncestorRight
<1>5. a # <<>>
  BY ONLY <1>3, <1>4, EmptySeq
<1>6. \A m \in 0 .. n : Ancestor(a, m) = Ancestor(i, m)
  <2>1. ASSUME NEW m \in 0 .. n PROVE Ancestor(a, m) = Ancestor(i, m)
    <3>1. m \in 0 .. Len(a) /\ m \in 0 .. Len(i) /\ \A k \in 1 .. m : k \in 1 .. n
      BY ONLY <1>1, <1>2, <1>3, <1>4, m \in 0 .. n
    <3>2. Ancestor(a, m) \in Seq(Nat) /\ Len(Ancestor(a, m)) = m /\ \A k \in 1 .. m : Ancestor(a, m)[k] = a[k]
      BY ONLY <1>4, <3>1, AncestorRight
    <3>3. Ancestor(i, m) \in Seq(Nat) /\ Len(Ancestor(i, m)) = m /\ \A k \in 1 .. m : Ancestor(i, m)[k] = i[k]
      BY ONLY <3>1, i \in Seq(Nat), AncestorRight
    <3>4. \A k \in 1 .. m : Ancestor(a, m)[k] = Ancestor(i, m)[k]
      BY ONLY <1>4, <3>1, <3>2, <3>3
    <3>. QED BY ONLY <3>2, <3>3, <3>4, SameList
  <2>. QED BY ONLY <2>1
<1>7. Last(a) = a[Len(a)] /\ Front(a) = Ancestor(a, Len(a) - 1) /\ Append(Front(a), Last(a)) = a
  BY ONLY <1>4, <1>5, FrontAndLast
<1>8. n - 1 \in 0 .. n
  BY ONLY <1>3
<1>9. Last(a) = i[n] /\ Front(a) = Ancestor(i, n - 1)
  BY ONLY <1>3, <1>4, <1>6, <1>7, <1>8
<1>10. i[n] \in Nat
  BY ONLY <1>1, <1>2, n \in 1 .. Len(i)
<1>11. Append(Ancestor(i, n - 1), i[n]) = a
  BY ONLY <1>7, <1>9
<1>. QED BY ONLY <1>1, <1>3, <1>5, <1>6, <1>9, <1>10, <1>11

\* The ancestors are in the model.
LEMMA AncestorThere ==
  ASSUME TreeOK, NEW i \in model, NEW n \in 1 .. Len(i)
  PROVE  Ancestor(i, n) \in model
<1>1. PICK S : S = {j \in model : \A m \in 1 .. Len(j) : Ancestor(j, m) \in model}
  OBVIOUS
<1>2. ASSUME NEW j \in model, Len(j) > 1 => Front(j) \in S PROVE j \in S
  <2>1. ASSUME NEW m \in 1 .. Len(j) PROVE Ancestor(j, m) \in model
    <3>1. PICK l, f : l = Len(j) /\ f = Front(j)
      OBVIOUS
    <3>2. j \in Seq(Nat) /\ j # <<>>
      BY ONLY TreeOK, j \in model DEF TreeOK
    <3>3. l \in Nat /\ l \in 0 .. Len(j) /\ m \in Nat
      <4>1. Len(j) \in Nat
        BY ONLY <3>2, LenProperties
      <4>. QED BY ONLY <3>1, <4>1, m \in 1 .. Len(j)
    <3>4. CASE m = l
      <4>1. Ancestor(j, m) = j
        BY ONLY <3>1, <3>2, <3>3, <3>4, AncestorRight
      <4>. QED BY ONLY <4>1, j \in model
    <3>5. CASE m # l
      <4>1. l > 1 /\ m \in 1 .. l - 1 /\ l \in 1 .. Len(j) /\ m \in 0 .. l - 1
        BY ONLY <3>1, <3>3, <3>5, m \in 1 .. Len(j)
      <4>2. f = Ancestor(j, l - 1) /\ Len(f) = l - 1
        BY ONLY <3>1, <3>2, FrontAndLast
      <4>3. Ancestor(f, m) \in model
        BY ONLY <1>1, <1>2, <3>1, <4>1, <4>2
      <4>4. l - 1 \in 1 .. Len(j)
        BY ONLY <3>1, <3>3, <4>1
      <4>5. Ancestor(f, m) = Ancestor(j, m)
        BY ONLY <3>2, <4>1, <4>2, <4>4, AncestorParent
      <4>. QED BY ONLY <4>3, <4>5
    <3>. QED BY ONLY <3>4, <3>5
  <2>. QED BY ONLY <1>1, <2>1, j \in model
<1>3. model \subseteq S
  BY ONLY <1>2, TreeOK, FromTheRoot
<1>. QED BY ONLY <1>1, <1>3, i \in model, n \in 1 .. Len(i)

\* The indexes that come before one.
Passed(i) == {j \in model : Precedes(j, i)}

\* An index is the last one of those that begin with its first m rows.
LastFrom(i, m) ==
  /\ \A r \in Nat : Append(i, r) \notin model
  /\ \A k \in m + 1 .. Len(i) : Younger(i, k) \notin model

\* Rows of an index of the model.
LEMMA IndexRight ==
  ASSUME TreeOK, NEW i \in model
  PROVE  i \in Seq(Nat) /\ i # <<>> /\ Len(i) \in Nat /\ Len(i) >= 1 /\ \A k \in 1 .. Len(i) : i[k] \in Nat
<1>1. i \in Seq(Nat) /\ i # <<>>
  BY ONLY TreeOK, i \in model DEF TreeOK
<1>2. Len(i) \in Nat /\ Len(i) >= 1
  BY ONLY <1>1, FrontAndLast
<1>. QED BY ONLY <1>1, <1>2, ElementOfSeq

\* The rows of the index of a next row.
LEMMA YoungerRight ==
  ASSUME NEW i \in Seq(Nat), NEW m \in 1 .. Len(i)
  PROVE  /\ Younger(i, m) \in Seq(Nat) /\ Len(Younger(i, m)) = m /\ Younger(i, m)[m] = i[m] + 1 /\ i[m] \in Nat
         /\ \A k \in 1 .. m - 1 : Younger(i, m)[k] = i[k]
         /\ Front(Younger(i, m)) = Ancestor(i, m - 1) /\ Last(Younger(i, m)) = i[m] + 1
<1>1. PICK a, b, r : a = Ancestor(i, m - 1) /\ b = Younger(i, m) /\ r = i[m] + 1
  OBVIOUS
<1>2. m - 1 \in 0 .. Len(i) /\ i[m] \in Nat /\ m - 1 \in Nat
  BY ONLY i \in Seq(Nat), m \in 1 .. Len(i), AncestorParent
<1>3. a \in Seq(Nat) /\ Len(a) = m - 1 /\ \A k \in 1 .. m - 1 : a[k] = i[k]
  BY ONLY <1>1, <1>2, i \in Seq(Nat), AncestorRight
<1>4. b = Append(a, r) /\ r \in Nat
  BY ONLY <1>1, <1>2 DEF Younger
<1>5. /\ b \in Seq(Nat) /\ Len(b) = Len(a) + 1 /\ b[Len(a) + 1] = r /\ (\A k \in 1 .. Len(a) : b[k] = a[k])
      /\ Front(b) = a /\ Last(b) = r
  BY ONLY <1>3, <1>4, ChildRight
<1>6. m - 1 + 1 = m
  BY ONLY <1>2, m \in 1 .. Len(i)
<1>7. Len(b) = m /\ b[m] = r
  BY ONLY <1>3, <1>5, <1>6
<1>. QED BY ONLY <1>1, <1>2, <1>3, <1>5, <1>7

\* What begins with the rows of an index that is the last one from there comes before it.
LEMMA LastComesLast ==
  ASSUME TreeOK, NEW i \in model, NEW m \in 0 .. Len(i), LastFrom(i, m),
         NEW j \in model, m <= Len(j), \A k \in 1 .. m : i[k] = j[k]
  PROVE  j = i \/ Precedes(j, i)
<1>1. PICK l, h : l = Len(i) /\ h = Len(j)
  OBVIOUS
<1>2. i \in Seq(Nat) /\ j \in Seq(Nat) /\ l \in Nat /\ h \in Nat /\ (\A k \in 1 .. l : i[k] \in Nat) /\ \A k \in 1 .. h : j[k] \in Nat
  BY ONLY <1>1, TreeOK, i \in model, j \in model, IndexRight
<1>3. m \in Nat /\ m <= l /\ m <= h
  BY ONLY <1>1, <1>2, m \in 0 .. Len(i), m <= Len(j)
<1>4. (\A r \in Nat : Append(i, r) \notin model) /\ \A k \in m + 1 .. l : Younger(i, k) \notin model
  BY ONLY <1>1, LastFrom(i, m) DEF LastFrom
<1>5. ASSUME j # i PROVE Precedes(i, j) \/ Precedes(j, i)
  BY ONLY <1>2, <1>5, OneComesFirst
<1> SUFFICES ASSUME Precedes(i, j) PROVE FALSE
  BY <1>5
<1>6. PICK n \in 0 .. h - 1 : n <= l /\ (\A k \in 1 .. n : i[k] = j[k]) /\ (n = l \/ i[n + 1] < j[n + 1])
  BY ONLY <1>1, Precedes(i, j) DEF Precedes
<1>7. PICK s : s = n + 1
  OBVIOUS
<1>8. n \in Nat /\ s \in Nat /\ s \in 1 .. h /\ s - 1 = n /\ n < h
  BY ONLY <1>2, <1>6, <1>7
<1>9. Ancestor(j, s) \in model /\ Ancestor(j, s) = Append(Ancestor(j, n), j[s]) /\ j[s] \in Nat
  <2>1. s \in 1 .. Len(j)
    BY ONLY <1>1, <1>8
  <2>2. Ancestor(j, s) \in model
    BY ONLY <2>1, TreeOK, j \in model, AncestorThere
  <2>3. Ancestor(j, s) = Append(Ancestor(j, s - 1), j[s])
    BY ONLY <1>2, <2>1, AncestorParent
  <2>. QED BY ONLY <1>2, <1>8, <2>2, <2>3
<1>10. Ancestor(j, n) = Ancestor(i, n)
  <2>1. n \in 0 .. Len(j) /\ n \in 0 .. Len(i)
    BY ONLY <1>1, <1>2, <1>6, <1>8
  <2>2. Ancestor(j, n) \in Seq(Nat) /\ Len(Ancestor(j, n)) = n /\ \A k \in 1 .. n : Ancestor(j, n)[k] = j[k]
    BY ONLY <1>2, <2>1, AncestorRight
  <2>3. Ancestor(i, n) \in Seq(Nat) /\ Len(Ancestor(i, n)) = n /\ \A k \in 1 .. n : Ancestor(i, n)[k] = i[k]
    BY ONLY <1>2, <2>1, AncestorRight
  <2>4. \A k \in 1 .. n : Ancestor(j, n)[k] = Ancestor(i, n)[k]
    BY ONLY <1>6, <2>2, <2>3
  <2>. QED BY ONLY <2>2, <2>3, <2>4, SameList
<1>11. CASE n = l
  <2>1. Ancestor(i, n) = i
    <3>1. l \in 0 .. Len(i)
      BY ONLY <1>1, <1>2
    <3>. QED BY ONLY <1>1, <1>2, <1>11, <3>1, AncestorRight
  <2>. QED BY ONLY <1>4, <1>9, <1>10, <2>1
<1>12. CASE n # l
  <2>1. s \in 1 .. l /\ i[s] < j[s]
    BY ONLY <1>2, <1>6, <1>7, <1>8, <1>12
  <2>2. s \in m + 1 .. l
    <3>1. ASSUME s <= m PROVE FALSE
      <4>1. s \in 1 .. m
        BY ONLY <1>3, <1>8, <3>1
      <4>2. i[s] = j[s] /\ i[s] \in Nat
        BY ONLY <1>2, <2>1, <4>1, \A k \in 1 .. m : i[k] = j[k]
      <4>. QED BY ONLY <2>1, <4>2
    <3>. QED BY ONLY <1>3, <1>8, <2>1, <3>1
  <2>3. i[s] + 1 \in Nat /\ i[s] + 1 <= j[s]
    BY ONLY <1>2, <1>9, <2>1
  <2>4. Ancestor(i, n) \in Seq(Nat)
    <3>1. n \in 0 .. Len(i)
      BY ONLY <1>1, <1>2, <1>6, <1>8
    <3>. QED BY ONLY <1>2, <3>1, AncestorRight
  <2>5. Append(Ancestor(i, n), i[s] + 1) \in model
    BY ONLY <1>9, <1>10, <2>3, <2>4, TreeOK, ElderThere
  <2>6. Younger(i, s) \in model
    BY ONLY <1>8, <2>5 DEF Younger
  <2>. QED BY ONLY <1>4, <2>2, <2>6
<1>. QED BY ONLY <1>11, <1>12

\* The first child comes right behind its parent.
LEMMA ChildNext ==
  ASSUME NEW i \in Seq(Nat), NEW j \in Seq(Nat)
  PROVE  Precedes(j, Append(i, 0)) <=> j = i \/ Precedes(j, i)
<1>1. PICK l, h, b : l = Len(i) /\ h = Len(j) /\ b = Append(i, 0)
  OBVIOUS
<1>2. l \in Nat /\ h \in Nat /\ (\A k \in 1 .. l : i[k] \in Nat) /\ \A k \in 1 .. h : j[k] \in Nat
  BY ONLY <1>1, i \in Seq(Nat), j \in Seq(Nat), LenProperties, ElementOfSeq
<1>3. Len(b) = l + 1 /\ b[l + 1] = 0 /\ \A k \in 1 .. l : b[k] = i[k]
  <2>1. 0 \in Nat
    OBVIOUS
  <2>. QED BY ONLY <1>1, <2>1, i \in Seq(Nat), ChildRight
<1>4. Len(b) - 1 = l
  BY ONLY <1>2, <1>3
<1>5. ASSUME Precedes(j, b) PROVE j = i \/ Precedes(j, i)
  <2>1. PICK n \in 0 .. l : n <= h /\ (\A k \in 1 .. n : j[k] = b[k]) /\ (n = h \/ j[n + 1] < b[n + 1])
    BY ONLY <1>1, <1>4, <1>5 DEF Precedes
  <2>2. \A k \in 1 .. n : j[k] = i[k]
    <3>1. \A k \in 1 .. n : k \in 1 .. l
      BY ONLY <1>2, <2>1
    <3>. QED BY ONLY <1>3, <2>1, <3>1
  <2>3. CASE n = l
    <3>1. n = h
      <4>1. ASSUME n # h PROVE FALSE
        <5>1. l + 1 \in 1 .. h
          BY ONLY <1>2, <2>1, <2>3, <4>1
        <5>2. j[l + 1] \in Nat /\ j[l + 1] < 0
          BY ONLY <1>2, <1>3, <2>1, <2>3, <4>1, <5>1
        <5>. QED BY ONLY <5>2
      <4>. QED BY ONLY <4>1
    <3>2. j = i
      BY ONLY <1>1, <2>2, <2>3, <3>1, i \in Seq(Nat), j \in Seq(Nat), SameList
    <3>. QED BY ONLY <3>2
  <2>4. CASE n # l
    <3>1. n \in 0 .. l - 1 /\ n + 1 \in 1 .. l
      BY ONLY <1>2, <2>1, <2>4
    <3>2. n = h \/ j[n + 1] < i[n + 1]
      BY ONLY <1>3, <2>1, <3>1
    <3>. QED BY ONLY <1>1, <2>1, <2>2, <3>1, <3>2 DEF Precedes
  <2>. QED BY ONLY <2>3, <2>4
<1>6. ASSUME j = i PROVE Precedes(j, b)
  <2>1. l \in 0 .. Len(b) - 1 /\ l <= l
    BY ONLY <1>2, <1>4
  <2>. QED BY ONLY <1>1, <1>3, <1>6, <2>1 DEF Precedes
<1>7. ASSUME Precedes(j, i) PROVE Precedes(j, b)
  <2>1. PICK n \in 0 .. l - 1 : n <= h /\ (\A k \in 1 .. n : j[k] = i[k]) /\ (n = h \/ j[n + 1] < i[n + 1])
    BY ONLY <1>1, <1>7 DEF Precedes
  <2>2. n \in 0 .. Len(b) - 1 /\ n + 1 \in 1 .. l /\ \A k \in 1 .. n : k \in 1 .. l
    BY ONLY <1>2, <1>4, <2>1
  <2>3. (\A k \in 1 .. n : j[k] = b[k]) /\ (n = h \/ j[n + 1] < b[n + 1])
    BY ONLY <1>3, <2>1, <2>2
  <2>. QED BY ONLY <1>1, <2>1, <2>2, <2>3 DEF Precedes
<1>. QED BY ONLY <1>1, <1>5, <1>6, <1>7

\* The index of the next row of an ancestor comes right behind the last one that is below it.
LEMMA YoungerNext ==
  ASSUME TreeOK, NEW i \in model, NEW m \in 1 .. Len(i), LastFrom(i, m), NEW j \in model
  PROVE  Precedes(j, Younger(i, m)) <=> j = i \/ Precedes(j, i)
<1>1. PICK l, h, b : l = Len(i) /\ h = Len(j) /\ b = Younger(i, m)
  OBVIOUS
<1>2. i \in Seq(Nat) /\ j \in Seq(Nat) /\ l \in Nat /\ h \in Nat /\ (\A k \in 1 .. l : i[k] \in Nat) /\ \A k \in 1 .. h : j[k] \in Nat
  BY ONLY <1>1, TreeOK, i \in model, j \in model, IndexRight
<1>3. m \in Nat /\ m >= 1 /\ m <= l /\ m - 1 + 1 = m /\ m \in 1 .. l /\ m \in 0 .. Len(i)
  BY ONLY <1>1, <1>2, m \in 1 .. Len(i)
<1>4. Len(b) = m /\ b[m] = i[m] + 1 /\ i[m] \in Nat /\ \A k \in 1 .. m - 1 : b[k] = i[k]
  BY ONLY <1>1, <1>2, m \in 1 .. Len(i), YoungerRight
<1>5. ASSUME Precedes(j, b) PROVE j = i \/ Precedes(j, i)
  <2>1. PICK n \in 0 .. m - 1 : n <= h /\ (\A k \in 1 .. n : j[k] = b[k]) /\ (n = h \/ j[n + 1] < b[n + 1])
    BY ONLY <1>1, <1>4, <1>5 DEF Precedes
  <2>2. n \in Nat /\ n \in 0 .. l - 1 /\ \A k \in 1 .. n : k \in 1 .. m - 1
    BY ONLY <1>2, <1>3, <2>1
  <2>3. \A k \in 1 .. n : j[k] = i[k]
    BY ONLY <1>4, <2>1, <2>2
  <2>4. CASE n = h \/ j[n + 1] < i[n + 1]
    BY ONLY <1>1, <2>1, <2>2, <2>3, <2>4 DEF Precedes
  <2>5. CASE ~(n = h \/ j[n + 1] < i[n + 1])
    <3>1. n = m - 1
      <4>1. ASSUME n # m - 1 PROVE FALSE
        <5>1. n + 1 \in 1 .. m - 1
          BY ONLY <1>3, <2>1, <4>1
        <5>. QED BY ONLY <1>4, <2>1, <2>5, <5>1
      <4>. QED BY ONLY <4>1
    <3>2. n + 1 = m /\ m <= h /\ m \in 1 .. h
      BY ONLY <1>2, <1>3, <2>1, <2>5, <3>1
    <3>3. j[m] \in Nat /\ j[m] < i[m] + 1 /\ ~(j[m] < i[m])
      BY ONLY <1>2, <1>4, <2>1, <2>5, <3>2
    <3>4. j[m] = i[m]
      BY ONLY <1>4, <3>3
    <3>5. \A k \in 1 .. m : k \in 1 .. n \/ k = m
      BY ONLY <1>3, <3>1
    <3>6. \A k \in 1 .. m : i[k] = j[k]
      BY ONLY <2>3, <3>4, <3>5
    <3>7. m <= Len(j)
      BY ONLY <1>1, <3>2
    <3>. QED BY ONLY <1>3, <3>6, <3>7, TreeOK, i \in model, j \in model, LastFrom(i, m), LastComesLast
  <2>. QED BY ONLY <2>4, <2>5
<1>6. ASSUME j = i PROVE Precedes(j, b)
  <2>1. m - 1 \in 0 .. m - 1 /\ m - 1 <= l /\ i[m] < i[m] + 1
    BY ONLY <1>2, <1>3, <1>4
  <2>. QED BY ONLY <1>1, <1>3, <1>4, <1>6, <2>1 DEF Precedes
<1>7. ASSUME Precedes(j, i) PROVE Precedes(j, b)
  <2>1. PICK n \in 0 .. l - 1 : n <= h /\ (\A k \in 1 .. n : j[k] = i[k]) /\ (n = h \/ j[n + 1] < i[n + 1])
    BY ONLY <1>1, <1>7 DEF Precedes
  <2>2. CASE n < m
    <3>1. n \in 0 .. m - 1 /\ \A k \in 1 .. n : k \in 1 .. m - 1
      BY ONLY <1>3, <2>1, <2>2
    <3>2. \A k \in 1 .. n : j[k] = b[k]
      BY ONLY <1>4, <2>1, <3>1
    <3>3. n = h \/ j[n + 1] < b[n + 1]
      <4>1. ASSUME n # h PROVE j[n + 1] < b[n + 1]
        <5>1. j[n + 1] < i[n + 1] /\ n + 1 \in 1 .. h /\ n + 1 \in 1 .. l
          BY ONLY <1>2, <2>1, <4>1
        <5>2. j[n + 1] \in Nat /\ i[n + 1] \in Nat
          BY ONLY <1>2, <5>1
        <5>3. CASE n + 1 = m
          BY ONLY <1>4, <5>1, <5>2, <5>3
        <5>4. CASE n + 1 # m
          <6>1. n + 1 \in 1 .. m - 1
            BY ONLY <1>3, <3>1, <5>4
          <6>. QED BY ONLY <1>4, <5>1, <6>1
        <5>. QED BY ONLY <5>3, <5>4
      <4>. QED BY ONLY <4>1
    <3>. QED BY ONLY <1>1, <1>4, <2>1, <3>1, <3>2, <3>3 DEF Precedes
  <2>3. CASE ~(n < m)
    <3>1. m - 1 \in 0 .. m - 1 /\ m - 1 <= h /\ m \in 1 .. n /\ \A k \in 1 .. m - 1 : k \in 1 .. n
      BY ONLY <1>2, <1>3, <2>1, <2>3
    <3>2. \A k \in 1 .. m - 1 : j[k] = b[k]
      BY ONLY <1>4, <2>1, <3>1
    <3>3. j[m] < b[m]
      <4>1. j[m] = i[m]
        BY ONLY <2>1, <3>1
      <4>. QED BY ONLY <1>4, <4>1
    <3>. QED BY ONLY <1>1, <1>3, <1>4, <3>1, <3>2, <3>3 DEF Precedes
  <2>. QED BY ONLY <1>2, <1>3, <2>1, <2>2, <2>3
<1>. QED BY ONLY <1>1, <1>5, <1>6, <1>7

\* There is one index more in front of the next one, ...
LEMMA OneMore ==
  ASSUME TreeOK, NEW i \in model
  PROVE  IsFiniteSet(Passed(i)) /\ Cardinality(Passed(i)) \in Nat
         /\ Cardinality(Passed(i) \cup {i}) = Cardinality(Passed(i)) + 1
         /\ Cardinality(model) \in Nat /\ Cardinality(Passed(i)) < Cardinality(model)
<1>1. PICK before, all : before = Passed(i) /\ all = Passed(i) \cup {i}
  OBVIOUS
<1>2. before \in SUBSET model /\ all \in SUBSET model
  BY ONLY <1>1, i \in model DEF Passed
<1>3. IsFiniteSet(model)
  BY ONLY TreeOK DEF TreeOK
<1>4. IsFiniteSet(before) /\ IsFiniteSet(all) /\ Cardinality(all) <= Cardinality(model)
  BY ONLY <1>2, <1>3, FS_Subset
<1>5. i \notin before
  <2>1. i \in Seq(Nat)
    BY ONLY TreeOK, i \in model, IndexRight
  <2>2. ~Precedes(i, i)
    BY ONLY <2>1, NotBeforeItself
  <2>. QED BY ONLY <1>1, <2>2 DEF Passed
<1>6. Cardinality(all) = Cardinality(before) + 1
  <2>1. Cardinality(before \cup {i}) = Cardinality(before) + 1
    BY ONLY <1>4, <1>5, FS_AddElement
  <2>. QED BY ONLY <1>1, <2>1
<1>7. Cardinality(before) \in Nat /\ Cardinality(model) \in Nat
  BY ONLY <1>3, <1>4, FS_CardinalityType
<1>8. Cardinality(before) < Cardinality(model)
  BY ONLY <1>4, <1>6, <1>7
<1>. QED BY ONLY <1>1, <1>4, <1>6, <1>7, <1>8

\* ... in front of the first child, ...
LEMMA ChildCount ==
  ASSUME TreeOK, NEW i \in model, Append(i, 0) \in model
  PROVE  Cardinality(Passed(Append(i, 0))) = Cardinality(Passed(i)) + 1
<1>1. \A j \in model : j \in Seq(Nat)
  BY ONLY TreeOK DEF TreeOK
<1>2. \A j \in model : Precedes(j, Append(i, 0)) <=> j = i \/ Precedes(j, i)
  BY ONLY <1>1, i \in model, ChildNext
<1>3. Passed(Append(i, 0)) = Passed(i) \cup {i}
  BY ONLY <1>2, i \in model DEF Passed
<1>. QED BY ONLY <1>3, TreeOK, i \in model, OneMore

\* ... and of the next row of an ancestor, ...
LEMMA YoungerCount ==
  ASSUME TreeOK, NEW i \in model, NEW m \in 1 .. Len(i), LastFrom(i, m)
  PROVE  Cardinality(Passed(Younger(i, m))) = Cardinality(Passed(i)) + 1
<1>1. \A j \in model : Precedes(j, Younger(i, m)) <=> j = i \/ Precedes(j, i)
  BY ONLY TreeOK, i \in model, m \in 1 .. Len(i), LastFrom(i, m), YoungerNext
<1>2. Passed(Younger(i, m)) = Passed(i) \cup {i}
  BY ONLY <1>1, i \in model DEF Passed
<1>. QED BY ONLY <1>2, TreeOK, i \in model, OneMore

\* ... and the last one is behind all the others.
LEMMA LastCount ==
  ASSUME TreeOK, NEW i \in model, LastFrom(i, 0)
  PROVE  /\ Cardinality(model) = Cardinality(Passed(i)) + 1
         /\ \A j \in model : LastFrom(j, 0) => j = i
<1>1. \A j \in model : j \in Seq(Nat) /\ Len(j) \in Nat /\ 0 \in 0 .. Len(j) /\ 0 <= Len(j)
  <2>1. \A j \in model : j \in Seq(Nat)
    BY ONLY TreeOK DEF TreeOK
  <2>2. \A j \in model : Len(j) \in Nat
    BY ONLY <2>1, LenProperties
  <2>. QED BY ONLY <2>1, <2>2
<1>2. ASSUME NEW j \in model, NEW k \in model, LastFrom(k, 0) PROVE j = k \/ Precedes(j, k)
  <2>1. \A n \in 1 .. 0 : k[n] = j[n]
    OBVIOUS
  <2>. QED BY ONLY <1>1, <1>2, <2>1, TreeOK, LastComesLast
<1>3. \A j \in model : j = i \/ Precedes(j, i)
  BY ONLY <1>2, i \in model, LastFrom(i, 0)
<1>4. model = Passed(i) \cup {i}
  BY ONLY <1>3, i \in model DEF Passed
<1>5. ASSUME NEW j \in model, LastFrom(j, 0) PROVE j = i
  <2>1. i = j \/ Precedes(i, j)
    BY ONLY <1>2, <1>5, i \in model
  <2>2. ASSUME Precedes(i, j), Precedes(j, i) PROVE FALSE
    BY ONLY <1>1, <2>2, i \in model, j \in model, NotBothFirst
  <2>. QED BY ONLY <1>3, <2>1, <2>2, j \in model
<1>6. Cardinality(Passed(i) \cup {i}) = Cardinality(Passed(i)) + 1
  BY ONLY TreeOK, i \in model, OneMore
<1>. QED BY ONLY <1>4, <1>5, <1>6

\* What the loop of operator++ finds: the next row of the nearest ancestor that has one.
FoundAbove(i, x) ==
  \/ x = <<>> /\ \A k \in 1 .. Len(i) : Younger(i, k) \notin model
  \/ \E m \in 1 .. Len(i) : /\ x = Younger(i, m) /\ x \in model
                            /\ \A k \in m + 1 .. Len(i) : Younger(i, k) \notin model

\* What the last rows lead to from an index: the last index that begins with its rows.
FoundBelow(i, x) ==
  /\ x \in model \cup {<<>>} /\ Len(i) <= Len(x) /\ \A k \in 1 .. Len(i) : i[k] = x[k]
  /\ LastFrom(x, Len(i))

\* The two recursive functions.
ClimbsUp(f) ==
  f = [j \in model |->
         IF NextSibling(j) # <<>> THEN NextSibling(j)
         ELSE IF ParentOf(j) # <<>> THEN f[ParentOf(j)] ELSE <<>>]
GoesDown(f) ==
  f = [j \in model \cup {<<>>} |-> IF HasChildren(j) THEN f[Index(RowCount(j) - 1, j)] ELSE j]

\* An index has children if it has a first one.
LEMMA ChildrenRight ==
  ASSUME TreeOK, NEW i \in Seq(Nat)
  PROVE  /\ HasChildren(i) => /\ Append(i, 0) \in model /\ Index(0, i) = Append(i, 0)
                              /\ RowCount(i) - 1 \in Nat /\ Append(i, RowCount(i) - 1) \in model
                              /\ Index(RowCount(i) - 1, i) = Append(i, RowCount(i) - 1)
         /\ ~HasChildren(i) => \A r \in Nat : Append(i, r) \notin model
<1>1. PICK n : n = RowCount(i)
  OBVIOUS
<1>2. n \in Nat /\ \A r \in Nat : Append(i, r) \in model <=> r < n
  BY ONLY <1>1, TreeOK, i \in Seq(Nat), RowsCountUp
<1>3. HasChildren(i) <=> n > 0
  BY ONLY <1>1 DEF HasChildren
<1>4. ASSUME n > 0 PROVE Append(i, 0) \in model /\ n - 1 \in Nat /\ Append(i, n - 1) \in model
  <2>1. 0 \in Nat /\ 0 < n /\ n - 1 \in Nat /\ n - 1 < n
    BY ONLY <1>2, <1>4
  <2>. QED BY ONLY <1>2, <2>1
<1>5. ASSUME n > 0 PROVE Index(0, i) = Append(i, 0) /\ Index(n - 1, i) = Append(i, n - 1)
  BY ONLY <1>4, <1>5 DEF Index
<1>6. ASSUME ~(n > 0) PROVE \A r \in Nat : Append(i, r) \notin model
  <2>1. \A r \in Nat : ~(r < n)
    BY ONLY <1>2, <1>6
  <2>. QED BY ONLY <1>2, <2>1
<1>. QED BY ONLY <1>1, <1>3, <1>4, <1>5, <1>6

\* The siblings and the parent of an index of the model.
LEMMA SiblingsRight ==
  ASSUME TreeOK, NEW i \in model
  PROVE  /\ NextSibling(i) = IF Younger(i, Len(i)) \in model THEN Younger(i, Len(i)) ELSE <<>>
         /\ PrevSibling(i) = IF Last(i) > 0 THEN Append(Front(i), Last(i) - 1) ELSE <<>>
         /\ Last(i) > 0 => Append(Front(i), Last(i) - 1) \in model
         /\ ParentOf(i) = Front(i) /\ (Front(i) # <<>> <=> Len(i) > 1)
         /\ \A k \in 1 .. Len(i) : Younger(i, k) # <<>>
<1>1. PICK l, p, r, n : l = Len(i) /\ p = Front(i) /\ r = Last(i) /\ n = RowCount(p)
  OBVIOUS
<1>2. i \in Seq(Nat) /\ i # <<>> /\ l \in Nat /\ l >= 1 /\ l \in 1 .. Len(i)
  <2>1. i \in Seq(Nat) /\ i # <<>> /\ Len(i) \in Nat /\ Len(i) >= 1
    BY ONLY TreeOK, i \in model, IndexRight
  <2>. QED BY ONLY <1>1, <2>1
<1>3. p \in Seq(Nat) /\ r \in Nat /\ r = i[l] /\ p = Ancestor(i, l - 1) /\ Len(p) = l - 1
  BY ONLY <1>1, <1>2, FrontAndLast
<1>4. ParentOf(i) = p
  BY ONLY <1>1, <1>2 DEF ParentOf
<1>5. Younger(i, l) = Append(p, r + 1)
  BY ONLY <1>3 DEF Younger
<1>6. n \in Nat /\ \A k \in Nat : Append(p, k) \in model <=> k < n
  BY ONLY <1>1, <1>3, TreeOK, RowsCountUp
<1>7. r + 1 \in Nat /\ (r < n - 1 <=> r + 1 < n)
  BY ONLY <1>3, <1>6
<1>8. Append(p, r + 1) \in model <=> r < n - 1
  BY ONLY <1>6, <1>7
<1>9. NextSibling(i) = IF Younger(i, l) \in model THEN Younger(i, l) ELSE <<>>
  BY ONLY <1>1, <1>4, <1>5, <1>8 DEF NextSibling, Index
<1>10. r > 0 => Append(p, r - 1) \in model
  BY ONLY <1>1, TreeOK, i \in model DEF TreeOK
<1>11. PrevSibling(i) = IF r > 0 THEN Append(p, r - 1) ELSE <<>>
  BY ONLY <1>1, <1>4, <1>10 DEF PrevSibling, Index
<1>12. p # <<>> <=> l > 1
  <2>1. p = <<>> <=> Len(p) = 0
    BY ONLY <1>3, EmptySeq
  <2>. QED BY ONLY <1>2, <1>3, <2>1
<1>13. ASSUME NEW k \in 1 .. Len(i) PROVE Younger(i, k) # <<>>
  <2>1. Younger(i, k) \in Seq(Nat) /\ Len(Younger(i, k)) = k
    BY ONLY <1>2, k \in 1 .. Len(i), YoungerRight
  <2>2. k # 0
    BY ONLY <1>1, <1>2, k \in 1 .. Len(i)
  <2>. QED BY ONLY <2>1, <2>2, EmptySeq
<1>. QED BY ONLY <1>1, <1>4, <1>9, <1>10, <1>11, <1>12, <1>13

\* The next rows of the ancestors are those of the parent's and of the index itself.
LEMMA YoungerOfParent ==
  ASSUME NEW i \in Seq(Nat), i # <<>>, NEW k \in 1 .. Len(i) - 1
  PROVE  k \in 1 .. Len(Front(i)) /\ Younger(Front(i), k) = Younger(i, k)
<1>1. PICK l, f : l = Len(i) /\ f = Front(i)
  OBVIOUS
<1>2. l \in Nat /\ f = Ancestor(i, l - 1) /\ Len(f) = l - 1 /\ \A n \in 1 .. l - 1 : f[n] = i[n]
  BY ONLY <1>1, i \in Seq(Nat), i # <<>>, FrontAndLast
<1>3. k \in 1 .. l - 1 /\ k - 1 \in 0 .. l - 1 /\ l - 1 \in 1 .. Len(i)
  BY ONLY <1>1, <1>2, k \in 1 .. Len(i) - 1
<1>4. Ancestor(f, k - 1) = Ancestor(i, k - 1)
  BY ONLY <1>2, <1>3, i \in Seq(Nat), AncestorParent
<1>5. Younger(f, k) = Younger(i, k)
  BY ONLY <1>2, <1>3, <1>4 DEF Younger
<1>. QED BY ONLY <1>1, <1>2, <1>3, <1>5

\* One turn of the loop: the next sibling, or what the parent finds.
LEMMA AboveStep ==
  ASSUME TreeOK, NEW i \in model, NEW x
  PROVE  /\ NextSibling(i) # <<>> => (FoundAbove(i, x) <=> x = NextSibling(i))
         /\ NextSibling(i) = <<>> /\ ~(Len(i) > 1) => (FoundAbove(i, x) <=> x = <<>>)
         /\ NextSibling(i) = <<>> /\ Len(i) > 1 => (FoundAbove(i, x) <=> FoundAbove(Front(i), x))
<1>1. PICK l, f, s : l = Len(i) /\ f = Front(i) /\ s = NextSibling(i)
  OBVIOUS
<1>2. i \in Seq(Nat) /\ i # <<>> /\ l \in Nat /\ l >= 1 /\ l \in 1 .. l /\ Len(f) = l - 1
  <2>1. i \in Seq(Nat) /\ i # <<>> /\ Len(i) \in Nat /\ Len(i) >= 1
    BY ONLY TreeOK, i \in model, IndexRight
  <2>2. Len(Front(i)) = Len(i) - 1
    BY ONLY <2>1, FrontAndLast
  <2>. QED BY ONLY <1>1, <2>1, <2>2
<1>3. s = (IF Younger(i, l) \in model THEN Younger(i, l) ELSE <<>>) /\ \A k \in 1 .. l : Younger(i, k) # <<>>
  BY ONLY <1>1, TreeOK, i \in model, SiblingsRight
<1>4. \A k \in 1 .. l - 1 : Younger(f, k) = Younger(i, k)
  BY ONLY <1>1, <1>2, YoungerOfParent
<1>5. FoundAbove(i, x) <=> \/ x = <<>> /\ \A k \in 1 .. l : Younger(i, k) \notin model
                           \/ \E m \in 1 .. l : /\ x = Younger(i, m) /\ x \in model
                                                /\ \A k \in m + 1 .. l : Younger(i, k) \notin model
  BY ONLY <1>1 DEF FoundAbove
<1>6. CASE s # <<>>
  <2>1. Younger(i, l) \in model /\ s = Younger(i, l)
    BY ONLY <1>3, <1>6
  <2>2. ASSUME FoundAbove(i, x) PROVE x = s
    <3>1. PICK m \in 1 .. l : x = Younger(i, m) /\ \A k \in m + 1 .. l : Younger(i, k) \notin model
      BY ONLY <1>2, <1>5, <2>1, <2>2
    <3>2. l \notin m + 1 .. l
      BY ONLY <2>1, <3>1
    <3>3. m = l
      BY ONLY <1>2, <3>1, <3>2
    <3>. QED BY ONLY <2>1, <3>1, <3>3
  <2>3. ASSUME x = s PROVE FoundAbove(i, x)
    <3>1. \A k \in l + 1 .. l : Younger(i, k) \notin model
      BY ONLY <1>2
    <3>. QED BY ONLY <1>2, <1>5, <2>1, <2>3, <3>1
  <2>. QED BY ONLY <1>1, <1>6, <2>2, <2>3
<1>7. CASE s = <<>> /\ ~(l > 1)
  <2>1. Younger(i, l) \notin model
    BY ONLY <1>2, <1>3, <1>7
  <2>2. \A k \in 1 .. l : k = l
    BY ONLY <1>2, <1>7
  <2>3. FoundAbove(i, x) <=> x = <<>>
    BY ONLY <1>5, <2>1, <2>2
  <2>. QED BY ONLY <1>1, <1>7, <2>3
<1>8. CASE s = <<>> /\ l > 1
  <2>1. Younger(i, l) \notin model
    BY ONLY <1>2, <1>3, <1>8
  <2>2. \A k \in 1 .. l : k \in 1 .. l - 1 \/ k = l
    BY ONLY <1>2
  <2>3. FoundAbove(f, x) <=> \/ x = <<>> /\ \A k \in 1 .. l - 1 : Younger(i, k) \notin model
                             \/ \E m \in 1 .. l - 1 : /\ x = Younger(i, m) /\ x \in model
                                                      /\ \A k \in m + 1 .. l - 1 : Younger(i, k) \notin model
    <3>1. \A m \in 1 .. l - 1 : \A k \in m + 1 .. l - 1 : k \in 1 .. l - 1
      BY ONLY <1>2
    <3>. QED BY ONLY <1>2, <1>4, <3>1 DEF FoundAbove
  <2>4. \A m \in 1 .. l - 1 : m \in 1 .. l /\ \A k \in m + 1 .. l - 1 : k \in m + 1 .. l
    BY ONLY <1>2
  <2>5. \A m \in 1 .. l : \A k \in m + 1 .. l : k \in m + 1 .. l - 1 \/ k = l
    BY ONLY <1>2
  <2>6. ASSUME FoundAbove(i, x) PROVE FoundAbove(f, x)
    <3>1. CASE x = <<>> /\ \A k \in 1 .. l : Younger(i, k) \notin model
      <4>1. \A k \in 1 .. l - 1 : Younger(i, k) \notin model
        BY ONLY <1>2, <2>4, <3>1
      <4>. QED BY ONLY <2>3, <3>1, <4>1
    <3>2. CASE \E m \in 1 .. l : x = Younger(i, m) /\ x \in model /\ \A k \in m + 1 .. l : Younger(i, k) \notin model
      <4>1. PICK m \in 1 .. l : x = Younger(i, m) /\ x \in model /\ \A k \in m + 1 .. l : Younger(i, k) \notin model
        BY ONLY <3>2
      <4>2. m \in 1 .. l - 1
        BY ONLY <2>1, <2>2, <4>1
      <4>3. \A k \in m + 1 .. l - 1 : Younger(i, k) \notin model
        BY ONLY <2>4, <4>1, <4>2
      <4>. QED BY ONLY <2>3, <4>1, <4>2, <4>3
    <3>. QED BY ONLY <1>5, <2>6, <3>1, <3>2
  <2>7. ASSUME FoundAbove(f, x) PROVE FoundAbove(i, x)
    <3>1. CASE x = <<>> /\ \A k \in 1 .. l - 1 : Younger(i, k) \notin model
      <4>1. \A k \in 1 .. l : Younger(i, k) \notin model
        BY ONLY <2>1, <2>2, <3>1
      <4>. QED BY ONLY <1>5, <3>1, <4>1
    <3>2. CASE \E m \in 1 .. l - 1 : x = Younger(i, m) /\ x \in model /\ \A k \in m + 1 .. l - 1 : Younger(i, k) \notin model
      <4>1. PICK m \in 1 .. l - 1 : x = Younger(i, m) /\ x \in model /\ \A k \in m + 1 .. l - 1 : Younger(i, k) \notin model
        BY ONLY <3>2
      <4>2. m \in 1 .. l
        BY ONLY <2>4, <4>1
      <4>3. \A k \in m + 1 .. l : Younger(i, k) \notin model
        BY ONLY <2>1, <2>5, <4>1, <4>2
      <4>. QED BY ONLY <1>5, <4>1, <4>2, <4>3
    <3>. QED BY ONLY <2>3, <2>7, <3>1, <3>2
  <2>. QED BY ONLY <1>1, <1>8, <2>6, <2>7
<1>. QED BY ONLY <1>1, <1>6, <1>7, <1>8

\* Just one index is found.
OneAbove(i) == \E x : FoundAbove(i, x) /\ \A y : FoundAbove(i, y) => y = x
OneBelow(i) == \E x : FoundBelow(i, x) /\ \A y : FoundBelow(i, y) => y = x

\* The loop of operator++ finds the next row of the nearest ancestor that has one.
LEMMA AboveRight ==
  ASSUME TreeOK, NEW i \in model
  PROVE  FoundAbove(i, NextSiblingAbove(i))
<1> DEFINE Step(j, x) == /\ NextSibling(j) # <<>> => (FoundAbove(j, x) <=> x = NextSibling(j))
                         /\ NextSibling(j) = <<>> /\ ~(Len(j) > 1) => (FoundAbove(j, x) <=> x = <<>>)
                         /\ NextSibling(j) = <<>> /\ Len(j) > 1 => (FoundAbove(j, x) <=> FoundAbove(Front(j), x))
<1>1. ASSUME NEW j \in model, NEW x PROVE Step(j, x)
  BY ONLY TreeOK, j \in model, AboveStep
<1>2. ASSUME NEW j \in model PROVE /\ ParentOf(j) = Front(j) /\ (ParentOf(j) # <<>> <=> Len(j) > 1)
                                   /\ Len(j) > 1 => Front(j) \in model
  <2>1. ParentOf(j) = Front(j) /\ (Front(j) # <<>> <=> Len(j) > 1)
    BY ONLY TreeOK, j \in model, SiblingsRight
  <2>2. Len(j) > 1 => Front(j) \in model
    BY ONLY TreeOK, j \in model DEF TreeOK
  <2>. QED BY ONLY <2>1, <2>2
<1> HIDE DEF Step
<1>3. ASSUME NEW j \in model, Len(j) > 1 => OneAbove(Front(j)) PROVE OneAbove(j)
  <2>1. \A x : Step(j, x)
    BY ONLY <1>1, j \in model
  <2>2. CASE NextSibling(j) # <<>>
    <3>1. \A x : FoundAbove(j, x) <=> x = NextSibling(j)
      BY ONLY <2>1, <2>2, Zenon DEF Step
    <3>. QED BY ONLY <3>1, Zenon DEF OneAbove
  <2>3. CASE NextSibling(j) = <<>> /\ ~(Len(j) > 1)
    <3>1. \A x : FoundAbove(j, x) <=> x = <<>>
      BY ONLY <2>1, <2>3, Zenon DEF Step
    <3>. QED BY ONLY <3>1, Zenon DEF OneAbove
  <2>4. CASE NextSibling(j) = <<>> /\ Len(j) > 1
    <3>1. \A x : FoundAbove(j, x) <=> FoundAbove(Front(j), x)
      BY ONLY <2>1, <2>4, Zenon DEF Step
    <3>2. OneAbove(Front(j))
      BY ONLY <1>3, <2>4
    <3>. QED BY ONLY <3>1, <3>2, Zenon DEF OneAbove
  <2>. QED BY ONLY <2>2, <2>3, <2>4
<1>4. \A j \in model : OneAbove(j)
  <2>1. PICK S : S = {j \in model : OneAbove(j)}
    OBVIOUS
  <2>2. ASSUME NEW j \in model, Len(j) > 1 => Front(j) \in S PROVE j \in S
    <3>1. Len(j) > 1 => OneAbove(Front(j))
      BY ONLY <2>1, <2>2
    <3>2. OneAbove(j)
      BY ONLY <1>3, <3>1, j \in model
    <3>. QED BY ONLY <2>1, <3>2, j \in model
  <2>3. model \subseteq S
    BY ONLY <2>2, TreeOK, FromTheRoot
  <2>. QED BY ONLY <2>1, <2>3
<1>5. PICK g : g = [j \in model |-> CHOOSE x : FoundAbove(j, x)]
  OBVIOUS
<1>6. \A j \in model : FoundAbove(j, g[j]) /\ \A y : FoundAbove(j, y) => y = g[j]
  <2>1. ASSUME NEW j \in model PROVE FoundAbove(j, g[j]) /\ \A y : FoundAbove(j, y) => y = g[j]
    <3>1. g[j] = CHOOSE x : FoundAbove(j, x)
      BY ONLY <1>5, j \in model
    <3>2. PICK x : FoundAbove(j, x) /\ \A y : FoundAbove(j, y) => y = x
      BY ONLY <1>4, j \in model, Zenon DEF OneAbove
    <3>3. FoundAbove(j, g[j])
      BY ONLY <3>1, <3>2, Zenon
    <3>4. g[j] = x
      BY ONLY <3>2, <3>3, Zenon
    <3>. QED BY ONLY <3>2, <3>4
  <2>. QED BY ONLY <2>1
<1>7. ClimbsUp(g)
  <2>1. ASSUME NEW j \in model
        PROVE  g[j] = IF NextSibling(j) # <<>> THEN NextSibling(j) ELSE IF ParentOf(j) # <<>> THEN g[ParentOf(j)] ELSE <<>>
    <3>1. Step(j, g[j]) /\ FoundAbove(j, g[j])
      BY ONLY <1>1, <1>6, j \in model
    <3>2. CASE NextSibling(j) # <<>>
      <4>1. g[j] = NextSibling(j)
        BY ONLY <3>1, <3>2, Zenon DEF Step
      <4>. QED BY ONLY <3>2, <4>1
    <3>3. CASE NextSibling(j) = <<>> /\ ~(Len(j) > 1)
      <4>1. g[j] = <<>>
        BY ONLY <3>1, <3>3, Zenon DEF Step
      <4>. QED BY ONLY <1>2, <3>3, <4>1, j \in model
    <3>4. CASE NextSibling(j) = <<>> /\ Len(j) > 1
      <4>1. FoundAbove(Front(j), g[j])
        BY ONLY <3>1, <3>4, Zenon DEF Step
      <4>2. Front(j) \in model /\ ParentOf(j) = Front(j) /\ ParentOf(j) # <<>>
        BY ONLY <1>2, <3>4, j \in model
      <4>3. g[j] = g[Front(j)]
        BY ONLY <1>6, <4>1, <4>2, Zenon
      <4>. QED BY ONLY <3>4, <4>2, <4>3
    <3>. QED BY ONLY <3>2, <3>3, <3>4
  <2>. QED BY ONLY <1>5, <2>1 DEF ClimbsUp
<1>8. PICK f : f = CHOOSE h : ClimbsUp(h)
  OBVIOUS
<1>9. ClimbsUp(f)
  BY ONLY <1>7, <1>8, Zenon
<1>10. NextSiblingAbove(i) = f[i]
  BY ONLY <1>8, Zenon DEF NextSiblingAbove, ClimbsUp
<1>11. ASSUME NEW j \in model
       PROVE  f[j] = IF NextSibling(j) # <<>> THEN NextSibling(j) ELSE IF ParentOf(j) # <<>> THEN f[ParentOf(j)] ELSE <<>>
  <2>1. f = [k \in model |-> IF NextSibling(k) # <<>> THEN NextSibling(k) ELSE IF ParentOf(k) # <<>> THEN f[ParentOf(k)] ELSE <<>>]
    BY ONLY <1>9, Zenon DEF ClimbsUp
  <2>. QED BY ONLY <2>1, j \in model
<1>12. ASSUME NEW j \in model, Len(j) > 1 => FoundAbove(Front(j), f[Front(j)]) PROVE FoundAbove(j, f[j])
  <2>1. Step(j, f[j])
    BY ONLY <1>1, j \in model
  <2>2. CASE NextSibling(j) # <<>>
    <3>1. f[j] = NextSibling(j)
      BY ONLY <1>11, <2>2, j \in model
    <3>. QED BY ONLY <2>1, <2>2, <3>1, Zenon DEF Step
  <2>3. CASE NextSibling(j) = <<>> /\ ~(Len(j) > 1)
    <3>1. f[j] = <<>>
      BY ONLY <1>2, <1>11, <2>3, j \in model
    <3>. QED BY ONLY <2>1, <2>3, <3>1, Zenon DEF Step
  <2>4. CASE NextSibling(j) = <<>> /\ Len(j) > 1
    <3>1. f[j] = f[Front(j)]
      BY ONLY <1>2, <1>11, <2>4, j \in model
    <3>. QED BY ONLY <1>12, <2>1, <2>4, <3>1, Zenon DEF Step
  <2>. QED BY ONLY <2>2, <2>3, <2>4
<1>13. PICK S : S = {j \in model : FoundAbove(j, f[j])}
  OBVIOUS
<1>14. ASSUME NEW j \in model, Len(j) > 1 => Front(j) \in S PROVE j \in S
  <2>1. FoundAbove(j, f[j])
    BY ONLY <1>12, <1>13, <1>14
  <2>. QED BY ONLY <1>13, <2>1, j \in model
<1>15. model \subseteq S
  BY ONLY <1>14, TreeOK, FromTheRoot
<1>. QED BY ONLY <1>10, <1>13, <1>15, i \in model

\* One turn to the last row: an index without children, or what its last child leads to.
LEMMA BelowStep ==
  ASSUME TreeOK, NEW i \in model \cup {<<>>}, NEW x
  PROVE  /\ ~HasChildren(i) => (FoundBelow(i, x) <=> x = i)
         /\ HasChildren(i) => (FoundBelow(i, x) <=> FoundBelow(Append(i, RowCount(i) - 1), x))
<1>1. PICK l, h, n : l = Len(i) /\ h = Len(x) /\ n = RowCount(i)
  OBVIOUS
<1>2. \A j \in model \cup {<<>>} : j \in Seq(Nat) /\ Len(j) \in Nat
  <2>1. <<>> \in Seq(Nat)
    OBVIOUS
  <2>2. \A j \in model \cup {<<>>} : j \in Seq(Nat)
    BY ONLY <2>1, TreeOK DEF TreeOK
  <2>. QED BY ONLY <2>2, LenProperties
<1>3. i \in Seq(Nat) /\ l \in Nat
  BY ONLY <1>1, <1>2, i \in model \cup {<<>>}
<1>4. n \in Nat /\ \A r \in Nat : Append(i, r) \in model <=> r < n
  BY ONLY <1>1, <1>3, TreeOK, RowsCountUp
\* The rows of an index that goes on where this one ends.
<1>5. ASSUME x \in model, l < h, \A k \in 1 .. l : i[k] = x[k]
      PROVE  /\ x \in Seq(Nat) /\ h \in Nat /\ l + 1 \in 1 .. h /\ x[l + 1] \in Nat
             /\ Append(i, x[l + 1]) \in model /\ Younger(x, l + 1) = Append(i, x[l + 1] + 1)
  <2>1. x \in Seq(Nat) /\ h \in Nat /\ \A k \in 1 .. h : x[k] \in Nat
    BY ONLY <1>1, <1>5, TreeOK, IndexRight
  <2>2. l + 1 \in 1 .. Len(x) /\ l \in 0 .. Len(x) /\ l + 1 - 1 = l
    BY ONLY <1>1, <1>3, <1>5, <2>1
  <2>3. Ancestor(x, l + 1) = Append(Ancestor(x, l), x[l + 1]) /\ x[l + 1] \in Nat
    <3>1. Ancestor(x, l + 1) = Append(Ancestor(x, l + 1 - 1), x[l + 1]) /\ x[l + 1] \in Nat
      BY ONLY <2>1, <2>2, AncestorParent
    <3>. QED BY ONLY <2>2, <3>1
  <2>4. Ancestor(x, l) = i
    <3>1. Ancestor(x, l) \in Seq(Nat) /\ Len(Ancestor(x, l)) = l /\ \A k \in 1 .. l : Ancestor(x, l)[k] = x[k]
      BY ONLY <2>1, <2>2, AncestorRight
    <3>2. \A k \in 1 .. l : Ancestor(x, l)[k] = i[k]
      BY ONLY <1>5, <3>1
    <3>. QED BY ONLY <1>1, <1>3, <3>1, <3>2, SameList
  <2>5. Ancestor(x, l + 1) \in model
    BY ONLY <1>5, <2>2, TreeOK, AncestorThere
  <2>6. Younger(x, l + 1) = Append(i, x[l + 1] + 1)
    BY ONLY <2>2, <2>4 DEF Younger
  <2>. QED BY ONLY <1>1, <2>1, <2>2, <2>3, <2>4, <2>5, <2>6
<1>6. ASSUME x \in model \cup {<<>>}, l <= h, \A k \in 1 .. l : i[k] = x[k], x # i PROVE x \in model /\ l < h
  <2>1. x \in Seq(Nat) /\ h \in Nat
    BY ONLY <1>1, <1>2, <1>6
  <2>2. h # l
    <3>1. ASSUME h = l PROVE FALSE
      <4>1. x = i
        <5>1. Len(i) = l /\ Len(x) = l
          BY ONLY <1>1, <3>1
        <5>2. \A k \in 1 .. l : i[k] = x[k]
          BY ONLY <1>6
        <5>. QED BY ONLY <1>3, <2>1, <5>1, <5>2, SameList
      <4>. QED BY ONLY <1>6, <4>1
    <3>. QED BY ONLY <3>1
  <2>3. l < h
    BY ONLY <1>3, <1>6, <2>1, <2>2
  <2>4. x # <<>>
    <3>1. h # 0
      BY ONLY <1>3, <2>1, <2>3
    <3>. QED BY ONLY <1>1, <2>1, <3>1, EmptySeq
  <2>. QED BY ONLY <1>6, <2>3, <2>4
<1>7. FoundBelow(i, x) <=> /\ x \in model \cup {<<>>} /\ l <= h /\ \A k \in 1 .. l : i[k] = x[k]
                           /\ \A r \in Nat : Append(x, r) \notin model
                           /\ \A k \in l + 1 .. h : Younger(x, k) \notin model
  BY ONLY <1>1 DEF FoundBelow, LastFrom
<1>8. CASE ~HasChildren(i)
  <2>1. \A r \in Nat : Append(i, r) \notin model
    BY ONLY <1>3, <1>8, TreeOK, ChildrenRight
  <2>2. ASSUME FoundBelow(i, x) PROVE x = i
    <3>1. ASSUME x # i PROVE FALSE
      <4>1. x \in model /\ l < h
        BY ONLY <1>6, <1>7, <2>2, <3>1
      <4>2. Append(i, x[l + 1]) \in model /\ x[l + 1] \in Nat
        BY ONLY <1>5, <1>7, <2>2, <4>1
      <4>. QED BY ONLY <2>1, <4>2
    <3>. QED BY ONLY <3>1
  <2>3. ASSUME x = i PROVE FoundBelow(i, x)
    <3>1. l <= h /\ \A k \in l + 1 .. h : FALSE
      BY ONLY <1>1, <1>3, <2>3
    <3>. QED BY ONLY <1>7, <2>1, <2>3, <3>1, i \in model \cup {<<>>}
  <2>. QED BY ONLY <1>8, <2>2, <2>3
<1>9. CASE HasChildren(i)
  <2>1. PICK c, r : c = Append(i, n - 1) /\ r = n - 1
    OBVIOUS
  <2>2. Append(i, 0) \in model /\ r \in Nat /\ c \in model
    BY ONLY <1>1, <1>3, <1>9, <2>1, TreeOK, ChildrenRight
  <2>3. /\ c \in Seq(Nat) /\ Len(c) = l + 1 /\ c[l + 1] = r /\ \A k \in 1 .. l : c[k] = i[k]
    BY ONLY <1>1, <1>3, <2>1, <2>2, ChildRight
  <2>4. FoundBelow(c, x) <=> /\ x \in model \cup {<<>>} /\ l + 1 <= h /\ \A k \in 1 .. l + 1 : c[k] = x[k]
                             /\ \A q \in Nat : Append(x, q) \notin model
                             /\ \A k \in l + 1 + 1 .. h : Younger(x, k) \notin model
    BY ONLY <1>1, <2>3 DEF FoundBelow, LastFrom
  <2>5. \A k \in 1 .. l + 1 : k \in 1 .. l \/ k = l + 1
    BY ONLY <1>3
  <2>6. \A k \in 1 .. l : k \in 1 .. l + 1
    BY ONLY <1>3
  <2>7. l + 1 \in 1 .. l + 1
    BY ONLY <1>3
  <2>8. ASSUME FoundBelow(i, x) PROVE FoundBelow(c, x)
    <3>1. x # i
      <4>1. ASSUME x = i PROVE FALSE
        <5>1. Append(i, 0) \notin model
          <6>1. 0 \in Nat
            OBVIOUS
          <6>. QED BY ONLY <1>7, <2>8, <4>1, <6>1
        <5>. QED BY ONLY <2>2, <5>1
      <4>. QED BY ONLY <4>1
    <3>2. x \in model /\ l < h /\ \A k \in 1 .. l : i[k] = x[k]
      BY ONLY <1>6, <1>7, <2>8, <3>1
    <3>3. PICK q : q = x[l + 1]
      OBVIOUS
    <3>4. h \in Nat /\ l + 1 \in 1 .. h /\ q \in Nat /\ Append(i, q) \in model /\ Younger(x, l + 1) = Append(i, q + 1)
      BY ONLY <1>5, <3>2, <3>3
    <3>5. q = r
      <4>1. q < n
        BY ONLY <1>4, <3>4
      <4>2. l + 1 \in l + 1 .. h
        BY ONLY <1>3, <3>4
      <4>3. Append(i, q + 1) \notin model
        BY ONLY <1>7, <2>8, <3>4, <4>2
      <4>4. q + 1 \in Nat /\ ~(q + 1 < n)
        BY ONLY <1>4, <3>4, <4>3
      <4>. QED BY ONLY <1>4, <2>1, <3>4, <4>1, <4>4
    <3>6. \A k \in 1 .. l + 1 : c[k] = x[k]
      BY ONLY <2>3, <2>5, <3>2, <3>3, <3>5
    <3>7. l + 1 <= h /\ \A k \in l + 1 + 1 .. h : k \in l + 1 .. h
      BY ONLY <1>3, <3>4
    <3>. QED BY ONLY <1>7, <2>4, <2>8, <3>6, <3>7
  <2>9. ASSUME FoundBelow(c, x) PROVE FoundBelow(i, x)
    <3>1. \A k \in 1 .. l : i[k] = x[k]
      BY ONLY <2>3, <2>4, <2>6, <2>9
    <3>2. x[l + 1] = r
      BY ONLY <2>3, <2>4, <2>7, <2>9
    <3>3. x \in model /\ l < h /\ h \in Nat
      <4>1. h \in Nat
        BY ONLY <1>1, <1>2, <2>4, <2>9
      <4>2. l < h /\ l <= h
        BY ONLY <1>3, <2>4, <2>9, <4>1
      <4>3. x # i
        BY ONLY <1>1, <1>3, <4>2
      <4>. QED BY ONLY <1>6, <2>4, <2>9, <3>1, <4>1, <4>2, <4>3
    <3>4. Younger(x, l + 1) = Append(i, r + 1)
      BY ONLY <1>5, <3>1, <3>2, <3>3
    <3>5. Younger(x, l + 1) \notin model
      <4>1. r + 1 \in Nat /\ ~(r + 1 < n)
        BY ONLY <1>4, <2>1, <2>2
      <4>. QED BY ONLY <1>4, <3>4, <4>1
    <3>6. l <= h /\ \A k \in l + 1 .. h : k = l + 1 \/ k \in l + 1 + 1 .. h
      BY ONLY <1>3, <3>3
    <3>7. \A k \in l + 1 .. h : Younger(x, k) \notin model
      BY ONLY <2>4, <2>9, <3>5, <3>6
    <3>. QED BY ONLY <1>7, <2>4, <2>9, <3>1, <3>6, <3>7
  <2>. QED BY ONLY <1>1, <1>9, <2>1, <2>8, <2>9
<1>. QED BY ONLY <1>8, <1>9

\* The last rows lead from an index to the last one that begins with its rows.
LEMMA BelowRight ==
  ASSUME TreeOK, NEW i \in model \cup {<<>>}
  PROVE  FoundBelow(i, LastDescendant(i))
<1>1. PICK nodes : nodes = model \cup {<<>>}
  OBVIOUS
<1> DEFINE Last1(j)   == Append(j, RowCount(j) - 1)
           Step(j, x) == /\ ~HasChildren(j) => (FoundBelow(j, x) <=> x = j)
                         /\ HasChildren(j) => (FoundBelow(j, x) <=> FoundBelow(Last1(j), x))
<1>2. ASSUME NEW j \in nodes, NEW x PROVE Step(j, x)
  BY ONLY <1>1, TreeOK, j \in nodes, BelowStep
<1>3. ASSUME NEW j \in nodes, HasChildren(j)
      PROVE  /\ Last1(j) \in model /\ Last1(j) \in nodes /\ Index(RowCount(j) - 1, j) = Last1(j) /\ RowCount(j) - 1 \in Nat
  <2>1. j \in Seq(Nat)
    <3>1. <<>> \in Seq(Nat)
      OBVIOUS
    <3>. QED BY ONLY <1>1, <3>1, TreeOK, j \in nodes DEF TreeOK
  <2>2. Last1(j) \in model /\ Index(RowCount(j) - 1, j) = Last1(j) /\ RowCount(j) - 1 \in Nat
    BY ONLY <1>3, <2>1, TreeOK, ChildrenRight
  <2>. QED BY ONLY <1>1, <2>2
<1> HIDE DEF Step, Last1
<1>4. ASSUME NEW j \in nodes, HasChildren(j) => OneBelow(Last1(j)) PROVE OneBelow(j)
  <2>1. \A x : Step(j, x)
    BY ONLY <1>2, j \in nodes
  <2>2. CASE ~HasChildren(j)
    <3>1. \A x : FoundBelow(j, x) <=> x = j
      BY ONLY <2>1, <2>2, Zenon DEF Step
    <3>. QED BY ONLY <3>1, Zenon DEF OneBelow
  <2>3. CASE HasChildren(j)
    <3>1. \A x : FoundBelow(j, x) <=> FoundBelow(Last1(j), x)
      BY ONLY <2>1, <2>3, Zenon DEF Step
    <3>2. OneBelow(Last1(j))
      BY ONLY <1>4, <2>3
    <3>. QED BY ONLY <3>1, <3>2, Zenon DEF OneBelow
  <2>. QED BY ONLY <2>2, <2>3
<1>5. ASSUME NEW S, \A j \in nodes : (HasChildren(j) => Last1(j) \in S) => j \in S PROVE nodes \subseteq S
  <2>1. ASSUME NEW j \in model \cup {<<>>}, \A r \in Nat : Append(j, r) \in model => Append(j, r) \in S PROVE j \in S
    <3>1. j \in nodes
      BY ONLY <1>1, j \in model \cup {<<>>}
    <3>2. HasChildren(j) => Last1(j) \in S
      <4>1. ASSUME HasChildren(j) PROVE Last1(j) \in S
        <5>1. Last1(j) \in model /\ RowCount(j) - 1 \in Nat
          BY ONLY <1>3, <3>1, <4>1
        <5>. QED BY ONLY <2>1, <5>1 DEF Last1
      <4>. QED BY ONLY <4>1
    <3>. QED BY ONLY <1>5, <3>1, <3>2
  <2>2. model \cup {<<>>} \subseteq S
    BY ONLY <2>1, TreeOK, FromTheLeaves
  <2>. QED BY ONLY <1>1, <2>2
<1>6. \A j \in nodes : OneBelow(j)
  <2>1. PICK S : S = {j \in nodes : OneBelow(j)}
    OBVIOUS
  <2>2. ASSUME NEW j \in nodes, HasChildren(j) => Last1(j) \in S PROVE j \in S
    <3>1. OneBelow(j)
      BY ONLY <1>4, <2>1, <2>2
    <3>. QED BY ONLY <2>1, <3>1, j \in nodes
  <2>3. nodes \subseteq S
    BY ONLY <1>5, <2>2
  <2>. QED BY ONLY <2>1, <2>3
<1>7. PICK g : g = [j \in nodes |-> CHOOSE x : FoundBelow(j, x)]
  OBVIOUS
<1>8. \A j \in nodes : FoundBelow(j, g[j]) /\ \A y : FoundBelow(j, y) => y = g[j]
  <2>1. ASSUME NEW j \in nodes PROVE FoundBelow(j, g[j]) /\ \A y : FoundBelow(j, y) => y = g[j]
    <3>1. g[j] = CHOOSE x : FoundBelow(j, x)
      BY ONLY <1>7, j \in nodes
    <3>2. PICK x : FoundBelow(j, x) /\ \A y : FoundBelow(j, y) => y = x
      BY ONLY <1>6, j \in nodes, Zenon DEF OneBelow
    <3>3. FoundBelow(j, g[j])
      BY ONLY <3>1, <3>2, Zenon
    <3>4. g[j] = x
      BY ONLY <3>2, <3>3, Zenon
    <3>. QED BY ONLY <3>2, <3>4
  <2>. QED BY ONLY <2>1
<1>9. GoesDown(g)
  <2>1. ASSUME NEW j \in nodes
        PROVE  g[j] = IF HasChildren(j) THEN g[Index(RowCount(j) - 1, j)] ELSE j
    <3>1. Step(j, g[j]) /\ FoundBelow(j, g[j])
      BY ONLY <1>2, <1>8, j \in nodes
    <3>2. CASE ~HasChildren(j)
      <4>1. g[j] = j
        BY ONLY <3>1, <3>2, Zenon DEF Step
      <4>. QED BY ONLY <3>2, <4>1
    <3>3. CASE HasChildren(j)
      <4>1. FoundBelow(Last1(j), g[j])
        BY ONLY <3>1, <3>3, Zenon DEF Step
      <4>2. Last1(j) \in nodes /\ Index(RowCount(j) - 1, j) = Last1(j)
        BY ONLY <1>3, <3>3, j \in nodes
      <4>3. g[j] = g[Last1(j)]
        BY ONLY <1>8, <4>1, <4>2, Zenon
      <4>. QED BY ONLY <3>3, <4>2, <4>3
    <3>. QED BY ONLY <3>2, <3>3
  <2>2. g = [j \in nodes |-> IF HasChildren(j) THEN g[Index(RowCount(j) - 1, j)] ELSE j]
    BY ONLY <1>7, <2>1
  <2>. QED BY ONLY <1>1, <2>2 DEF GoesDown
<1>10. PICK f : f = CHOOSE h : GoesDown(h)
  OBVIOUS
<1>11. GoesDown(f)
  BY ONLY <1>9, <1>10, Zenon
<1>12. LastDescendant(i) = f[i]
  BY ONLY <1>10, Zenon DEF LastDescendant, GoesDown
<1>13. ASSUME NEW j \in nodes PROVE f[j] = IF HasChildren(j) THEN f[Index(RowCount(j) - 1, j)] ELSE j
  <2>1. f = [k \in model \cup {<<>>} |-> IF HasChildren(k) THEN f[Index(RowCount(k) - 1, k)] ELSE k]
    BY ONLY <1>11, Zenon DEF GoesDown
  <2>. QED BY ONLY <1>1, <2>1, j \in nodes
<1>14. PICK S : S = {j \in nodes : FoundBelow(j, f[j])}
  OBVIOUS
<1>15. ASSUME NEW j \in nodes, HasChildren(j) => Last1(j) \in S PROVE j \in S
  <2>1. Step(j, f[j])
    BY ONLY <1>2, j \in nodes
  <2>2. FoundBelow(j, f[j])
    <3>1. CASE ~HasChildren(j)
      <4>1. f[j] = j
        BY ONLY <1>13, <3>1, j \in nodes
      <4>. QED BY ONLY <2>1, <3>1, <4>1, Zenon DEF Step
    <3>2. CASE HasChildren(j)
      <4>1. FoundBelow(Last1(j), f[Last1(j)])
        BY ONLY <1>14, <1>15, <3>2
      <4>2. f[j] = f[Last1(j)]
        BY ONLY <1>3, <1>13, <3>2, j \in nodes
      <4>. QED BY ONLY <2>1, <3>2, <4>1, <4>2, Zenon DEF Step
    <3>. QED BY ONLY <3>1, <3>2
  <2>. QED BY ONLY <1>14, <2>2, j \in nodes
<1>16. nodes \subseteq S
  BY ONLY <1>5, <1>15
<1>. QED BY ONLY <1>1, <1>12, <1>14, <1>16, i \in model \cup {<<>>}

\* The index of a row at the top.
TopRow(r) == Append(<<>>, r)

\* A depth-first iterator has been moved as often as there are indexes in front of its
\* own; a flat one is at the row of that number; both get to end() behind the last one.
IteratorInv ==
  /\ model \in Models /\ kind \in {"depthFirst", "flat"}
  /\ kind = "depthFirst" =>
       \/ iterator = End /\ steps = Cardinality(model)
       \/ \E i \in model : iterator = It(i, FALSE) /\ steps = Cardinality(Passed(i))
  /\ kind = "flat" =>
       \/ iterator = End /\ steps = RowCount(<<>>)
       \/ steps \in Nat /\ steps < RowCount(<<>>) /\ iterator = It(TopRow(steps), FALSE)

\* The rows at the top.
LEMMA TopRows ==
  ASSUME TreeOK
  PROVE  /\ RowCount(<<>>) \in Nat /\ Index(RowCount(<<>>), <<>>) = <<>>
         /\ \A r \in Nat : r < RowCount(<<>>) => Index(r, <<>>) = TopRow(r)
         /\ \A r \in Nat : (TopRow(r) \in model <=> r < RowCount(<<>>))
         /\ \A r \in Nat : /\ TopRow(r) # <<>> /\ ParentOf(TopRow(r)) = <<>> /\ Last(TopRow(r)) = r
                           /\ Len(TopRow(r)) = 1 /\ TopRow(r)[1] = r
         /\ RowCount(<<>>) = 0 <=> model = {}
         /\ RowCount(<<>>) = 0 => \A r : Index(r, <<>>) = <<>>
<1>1. <<>> \in Seq(Nat) /\ Len(<<>>) = 0
  BY ONLY EmptySeq
<1>2. PICK n : n = RowCount(<<>>)
  OBVIOUS
<1>3. n \in Nat /\ \A r \in Nat : TopRow(r) \in model <=> r < n
  BY ONLY <1>1, <1>2, TreeOK, RowsCountUp DEF TopRow
<1>4. ASSUME NEW r \in Nat
      PROVE  /\ TopRow(r) # <<>> /\ ParentOf(TopRow(r)) = <<>> /\ Last(TopRow(r)) = r
             /\ Len(TopRow(r)) = 1 /\ TopRow(r)[1] = r
  <2>1. PICK p : p = <<>>
    OBVIOUS
  <2>2. /\ Append(p, r) # <<>> /\ Front(Append(p, r)) = p /\ Last(Append(p, r)) = r
        /\ Len(Append(p, r)) = Len(p) + 1 /\ Append(p, r)[Len(p) + 1] = r
    BY ONLY <1>1, <2>1, r \in Nat, ChildRight
  <2>3. Len(p) + 1 = 1
    BY ONLY <1>1, <2>1
  <2>. QED BY ONLY <2>1, <2>2, <2>3 DEF TopRow, ParentOf
<1>5. \A r \in Nat : r < n => Index(r, <<>>) = TopRow(r)
  BY ONLY <1>3 DEF Index, TopRow
<1>6. Index(n, <<>>) = <<>>
  <2>1. ~(n < n)
    BY ONLY <1>3
  <2>. QED BY ONLY <1>3, <2>1 DEF Index, TopRow
<1>7. ASSUME NEW i \in model PROVE n # 0
  <2>1. i \in Seq(Nat) /\ 1 \in 1 .. Len(i) /\ 0 \in 0 .. Len(i)
    <3>1. i \in Seq(Nat) /\ Len(i) \in Nat /\ Len(i) >= 1
      BY ONLY TreeOK, i \in model, IndexRight
    <3>. QED BY ONLY <3>1
  <2>2. Ancestor(i, 1) \in model
    BY ONLY <2>1, TreeOK, i \in model, AncestorThere
  <2>3. Ancestor(i, 1) = Append(Ancestor(i, 0), i[1]) /\ i[1] \in Nat
    <3>1. Ancestor(i, 1) = Append(Ancestor(i, 1 - 1), i[1]) /\ i[1] \in Nat
      BY ONLY <2>1, AncestorParent
    <3>. QED BY ONLY <3>1
  <2>4. Ancestor(i, 0) = <<>>
    <3>1. Ancestor(i, 0) \in Seq(Nat) /\ Len(Ancestor(i, 0)) = 0
      BY ONLY <2>1, AncestorRight
    <3>. QED BY ONLY <3>1, EmptySeq
  <2>5. i[1] < n
    BY ONLY <1>3, <2>2, <2>3, <2>4 DEF TopRow
  <2>. QED BY ONLY <1>3, <2>3, <2>5
<1>8. n # 0 => model # {}
  <2>1. ASSUME n # 0 PROVE TopRow(0) \in model
    <3>1. 0 \in Nat /\ 0 < n
      BY ONLY <1>3, <2>1
    <3>. QED BY ONLY <1>3, <3>1
  <2>. QED BY ONLY <2>1
<1>9. n = 0 => \A r : Index(r, <<>>) = <<>>
  BY ONLY <1>7 DEF Index
<1>. QED BY ONLY <1>2, <1>3, <1>4, <1>5, <1>6, <1>7, <1>8, <1>9

\* As many rows at the top come before one as its number says.
LEMMA TopCounts ==
  ASSUME TreeOK
  PROVE  /\ Cardinality({i \in model : Len(i) = 1}) = RowCount(<<>>)
         /\ \A s \in Nat : s < RowCount(<<>>) =>
              Cardinality({i \in {j \in model : Len(j) = 1} : Precedes(i, TopRow(s))}) = s
<1>1. PICK n, tops : n = RowCount(<<>>) /\ tops = {i \in model : Len(i) = 1}
  OBVIOUS
<1>2. /\ n \in Nat /\ \A r \in Nat : (TopRow(r) \in model <=> r < n)
      /\ \A r \in Nat : Last(TopRow(r)) = r /\ Len(TopRow(r)) = 1 /\ TopRow(r)[1] = r
  BY ONLY <1>1, TreeOK, TopRows
<1>3. \A i \in tops : Last(i) \in Nat /\ Last(i) < n /\ i = TopRow(Last(i))
  <2>1. ASSUME NEW i \in tops PROVE Last(i) \in Nat /\ Last(i) < n /\ i = TopRow(Last(i))
    <3>1. i \in model /\ Len(i) = 1 /\ i \in Seq(Nat) /\ i # <<>>
      BY ONLY <1>1, TreeOK, i \in tops DEF TreeOK
    <3>2. Last(i) \in Nat /\ Front(i) \in Seq(Nat) /\ Len(Front(i)) = 1 - 1 /\ Append(Front(i), Last(i)) = i
      BY ONLY <3>1, FrontAndLast
    <3>3. Front(i) = <<>>
      <4>1. Len(Front(i)) = 0
        BY ONLY <3>2
      <4>. QED BY ONLY <3>2, <4>1, EmptySeq
    <3>4. i = TopRow(Last(i))
      BY ONLY <3>2, <3>3 DEF TopRow
    <3>. QED BY ONLY <1>2, <3>1, <3>2, <3>4
  <2>. QED BY ONLY <2>1
<1>4. ASSUME NEW m \in Nat PROVE Cardinality({TopRow(r) : r \in 0 .. m - 1}) = m
  <2>1. PICK rows, T : rows = 0 .. m - 1 /\ T = {TopRow(r) : r \in 0 .. m - 1}
    OBVIOUS
  <2>2. rows \subseteq Nat
    BY ONLY <2>1, m \in Nat
  <2>3. IsFiniteSet(rows) /\ Cardinality(rows) = m
    <3>1. 0 \in Int /\ m - 1 \in Int
      BY ONLY m \in Nat
    <3>2. IsFiniteSet(0 .. m - 1) /\ Cardinality(0 .. m - 1) = IF 0 > m - 1 THEN 0 ELSE m - 1 - 0 + 1
      BY ONLY <3>1, FS_Interval
    <3>. QED BY ONLY <2>1, <3>2, m \in Nat
  <2>4. PICK f : f = [r \in rows |-> TopRow(r)]
    OBVIOUS
  <2>5. f \in [rows -> T] /\ \A r \in rows : f[r] = TopRow(r)
    BY ONLY <2>1, <2>4
  <2>6. \A a, b \in rows : f[a] = f[b] => a = b
    BY ONLY <1>2, <2>2, <2>5
  <2>7. \A t \in T : \E r \in rows : f[r] = t
    BY ONLY <2>1, <2>5
  <2>8. Cardinality(T) = Cardinality(rows)
    BY ONLY <2>3, <2>5, <2>6, <2>7, AsMany
  <2>. QED BY ONLY <2>1, <2>3, <2>8
<1>5. ASSUME NEW q \in Nat, NEW s \in Nat PROVE Precedes(TopRow(q), TopRow(s)) <=> q < s
  <2>1. PICK a, b : a = TopRow(q) /\ b = TopRow(s)
    OBVIOUS
  <2>2. Len(a) = 1 /\ a[1] = q /\ Len(b) = 1 /\ b[1] = s
    BY ONLY <1>2, <2>1, q \in Nat, s \in Nat
  <2>3. \A n0 \in 0 .. Len(b) - 1 : n0 = 0
    BY ONLY <2>2
  <2>4. 0 \in 0 .. Len(b) - 1 /\ 0 <= Len(a) /\ 0 # Len(a) /\ 0 + 1 = 1 /\ \A k \in 1 .. 0 : FALSE
    BY ONLY <2>2
  <2>5. Precedes(a, b) <=> a[1] < b[1]
    <3>1. ASSUME Precedes(a, b) PROVE a[1] < b[1]
      <4>1. PICK n0 \in 0 .. Len(b) - 1 : n0 = Len(a) \/ a[n0 + 1] < b[n0 + 1]
        BY ONLY <3>1 DEF Precedes
      <4>. QED BY ONLY <2>3, <2>4, <4>1
    <3>2. ASSUME a[1] < b[1] PROVE Precedes(a, b)
      <4>1. a[0 + 1] < b[0 + 1]
        BY ONLY <2>4, <3>2
      <4>. QED BY ONLY <2>4, <4>1 DEF Precedes
    <3>. QED BY ONLY <3>1, <3>2
  <2>. QED BY ONLY <2>1, <2>2, <2>5
<1>6. tops = {TopRow(r) : r \in 0 .. n - 1}
  <2>1. \A i \in tops : Last(i) \in 0 .. n - 1
    BY ONLY <1>2, <1>3
  <2>2. \A r \in 0 .. n - 1 : r \in Nat /\ r < n
    BY ONLY <1>2
  <2>3. \A r \in 0 .. n - 1 : TopRow(r) \in tops
    BY ONLY <1>1, <1>2, <2>2
  <2>. QED BY ONLY <1>3, <2>1, <2>3
<1>7. ASSUME NEW s \in Nat, s < n PROVE {i \in tops : Precedes(i, TopRow(s))} = {TopRow(r) : r \in 0 .. s - 1}
  <2>1. \A i \in tops : Precedes(i, TopRow(s)) => Last(i) \in 0 .. s - 1
    <3>1. ASSUME NEW i \in tops, Precedes(i, TopRow(s)) PROVE Last(i) \in 0 .. s - 1
      <4>1. PICK q : q = Last(i)
        OBVIOUS
      <4>2. q \in Nat /\ i = TopRow(q)
        BY ONLY <1>3, <4>1, i \in tops
      <4>3. q < s
        BY ONLY <1>5, <3>1, <4>2, s \in Nat
      <4>. QED BY ONLY <4>1, <4>2, <4>3, s \in Nat
    <3>. QED BY ONLY <3>1
  <2>2. \A r \in 0 .. s - 1 : r \in Nat /\ r < s /\ r \in 0 .. n - 1
    BY ONLY <1>2, <1>7
  <2>3. \A r \in 0 .. s - 1 : TopRow(r) \in tops /\ Precedes(TopRow(r), TopRow(s))
    BY ONLY <1>5, <1>6, <2>2, s \in Nat
  <2>. QED BY ONLY <1>3, <2>1, <2>3
<1>. QED
  <2>1. Cardinality(tops) = n
    BY ONLY <1>2, <1>4, <1>6
  <2>2. \A s \in Nat : s < n => Cardinality({i \in tops : Precedes(i, TopRow(s))}) = s
    BY ONLY <1>4, <1>7
  <2>. QED BY ONLY <1>1, <2>1, <2>2

\* end() of the depth-first iterators is behind the last index.
LEMMA LastIndex ==
  ASSUME TreeOK
  PROVE  /\ model = {} => LastDescendant(<<>>) = <<>>
         /\ model # {} => LastDescendant(<<>>) \in model /\ LastFrom(LastDescendant(<<>>), 0)
<1>1. PICK d : d = LastDescendant(<<>>)
  OBVIOUS
<1>2. FoundBelow(<<>>, d)
  BY ONLY <1>1, TreeOK, BelowRight
<1>3. d \in model \cup {<<>>} /\ LastFrom(d, 0)
  <2>1. Len(<<>>) = 0
    BY ONLY EmptySeq
  <2>. QED BY ONLY <1>2, <2>1 DEF FoundBelow
<1>4. ASSUME d = <<>> PROVE model = {}
  <2>1. \A r \in Nat : TopRow(r) \notin model
    BY ONLY <1>3, <1>4 DEF LastFrom, TopRow
  <2>2. PICK n : n = RowCount(<<>>)
    OBVIOUS
  <2>3. n \in Nat /\ (\A r \in Nat : TopRow(r) \in model <=> r < n) /\ (n = 0 <=> model = {})
    BY ONLY <2>2, TreeOK, TopRows
  <2>4. 0 \in Nat /\ ~(0 < n)
    BY ONLY <2>1, <2>3
  <2>. QED BY ONLY <2>3, <2>4
<1>. QED BY ONLY <1>1, <1>3, <1>4

\* The last descendant of the sibling in front of an index is right in front of it.
LEMMA LastBelowSibling ==
  ASSUME TreeOK, NEW i \in model, Last(i) > 0
  PROVE  /\ LastDescendant(Append(Front(i), Last(i) - 1)) \in model
         /\ Cardinality(Passed(i)) = Cardinality(Passed(LastDescendant(Append(Front(i), Last(i) - 1)))) + 1
<1>1. PICK p, r, s, d : p = Front(i) /\ r = Last(i) - 1 /\ s = Append(Front(i), Last(i) - 1) /\ d = LastDescendant(s)
  OBVIOUS
<1>2. i \in Seq(Nat) /\ i # <<>> /\ s \in model
  BY ONLY <1>1, TreeOK, i \in model, Last(i) > 0 DEF TreeOK
<1>3. Last(i) \in Nat /\ p \in Seq(Nat) /\ Append(p, Last(i)) = i
  BY ONLY <1>1, <1>2, FrontAndLast
<1>4. r \in Nat /\ r + 1 = Last(i) /\ s = Append(p, r)
  BY ONLY <1>1, <1>3, Last(i) > 0
<1>5. PICK l, h : l = Len(s) /\ h = Len(d)
  OBVIOUS
<1>6. s \in Seq(Nat) /\ l = Len(p) + 1 /\ s[l] = r /\ \A k \in 1 .. Len(p) : s[k] = p[k]
  BY ONLY <1>3, <1>4, <1>5, ChildRight
<1>7. Len(p) \in Nat /\ l \in Nat /\ l >= 1 /\ l - 1 = Len(p) /\ l \in 1 .. l
  <2>1. Len(p) \in Nat
    BY ONLY <1>3, LenProperties
  <2>. QED BY ONLY <1>6, <2>1
<1>8. FoundBelow(s, d)
  <2>1. s \in model \cup {<<>>}
    BY ONLY <1>2
  <2>. QED BY ONLY <1>1, <2>1, TreeOK, BelowRight
<1>9. d \in model \cup {<<>>} /\ l <= h /\ (\A k \in 1 .. l : s[k] = d[k]) /\ LastFrom(d, l)
  BY ONLY <1>5, <1>8 DEF FoundBelow
<1>10. d \in model
  <2>1. ASSUME d = <<>> PROVE FALSE
    <3>1. h = 0
      BY ONLY <1>5, <2>1, EmptySeq
    <3>. QED BY ONLY <1>7, <1>9, <3>1
  <2>. QED BY ONLY <1>9, <2>1
<1>11. d \in Seq(Nat) /\ h \in Nat
  BY ONLY <1>5, <1>10, TreeOK, IndexRight
<1>12. l \in 1 .. Len(d) /\ l - 1 \in 0 .. Len(d)
  BY ONLY <1>5, <1>7, <1>9, <1>11
<1>13. Ancestor(d, l - 1) = p
  <2>1. Ancestor(d, l - 1) \in Seq(Nat) /\ Len(Ancestor(d, l - 1)) = l - 1 /\ \A k \in 1 .. l - 1 : Ancestor(d, l - 1)[k] = d[k]
    BY ONLY <1>11, <1>12, AncestorRight
  <2>2. PICK a : a = Ancestor(d, l - 1)
    OBVIOUS
  <2>3. \A k \in 1 .. Len(p) : a[k] = p[k]
    <3>1. \A k \in 1 .. Len(p) : k \in 1 .. l /\ k \in 1 .. l - 1
      BY ONLY <1>7
    <3>. QED BY ONLY <1>6, <1>9, <2>1, <2>2, <3>1
  <2>4. a \in Seq(Nat) /\ Len(a) = Len(p)
    BY ONLY <1>7, <2>1, <2>2
  <2>5. a = p
    BY ONLY <1>3, <2>3, <2>4, SameList
  <2>. QED BY ONLY <2>2, <2>5
<1>14. Younger(d, l) = i
  <2>1. d[l] = r
    BY ONLY <1>6, <1>7, <1>9
  <2>2. Younger(d, l) = Append(p, r + 1)
    BY ONLY <1>13, <2>1 DEF Younger
  <2>. QED BY ONLY <1>3, <1>4, <2>2
<1>15. Cardinality(Passed(Younger(d, l))) = Cardinality(Passed(d)) + 1
  BY ONLY <1>9, <1>10, <1>12, TreeOK, YoungerCount
<1>. QED BY ONLY <1>1, <1>10, <1>14, <1>15

\* Every model is a tree.
LEMMA ModelIsTree ==
  ASSUME model \in Models
  PROVE  TreeOK
BY ModelAssumption DEF TreeOK

\* An iterator is its index and whether it is at the end.
LEMMA ItRight ==
  ASSUME NEW i, NEW b
  PROVE  It(i, b).index = i /\ It(i, b).atEnd = b
BY DEF It

\* An iterator starts in front of all indexes, or at the end if there is none.
LEMMA IteratorStarts ==
  ASSUME IteratorInit
  PROVE  IteratorInv
<1>1. model \in Models /\ kind \in {"depthFirst", "flat"} /\ iterator = Begin /\ steps = 0
  BY DEF IteratorInit
<1>2. TreeOK
  BY ONLY <1>1, ModelIsTree
<1>3. PICK n : n = RowCount(<<>>)
  OBVIOUS
<1>4. n \in Nat /\ (n = 0 <=> model = {}) /\ (n = 0 => \A r : Index(r, <<>>) = <<>>)
  BY ONLY <1>2, <1>3, TopRows
<1>5. CASE n = 0
  <2>1. model = {} /\ \A r : Index(r, <<>>) = <<>>
    BY ONLY <1>4, <1>5
  <2>2. iterator = It(<<>>, TRUE)
    <3>1. Index(0, <<>>) = <<>>
      BY ONLY <2>1
    <3>2. (Index(0, <<>>) = <<>>) = TRUE
      BY ONLY <3>1
    <3>. QED BY ONLY <1>1, <3>1, <3>2 DEF Begin
  <2>3. End = It(<<>>, TRUE)
    <3>1. Index(RowCount(<<>>) - 1, <<>>) = <<>>
      BY ONLY <2>1
    <3>2. LastDescendant(<<>>) = <<>>
      BY ONLY <1>2, <2>1, LastIndex
    <3>. QED BY ONLY <3>1, <3>2 DEF End
  <2>4. Cardinality(model) = 0
    BY ONLY <2>1, FS_EmptySet
  <2>. QED BY ONLY <1>1, <1>3, <1>5, <2>2, <2>3, <2>4 DEF IteratorInv
<1>6. CASE n # 0
  <2>1. 0 \in Nat /\ 0 < n
    BY ONLY <1>4, <1>6
  <2>2. Index(0, <<>>) = TopRow(0) /\ TopRow(0) # <<>> /\ TopRow(0) \in model
    BY ONLY <1>2, <1>3, <2>1, TopRows
  <2>3. iterator = It(TopRow(0), FALSE)
    <3>1. (Index(0, <<>>) = <<>>) = FALSE
      BY ONLY <2>2
    <3>. QED BY ONLY <1>1, <2>2, <3>1 DEF Begin
  <2>4. Passed(TopRow(0)) = {}
    <3>1. ASSUME NEW j \in model, Precedes(j, TopRow(0)) PROVE FALSE
      <4>1. j \in Seq(Nat) /\ <<>> \in Seq(Nat) /\ j # <<>>
        <5>1. <<>> \in Seq(Nat)
          OBVIOUS
        <5>. QED BY ONLY <1>2, <5>1, j \in model DEF TreeOK
      <4>2. PICK p : p = <<>>
        OBVIOUS
      <4>3. Precedes(j, Append(p, 0))
        BY ONLY <3>1, <4>2 DEF TopRow
      <4>4. Precedes(j, p)
        BY ONLY <4>1, <4>2, <4>3, ChildNext
      <4>5. Len(p) = 0
        BY ONLY <4>2, EmptySeq
      <4>6. 0 .. Len(p) - 1 = {}
        BY ONLY <4>5
      <4>. QED BY ONLY <4>4, <4>6 DEF Precedes
    <3>. QED BY ONLY <3>1 DEF Passed
  <2>5. steps = Cardinality(Passed(TopRow(0)))
    BY ONLY <1>1, <2>4, FS_EmptySet
  <2>6. steps \in Nat /\ steps < RowCount(<<>>) /\ iterator = It(TopRow(steps), FALSE)
    BY ONLY <1>1, <1>3, <2>1, <2>3
  <2>. QED BY ONLY <1>1, <2>2, <2>3, <2>5, <2>6 DEF IteratorInv
<1>. QED BY ONLY <1>5, <1>6

\* What the invariant says of the next state is about the same model.
LEMMA SameModel ==
  ASSUME model' = model, kind' = kind
  PROVE  /\ End' = End /\ RowCount(<<>>)' = RowCount(<<>>)
         /\ \A i : Cardinality(Passed(i))' = Cardinality(Passed(i))
<1>1. RowCount(<<>>)' = RowCount(<<>>)
  BY DEF RowCount, ParentOf
<1>2. \A i : Cardinality(Passed(i))' = Cardinality(Passed(i))
  BY DEF Passed, Precedes
<1>3. End' = End
  BY SMT DEF End, LastDescendant, HasChildren, RowCount, Index, ParentOf, It
<1>. QED BY ONLY <1>1, <1>2, <1>3

\* operator++
LEMMA IncrementKeeps ==
  ASSUME IteratorInv, Increment
  PROVE  IteratorInv'
<1>1. model \in Models /\ model' = model /\ kind' = kind /\ kind = "depthFirst" /\ iterator.atEnd = FALSE /\ steps' = steps + 1
  <2>1. model \in Models
    BY ONLY IteratorInv DEF IteratorInv
  <2>2. model' = model /\ kind' = kind /\ kind = "depthFirst" /\ steps' = steps + 1 /\ ~iterator.atEnd
    BY ONLY Increment DEF Increment
  <2>3. iterator = End \/ \E j \in model : iterator = It(j, FALSE)
    BY ONLY IteratorInv, <2>2 DEF IteratorInv
  <2>4. End.atEnd = TRUE
    BY ONLY ItRight DEF End
  <2>5. iterator.atEnd = FALSE
    BY ONLY <2>2, <2>3, <2>4, ItRight
  <2>. QED BY ONLY <2>1, <2>2, <2>5
<1>2. TreeOK
  BY ONLY <1>1, ModelIsTree
<1>3. PICK i \in model : iterator = It(i, FALSE) /\ steps = Cardinality(Passed(i))
  <2>1. iterator = End \/ \E j \in model : iterator = It(j, FALSE) /\ steps = Cardinality(Passed(j))
    BY ONLY IteratorInv, <1>1 DEF IteratorInv
  <2>2. End.atEnd = TRUE
    BY ONLY ItRight DEF End
  <2>3. iterator # End
    BY ONLY <1>1, <2>2
  <2>. QED BY ONLY <2>1, <2>3
<1>4. iterator.index = i
  BY ONLY <1>3, ItRight
<1>5. PICK next : next = IF HasChildren(i) THEN Index(0, i) ELSE NextSiblingAbove(i)
  OBVIOUS
<1>6. iterator' = IF next # <<>> THEN It(next, FALSE) ELSE It(i, TRUE)
  BY ONLY Increment, <1>4, <1>5, Zenon DEF Increment
<1>7. i \in Seq(Nat) /\ i # <<>> /\ Cardinality(Passed(i)) \in Nat /\ Len(i) \in Nat
  BY ONLY <1>2, i \in model, IndexRight, OneMore
<1>8. \/ next \in model /\ next # <<>> /\ Cardinality(Passed(next)) = Cardinality(Passed(i)) + 1
      \/ next = <<>> /\ LastFrom(i, 0)
  <2>1. CASE HasChildren(i)
    <3>1. Append(i, 0) \in model /\ next = Append(i, 0)
      BY ONLY <1>2, <1>5, <1>7, <2>1, ChildrenRight
    <3>2. Cardinality(Passed(Append(i, 0))) = Cardinality(Passed(i)) + 1
      BY ONLY <1>2, <3>1, i \in model, ChildCount
    <3>3. Append(i, 0) # <<>>
      BY ONLY <1>2, <3>1 DEF TreeOK
    <3>. QED BY ONLY <3>1, <3>2, <3>3
  <2>2. CASE ~HasChildren(i)
    <3>1. \A r \in Nat : Append(i, r) \notin model
      BY ONLY <1>2, <1>7, <2>2, ChildrenRight
    <3>2. FoundAbove(i, next)
      BY ONLY <1>2, <1>5, <2>2, i \in model, AboveRight
    <3>3. CASE next = <<>> /\ \A k \in 1 .. Len(i) : Younger(i, k) \notin model
      <4>1. \A k \in 0 + 1 .. Len(i) : k \in 1 .. Len(i)
        BY ONLY <1>7
      <4>. QED BY ONLY <3>1, <3>3, <4>1 DEF LastFrom
    <3>4. CASE \E m \in 1 .. Len(i) : next = Younger(i, m) /\ next \in model /\ \A k \in m + 1 .. Len(i) : Younger(i, k) \notin model
      <4>1. PICK m \in 1 .. Len(i) : next = Younger(i, m) /\ next \in model /\ \A k \in m + 1 .. Len(i) : Younger(i, k) \notin model
        BY ONLY <3>4
      <4>2. LastFrom(i, m)
        BY ONLY <3>1, <4>1 DEF LastFrom
      <4>3. Cardinality(Passed(Younger(i, m))) = Cardinality(Passed(i)) + 1
        BY ONLY <1>2, <4>1, <4>2, i \in model, YoungerCount
      <4>4. next # <<>>
        BY ONLY <1>2, <4>1 DEF TreeOK
      <4>. QED BY ONLY <4>1, <4>3, <4>4
    <3>. QED BY ONLY <3>2, <3>3, <3>4 DEF FoundAbove
  <2>. QED BY ONLY <2>1, <2>2
<1>9. \/ iterator' = End /\ steps' = Cardinality(model)
      \/ next \in model /\ iterator' = It(next, FALSE) /\ steps' = Cardinality(Passed(next))
  <2>1. CASE next \in model /\ next # <<>> /\ Cardinality(Passed(next)) = Cardinality(Passed(i)) + 1
    BY ONLY <1>1, <1>3, <1>6, <2>1
  <2>2. CASE next = <<>> /\ LastFrom(i, 0)
    <3>1. Cardinality(model) = Cardinality(Passed(i)) + 1 /\ \A j \in model : LastFrom(j, 0) => j = i
      BY ONLY <1>2, <2>2, i \in model, LastCount
    <3>2. LastDescendant(<<>>) \in model /\ LastFrom(LastDescendant(<<>>), 0)
      <4>1. model # {}
        BY ONLY i \in model
      <4>. QED BY ONLY <1>2, <4>1, LastIndex
    <3>3. LastDescendant(<<>>) = i
      BY ONLY <3>1, <3>2
    <3>4. End = It(i, TRUE)
      BY ONLY <1>1, <3>3 DEF End
    <3>. QED BY ONLY <1>1, <1>3, <1>6, <2>2, <3>1, <3>4
  <2>. QED BY ONLY <1>8, <2>1, <2>2
<1>10. /\ End' = End
       /\ \A j : Cardinality(Passed(j))' = Cardinality(Passed(j))
  BY ONLY <1>1, SameModel
<1>11. Cardinality(model)' = Cardinality(model)
  BY ONLY <1>1
<1>12. \/ iterator' = End' /\ steps' = Cardinality(model)'
       \/ \E j \in model' : iterator' = It(j, FALSE)' /\ steps' = Cardinality(Passed(j))'
  <2>1. \A j : It(j, FALSE)' = It(j, FALSE)
    BY DEF It
  <2>. QED BY ONLY <1>1, <1>9, <1>10, <1>11, <2>1
<1>. QED BY <1>1, <1>12 DEF IteratorInv

\* operator--
LEMMA DecrementKeeps ==
  ASSUME IteratorInv, Decrement
  PROVE  IteratorInv'
<1>1. PICK i : i = iterator.index
  OBVIOUS
<1>2. /\ model \in Models /\ model' = model /\ kind' = kind /\ kind = "depthFirst" /\ steps' = steps - 1 /\ i # <<>>
      /\ ~iterator.atEnd => ParentOf(i) # <<>> \/ Last(i) > 0
      /\ iterator' = IF iterator.atEnd THEN It(i, FALSE)
                     ELSE It(IF PrevSibling(i) = <<>> THEN ParentOf(i) ELSE LastDescendant(PrevSibling(i)), FALSE)
  <2>1. model \in Models
    BY ONLY IteratorInv DEF IteratorInv
  <2>. QED BY ONLY <1>1, <2>1, Decrement DEF Decrement
<1>3. TreeOK
  BY ONLY <1>2, ModelIsTree
<1>4. \/ iterator = End /\ steps = Cardinality(model)
      \/ \E j \in model : iterator = It(j, FALSE) /\ steps = Cardinality(Passed(j))
  BY ONLY IteratorInv, <1>2 DEF IteratorInv
<1>5. \E j \in model : iterator' = It(j, FALSE) /\ steps' = Cardinality(Passed(j))
  <2>1. CASE iterator = End /\ steps = Cardinality(model)
    <3>1. i = LastDescendant(<<>>) /\ iterator.atEnd = TRUE
      BY ONLY <1>1, <1>2, <2>1, ItRight DEF End
    <3>2. i \in model /\ LastFrom(i, 0)
      BY ONLY <1>2, <1>3, <3>1, LastIndex
    <3>3. Cardinality(model) = Cardinality(Passed(i)) + 1 /\ Cardinality(Passed(i)) \in Nat
      BY ONLY <1>3, <3>2, LastCount, OneMore
    <3>4. steps' = Cardinality(Passed(i))
      <4>1. PICK c : c = Cardinality(Passed(i))
        OBVIOUS
      <4>2. c \in Nat /\ steps = c + 1 /\ steps' = steps - 1
        BY ONLY <1>2, <2>1, <3>3, <4>1
      <4>3. steps' = c
        BY ONLY <4>2
      <4>. QED BY ONLY <4>1, <4>3
    <3>5. iterator' = It(i, FALSE)
      BY ONLY <1>2, <3>1
    <3>. QED BY ONLY <3>2, <3>4, <3>5
  <2>2. CASE \E j \in model : iterator = It(j, FALSE) /\ steps = Cardinality(Passed(j))
    <3>1. i \in model /\ iterator.atEnd = FALSE /\ steps = Cardinality(Passed(i))
      <4>1. PICK j \in model : iterator = It(j, FALSE) /\ steps = Cardinality(Passed(j))
        BY ONLY <2>2
      <4>2. It(j, FALSE).index = j /\ It(j, FALSE).atEnd = FALSE
        BY ONLY ItRight
      <4>3. i = j
        BY ONLY <1>1, <4>1, <4>2
      <4>. QED BY ONLY <4>1, <4>2, <4>3
    <3>2. PICK s : s = PrevSibling(i)
      OBVIOUS
    <3>3. /\ s = (IF Last(i) > 0 THEN Append(Front(i), Last(i) - 1) ELSE <<>>)
          /\ (Last(i) > 0 => Append(Front(i), Last(i) - 1) \in model)
          /\ ParentOf(i) = Front(i) /\ (Front(i) # <<>> <=> Len(i) > 1)
      BY ONLY <1>3, <3>1, <3>2, SiblingsRight
    <3>4. i \in Seq(Nat) /\ Last(i) \in Nat /\ Append(Front(i), Last(i)) = i
      <4>1. i \in Seq(Nat) /\ i # <<>>
        BY ONLY <1>3, <3>1 DEF TreeOK
      <4>. QED BY ONLY <4>1, FrontAndLast
    <3>5. iterator' = It(IF s = <<>> THEN Front(i) ELSE LastDescendant(s), FALSE)
      BY ONLY <1>2, <3>1, <3>2, <3>3
    <3>6. CASE Last(i) > 0
      <4>1. s \in model /\ s = Append(Front(i), Last(i) - 1)
        BY ONLY <3>3, <3>6
      <4>2. s # <<>>
        BY ONLY <1>3, <4>1 DEF TreeOK
      <4>3. LastDescendant(s) \in model /\ Cardinality(Passed(i)) = Cardinality(Passed(LastDescendant(s))) + 1
        BY ONLY <1>3, <3>1, <3>6, <4>1, LastBelowSibling
      <4>4. Cardinality(Passed(LastDescendant(s))) \in Nat
        BY ONLY <1>3, <4>3, OneMore
      <4>5. steps' = Cardinality(Passed(LastDescendant(s)))
        BY ONLY <1>2, <3>1, <4>3, <4>4
      <4>. QED BY ONLY <3>5, <4>2, <4>3, <4>5
    <3>7. CASE ~(Last(i) > 0)
      <4>1. s = <<>> /\ Last(i) = 0 /\ Front(i) # <<>>
        BY ONLY <1>2, <3>1, <3>3, <3>4, <3>7
      <4>2. Front(i) \in model
        BY ONLY <1>3, <3>1, <3>3, <4>1 DEF TreeOK
      <4>3. Append(Front(i), 0) = i
        BY ONLY <3>4, <4>1
      <4>4. Cardinality(Passed(i)) = Cardinality(Passed(Front(i))) + 1
        <5>1. PICK p : p = Front(i)
          OBVIOUS
        <5>2. Cardinality(Passed(Append(p, 0))) = Cardinality(Passed(p)) + 1
          BY ONLY <1>3, <3>1, <4>2, <4>3, <5>1, ChildCount
        <5>. QED BY ONLY <4>3, <5>1, <5>2
      <4>5. Cardinality(Passed(Front(i))) \in Nat
        BY ONLY <1>3, <4>2, OneMore
      <4>6. steps' = Cardinality(Passed(Front(i)))
        BY ONLY <1>2, <3>1, <4>4, <4>5
      <4>. QED BY ONLY <3>5, <4>1, <4>2, <4>6
    <3>. QED BY ONLY <3>6, <3>7
  <2>. QED BY ONLY <1>4, <2>1, <2>2
<1>6. \A j : Cardinality(Passed(j))' = Cardinality(Passed(j))
  BY ONLY <1>2, SameModel
<1>7. \A j : It(j, FALSE)' = It(j, FALSE)
  BY DEF It
<1>8. \E j \in model' : iterator' = It(j, FALSE)' /\ steps' = Cardinality(Passed(j))'
  BY ONLY <1>2, <1>5, <1>6, <1>7
<1>. QED BY <1>2, <1>8 DEF IteratorInv

\* Where a flat iterator is.
LEMMA FlatPlace ==
  ASSUME IteratorInv, kind = "flat"
  PROVE  /\ TreeOK /\ RowCount(<<>>) \in Nat
         /\ iterator.atEnd \in BOOLEAN
         /\ ~iterator.atEnd => /\ steps \in Nat /\ steps < RowCount(<<>>) /\ iterator = It(TopRow(steps), FALSE)
                               /\ iterator.index = TopRow(steps) /\ Last(iterator.index) = steps
                               /\ ParentOf(iterator.index) = <<>>
         /\ iterator.atEnd => /\ iterator = End /\ steps = RowCount(<<>>)
                              /\ iterator.index # <<>> => /\ RowCount(<<>>) > 0
                                                          /\ iterator.index = TopRow(RowCount(<<>>) - 1)
                                                          /\ Last(iterator.index) = RowCount(<<>>) - 1
                                                          /\ ParentOf(iterator.index) = <<>>
         /\ RowCount(<<>>) > 0 => End = It(TopRow(RowCount(<<>>) - 1), TRUE)
         /\ RowCount(<<>>) = 0 => End = It(<<>>, TRUE)
<1>1. model \in Models
  BY ONLY IteratorInv DEF IteratorInv
<1>2. TreeOK
  BY ONLY <1>1, ModelIsTree
<1>3. PICK n : n = RowCount(<<>>)
  OBVIOUS
<1>4. /\ n \in Nat /\ \A r \in Nat : r < n => Index(r, <<>>) = TopRow(r)
      /\ \A r \in Nat : ParentOf(TopRow(r)) = <<>> /\ Last(TopRow(r)) = r
      /\ n = 0 => \A r : Index(r, <<>>) = <<>>
  BY ONLY <1>2, <1>3, TopRows
<1>5. /\ n > 0 => End = It(TopRow(n - 1), TRUE)
      /\ n = 0 => End = It(<<>>, TRUE)
  <2>1. End = It(Index(n - 1, <<>>), TRUE)
    BY ONLY <1>3, kind = "flat" DEF End
  <2>2. n > 0 => n - 1 \in Nat /\ n - 1 < n
    BY ONLY <1>4
  <2>. QED BY ONLY <1>4, <2>1, <2>2
<1>6. \/ iterator = End /\ steps = n
      \/ steps \in Nat /\ steps < n /\ iterator = It(TopRow(steps), FALSE)
  BY ONLY <1>3, IteratorInv, kind = "flat" DEF IteratorInv
<1>7. CASE iterator = End /\ steps = n
  <2>1. iterator.atEnd = TRUE
    BY ONLY <1>7, ItRight DEF End
  <2>2. CASE n = 0
    <3>1. iterator.index = <<>>
      <4>1. iterator = It(<<>>, TRUE)
        BY ONLY <1>5, <1>7, <2>2
      <4>. QED BY ONLY <4>1, ItRight
    <3>. QED BY ONLY <1>2, <1>3, <1>4, <1>5, <1>7, <2>1, <2>2, <3>1
  <2>3. CASE n # 0
    <3>1. n > 0 /\ n - 1 \in Nat
      BY ONLY <1>4, <2>3
    <3>2. iterator.index = TopRow(n - 1)
      <4>1. iterator = It(TopRow(n - 1), TRUE)
        BY ONLY <1>5, <1>7, <3>1
      <4>. QED BY ONLY <4>1, ItRight
    <3>3. Last(iterator.index) = n - 1 /\ ParentOf(iterator.index) = <<>>
      BY ONLY <1>4, <3>1, <3>2
    <3>. QED BY ONLY <1>2, <1>3, <1>4, <1>5, <1>7, <2>1, <2>3, <3>1, <3>2, <3>3
  <2>. QED BY ONLY <2>2, <2>3
<1>8. CASE steps \in Nat /\ steps < n /\ iterator = It(TopRow(steps), FALSE)
  <2>1. iterator.atEnd = FALSE /\ iterator.index = TopRow(steps)
    BY ONLY <1>8, ItRight
  <2>2. Last(iterator.index) = steps /\ ParentOf(iterator.index) = <<>>
    BY ONLY <1>4, <1>8, <2>1
  <2>. QED BY ONLY <1>2, <1>3, <1>4, <1>5, <1>8, <2>1, <2>2
<1>. QED BY ONLY <1>6, <1>7, <1>8

\* What is left to show of a step of a flat iterator.
LEMMA FlatStep ==
  ASSUME IteratorInv, kind = "flat", kind' = kind, model' = model,
         \/ iterator' = End /\ steps' = RowCount(<<>>)
         \/ steps' \in Nat /\ steps' < RowCount(<<>>) /\ iterator' = It(TopRow(steps'), FALSE)
  PROVE  IteratorInv'
<1>1. End' = End /\ RowCount(<<>>)' = RowCount(<<>>)
  BY ONLY kind' = kind, model' = model, SameModel
<1>2. It(TopRow(steps), FALSE)' = It(TopRow(steps'), FALSE)
  BY DEF It, TopRow
<1>3. model \in Models
  BY ONLY IteratorInv DEF IteratorInv
<1>. QED BY <1>1, <1>2, <1>3 DEF IteratorInv

\* operator+=
LEMMA AdvanceKeeps ==
  ASSUME IteratorInv, NEW step \in 0 .. RowCount(<<>>), Advance(step)
  PROVE  IteratorInv'
<1>1. PICK n, row : n = RowCount(<<>>) /\ row = Last(iterator.index) + step
  OBVIOUS
<1>2. /\ kind = "flat" /\ ~iterator.atEnd /\ row <= RowCount(ParentOf(iterator.index))
      /\ iterator' = IF row < RowCount(ParentOf(iterator.index)) THEN It(Index(row, ParentOf(iterator.index)), iterator.atEnd)
                     ELSE It(Index(row - 1, ParentOf(iterator.index)), TRUE)
      /\ steps' = steps + step /\ model' = model /\ kind' = kind
  BY ONLY <1>1, Advance(step) DEF Advance
<1>3. /\ TreeOK /\ n \in Nat /\ iterator.atEnd \in BOOLEAN
      /\ steps \in Nat /\ Last(iterator.index) = steps /\ ParentOf(iterator.index) = <<>>
      /\ n > 0 => End = It(TopRow(n - 1), TRUE)
      /\ n = 0 => End = It(<<>>, TRUE)
  BY ONLY <1>1, <1>2, IteratorInv, FlatPlace
<1>4. step \in Nat /\ row = steps + step /\ row \in Nat /\ row <= n
  BY ONLY <1>1, <1>2, <1>3, step \in 0 .. RowCount(<<>>)
<1>5. /\ \A r \in Nat : r < n => Index(r, <<>>) = TopRow(r)
      /\ n = 0 => \A r : Index(r, <<>>) = <<>>
  BY ONLY <1>1, <1>3, TopRows
<1>6. iterator.atEnd = FALSE
  BY ONLY <1>2, <1>3
<1>7. iterator' = IF row < n THEN It(Index(row, <<>>), FALSE) ELSE It(Index(row - 1, <<>>), TRUE)
  BY ONLY <1>1, <1>2, <1>3, <1>6
<1>8. CASE row < n
  <2>1. steps' \in Nat /\ steps' < RowCount(<<>>) /\ iterator' = It(TopRow(steps'), FALSE)
    BY ONLY <1>1, <1>2, <1>4, <1>5, <1>7, <1>8
  <2>. QED BY ONLY <1>2, <2>1, IteratorInv, FlatStep
<1>9. CASE ~(row < n)
  <2>1. row = n /\ steps' = n
    BY ONLY <1>2, <1>3, <1>4, <1>9
  <2>2. iterator' = End
    <3>1. CASE n = 0
      BY ONLY <1>3, <1>5, <1>7, <1>9, <3>1
    <3>2. CASE n # 0
      <4>1. n > 0 /\ n - 1 \in Nat /\ n - 1 < n
        BY ONLY <1>3, <3>2
      <4>. QED BY ONLY <1>3, <1>5, <1>7, <1>9, <2>1, <4>1
    <3>. QED BY ONLY <3>1, <3>2
  <2>3. iterator' = End /\ steps' = RowCount(<<>>)
    BY ONLY <1>1, <2>1, <2>2
  <2>. QED BY ONLY <1>2, <2>3, IteratorInv, FlatStep
<1>. QED BY ONLY <1>8, <1>9

\* operator-=
LEMMA GoBackKeeps ==
  ASSUME IteratorInv, NEW step \in 1 .. RowCount(<<>>), GoBack(step)
  PROVE  IteratorInv'
<1>1. PICK n, row : n = RowCount(<<>>) /\ row = Last(iterator.index) - (IF iterator.atEnd THEN step - 1 ELSE step)
  OBVIOUS
<1>2. /\ kind = "flat" /\ iterator.index # <<>> /\ row >= 0
      /\ iterator' = It(Index(row, ParentOf(iterator.index)), FALSE)
      /\ steps' = steps - step /\ model' = model /\ kind' = kind
  BY ONLY <1>1, GoBack(step) DEF GoBack
<1>3. /\ TreeOK /\ n \in Nat /\ iterator.atEnd \in BOOLEAN
      /\ ~iterator.atEnd => steps \in Nat /\ steps < n /\ Last(iterator.index) = steps /\ ParentOf(iterator.index) = <<>>
      /\ iterator.atEnd => steps = n /\ n > 0 /\ Last(iterator.index) = n - 1 /\ ParentOf(iterator.index) = <<>>
  BY ONLY <1>1, <1>2, IteratorInv, FlatPlace
<1>4. step \in Nat /\ step >= 1 /\ ParentOf(iterator.index) = <<>>
  BY ONLY <1>1, <1>3, step \in 1 .. RowCount(<<>>)
<1>5. row = steps - step /\ row \in Nat /\ row < n
  <2>1. CASE iterator.atEnd
    <3>1. row = n - 1 - (step - 1) /\ steps = n
      BY ONLY <1>1, <1>3, <2>1
    <3>. QED BY ONLY <1>2, <1>3, <1>4, <3>1
  <2>2. CASE ~iterator.atEnd
    <3>1. row = steps - step /\ steps \in Nat /\ steps < n
      BY ONLY <1>1, <1>3, <2>2
    <3>. QED BY ONLY <1>2, <1>3, <1>4, <3>1
  <2>. QED BY ONLY <2>1, <2>2
<1>6. Index(row, <<>>) = TopRow(row)
  BY ONLY <1>1, <1>3, <1>5, TopRows
<1>7. steps' \in Nat /\ steps' < RowCount(<<>>) /\ iterator' = It(TopRow(steps'), FALSE)
  BY ONLY <1>1, <1>2, <1>4, <1>5, <1>6
<1>. QED BY ONLY <1>2, <1>7, IteratorInv, FlatStep

\* No operation leaves the invariant.
LEMMA IteratorSteps ==
  ASSUME IteratorInv, [IteratorNext]_iteratorVars
  PROVE  IteratorInv'
<1>1. CASE Increment
  BY ONLY <1>1, IteratorInv, IncrementKeeps
<1>2. CASE Decrement
  BY ONLY <1>2, IteratorInv, DecrementKeeps
<1>3. ASSUME NEW step \in 0 .. RowCount(<<>>), Advance(step) PROVE IteratorInv'
  BY ONLY <1>3, IteratorInv, AdvanceKeeps
<1>4. ASSUME NEW step \in 1 .. RowCount(<<>>), GoBack(step) PROVE IteratorInv'
  BY ONLY <1>4, IteratorInv, GoBackKeeps
<1>5. CASE UNCHANGED iteratorVars
  <2>1. model' = model /\ kind' = kind /\ iterator' = iterator /\ steps' = steps
    BY ONLY <1>5 DEF iteratorVars
  <2>2. /\ End' = End /\ RowCount(<<>>)' = RowCount(<<>>)
        /\ \A j : Cardinality(Passed(j))' = Cardinality(Passed(j))
    BY ONLY <2>1, SameModel
  <2>3. (\A j : It(j, FALSE)' = It(j, FALSE)) /\ It(TopRow(steps), FALSE)' = It(TopRow(steps), FALSE)
    BY <2>1 DEF It, TopRow
  <2>4. CASE kind = "depthFirst"
    <3>1. \/ iterator' = End' /\ steps' = Cardinality(model)'
          \/ \E j \in model' : iterator' = It(j, FALSE)' /\ steps' = Cardinality(Passed(j))'
      <4>1. \/ iterator = End /\ steps = Cardinality(model)
            \/ \E j \in model : iterator = It(j, FALSE) /\ steps = Cardinality(Passed(j))
        BY ONLY IteratorInv, <2>4 DEF IteratorInv
      <4>. QED BY ONLY <2>1, <2>2, <2>3, <4>1
    <3>2. model \in Models
      BY ONLY IteratorInv DEF IteratorInv
    <3>. QED BY <2>1, <2>4, <3>1, <3>2 DEF IteratorInv
  <2>5. CASE kind = "flat"
    <3>1. \/ iterator = End /\ steps = RowCount(<<>>)
          \/ steps \in Nat /\ steps < RowCount(<<>>) /\ iterator = It(TopRow(steps), FALSE)
      BY ONLY IteratorInv, <2>5 DEF IteratorInv
    <3>2. \/ iterator' = End /\ steps' = RowCount(<<>>)
          \/ steps' \in Nat /\ steps' < RowCount(<<>>) /\ iterator' = It(TopRow(steps'), FALSE)
      BY ONLY <2>1, <3>1
    <3>. QED BY ONLY <2>1, <2>5, <3>2, IteratorInv, FlatStep
  <2>. QED BY ONLY <2>4, <2>5, IteratorInv DEF IteratorInv
<1>. QED BY ONLY <1>1, <1>2, <1>3, <1>4, <1>5, [IteratorNext]_iteratorVars DEF IteratorNext

\* The invariant says where the iterator is, ...
LEMMA PlaceInOrder ==
  ASSUME IteratorInv
  PROVE  StepsInOrder
<1>1. model \in Models /\ kind \in {"depthFirst", "flat"}
  BY ONLY IteratorInv DEF IteratorInv
<1>2. TreeOK
  BY ONLY <1>1, ModelIsTree
<1>3. CASE kind = "depthFirst"
  <2>1. Visited = model
    BY ONLY <1>3 DEF Visited
  <2>2. \/ iterator = End /\ steps = Cardinality(model)
        \/ \E j \in model : iterator = It(j, FALSE) /\ steps = Cardinality(Passed(j))
    BY ONLY IteratorInv, <1>3 DEF IteratorInv
  <2>3. CASE iterator = End /\ steps = Cardinality(model)
    BY ONLY <1>3, <2>1, <2>3 DEF StepsInOrder
  <2>4. CASE \E j \in model : iterator = It(j, FALSE) /\ steps = Cardinality(Passed(j))
    <3>1. PICK j \in model : iterator = It(j, FALSE) /\ steps = Cardinality(Passed(j))
      BY ONLY <2>4
    <3>2. iterator.index = j /\ iterator.atEnd = FALSE
      BY ONLY <3>1, ItRight
    <3>3. Cardinality(Passed(j)) \in Nat /\ Cardinality(model) \in Nat /\ Cardinality(Passed(j)) < Cardinality(model)
      BY ONLY <1>2, j \in model, OneMore
    <3>4. steps # Cardinality(Visited)
      BY ONLY <2>1, <3>1, <3>3
    <3>5. {i \in Visited : Precedes(i, iterator.index)} = Passed(j)
      BY ONLY <2>1, <3>2 DEF Passed
    <3>. QED BY ONLY <1>3, <2>1, <3>1, <3>2, <3>4, <3>5 DEF StepsInOrder
  <2>. QED BY ONLY <2>2, <2>3, <2>4
<1>4. CASE kind = "flat"
  <2>1. PICK n, tops : n = RowCount(<<>>) /\ tops = {i \in model : Len(i) = 1}
    OBVIOUS
  <2>2. Visited = tops
    BY ONLY <1>4, <2>1 DEF Visited
  <2>3. /\ Cardinality(tops) = n
        /\ \A s \in Nat : s < n => Cardinality({i \in tops : Precedes(i, TopRow(s))}) = s
    BY ONLY <1>2, <2>1, TopCounts
  <2>4. /\ n \in Nat /\ \A r \in Nat : r < n => Index(r, <<>>) = TopRow(r) /\ TopRow(r) \in model
        /\ \A r \in Nat : TopRow(r) # <<>> /\ Last(TopRow(r)) = r /\ Len(TopRow(r)) = 1
        /\ n = 0 => \A r : Index(r, <<>>) = <<>>
    BY ONLY <1>2, <2>1, TopRows
  <2>5. /\ n > 0 => End = It(TopRow(n - 1), TRUE)
        /\ n = 0 => End = It(<<>>, TRUE)
    BY ONLY <1>4, <2>1, IteratorInv, FlatPlace
  <2>6. ASSUME NEW r \in Nat PROVE Row(It(TopRow(r), FALSE)) = r /\ Row(It(TopRow(r), TRUE)) = r + 1
    <3>1. PICK t, u : t = It(TopRow(r), FALSE) /\ u = It(TopRow(r), TRUE)
      OBVIOUS
    <3>2. t.index = TopRow(r) /\ t.atEnd = FALSE /\ u.index = TopRow(r) /\ u.atEnd = TRUE
      BY ONLY <3>1, ItRight
    <3>3. TopRow(r) # <<>> /\ Last(TopRow(r)) = r
      BY ONLY <2>4, r \in Nat
    <3>4. Row(t) = r + 0 /\ Row(u) = r + 1
      BY ONLY <3>2, <3>3 DEF Row
    <3>5. r + 0 = r
      BY ONLY r \in Nat
    <3>6. Row(t) = r
      BY ONLY <3>4, <3>5
    <3>. QED BY ONLY <3>1, <3>4, <3>6, Zenon
  <2>7. Row(It(<<>>, TRUE)) = 0
    <3>1. PICK t : t = It(<<>>, TRUE)
      OBVIOUS
    <3>2. t.index = <<>> /\ t.atEnd = TRUE
      BY ONLY <3>1, ItRight
    <3>3. Row(t) = -1 + 1
      BY ONLY <3>2 DEF Row
    <3>4. -1 + 1 = 0
      OBVIOUS
    <3>5. Row(t) = 0
      BY ONLY <3>3, <3>4
    <3>. QED BY ONLY <3>1, <3>5, Zenon
  <2>8. Row(Begin) = 0 /\ Row(End) = n
    <3>1. CASE n = 0
      <4>1. Index(0, <<>>) = <<>>
        BY ONLY <2>4, <3>1
      <4>2. (Index(0, <<>>) = <<>>) = TRUE
        BY ONLY <4>1
      <4>3. Begin = It(<<>>, TRUE)
        BY ONLY <4>1, <4>2 DEF Begin
      <4>. QED BY ONLY <2>5, <2>7, <3>1, <4>3
    <3>2. CASE n # 0
      <4>1. n > 0 /\ 0 \in Nat /\ 0 < n /\ n - 1 \in Nat /\ n - 1 + 1 = n
        BY ONLY <2>4, <3>2
      <4>2. Index(0, <<>>) = TopRow(0) /\ TopRow(0) # <<>>
        BY ONLY <2>4, <4>1
      <4>3. (Index(0, <<>>) = <<>>) = FALSE
        BY ONLY <4>2
      <4>4. Begin = It(TopRow(0), FALSE)
        BY ONLY <4>2, <4>3 DEF Begin
      <4>5. Row(It(TopRow(n - 1), TRUE)) = n - 1 + 1
        BY ONLY <2>6, <4>1
      <4>. QED BY ONLY <2>5, <2>6, <4>1, <4>4, <4>5
    <3>. QED BY ONLY <3>1, <3>2
  <2>9. \/ iterator = End /\ steps = n
        \/ steps \in Nat /\ steps < n /\ iterator = It(TopRow(steps), FALSE)
    BY ONLY <1>4, <2>1, IteratorInv DEF IteratorInv
  <2>10. CASE iterator = End /\ steps = n
    <3>1. Row(iterator) - Row(Begin) = steps /\ Row(End) - Row(iterator) = Cardinality(Visited) - steps
      BY ONLY <2>2, <2>3, <2>4, <2>8, <2>10
    <3>. QED BY ONLY <2>2, <2>3, <2>10, <3>1 DEF StepsInOrder
  <2>11. CASE steps \in Nat /\ steps < n /\ iterator = It(TopRow(steps), FALSE)
    <3>1. iterator.index = TopRow(steps) /\ iterator.atEnd = FALSE /\ Row(iterator) = steps
      BY ONLY <2>6, <2>11, ItRight
    <3>2. Row(iterator) - Row(Begin) = steps /\ Row(End) - Row(iterator) = Cardinality(Visited) - steps
      <4>1. PICK a, b, c, d : a = Row(iterator) /\ b = Row(Begin) /\ c = Row(End) /\ d = Cardinality(Visited)
        OBVIOUS
      <4>2. a = steps /\ b = 0 /\ c = n /\ d = n
        BY ONLY <2>2, <2>3, <2>8, <3>1, <4>1
      <4>3. a - b = steps /\ c - a = d - steps
        BY ONLY <2>4, <2>11, <4>2
      <4>. QED BY ONLY <4>1, <4>3
    <3>3. TopRow(steps) \in tops
      BY ONLY <2>1, <2>4, <2>11
    <3>4. Cardinality({i \in tops : Precedes(i, TopRow(steps))}) = steps
      BY ONLY <2>3, <2>11
    <3>5. steps # Cardinality(Visited)
      BY ONLY <2>2, <2>3, <2>4, <2>11
    <3>. QED BY ONLY <2>2, <3>1, <3>2, <3>3, <3>4, <3>5 DEF StepsInOrder
  <2>. QED BY ONLY <2>9, <2>10, <2>11
<1>. QED BY ONLY <1>1, <1>3, <1>4

\* Over every tree, an iterator that has gone so many steps is at the index that has so
\* many in front of it.
THEOREM IteratorStepsInOrder == IteratorSpec => []StepsInOrder
<1>1. IteratorInit => IteratorInv
  BY IteratorStarts
<1>2. IteratorInv /\ [IteratorNext]_iteratorVars => IteratorInv'
  BY IteratorSteps
<1>3. IteratorInv => StepsInOrder
  BY PlaceInOrder
<1>. QED BY <1>1, <1>2, <1>3, PTL DEF IteratorSpec

-----------------------------------------------------------------------------
(* StringTokenizer *)

\* The haystack and the needle are texts.
Characters == DOMAIN Fold

TextOK ==
  /\ haystack \in Seq(Characters) /\ needle \in Seq(Characters)
  /\ skipEmpty \in BOOLEAN

\* Where the needle is in the haystack, from a place on.
FoundAt(from) ==
  {i \in from .. Len(haystack) - Len(needle) + 1 : Same(SubSeq(haystack, i, i + Len(needle) - 1), needle)}

\* A part is a string.
LEMMA OnePartRight ==
  ASSUME TextOK, NEW s \in Seq(Characters)
  PROVE  OnePart(s) \in Seq(Seq(Characters))
<1>1. PICK T : T = Seq(Characters)
  OBVIOUS
<1>2. <<s>> \in Seq(T) /\ <<>> \in Seq(T)
  BY <1>1
<1>. QED BY ONLY <1>1, <1>2 DEF OnePart

\* A part of the haystack.
LEMMA TextRight ==
  ASSUME TextOK, NEW a \in 1 .. Len(haystack) + 1, NEW b \in a - 1 .. Len(haystack)
  PROVE  SubSeq(haystack, a, b) \in Seq(Characters) /\ Len(SubSeq(haystack, a, b)) = b - a + 1
BY PartOfRows DEF TextOK

\* What indexOf() returns.
LEMMA FindNeedleRight ==
  ASSUME TextOK, NEW start \in Nat
  PROVE  \/ FoundAt(start + 1) = {} /\ FindNeedle(start) = -1
         \/ /\ FoundAt(start + 1) # {} /\ FindNeedle(start) + 1 = Min(FoundAt(start + 1))
            /\ FindNeedle(start) \in start .. Len(haystack) - Len(needle)
<1>1. PICK l, n : l = Len(haystack) /\ n = Len(needle)
  OBVIOUS
<1>2. l \in Nat /\ n \in Nat
  BY <1>1, LenProperties DEF TextOK
<1>3. PICK found : found = {i \in start .. l - n : Same(SubSeq(haystack, i + 1, i + n), needle)}
  OBVIOUS
<1>4. PICK at : at = {i \in start + 1 .. l - n + 1 : Same(SubSeq(haystack, i, i + n - 1), needle)}
  OBVIOUS
<1>5. FindNeedle(start) = (IF found = {} THEN -1 ELSE Min(found)) /\ FoundAt(start + 1) = at
  BY <1>1, <1>3, <1>4 DEF FindNeedle, FoundAt
<1>6. ASSUME NEW i \in found PROVE i + 1 \in at
  <2>1. i \in start .. l - n /\ Same(SubSeq(haystack, i + 1, i + n), needle)
    BY <1>3
  <2>2. PICK j : j = i + 1
    OBVIOUS
  <2>3. j \in start + 1 .. l - n + 1 /\ j + n - 1 = i + n
    BY ONLY <1>2, <2>1, <2>2, start \in Nat
  <2>. QED BY ONLY <1>4, <2>1, <2>2, <2>3
<1>7. ASSUME NEW i \in at PROVE i - 1 \in found
  <2>1. i \in start + 1 .. l - n + 1 /\ Same(SubSeq(haystack, i, i + n - 1), needle)
    BY <1>4
  <2>2. PICK j : j = i - 1
    OBVIOUS
  <2>3. j \in start .. l - n /\ j + 1 = i /\ j + n = i + n - 1
    BY ONLY <1>2, <2>1, <2>2, start \in Nat
  <2>. QED BY ONLY <1>3, <2>1, <2>2, <2>3
<1>8. CASE found = {}
  <2>1. at = {}
    BY <1>7, <1>8
  <2>. QED BY ONLY <1>5, <1>8, <2>1
<1>9. CASE found # {}
  <2>1. found \in SUBSET Nat
    BY ONLY <1>2, <1>3, start \in Nat
  <2>2. PICK m : m = Min(found)
    OBVIOUS
  <2>3. m \in found /\ \A i \in found : m <= i
    BY ONLY <1>9, <2>1, <2>2, MinRight
  <2>4. PICK k : k = m + 1
    OBVIOUS
  <2>5. k \in at
    BY <1>6, <2>3, <2>4
  <2>6. at \in SUBSET Int
    BY ONLY <1>2, <1>4, start \in Nat
  <2>7. ASSUME NEW i \in at PROVE k <= i
    <3>1. m <= i - 1
      BY <1>7, <2>3
    <3>. QED BY ONLY <2>1, <2>3, <2>4, <2>6, <3>1, i \in at
  <2>8. Min(at) = k
    BY ONLY <2>5, <2>6, <2>7, LeastIs
  <2>9. m \in start .. l - n
    BY ONLY <1>3, <2>3
  <2>. QED BY ONLY <1>1, <1>5, <1>9, <2>2, <2>4, <2>5, <2>8, <2>9
<1>. QED BY <1>8, <1>9

\* The parts from a place on, by what f says of the places behind it.
SplitOf(f, from) ==
  IF FoundAt(from) = {} THEN OnePart(SubSeq(haystack, from, Len(haystack)))
  ELSE OnePart(SubSeq(haystack, from, Min(FoundAt(from)) - 1)) \o f[Min(FoundAt(from)) + Len(needle)]

\* The place behind the needle.
LEMMA BehindNeedle ==
  ASSUME TextOK, needle # <<>>, NEW from \in 1 .. Len(haystack) + 1, FoundAt(from) # {}
  PROVE  /\ Min(FoundAt(from)) \in from .. Len(haystack)
         /\ Min(FoundAt(from)) + Len(needle) \in from + 1 .. Len(haystack) + 1
<1>1. PICK l, n : l = Len(haystack) /\ n = Len(needle)
  OBVIOUS
<1>2. l \in Nat /\ n \in Nat /\ n >= 1
  <2>1. haystack \in Seq(Characters) /\ needle \in Seq(Characters)
    BY DEF TextOK
  <2>. QED BY ONLY <1>1, <2>1, needle # <<>>, LenProperties, EmptySeq
<1>3. PICK at : at = FoundAt(from)
  OBVIOUS
<1>4. at \subseteq from .. l - n + 1
  BY <1>1, <1>3 DEF FoundAt
<1>5. at \in SUBSET Nat
  BY ONLY <1>1, <1>2, <1>4, from \in 1 .. Len(haystack) + 1
<1>6. PICK m : m = Min(at)
  OBVIOUS
<1>7. m \in at
  BY <1>3, <1>5, <1>6, MinRight
<1>8. m \in from .. l /\ m + n \in from + 1 .. l + 1
  BY ONLY <1>1, <1>2, <1>4, <1>7, from \in 1 .. Len(haystack) + 1
<1>. QED BY ONLY <1>1, <1>3, <1>6, <1>8

\* There is a function of the parts ...
LEMMA SplitExists ==
  ASSUME TextOK, needle # <<>>
  PROVE  \E f : f = [from \in 1 .. Len(haystack) + 1 |-> SplitOf(f, from)]
<1>1. PICK l : l = Len(haystack)
  OBVIOUS
<1>2. l \in Nat
  BY <1>1, LenProperties DEF TextOK
<1> DEFINE Splits(f, k) == f = [from \in l + 1 - k .. l + 1 |-> SplitOf(f, from)]
           missing == {k \in 0 .. l : ~\E f : Splits(f, k)}
<1>3. ASSUME missing # {} PROVE FALSE
  <2>1. PICK k \in missing : \A m \in missing : k <= m
    <3>1. missing \in SUBSET Nat
      BY <1>2
    <3> HIDE DEF missing
    <3>. QED BY ONLY <1>3, <3>1, LeastNumber
  <2>2. k \in 0 .. l
    OBVIOUS
  <2>3. PICK f : k # 0 => Splits(f, k - 1)
    <3>1. k # 0 => k - 1 \in 0 .. l /\ ~(k <= k - 1)
      BY ONLY <1>2, <2>2
    <3>. QED BY <2>1, <3>1
  <2>4. PICK b : b = l + 1 - k
    OBVIOUS
  <2>5. b \in 1 .. l + 1 /\ b \in Nat
    BY ONLY <1>2, <2>2, <2>4
  <2>6. PICK g : g = [from \in b .. l + 1 |-> IF from = b THEN SplitOf(f, b) ELSE f[from]]
    OBVIOUS
  <2>7. ASSUME NEW from \in b .. l + 1 PROVE g[from] = SplitOf(g, from)
    <3>1. from \in 1 .. l + 1
      BY ONLY <1>2, <2>5, from \in b .. l + 1
    <3>2. SplitOf(g, from) = SplitOf(f, from)
      <4>1. ASSUME FoundAt(from) # {}
            PROVE  g[Min(FoundAt(from)) + Len(needle)] = f[Min(FoundAt(from)) + Len(needle)]
        <5>1. PICK j : j = Min(FoundAt(from)) + Len(needle)
          OBVIOUS
        <5>2. j \in from + 1 .. l + 1
          BY <1>1, <3>1, <4>1, <5>1, BehindNeedle
        <5>3. j \in b .. l + 1 /\ j # b
          BY ONLY <1>2, <2>5, <5>2, from \in b .. l + 1
        <5>. QED BY <2>6, <5>1, <5>3
      <4>. QED BY ONLY <4>1 DEF SplitOf
    <3>3. CASE from = b
      BY <2>6, <3>2, <3>3
    <3>4. CASE from # b
      <4>1. k # 0 /\ from \in l + 1 - (k - 1) .. l + 1
        BY ONLY <1>2, <2>2, <2>4, <2>5, <3>4, from \in b .. l + 1
      <4>2. f[from] = SplitOf(f, from)
        BY <2>3, <4>1
      <4>. QED BY <2>6, <3>2, <3>4, <4>2
    <3>. QED BY <3>3, <3>4
  <2>8. Splits(g, k)
    BY ONLY <2>4, <2>6, <2>7
  <2>. QED BY <2>8
<1>4. \E f : Splits(f, l)
  <2>1. l \in 0 .. l
    BY <1>2
  <2>2. ~(l \in missing)
    BY <1>3
  <2>. QED BY <2>1, <2>2
<1>5. l + 1 - l = 1
  BY <1>2
<1>. QED BY ONLY <1>1, <1>4, <1>5

\* ... and it is what they are.
LEMMA SplitRight ==
  ASSUME TextOK, needle # <<>>, NEW from \in 1 .. Len(haystack) + 1
  PROVE  Split[from] = SplitOf(Split, from) /\ Split[from] \in Seq(Seq(Characters))
<1>1. PICK f : f = [k \in 1 .. Len(haystack) + 1 |-> SplitOf(f, k)]
  BY SplitExists
<1>2. Split = CHOOSE f_1 : f_1 = [k \in 1 .. Len(haystack) + 1 |-> SplitOf(f_1, k)]
  BY Zenon DEF Split, SplitOf, FoundAt
<1>3. Split = [k \in 1 .. Len(haystack) + 1 |-> SplitOf(Split, k)]
  BY ONLY <1>1, <1>2, Zenon
<1>4. PICK l : l = Len(haystack)
  OBVIOUS
<1>5. l \in Nat
  BY <1>4, LenProperties DEF TextOK
<1>6. \A k \in 1 .. l + 1 : Split[k] = SplitOf(Split, k)
  BY ONLY <1>3, <1>4
<1>7. PICK bad : bad = {k \in 0 .. l : Split[l + 1 - k] \notin Seq(Seq(Characters))}
  OBVIOUS
<1>8. ASSUME bad # {} PROVE FALSE
  <2>1. bad \in SUBSET Nat
    BY ONLY <1>5, <1>7
  <2>2. PICK k \in bad : \A m \in bad : k <= m
    BY ONLY <1>8, <2>1, LeastNumber
  <2>3. PICK b : b = l + 1 - k
    OBVIOUS
  <2>4. k \in 0 .. l /\ b \in 1 .. l + 1 /\ Split[b] \notin Seq(Seq(Characters))
    BY ONLY <1>5, <1>7, <2>2, <2>3
  <2>5. ASSUME NEW j \in b + 1 .. l + 1 PROVE Split[j] \in Seq(Seq(Characters))
    <3>1. PICK i : i = l + 1 - j
      OBVIOUS
    <3>2. i \in 0 .. l /\ l + 1 - i = j /\ ~(k <= i)
      BY ONLY <1>5, <2>3, <2>4, <3>1, j \in b + 1 .. l + 1
    <3>. QED BY ONLY <1>7, <2>2, <3>2
  <2>6. CASE FoundAt(b) = {}
    <3>1. SubSeq(haystack, b, l) \in Seq(Characters)
      <4>1. l \in b - 1 .. l
        BY ONLY <1>5, <2>4
      <4>. QED BY <1>4, <2>4, <4>1, TextRight
    <3>2. OnePart(SubSeq(haystack, b, l)) \in Seq(Seq(Characters))
      BY <3>1, OnePartRight
    <3>. QED BY <1>4, <1>6, <2>4, <2>6, <3>2 DEF SplitOf
  <2>7. CASE FoundAt(b) # {}
    <3>1. PICK m, j : m = Min(FoundAt(b)) /\ j = Min(FoundAt(b)) + Len(needle)
      OBVIOUS
    <3>2. m \in b .. l /\ j \in b + 1 .. l + 1
      BY <1>4, <2>4, <2>7, <3>1, BehindNeedle
    <3>3. SubSeq(haystack, b, m - 1) \in Seq(Characters)
      <4>1. m - 1 \in b - 1 .. l
        BY ONLY <1>5, <2>4, <3>2
      <4>. QED BY <1>4, <2>4, <4>1, TextRight
    <3>4. PICK p, q : p = OnePart(SubSeq(haystack, b, m - 1)) /\ q = Split[j]
      OBVIOUS
    <3>5. p \in Seq(Seq(Characters)) /\ q \in Seq(Seq(Characters))
      BY <2>5, <3>2, <3>3, <3>4, OnePartRight
    <3>6. p \o q \in Seq(Seq(Characters))
      BY ONLY <3>5, ConcatProperties
    <3>7. Split[b] = p \o q
      BY <1>6, <2>4, <2>7, <3>1, <3>4 DEF SplitOf
    <3>. QED BY ONLY <2>4, <3>6, <3>7
  <2>. QED BY <2>6, <2>7
<1>9. PICK i : i = l + 1 - from
  OBVIOUS
<1>10. i \in 0 .. l /\ l + 1 - i = from
  BY ONLY <1>4, <1>5, <1>9, from \in 1 .. Len(haystack) + 1
<1>11. Split[from] \in Seq(Seq(Characters))
  BY ONLY <1>7, <1>8, <1>10
<1>. QED BY <1>4, <1>6, <1>11

\* The characters behind a place, each as a string.
Letters(k) == [i \in 1 .. Len(haystack) - k |-> <<haystack[k + i]>>]

\* The parts that are still to come.
PartsLeft(s) ==
  IF s.end < 0 THEN <<>>
  ELSE IF needle # <<>> THEN Split[s.start + 1]
  ELSE IF s.extra = 0 THEN Parts
  ELSE Letters(s.start) \o OnePart(<<>>)

\* Where the tokenizer may be: only an empty needle makes it look one further, and only
\* after the first turn.
States == [start : 0 .. Len(haystack), end : Int, extra : {0, 1}]

StateOK(s) ==
  /\ s \in States
  /\ needle # <<>> => s.extra = 0
  /\ needle = <<>> /\ s.end >= 0 /\ s.extra = 0 => s.start = 0

\* How many turns there can still be.
TurnsLeft(s) == IF s.end < 0 THEN 0 ELSE Len(haystack) + 2 - s.start - s.extra

\* The letters of a string are strings, the first of them and the others.
LEMMA LettersRight ==
  ASSUME TextOK, NEW k \in 0 .. Len(haystack)
  PROVE  /\ Letters(k) \in Seq(Seq(Characters))
         /\ k = Len(haystack) => Letters(k) = <<>>
         /\ k < Len(haystack) =>
              /\ SubSeq(haystack, k + 1, k + 1) # <<>>
              /\ Letters(k) = <<SubSeq(haystack, k + 1, k + 1)>> \o Letters(k + 1)
<1>1. PICK l : l = Len(haystack)
  OBVIOUS
<1>2. l \in Nat /\ \A i \in 1 .. l : haystack[i] \in Characters
  BY <1>1, LenProperties, ElementOfSeq DEF TextOK
<1>3. PICK T : T = Seq(Characters)
  OBVIOUS
<1>4. ASSUME NEW j \in 0 .. l PROVE Letters(j) \in Seq(T) /\ Len(Letters(j)) = l - j /\ \A i \in 1 .. l - j : Letters(j)[i] = <<haystack[j + i]>>
  <2>1. PICK n, e : n = l - j /\ e = Letters(j)
    OBVIOUS
  <2>2. n \in Nat /\ e = [i \in 1 .. n |-> <<haystack[j + i]>>]
    BY ONLY <1>1, <1>2, <2>1, j \in 0 .. l DEF Letters
  <2>3. \A i \in 1 .. n : <<haystack[j + i]>> \in T
    <3>1. ASSUME NEW i \in 1 .. n PROVE <<haystack[j + i]>> \in T
      <4>1. j + i \in 1 .. l
        BY ONLY <1>2, <2>1, j \in 0 .. l, i \in 1 .. n
      <4>2. PICK c : c = haystack[j + i]
        OBVIOUS
      <4>3. c \in Characters
        BY <1>2, <4>1, <4>2
      <4>. QED BY ONLY <1>3, <4>2, <4>3
    <3>. QED BY <3>1
  <2>4. e \in [1 .. n -> T]
    BY ONLY <2>2, <2>3
  <2>5. e \in Seq(T) /\ Len(e) = n
    BY ONLY <2>2, <2>4, FunctionIsSeq
  <2>. QED BY ONLY <2>1, <2>2, <2>5
<1>5. k \in 0 .. l
  BY <1>1
<1>6. k = l => Letters(k) = <<>>
  <2>1. ASSUME k = l PROVE Letters(k) = <<>>
    <3>1. Letters(k) \in Seq(T) /\ Len(Letters(k)) = l - k
      BY <1>4, <1>5
    <3>2. l - k = 0
      BY ONLY <1>2, <2>1
    <3>. QED BY ONLY <3>1, <3>2, EmptySeq
  <2>. QED BY <2>1
<1>7. ASSUME k < l
      PROVE  /\ SubSeq(haystack, k + 1, k + 1) # <<>>
             /\ Letters(k) = <<SubSeq(haystack, k + 1, k + 1)>> \o Letters(k + 1)
  <2>1. PICK m : m = k + 1
    OBVIOUS
  <2>2. m \in 1 .. l /\ m \in 0 .. l /\ m \in 1 .. l + 1 /\ m \in m - 1 .. l /\ m - m + 1 = 1 /\ m + 1 - 1 = m /\ l - m \in Nat /\ l - k = 1 + (l - m)
    BY ONLY <1>2, <1>5, <1>7, <2>1
  <2>3. PICK first : first = SubSeq(haystack, m, m)
    OBVIOUS
  <2>4. first = <<haystack[m]>>
    <3>1. haystack \in Seq(Characters)
      BY DEF TextOK
    <3>2. /\ first \in Seq(Characters) /\ Len(first) = m - m + 1
          /\ \A i \in 1 .. m - m + 1 : first[i] = haystack[m + i - 1]
      BY ONLY <1>1, <2>2, <2>3, <3>1, PartOfRows
    <3>3. Len(first) = 1 /\ first[1] = haystack[m]
      BY ONLY <2>2, <3>2
    <3>4. PICK c : c = haystack[m]
      OBVIOUS
    <3>5. c \in Characters
      BY <1>2, <2>2, <3>4
    <3>6. <<c>> \in Seq(Characters) /\ Len(<<c>>) = 1 /\ <<c>>[1] = c
      BY ONLY <3>5
    <3>7. \A i \in 1 .. 1 : first[i] = <<c>>[i]
      BY ONLY <3>3, <3>4, <3>6
    <3>8. first = <<c>>
      BY ONLY <3>2, <3>3, <3>6, <3>7, SameList
    <3>. QED BY ONLY <3>4, <3>8
  <2>5. PICK rest, whole, one : rest = Letters(m) /\ whole = Letters(k) /\ one = <<first>>
    OBVIOUS
  <2>6. /\ rest \in Seq(T) /\ Len(rest) = l - m /\ (\A i \in 1 .. l - m : rest[i] = <<haystack[m + i]>>)
        /\ whole \in Seq(T) /\ Len(whole) = l - k /\ (\A i \in 1 .. l - k : whole[i] = <<haystack[k + i]>>)
    BY <1>4, <1>5, <2>2, <2>5
  <2>7. first \in T
    <3>1. PICK c : c = haystack[m]
      OBVIOUS
    <3>2. c \in Characters
      BY <1>2, <2>2, <3>1
    <3>. QED BY ONLY <1>3, <2>4, <3>1, <3>2
  <2>8. one \in Seq(T) /\ Len(one) = 1 /\ one[1] = first
    BY ONLY <2>5, <2>7
  <2>9. /\ one \o rest \in Seq(T) /\ Len(one \o rest) = Len(one) + Len(rest)
        /\ \A i \in 1 .. Len(one) + Len(rest) : (one \o rest)[i] = IF i <= Len(one) THEN one[i] ELSE rest[i - Len(one)]
    BY ONLY <2>6, <2>8, ConcatProperties
  <2>10. /\ one \o rest \in Seq(T) /\ Len(one \o rest) = l - k
         /\ \A i \in 1 .. l - k : (one \o rest)[i] = IF i <= 1 THEN one[i] ELSE rest[i - 1]
    BY ONLY <2>2, <2>6, <2>8, <2>9
  <2>11. ASSUME NEW i \in 1 .. l - k PROVE whole[i] = (one \o rest)[i]
    <3>1. CASE i = 1
      <4>1. i <= 1 /\ k + i = m
        BY ONLY <2>1, <3>1
      <4>2. whole[i] = <<haystack[m]>>
        BY ONLY <2>6, <4>1, i \in 1 .. l - k
      <4>3. (one \o rest)[i] = first
        BY ONLY <2>8, <2>10, <3>1, <4>1, i \in 1 .. l - k
      <4>. QED BY ONLY <2>4, <4>2, <4>3
    <3>2. CASE i # 1
      <4>1. PICK j : j = i - 1
        OBVIOUS
      <4>2. j \in 1 .. l - m /\ ~(i <= 1) /\ m + j = k + i
        BY ONLY <1>2, <1>5, <2>1, <2>2, <3>2, <4>1, i \in 1 .. l - k
      <4>3. rest[j] = <<haystack[k + i]>>
        BY ONLY <2>6, <4>2
      <4>4. (one \o rest)[i] = rest[j]
        BY ONLY <2>10, <4>1, <4>2, i \in 1 .. l - k
      <4>. QED BY ONLY <2>6, <4>3, <4>4, i \in 1 .. l - k
    <3>. QED BY <3>1, <3>2
  <2>12. whole = one \o rest
    BY ONLY <2>6, <2>10, <2>11, SameList
  <2>13. first # <<>>
    BY ONLY <2>4
  <2>. QED BY ONLY <2>1, <2>3, <2>5, <2>12, <2>13
<1>. QED BY <1>1, <1>3, <1>4, <1>5, <1>6, <1>7

\* The parts are strings.
LEMMA PartsRight ==
  ASSUME TextOK
  PROVE  /\ Parts \in Seq(Seq(Characters))
         /\ needle = <<>> => Parts = OnePart(<<>>) \o (Letters(0) \o OnePart(<<>>))
<1>1. PICK l : l = Len(haystack)
  OBVIOUS
<1>2. l \in Nat /\ DOMAIN haystack = 1 .. l
  BY <1>1, LenProperties DEF TextOK
<1>3. CASE needle # <<>>
  <2>1. 1 \in 1 .. l + 1
    BY ONLY <1>2
  <2>2. Split[1] \in Seq(Seq(Characters))
    BY <1>1, <1>3, <2>1, SplitRight
  <2>. QED BY <1>3, <2>2 DEF Parts
<1>4. CASE needle = <<>>
  <2>1. 0 \in 0 .. l /\ l - 0 = l /\ \A i \in 1 .. l : 0 + i = i
    BY ONLY <1>2
  <2>2. PICK e, w : e = OnePart(<<>>) /\ w = Letters(0)
    OBVIOUS
  <2>3. e \in Seq(Seq(Characters))
    <3>1. <<>> \in Seq(Characters)
      BY EmptySeq
    <3>. QED BY <2>2, <3>1, OnePartRight
  <2>4. w \in Seq(Seq(Characters))
    BY <1>1, <2>1, <2>2, LettersRight
  <2>5. w = [i \in DOMAIN haystack |-> <<haystack[i]>>]
    BY ONLY <1>1, <1>2, <2>1, <2>2 DEF Letters
  <2>6. Parts = (e \o w) \o e
    BY ONLY <1>4, <2>2, <2>5 DEF Parts
  <2>7. e \o w \in Seq(Seq(Characters))
    BY ONLY <2>3, <2>4, ConcatProperties
  <2>8. Parts \in Seq(Seq(Characters))
    BY ONLY <2>3, <2>6, <2>7, ConcatProperties
  <2>9. Parts = e \o (w \o e)
    BY ONLY <2>3, <2>4, <2>6, ConcatAssociative
  <2>. QED BY ONLY <2>2, <2>8, <2>9
<1>. QED BY <1>3, <1>4

\* So are those that are left.
LEMMA PartsLeftRight ==
  ASSUME TextOK, NEW s, StateOK(s)
  PROVE  PartsLeft(s) \in Seq(Seq(Characters))
<1>1. CASE s.end < 0
  BY <1>1, EmptySeq DEF PartsLeft
<1>2. CASE ~(s.end < 0) /\ needle # <<>>
  <2>1. s.start + 1 \in 1 .. Len(haystack) + 1
    <3>1. PICK l : l = Len(haystack)
      OBVIOUS
    <3>2. l \in Nat /\ s.start \in 0 .. l
      BY <3>1, LenProperties DEF TextOK, StateOK, States
    <3>. QED BY ONLY <3>1, <3>2
  <2>. QED BY <1>2, <2>1, SplitRight DEF PartsLeft
<1>3. CASE ~(s.end < 0) /\ needle = <<>> /\ s.extra = 0
  BY <1>3, PartsRight DEF PartsLeft
<1>4. CASE ~(s.end < 0) /\ needle = <<>> /\ s.extra # 0
  <2>1. s.start \in 0 .. Len(haystack) /\ <<>> \in Seq(Characters)
    BY EmptySeq DEF StateOK, States
  <2>2. PICK e, w : e = OnePart(<<>>) /\ w = Letters(s.start)
    OBVIOUS
  <2>3. e \in Seq(Seq(Characters)) /\ w \in Seq(Seq(Characters))
    BY <2>1, <2>2, OnePartRight, LettersRight
  <2>4. w \o e \in Seq(Seq(Characters))
    BY ONLY <2>3, ConcatProperties
  <2>. QED BY ONLY <1>4, <2>2, <2>4 DEF PartsLeft
<1>. QED BY <1>1, <1>2, <1>3, <1>4

\* An empty needle is everywhere.
LEMMA EmptyNeedle ==
  ASSUME TextOK, needle = <<>>, NEW start \in Nat
  PROVE  FindNeedle(start) = IF start <= Len(haystack) THEN start ELSE -1
<1>1. PICK l : l = Len(haystack)
  OBVIOUS
<1>2. l \in Nat /\ Len(needle) = 0
  BY <1>1, LenProperties, EmptySeq DEF TextOK
<1>3. PICK found : found = {i \in start .. l - 0 : Same(SubSeq(haystack, i + 1, i + 0), needle)}
  OBVIOUS
<1>4. FindNeedle(start) = IF found = {} THEN -1 ELSE Min(found)
  BY ONLY <1>1, <1>2, <1>3 DEF FindNeedle
<1>5. ASSUME NEW i \in start .. l PROVE i \in found
  <2>1. PICK a, b : a = i + 1 /\ b = i + 0
    OBVIOUS
  <2>2. a \in 1 .. Len(haystack) + 1 /\ b \in a - 1 .. Len(haystack) /\ b - a + 1 = 0 /\ i \in start .. l - 0
    BY ONLY <1>1, <1>2, <2>1, start \in Nat, i \in start .. l
  <2>3. PICK p : p = SubSeq(haystack, a, b)
    OBVIOUS
  <2>4. p \in Seq(Characters) /\ Len(p) = 0
    BY <2>2, <2>3, TextRight
  <2>5. p = <<>>
    BY ONLY <2>4, EmptySeq
  <2>6. DOMAIN p = {}
    BY ONLY <2>4, LenProperties
  <2>7. Same(p, needle)
    BY ONLY <2>5, <2>6, needle = <<>> DEF Same
  <2>. QED BY ONLY <1>3, <2>1, <2>2, <2>3, <2>7
<1>6. found \subseteq start .. l
  BY ONLY <1>2, <1>3
<1>7. CASE start <= l
  <2>1. start \in start .. l /\ found \in SUBSET Int /\ \A i \in found : start <= i
    BY ONLY <1>2, <1>6, <1>7, start \in Nat
  <2>2. Min(found) = start
    BY <1>5, <2>1, LeastIs
  <2>. QED BY <1>1, <1>4, <1>5, <1>7, <2>1, <2>2
<1>8. CASE ~(start <= l)
  <2>1. found = {}
    BY ONLY <1>2, <1>6, <1>8, start \in Nat
  <2>. QED BY ONLY <1>1, <1>4, <1>8, <2>1
<1>. QED BY <1>7, <1>8

\* One turn of the loop takes one part of those that are left, if there is one.
LEMMA TurnRight ==
  ASSUME TextOK, NEW s, StateOK(s), ~(s.end < 0)
  PROVE  /\ Turn(s).ok = TRUE /\ StateOK(Turn(s).state) /\ Turn(s).value \in Seq(Characters)
         /\ PartsLeft(s) = OnePart(Turn(s).value) \o PartsLeft(Turn(s).state)
         /\ TurnsLeft(Turn(s).state) < TurnsLeft(s)
<1>1. PICK l, n, t, d : l = Len(haystack) /\ n = Len(needle) /\ t = Turn(s) /\ d = FindNeedle(s.start + s.extra)
  OBVIOUS
<1>2. l \in Nat /\ n \in Nat /\ (needle # <<>> <=> n # 0)
  <2>1. needle \in Seq(Characters) /\ haystack \in Seq(Characters)
    BY DEF TextOK
  <2>. QED BY ONLY <1>1, <2>1, LenProperties, EmptySeq
<1>3. PICK b, e : b = s.start /\ e = s.extra
  OBVIOUS
<1>4. /\ b \in 0 .. l /\ s.end \in Int /\ e \in {0, 1} /\ (needle # <<>> => e = 0)
      /\ (needle = <<>> /\ e = 0 => b = 0)
  BY <1>1, <1>3 DEF StateOK, States
<1>5. s = [start |-> b, end |-> s.end, extra |-> e]
  BY <1>3 DEF StateOK, States
<1>6. t = IF d >= 0
          THEN [value |-> Middle(b, d - b), ok |-> TRUE,
                state |-> [start |-> d + n, end |-> d, extra |-> IF needle = <<>> THEN 1 ELSE 0]]
          ELSE [value |-> Middle(b, l - b), ok |-> TRUE, state |-> [s EXCEPT !.end = -1]]
  BY <1>1, <1>3 DEF Turn
<1>7. TurnsLeft(s) = l + 2 - b - e
  BY <1>1, <1>3 DEF TurnsLeft
<1>8. CASE d >= 0
  <2>1. /\ t.value = Middle(b, d - b) /\ t.ok = TRUE
        /\ t.state = [start |-> d + n, end |-> d, extra |-> IF needle = <<>> THEN 1 ELSE 0]
    BY ONLY <1>6, <1>8
  <2>2. t.state.start = d + n /\ t.state.end = d /\ t.state.extra = IF needle = <<>> THEN 1 ELSE 0
    BY ONLY <2>1
  <2>3. d \in b + e .. l - n /\ (needle = <<>> => d = b + e)
    <3>1. PICK f : f = b + e
      OBVIOUS
    <3>2. f \in Nat
      BY ONLY <1>2, <1>4, <3>1
    <3>3. d = FindNeedle(f)
      BY <1>1, <1>3, <3>1
    <3>4. d \in f .. l - n
      BY <1>1, <1>8, <3>2, <3>3, FindNeedleRight
    <3>5. needle = <<>> => d = f
      BY <1>8, <3>2, <3>3, EmptyNeedle
    <3>. QED BY ONLY <3>1, <3>4, <3>5
  <2>4. d + n \in 0 .. l /\ d \in Int /\ ~(d < 0) /\ d \in 0 .. l /\ d >= b
    BY ONLY <1>2, <1>4, <2>3
  <2>5. StateOK(t.state)
    <3>1. t.state \in States
      BY ONLY <1>1, <2>1, <2>4 DEF States
    <3>. QED BY ONLY <2>2, <3>1 DEF StateOK
  <2>6. TurnsLeft(t.state) < TurnsLeft(s)
    <3>1. TurnsLeft(t.state) = l + 2 - (d + n) - (IF needle = <<>> THEN 1 ELSE 0)
      BY ONLY <1>1, <2>2, <2>4 DEF TurnsLeft
    <3>2. CASE needle = <<>>
      BY ONLY <1>2, <1>4, <1>7, <2>3, <3>1, <3>2
    <3>3. CASE needle # <<>>
      BY ONLY <1>2, <1>4, <1>7, <2>3, <3>1, <3>3
    <3>. QED BY <3>2, <3>3
  <2>7. Middle(b, d - b) = SubSeq(haystack, b + 1, d) /\ t.value \in Seq(Characters)
    <3>1. b + (d - b) = d
      BY ONLY <1>2, <1>4, <2>3
    <3>2. Middle(b, d - b) = SubSeq(haystack, b + 1, d)
      BY ONLY <3>1 DEF Middle
    <3>3. PICK a : a = b + 1
      OBVIOUS
    <3>4. a \in 1 .. l + 1 /\ d \in a - 1 .. l
      BY ONLY <1>2, <1>4, <2>4, <3>3
    <3>5. SubSeq(haystack, a, d) \in Seq(Characters)
      BY <1>1, <3>4, TextRight
    <3>. QED BY ONLY <2>1, <3>2, <3>3, <3>5
  <2>8. PartsLeft(s) = OnePart(t.value) \o PartsLeft(t.state)
    <3>1. CASE needle # <<>>
      <4>1. e = 0 /\ b + e = b /\ b \in Nat /\ b + 1 \in 1 .. l + 1
        BY ONLY <1>2, <1>4, <3>1
      <4>2. d = FindNeedle(b)
        BY <1>1, <1>3, <4>1
      <4>3. FoundAt(b + 1) # {} /\ d + 1 = Min(FoundAt(b + 1))
        BY <1>8, <4>1, <4>2, FindNeedleRight
      <4>4. PartsLeft(s) = Split[b + 1]
        BY <1>3, <3>1 DEF PartsLeft
      <4>5. Split[b + 1] = SplitOf(Split, b + 1)
        BY <1>1, <3>1, <4>1, SplitRight
      <4>6. SplitOf(Split, b + 1) = OnePart(SubSeq(haystack, b + 1, d)) \o Split[d + n + 1]
        <5>1. PICK at, m : at = FoundAt(b + 1) /\ m = Min(FoundAt(b + 1))
          OBVIOUS
        <5>2. SplitOf(Split, b + 1) = OnePart(SubSeq(haystack, b + 1, m - 1)) \o Split[m + n]
          BY ONLY <1>1, <4>3, <5>1, Zenon DEF SplitOf
        <5>3. m = d + 1
          BY ONLY <4>3, <5>1
        <5>4. m - 1 = d /\ m + n = d + n + 1
          BY ONLY <1>2, <2>4, <5>3
        <5>. QED BY ONLY <5>2, <5>4
      <4>7. PartsLeft(t.state) = Split[d + n + 1]
        BY ONLY <2>2, <2>4, <3>1 DEF PartsLeft
      <4>. QED BY ONLY <2>1, <2>7, <4>4, <4>5, <4>6, <4>7
    <3>2. CASE needle = <<>> /\ e = 0
      <4>1. b = 0 /\ d = 0 /\ n = 0 /\ d + n = 0 /\ b + 1 = 1
        BY ONLY <1>2, <1>4, <2>3, <3>2
      <4>2. t.value = <<>>
        <5>1. PICK p : p = SubSeq(haystack, 1, 0)
          OBVIOUS
        <5>2. 1 \in 1 .. l + 1 /\ 0 \in 1 - 1 .. l /\ 0 - 1 + 1 = 0
          BY ONLY <1>2
        <5>3. p \in Seq(Characters) /\ Len(p) = 0
          BY <1>1, <5>1, <5>2, TextRight
        <5>4. p = <<>>
          BY ONLY <5>3, EmptySeq
        <5>. QED BY ONLY <2>1, <2>7, <4>1, <5>1, <5>4
      <4>3. PartsLeft(s) = Parts
        BY <1>3, <3>2 DEF PartsLeft
      <4>4. PartsLeft(t.state) = Letters(0) \o OnePart(<<>>)
        BY ONLY <2>2, <2>4, <3>2, <4>1 DEF PartsLeft
      <4>. QED BY <3>2, <4>2, <4>3, <4>4, PartsRight
    <3>3. CASE needle = <<>> /\ e = 1
      <4>1. d = b + 1 /\ n = 0 /\ d + n = b + 1 /\ b < l /\ b + 1 \in 0 .. l
        BY ONLY <1>2, <1>4, <2>3, <3>3
      <4>2. t.value = SubSeq(haystack, b + 1, b + 1)
        BY ONLY <2>1, <2>7, <4>1
      <4>3. t.value # <<>> /\ Letters(b) = <<t.value>> \o Letters(b + 1)
        BY <1>1, <1>4, <4>1, <4>2, LettersRight
      <4>4. PICK x, y, w : x = <<t.value>> /\ y = Letters(b + 1) /\ w = OnePart(<<>>)
        OBVIOUS
      <4>5. OnePart(t.value) = x
        BY ONLY <4>3, <4>4 DEF OnePart
      <4>6. PartsLeft(s) = (x \o y) \o w
        <5>1. PartsLeft(s) = Letters(b) \o OnePart(<<>>)
          BY <1>3, <3>3 DEF PartsLeft
        <5>. QED BY ONLY <4>3, <4>4, <5>1
      <4>7. PartsLeft(t.state) = y \o w
        BY ONLY <2>2, <2>4, <3>3, <4>1, <4>4 DEF PartsLeft
      <4>8. x \in Seq(Seq(Characters)) /\ y \in Seq(Seq(Characters)) /\ w \in Seq(Seq(Characters))
        <5>1. <<>> \in Seq(Characters)
          BY EmptySeq
        <5>2. w \in Seq(Seq(Characters))
          BY <4>4, <5>1, OnePartRight
        <5>3. y \in Seq(Seq(Characters))
          BY <1>1, <4>1, <4>4, LettersRight
        <5>4. x \in Seq(Seq(Characters))
          BY <2>7, <4>5, OnePartRight
        <5>. QED BY <5>2, <5>3, <5>4
      <4>9. (x \o y) \o w = x \o (y \o w)
        BY ONLY <4>8, ConcatAssociative
      <4>. QED BY ONLY <4>5, <4>6, <4>7, <4>9
    <3>. QED BY <1>4, <3>1, <3>2, <3>3
  <2>. QED BY ONLY <1>1, <2>1, <2>5, <2>6, <2>7, <2>8
<1>9. CASE ~(d >= 0)
  <2>1. t.value = Middle(b, l - b) /\ t.ok = TRUE /\ t.state = [s EXCEPT !.end = -1]
    BY ONLY <1>6, <1>9
  <2>2. t.state = [start |-> b, end |-> -1, extra |-> e]
    BY ONLY <1>5, <2>1
  <2>3. StateOK(t.state)
    <3>1. t.state \in States
      BY ONLY <1>1, <1>4, <2>2 DEF States
    <3>2. t.state.start = b /\ t.state.end = -1 /\ t.state.extra = e
      BY ONLY <2>2
    <3>3. ~(t.state.end >= 0)
      BY ONLY <3>2
    <3>. QED BY ONLY <1>4, <3>1, <3>2, <3>3 DEF StateOK
  <2>4. t.state.end < 0
    BY ONLY <2>2
  <2>5. TurnsLeft(t.state) < TurnsLeft(s)
    <3>1. TurnsLeft(t.state) = 0
      BY ONLY <2>4 DEF TurnsLeft
    <3>. QED BY ONLY <1>2, <1>4, <1>7, <3>1
  <2>6. PartsLeft(t.state) = <<>>
    BY ONLY <2>4 DEF PartsLeft
  <2>7. Middle(b, l - b) = SubSeq(haystack, b + 1, l) /\ t.value \in Seq(Characters)
    <3>1. b + (l - b) = l
      BY ONLY <1>2, <1>4
    <3>2. Middle(b, l - b) = SubSeq(haystack, b + 1, l)
      BY ONLY <3>1 DEF Middle
    <3>3. PICK a : a = b + 1
      OBVIOUS
    <3>4. a \in 1 .. l + 1 /\ l \in a - 1 .. l
      BY ONLY <1>2, <1>4, <3>3
    <3>5. SubSeq(haystack, a, l) \in Seq(Characters)
      BY <1>1, <3>4, TextRight
    <3>. QED BY ONLY <2>1, <3>2, <3>3, <3>5
  <2>8. PartsLeft(s) = OnePart(t.value)
    <3>1. CASE needle # <<>>
      <4>1. e = 0 /\ b + e = b /\ b \in Nat /\ b + 1 \in 1 .. l + 1
        BY ONLY <1>2, <1>4, <3>1
      <4>2. d = FindNeedle(b)
        BY <1>1, <1>3, <4>1
      <4>3. FoundAt(b + 1) = {}
        <5>1. d \in b .. l - n => d >= 0
          BY ONLY <1>2, <4>1
        <5>. QED BY <1>1, <1>9, <4>1, <4>2, <5>1, FindNeedleRight
      <4>4. PartsLeft(s) = Split[b + 1]
        BY <1>3, <3>1 DEF PartsLeft
      <4>5. Split[b + 1] = SplitOf(Split, b + 1)
        BY <1>1, <3>1, <4>1, SplitRight
      <4>6. SplitOf(Split, b + 1) = OnePart(SubSeq(haystack, b + 1, l))
        BY ONLY <1>1, <4>3 DEF SplitOf
      <4>. QED BY ONLY <2>1, <2>7, <4>4, <4>5, <4>6
    <3>2. CASE needle = <<>>
      <4>1. PICK f : f = b + e
        OBVIOUS
      <4>2. f \in Nat /\ d = FindNeedle(f)
        BY <1>1, <1>2, <1>3, <1>4, <4>1
      <4>3. ~(f <= l)
        <5>1. FindNeedle(f) = IF f <= Len(haystack) THEN f ELSE -1
          BY <3>2, <4>2, EmptyNeedle
        <5>2. f >= 0
          BY ONLY <4>2
        <5>. QED BY ONLY <1>1, <1>9, <4>2, <5>1, <5>2
      <4>4. b = l /\ e = 1
        BY ONLY <1>2, <1>4, <4>1, <4>3
      <4>5. t.value = <<>>
        <5>1. PICK a, p : a = l + 1 /\ p = SubSeq(haystack, a, l)
          OBVIOUS
        <5>2. a \in 1 .. l + 1 /\ l \in a - 1 .. l /\ l - a + 1 = 0
          BY ONLY <1>2, <5>1
        <5>3. p \in Seq(Characters) /\ Len(p) = 0
          BY <1>1, <5>1, <5>2, TextRight
        <5>4. p = <<>>
          BY ONLY <5>3, EmptySeq
        <5>. QED BY ONLY <2>1, <2>7, <4>4, <5>1, <5>4
      <4>6. PartsLeft(s) = Letters(l) \o OnePart(<<>>)
        BY <1>3, <3>2, <4>4 DEF PartsLeft
      <4>7. Letters(l) = <<>>
        BY <1>1, <1>4, <4>4, LettersRight
      <4>8. OnePart(<<>>) \in Seq(Seq(Characters))
        <5>1. <<>> \in Seq(Characters)
          BY EmptySeq
        <5>. QED BY <5>1, OnePartRight
      <4>9. <<>> \o OnePart(<<>>) = OnePart(<<>>)
        BY ONLY <4>8, ConcatEmptySeq
      <4>. QED BY ONLY <4>5, <4>6, <4>7, <4>9
    <3>. QED BY <3>1, <3>2
  <2>9. OnePart(t.value) \in Seq(Seq(Characters))
    BY <2>7, OnePartRight
  <2>10. OnePart(t.value) \o <<>> = OnePart(t.value)
    BY ONLY <2>9, ConcatEmptySeq
  <2>. QED BY ONLY <1>1, <2>1, <2>3, <2>5, <2>6, <2>7, <2>8, <2>10
<1>. QED BY <1>8, <1>9

\* The turns of the loop that could be taken, one after the other.
TurnsFrom(f, l, s) == f = [n \in 0 .. l |-> IF n = 0 THEN Turn(s) ELSE Turn(f[n - 1].state)]

\* There are such turns.
LEMMA LoopExists ==
  ASSUME NEW l \in Nat, NEW s
  PROVE  \E f : TurnsFrom(f, l, s)
<1> DEFINE missing == {k \in Nat : ~\E f : TurnsFrom(f, k, s)}
<1>1. ASSUME missing # {} PROVE FALSE
  <2>1. PICK k \in missing : \A m \in missing : k <= m
    <3>1. missing \in SUBSET Nat
      OBVIOUS
    <3> HIDE DEF missing
    <3>. QED BY ONLY <1>1, <3>1, LeastNumber
  <2>2. k \in Nat /\ ~\E f : TurnsFrom(f, k, s)
    OBVIOUS
  <2>3. CASE k = 0
    <3>1. PICK f : f = [n \in 0 .. 0 |-> Turn(s)]
      OBVIOUS
    <3>2. \A n \in 0 .. 0 : n = 0
      OBVIOUS
    <3>3. TurnsFrom(f, 0, s)
      BY ONLY <3>1, <3>2 DEF TurnsFrom
    <3>. QED BY <2>2, <2>3, <3>3
  <2>4. CASE k # 0
    <3>1. k - 1 \in Nat /\ ~(k <= k - 1)
      BY <2>2, <2>4
    <3>2. PICK f : TurnsFrom(f, k - 1, s)
      BY <2>1, <3>1
    <3>3. PICK g : g = [n \in 0 .. k |-> IF n = k THEN Turn(f[k - 1].state) ELSE f[n]]
      OBVIOUS
    <3>4. ASSUME NEW n \in 0 .. k
          PROVE  g[n] = IF n = 0 THEN Turn(s) ELSE Turn(g[n - 1].state)
      <4>1. CASE n = k
        <5>1. n - 1 \in 0 .. k /\ n - 1 # k /\ n # 0
          BY <2>2, <2>4, <4>1
        <5>2. g[n - 1] = f[n - 1]
          BY <3>3, <5>1
        <5>. QED BY <3>3, <4>1, <5>1, <5>2
      <4>2. CASE n # k
        <5>1. n \in 0 .. k - 1
          BY <2>2, <4>2
        <5>2. g[n] = f[n]
          BY <3>3, <4>2
        <5>3. f[n] = IF n = 0 THEN Turn(s) ELSE Turn(f[n - 1].state)
          BY <3>2, <5>1 DEF TurnsFrom
        <5>4. ASSUME n # 0 PROVE g[n - 1] = f[n - 1]
          <6>1. n - 1 \in 0 .. k /\ n - 1 # k
            BY <2>2, <5>1, <5>4
          <6>. QED BY <3>3, <6>1
        <5>. QED BY <5>2, <5>3, <5>4
      <4>. QED BY <4>1, <4>2
    <3>5. TurnsFrom(g, k, s)
      BY ONLY <3>3, <3>4 DEF TurnsFrom
    <3>. QED BY <2>2, <3>5
  <2>. QED BY <2>3, <2>4
<1>. QED BY <1>1

\* A turn that finds an empty part that is to be skipped.
Skipped(t) == skipEmpty /\ t.ok /\ t.value = <<>>

\* The next turn that is not skipped.
NotSkipped(f, l) == CHOOSE k \in 0 .. l : ~Skipped(f[k]) /\ \A j \in 0 .. k - 1 : Skipped(f[j])

\* next() takes a part that is not skipped, or all parts have been taken.
LEMMA SkipsRight ==
  ASSUME TextOK, NEW s, StateOK(s)
  PROVE  /\ StateOK(Skips(s).state)
         /\ Skips(s).ok => /\ Skips(s).value \in Seq(Characters)
                           /\ PartsLeft(s) = <<Skips(s).value>> \o PartsLeft(Skips(s).state)
         /\ ~Skips(s).ok => PartsLeft(s) = <<>> /\ Skips(s).state.end < 0
<1>1. PICK l : l = Len(haystack) + 2
  OBVIOUS
<1>2. l \in Nat /\ Len(haystack) \in Nat
  <2>1. Len(haystack) \in Nat
    BY LenProperties DEF TextOK
  <2>. QED BY <1>1, <2>1
<1>3. PICK turn : turn = CHOOSE f : TurnsFrom(f, l, s)
  OBVIOUS
<1>4. TurnsFrom(turn, l, s)
  BY ONLY <1>2, <1>3, LoopExists, Zenon
<1>5. DOMAIN turn = 0 .. l /\ \A n \in 0 .. l : turn[n] = IF n = 0 THEN Turn(s) ELSE Turn(turn[n - 1].state)
  <2>1. turn = [n \in 0 .. l |-> IF n = 0 THEN Turn(s) ELSE Turn(turn[n - 1].state)]
    BY ONLY <1>4, Zenon DEF TurnsFrom
  <2>. QED BY ONLY <2>1
<1>6. Skips(s) = turn[NotSkipped(turn, l)]
  <2>1. Skips(s) = turn[CHOOSE k \in DOMAIN turn : ~Skipped(turn[k]) /\ \A j \in 0 .. k - 1 : Skipped(turn[j])]
    BY ONLY <1>1, <1>3, Zenon DEF Skips, TurnsFrom, Skipped
  <2>. QED BY ONLY <1>5, <2>1, Zenon DEF NotSkipped
<1>7. PICK at : at = [n \in 0 .. l |-> IF n = 0 THEN s ELSE turn[n - 1].state]
  OBVIOUS
<1>8. at[0] = s /\ \A n \in 0 .. l : turn[n] = Turn(at[n])
  <2>1. 0 \in 0 .. l
    BY <1>2
  <2>. QED BY ONLY <1>5, <1>7, <2>1
<1>9. \A n \in 1 .. l : at[n] = turn[n - 1].state
  <2>1. \A n \in 1 .. l : n \in 0 .. l /\ n # 0
    BY <1>2
  <2>. QED BY ONLY <1>7, <2>1
<1> DEFINE Good(n) == StateOK(at[n]) /\ PartsLeft(at[n]) = PartsLeft(s) /\ TurnsLeft(at[n]) <= TurnsLeft(s) - n
<1>10. ASSUME NEW x, StateOK(x) PROVE TurnsLeft(x) \in Nat /\ TurnsLeft(x) <= l
  <2>1. x.start \in 0 .. Len(haystack) /\ x.extra \in {0, 1} /\ x.end \in Int
    BY <1>10 DEF StateOK, States
  <2>. QED BY ONLY <1>1, <1>2, <2>1 DEF TurnsLeft
<1>11. ASSUME NEW n \in 0 .. l, Good(n), Skipped(turn[n])
       PROVE  /\ StateOK(turn[n].state) /\ PartsLeft(turn[n].state) = PartsLeft(s)
              /\ TurnsLeft(turn[n].state) < TurnsLeft(s) - n
  <2>1. PICK x : x = at[n]
    OBVIOUS
  <2>2. turn[n] = Turn(x) /\ StateOK(x) /\ PartsLeft(x) = PartsLeft(s) /\ TurnsLeft(x) <= TurnsLeft(s) - n
    BY <1>8, <1>11, <2>1
  <2>3. Turn(x).ok /\ Turn(x).value = <<>> /\ skipEmpty
    BY ONLY <1>11, <2>2 DEF Skipped
  <2>4. ~(x.end < 0)
    <3>1. ASSUME x.end < 0 PROVE FALSE
      <4>1. Turn(x) = [value |-> <<>>, ok |-> FALSE, state |-> x]
        BY ONLY <3>1 DEF Turn
      <4>. QED BY ONLY <2>3, <4>1
    <3>. QED BY <3>1
  <2>5. /\ StateOK(Turn(x).state) /\ PartsLeft(x) = OnePart(Turn(x).value) \o PartsLeft(Turn(x).state)
        /\ TurnsLeft(Turn(x).state) < TurnsLeft(x)
    BY <2>2, <2>4, TurnRight
  <2>6. OnePart(Turn(x).value) = <<>>
    BY ONLY <2>3 DEF OnePart
  <2>7. PartsLeft(Turn(x).state) \in Seq(Seq(Characters))
    BY <2>5, PartsLeftRight
  <2>8. PartsLeft(x) = PartsLeft(Turn(x).state)
    <3>1. <<>> \o PartsLeft(Turn(x).state) = PartsLeft(Turn(x).state)
      BY ONLY <2>7, ConcatEmptySeq
    <3>. QED BY ONLY <2>5, <2>6, <3>1
  <2>9. TurnsLeft(Turn(x).state) < TurnsLeft(s) - n
    <3>1. TurnsLeft(Turn(x).state) \in Nat /\ TurnsLeft(x) \in Nat /\ TurnsLeft(s) \in Nat
      BY <1>10, <2>2, <2>5
    <3>2. PICK p, q, r : p = TurnsLeft(Turn(x).state) /\ q = TurnsLeft(x) /\ r = TurnsLeft(s)
      OBVIOUS
    <3>. QED BY ONLY <1>2, <2>2, <2>5, <3>1, <3>2, n \in 0 .. l
  <2>. QED BY ONLY <2>2, <2>5, <2>8, <2>9
<1>12. ASSUME NEW n \in 0 .. l, \A j \in 0 .. n - 1 : Skipped(turn[j]) PROVE Good(n)
  <2>1. PICK bad : bad = {m \in 0 .. n : ~Good(m)}
    OBVIOUS
  <2>2. ASSUME bad # {} PROVE FALSE
    <3>1. bad \in SUBSET Nat
      BY ONLY <1>2, <2>1
    <3>2. PICK m \in bad : \A i \in bad : m <= i
      BY ONLY <2>2, <3>1, LeastNumber
    <3>3. m \in 0 .. n /\ m \in 0 .. l /\ ~Good(m)
      BY ONLY <1>2, <2>1, <3>2, n \in 0 .. l
    <3>4. CASE m = 0
      <4>1. TurnsLeft(s) \in Nat
        BY <1>10
      <4>2. TurnsLeft(s) <= TurnsLeft(s) - 0
        BY ONLY <4>1
      <4>. QED BY <1>8, <3>3, <3>4, <4>2
    <3>5. CASE m # 0
      <4>1. PICK k : k = m - 1
        OBVIOUS
      <4>2. k \in 0 .. n /\ k \in 0 .. l /\ k \in 0 .. n - 1 /\ ~(m <= k) /\ m \in 1 .. l
        BY ONLY <1>2, <3>3, <3>5, <4>1, n \in 0 .. l
      <4>3. Good(k)
        BY <2>1, <3>2, <4>2
      <4>4. /\ StateOK(turn[k].state) /\ PartsLeft(turn[k].state) = PartsLeft(s)
            /\ TurnsLeft(turn[k].state) < TurnsLeft(s) - k
        BY <1>11, <1>12, <4>2, <4>3
      <4>5. at[m] = turn[k].state
        BY <1>9, <4>1, <4>2
      <4>6. TurnsLeft(at[m]) <= TurnsLeft(s) - m
        <5>1. TurnsLeft(at[m]) \in Nat /\ TurnsLeft(s) \in Nat
          BY <1>10, <4>4, <4>5
        <5>2. PICK p, r : p = TurnsLeft(at[m]) /\ r = TurnsLeft(s)
          OBVIOUS
        <5>3. p < r - k
          BY ONLY <4>4, <4>5, <5>2
        <5>4. p <= r - m
          BY ONLY <1>2, <3>3, <4>1, <5>1, <5>2, <5>3
        <5>. QED BY ONLY <5>2, <5>4
      <4>. QED BY <3>3, <4>4, <4>5, <4>6
    <3>. QED BY <3>4, <3>5
  <2>3. n \in 0 .. n
    BY <1>2
  <2>. QED BY <2>1, <2>2, <2>3
<1>13. \E k \in 0 .. l : ~Skipped(turn[k]) /\ \A j \in 0 .. k - 1 : Skipped(turn[j])
  <2>1. PICK free : free = {k \in 0 .. l : ~Skipped(turn[k])}
    OBVIOUS
  <2>2. CASE free = {}
    <3>1. \A j \in 0 .. l : Skipped(turn[j])
      BY ONLY <2>1, <2>2
    <3>2. l \in 0 .. l /\ \A j \in 0 .. l - 1 : j \in 0 .. l
      BY ONLY <1>2
    <3>3. Good(l)
      BY <1>12, <3>1, <3>2
    <3>4. StateOK(turn[l].state) /\ TurnsLeft(turn[l].state) < TurnsLeft(s) - l
      BY <1>11, <3>1, <3>2, <3>3
    <3>5. TurnsLeft(turn[l].state) \in Nat /\ TurnsLeft(s) \in Nat /\ TurnsLeft(s) <= l
      BY <1>10, <3>4
    <3>6. PICK p, r : p = TurnsLeft(turn[l].state) /\ r = TurnsLeft(s)
      OBVIOUS
    <3>7. FALSE
      BY ONLY <1>2, <3>4, <3>5, <3>6
    <3>. QED BY ONLY <3>7
  <2>3. CASE free # {}
    <3>1. free \in SUBSET Nat
      BY ONLY <1>2, <2>1
    <3>2. PICK k \in free : \A i \in free : k <= i
      BY ONLY <2>3, <3>1, LeastNumber
    <3>3. k \in 0 .. l /\ ~Skipped(turn[k])
      BY ONLY <2>1, <3>2
    <3>4. \A j \in 0 .. k - 1 : j \in 0 .. l /\ ~(k <= j)
      BY ONLY <1>2, <3>3
    <3>5. \A j \in 0 .. k - 1 : Skipped(turn[j])
      BY ONLY <2>1, <3>2, <3>4
    <3>. QED BY ONLY <3>3, <3>5
  <2>. QED BY <2>2, <2>3
<1>14. PICK k : k = NotSkipped(turn, l)
  OBVIOUS
<1>15. k \in 0 .. l /\ ~Skipped(turn[k]) /\ \A j \in 0 .. k - 1 : Skipped(turn[j])
  BY ONLY <1>13, <1>14, Zenon DEF NotSkipped
<1>16. Good(k)
  BY <1>12, <1>15
<1>17. PICK x, t : x = at[k] /\ t = Skips(s)
  OBVIOUS
<1>18. t = Turn(x) /\ StateOK(x) /\ PartsLeft(x) = PartsLeft(s) /\ ~Skipped(t)
  <2>1. t = turn[k]
    BY ONLY <1>6, <1>14, <1>17
  <2>. QED BY <1>8, <1>15, <1>16, <1>17, <2>1
<1>19. CASE x.end < 0
  <2>1. t = [value |-> <<>>, ok |-> FALSE, state |-> x]
    BY ONLY <1>18, <1>19 DEF Turn
  <2>2. t.ok = FALSE /\ t.state = x
    BY ONLY <2>1
  <2>3. PartsLeft(s) = <<>>
    BY ONLY <1>18, <1>19 DEF PartsLeft
  <2>. QED BY ONLY <1>17, <1>18, <1>19, <2>2, <2>3
<1>20. CASE ~(x.end < 0)
  <2>1. /\ t.ok = TRUE /\ StateOK(t.state) /\ t.value \in Seq(Characters)
        /\ PartsLeft(x) = OnePart(t.value) \o PartsLeft(t.state)
    BY <1>18, <1>20, TurnRight
  <2>2. OnePart(t.value) = <<t.value>>
    BY ONLY <1>18, <2>1 DEF OnePart, Skipped
  <2>. QED BY ONLY <1>17, <1>18, <2>1, <2>2
<1>. QED BY <1>19, <1>20

\* The tokens are the parts that are not left, and at the end none is.
TokenInv ==
  /\ haystack \in Haystacks /\ needle \in Needles /\ skipEmpty \in BOOLEAN
  /\ StateOK(state)
  /\ tokens \in Seq(Seq(Characters)) /\ tokens \o PartsLeft(state) = Parts
  /\ AtEnd => state.end < 0

\* The strings are sequences of characters.
LEMMA TextIsOK == TokenInv => TextOK
BY TokenizerAssumption DEF TokenInv, TextOK, Characters

\* All parts are left at first.
LEMMA TokenStarts == TokenizerInit => TokenInv
<1> SUFFICES ASSUME TokenizerInit PROVE TokenInv
  OBVIOUS
<1>1. TextOK /\ haystack \in Haystacks /\ needle \in Needles /\ skipEmpty \in BOOLEAN /\ state = Zero /\ tokens = <<>>
  BY TokenizerAssumption DEF TokenizerInit, TextOK, Characters
<1>2. state.start = 0 /\ state.end = 0 /\ state.extra = 0 /\ ~(state.end < 0)
  BY <1>1 DEF Zero
<1>3. StateOK(state)
  <2>1. 0 \in 0 .. Len(haystack)
    BY <1>1, LenProperties DEF TextOK
  <2>2. state \in States
    BY <1>1, <2>1 DEF Zero, States
  <2>. QED BY ONLY <1>2, <2>2 DEF StateOK
<1>4. PartsLeft(state) = Parts
  <2>1. 0 + 1 = 1
    OBVIOUS
  <2>. QED BY ONLY <1>2, <2>1 DEF PartsLeft, Parts
<1>5. Parts \in Seq(Seq(Characters))
  BY <1>1, PartsRight
<1>6. tokens \in Seq(Seq(Characters)) /\ tokens \o PartsLeft(state) = Parts
  BY ONLY <1>1, <1>4, <1>5, EmptySeq, ConcatEmptySeq
<1>7. ~AtEnd
  BY <1>1 DEF AtEnd
<1>. QED BY <1>1, <1>3, <1>6, <1>7 DEF TokenInv

\* next() adds the first of those that are left.
LEMMA NextKeeps ==
  ASSUME TokenInv, To(Skips(state))
  PROVE  TokenInv'
<1>1. TextOK /\ StateOK(state) /\ tokens \in Seq(Seq(Characters)) /\ tokens \o PartsLeft(state) = Parts
  BY TextIsOK DEF TokenInv
<1>2. PICK t : t = Skips(state)
  OBVIOUS
<1>3. /\ state' = t.state /\ ok' = t.ok /\ tokens' = IF t.ok THEN Append(tokens, t.value) ELSE tokens
      /\ UNCHANGED <<haystack, needle, skipEmpty, caseSensitive>>
  BY <1>2 DEF To
<1>4. /\ StateOK(t.state)
      /\ t.ok => t.value \in Seq(Characters) /\ PartsLeft(state) = <<t.value>> \o PartsLeft(t.state)
      /\ ~t.ok => PartsLeft(state) = <<>> /\ t.state.end < 0
  BY <1>1, <1>2, SkipsRight
<1>5. PICK left : left = PartsLeft(t.state)
  OBVIOUS
<1>6. left \in Seq(Seq(Characters))
  BY <1>1, <1>4, <1>5, PartsLeftRight
<1>7. tokens' \in Seq(Seq(Characters)) /\ tokens' \o left = Parts
  <2>1. CASE t.ok
    <3>1. PICK T, v : T = Seq(Characters) /\ v = t.value
      OBVIOUS
    <3>2. v \in T /\ tokens \in Seq(T) /\ left \in Seq(T) /\ tokens' = Append(tokens, v)
      BY <1>1, <1>3, <1>4, <1>6, <2>1, <3>1
    <3>3. <<v>> \in Seq(T) /\ Append(tokens, v) = tokens \o <<v>>
      BY ONLY <3>2
    <3>4. tokens' \in Seq(T)
      BY ONLY <3>2, AppendProperties
    <3>5. (tokens \o <<v>>) \o left = tokens \o (<<v>> \o left)
      BY ONLY <3>2, <3>3, ConcatAssociative
    <3>6. tokens \o (<<v>> \o left) = Parts
      BY ONLY <1>1, <1>4, <1>5, <2>1, <3>1
    <3>. QED BY ONLY <3>1, <3>2, <3>3, <3>4, <3>5, <3>6
  <2>2. CASE ~t.ok
    <3>1. left = <<>>
      BY <1>4, <1>5, <2>2 DEF PartsLeft
    <3>. QED BY <1>1, <1>3, <1>4, <2>2, <3>1
  <2>. QED BY <2>1, <2>2
<1>8. Split' = Split
  BY <1>3, SMT DEF Split, OnePart, Same
<1>9. PartsLeft(state)' = left
  <2>1. PICK s : s = state'
    OBVIOUS
  <2>2. PartsLeft(state)' = PartsLeft(s)
    BY <1>3, <1>8, <2>1, Zenon DEF PartsLeft, Parts, Letters, OnePart
  <2>. QED BY <1>3, <1>5, <2>1, <2>2
<1>10. Parts' = Parts
  BY <1>3, <1>8, Zenon DEF Parts, OnePart
<1>11. StateOK(state)'
  BY <1>3, <1>4 DEF StateOK, States
<1>12. AtEnd' => state'.end < 0
  BY <1>3, <1>4 DEF AtEnd
<1>13. Characters' = Characters
  BY DEF Characters
<1>. QED BY <1>3, <1>7, <1>9, <1>10, <1>11, <1>12 DEF TokenInv

\* A state that does not change.
LEMMA TokenStutters ==
  ASSUME TokenInv, UNCHANGED tokenizerVars
  PROVE  TokenInv'
<1>1. UNCHANGED <<haystack, needle, skipEmpty, caseSensitive, state, ok, tokens>>
  BY DEF tokenizerVars
<1>2. Split' = Split
  BY <1>1, SMT DEF Split, OnePart, Same
<1>3. Parts' = Parts
  BY <1>1, <1>2, Zenon DEF Parts, OnePart
<1>4. PICK s : s = state'
  OBVIOUS
<1>5. PartsLeft(state)' = PartsLeft(s)
  BY <1>1, <1>2, <1>4, Zenon DEF PartsLeft, Parts, Letters, OnePart
<1>6. PartsLeft(state)' = PartsLeft(state)
  BY <1>1, <1>4, <1>5
<1>7. StateOK(state)' /\ (AtEnd' => state'.end < 0)
  BY <1>1 DEF TokenInv, StateOK, States, AtEnd
<1>. QED BY <1>1, <1>3, <1>6, <1>7 DEF TokenInv

\* What comes of the iterator are the parts that QString::split() has, in their order,
\* for every string, separator and mode.
THEOREM TokensAreRight == TokenizerSpec => []TokensRight
<1>1. TokenInv => TokensRight
  <2> SUFFICES ASSUME TokenInv PROVE TokensRight
    OBVIOUS
  <2>1. TextOK /\ StateOK(state) /\ tokens \in Seq(Seq(Characters)) /\ tokens \o PartsLeft(state) = Parts
    BY TextIsOK DEF TokenInv
  <2>2. PICK left : left = PartsLeft(state)
    OBVIOUS
  <2>3. left \in Seq(Seq(Characters))
    BY <2>1, <2>2, PartsLeftRight
  <2>4. IsPrefix(tokens, Parts)
    <3>1. PICK T, all, n, m : T = Seq(Characters) /\ all = Parts /\ n = Len(tokens) /\ m = Len(left)
      OBVIOUS
    <3>2. tokens \in Seq(T) /\ left \in Seq(T) /\ all = tokens \o left /\ n \in Nat /\ m \in Nat
      BY <2>1, <2>2, <2>3, <3>1, LenProperties
    <3>3. /\ tokens \o left \in Seq(T) /\ Len(tokens \o left) = Len(tokens) + Len(left)
          /\ \A i \in 1 .. Len(tokens) + Len(left) :
               (tokens \o left)[i] = IF i <= Len(tokens) THEN tokens[i] ELSE left[i - Len(tokens)]
      BY ONLY <3>2, ConcatProperties
    <3>4. all \in Seq(T) /\ Len(all) = n + m /\ \A i \in 1 .. n + m : all[i] = IF i <= n THEN tokens[i] ELSE left[i - n]
      BY ONLY <3>1, <3>2, <3>3
    <3>5. n <= n + m /\ 1 \in 1 .. n + 1 /\ 1 \in 1 .. n + m + 1 /\ n \in 1 - 1 .. n /\ n \in 1 - 1 .. n + m /\ n - 1 + 1 = n
          /\ \A i \in 1 .. n : i \in 1 .. n + m /\ i <= n /\ 1 + i - 1 = i
      BY ONLY <3>2
    <3>6. PICK p, q : p = SubSeq(tokens, 1, n) /\ q = SubSeq(all, 1, n)
      OBVIOUS
    <3>7. p \in Seq(T) /\ Len(p) = n - 1 + 1 /\ \A i \in 1 .. n - 1 + 1 : p[i] = tokens[1 + i - 1]
      BY ONLY <3>1, <3>2, <3>5, <3>6, PartOfRows
    <3>8. q \in Seq(T) /\ Len(q) = n - 1 + 1 /\ \A i \in 1 .. n - 1 + 1 : q[i] = all[1 + i - 1]
      BY ONLY <3>4, <3>5, <3>6, PartOfRows
    <3>9. Len(p) = n /\ Len(q) = n /\ \A i \in 1 .. n : p[i] = q[i]
      BY ONLY <3>4, <3>5, <3>7, <3>8
    <3>10. p = q
      BY ONLY <3>7, <3>8, <3>9, SameList
    <3>. QED BY ONLY <3>1, <3>4, <3>5, <3>6, <3>10 DEF IsPrefix
  <2>5. AtEnd => tokens = Parts
    <3>1. ASSUME AtEnd PROVE tokens = Parts
      <4>1. PartsLeft(state) = <<>>
        BY <3>1 DEF TokenInv, PartsLeft
      <4>2. tokens \o <<>> = tokens
        BY ONLY <2>1, ConcatEmptySeq
      <4>. QED BY <2>1, <4>1, <4>2
    <3>. QED BY <3>1
  <2>. QED BY <2>4, <2>5 DEF TokensRight
<1>2. TokenInv /\ [TokenizerNext]_tokenizerVars => TokenInv'
  <2>1. ASSUME TokenInv, FirstToken PROVE TokenInv'
    <3>1. To(Skips(state))
      BY <2>1 DEF FirstToken
    <3>. QED BY <2>1, <3>1, NextKeeps
  <2>2. ASSUME TokenInv, NextToken PROVE TokenInv'
    BY <2>2, NextKeeps DEF NextToken
  <2>. QED BY <2>1, <2>2, TokenStutters DEF TokenizerNext
<1>. QED BY <1>1, <1>2, TokenStarts, PTL DEF TokenizerSpec
==============================================================================
