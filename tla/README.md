# KDToolBox: a verification project

KDToolBox is a collection of small, mostly independent C++/Qt tools. There is
no single system: each tool is a component with state of its own, and what makes
most of them hard is the same thing, the code they call in the middle of an
operation. A Qt signal runs its slots at once, and these slots look at the tool,
or call it again, before the operation that emitted it has finished. Others keep
threads, timers or a chain of several model signals that only together make a
change visible.

The TLA+ modules here model every tool that keeps state between its operations,
but for TabWindow, from its source: fifteen components. TLC checks them on small
instances, and TLAPS proves the safety of all fifteen for every value of their
constants.
`PROJECT.json` lists the components, runs, theorems, hazards and the source
lines of every definition.

To run a check or the proofs, in this directory:

    tlc -workers 2 -config MCThrottler.cfg MCThrottler
    tlapm ThrottlerProofs.tla

## Inventory

| Component | State | Operations | What is hard | What makes it correct |
|---|---|---|---|---|
| KDSignalThrottler (`qt/KDSignalThrottler`) | pending flag, one QTimer | `throttle()`, `setTimeout()`, timeout, destructor | slots re-enter; the timer is early, late or repeating | no request lost, emissions keep their distance, the timer stops |
| SortProxyModel (`qt/model_view/sortProxyModel`) | forward and reverse row map, sort settings, rows being removed | `sort()`, setters, source inserts, removes, changes, resets | one source signal becomes several proxy signals, slots look in between; persistent indexes | the signals describe the rows exactly, maps are inverse, rows are sorted |
| KDTableToListProxyModel (`qt/model_view/KDTableToListProxyModel`) | role to column mappings, saved layout indexes | role mapping calls, source row, column and layout signals, writing of several roles | mappings follow moved, inserted and removed columns; a write is several calls of the source | a role shows the same column as before; a value is written where its role is mapped to |
| UpdateableModel (`qt/model_view/updateableModel`) | rows, cached change range | `updateData()` with change, insert, remove and equal | merged change ranges and roles | a view that follows the signals shows the new data |
| UiWatchdog (`qt/ui_watchdog`) | two timers, one elapsed timer, a thread | `start()`, `stop()`, beat, check | start of the thread races the connection | a blocked UI is reported, a live one is not |
| MessageHandler (`qt/messagehandler`) | lock-free list, old handler | register, message | messages of other threads during registration | every matching callback runs, every message is forwarded |
| NotifyGuard (`qt/notify_guard`) | shared per-signal data of nested guards | construct, move, destroy | order of destruction, expired shared data | one emission from the outermost scope |
| KDSqlDatabaseTransaction | flag "should roll back" | construct, move, swap, commit, roll back | two objects on one connection | a transaction ends exactly once |
| singleshot_connect | connection handle in the slot | connect, emit | queued and concurrent emissions | the slot runs once |
| KDCoro | coroutine handle, connections | await, resume, receiver destroyed | destruction while suspended | resumed or destroyed once |
| PropertySelector (`qt/qml/PropertySelector`) | rules, current rule, target | conditions change, target changes | re-entrance through bindings | the most specific rule is applied |
| squish runner (`squish/kdrunsquish.py`) | counters, chunks of tests, child processes | run in parallel, repeat, abort | threads share counters, a worker exits | every test is run or reported |
| ModelIterator | index, "at end" | step forward and back | siblings of ancestors, the end of an empty model | every index once, in the documented order |
| stringtokenizer | start, end | next token | empty parts and separators | the parts of `QString::split()` |
| KDStlContainerAdaptor | a vector | the functions of QVector | positions at the ends, references to elements | the answers of QVector |
| TabWindow (`qt/tabWindow`) | two pointers to the dragged window | mouse events | faked events re-enter the filter | one window moves at a time |

The components do not call each other. What they interact with is Qt: they
listen to signals (of a source model, a timer, a thread, a target object), and
they emit signals whose receivers run inside the emission, or post events to
another thread. Each model therefore contains, besides the tool, the part of Qt
and the user it reacts to: the timer, the source model and its changes, the
view, the threads. These definitions are marked external in the map.

Left out: duplicatetracker, future-backports, eventfilter,
KDFunctionalSortFilterProxyModel, the type-level helpers (propagate_const,
toContainer, pointer_cast, qt_hasher, qt_fmt) and the build and debugging
scripts. They keep no state between calls, or only forward one call.

## Modules and code

| Module | Code | Run | Proofs |
|---|---|---|---|
| `RateLimiter` | what `qt/KDSignalThrottler/README.md` promises; abstract | as the property `LimitsRate` of `throttler` | – |
| `Throttler` | `KDSignalThrottler.cpp` | `throttler` | `ThrottlerProofs` |
| `ModelRows` | the block changes of `QAbstractItemModel`; external | – | `ModelRowsProofs` |
| `Lists` | some elements of a list, in their order; external | – | `ModelRowsProofs` |
| `SortProxyModel` | `sortproxymodel.cpp` | `sortproxy` | `SortProxyModelProofs` |
| `KDTableToListProxyModel` | `KDTableToListProxyModel.cpp` | `tabletolist`, `tabletolist_columns` | `KDTableToListProxyModelProofs` |
| `TableToListItemData` | `setData()` and `setItemData()` of the same | `helpers` | `ToolsProofs` |
| `MessageHandler` | `messagehandler.cpp` | `messagehandler` | `MessageHandlerProofs` |
| `UiWatchdog` | `uiwatchdog.h` | `uiwatchdog`, `uiwatchdog_started` | `ToolsProofs` |
| `UpdateableModel` | `UpdateableModel.h` | `updateable`, `updateable_roles` | `UpdateableModelProofs` |
| `NotifyGuard` | `notifyguard.cpp` | `helpers` | `HelpersProofs` |
| `KDSqlDatabaseTransaction` | `KDSqlDatabaseTransaction.h` | `helpers` | `HelpersProofs` |
| `SingleShotConnect` | `singleshot_connect.h` | `helpers` | `HelpersProofs` |
| `KDCoro` | `KDCoro.h` | `helpers`, `coro_context` | `HelpersProofs` |
| `PropertySelector` | `PropertySelector.cpp` | `helpers` | `ToolsProofs` |
| `PropertySelectorCustomParser` | the parser in the same | `helpers` | – |
| `ModelIterator` | `ModelIterator.h`, `ModelIterator.cpp` | `helpers` | `ToolsProofs` |
| `StringTokenizer` | `qstringtokenizer.h` | `helpers` | `ToolsProofs` |
| `StdVectorAdaptor` | `KDStlContainerAdaptor.h` | `helpers` | `ToolsProofs` |
| `SquishRunner` | `kdrunsquish.py` | `squish` | `HelpersProofs` |

Each `MC...` module gives the constants of its module values that a `.cfg` file
cannot write down. `MCQtHelpers` does so for nine modules of one or two classes
each: they do not work together, so a behaviour chooses one of them as its
`subject` and leaves the others as they begin. Definitions under a comment
"Mistake" are not part of the model: each is a plausible bug in the definition
that follows, and it was seen to break the property that `PROJECT.json` names
with it.

**Throttler.** `KDGenericSignalThrottler` in all four kinds. `stack` is the C++
call stack of the functions that emit: `Throttle` and `Timeout` push a frame,
`Emit` clears the pending flag and lets the slots run, `Return` is what the
caller does after them. Between `Emit` and `Return` a slot may call the object,
which is how re-entrance is modelled. `left` may become negative, when an event
is late, and a timer may fire `Early`. `RateLimiter` is the abstract
specification: it knows requests, activations and their distance, and no timer.

**SortProxyModel.** A handler that emits several signals is a sequence of steps
with one signal each; its locals are in `job`, and every state in between is one
that a slot sees. `view` applies the signals as Qt's views do, and carries, as
history, which source row each of its rows stands for. `std::sort` is not stable,
so `Sorted` is a set of results. `pin` is a persistent index with the
`internalId` it was made with. `handleDataChanged()` makes ranges of the proxy rows
that have changed (`RangesOf`, a set where the code has an accumulator) and announces
one of them in each step, from the first to the last (`AnnounceRange`).

**KDTableToListProxyModel.** Each slot connected to the source is an action; a
change of the source with an "about to be" signal is two, with the saved indexes
in `change`. Mappings are numbers in the code, and carry the column they were
made for as history (`of`), which only `setRoleMapping()` writes, and a reset or another
source, whose columns are new ones: there a mapping means the column that has its
number. Changes that have another parent than the root, and moves
between the root and other parents, are inputs. `TableToListItemData` has the
calls that write: one call of the source for each column is one step
(`SetColumn`), and between these the source may sort, or a slot may map roles
anew (`Disturb`). Values are told apart by the role they were given for.

**MessageHandler.** A step is one access to shared memory: entering and leaving
`call_once`, installing the handler, storing the old one, loading the front of
the list, the compare-and-swap (which may fail without reason), the look-up and
each node of the walk. The code publishes with release and reads with acquire,
and a node is not changed after it was published, so accesses are taken to be
sequentially consistent. `pushed`, `due`, `ran` and `forwarded` are history.

**UiWatchdog.** Both threads and the clock. The UI thread is in its event loop,
or busy for as long as it likes, or in `start()`, `stop()` or the destructor.
`start()` starts the thread in `Start` and connects `started()` in `Connect`, as
the code does, and the thread may get to `Started` in between. The worker's
`start()` writes the elapsed timer without the mutex; a beat at the same moment
is a data race, and what it leaves is one of three values.

**UpdateableModel.** One iteration of `updateCollection()` is one step. `changes`
is what `addChange()` keeps back, `Flushed` what a view has after
`flushCachedChanges()`. Rows are a key and a version, the set of cells in which
it differs; the view reads only cells that a signal names, so a column or a role
that is not announced stays old in it.

**NotifyGuard.** `signalData` are the `SignalData` objects, `guard` the shared
pointers to them, `instanceData` the weak pointers that the target keeps. A guard
of a property and one of a signal are separate actions, as only the first looks
at the signal's parameters. A guard goes in `Destroy` or when another is moved
over it; with the last pointer the data goes and may emit. What slots of the
signal do are the steps that follow.

**KDSqlDatabaseTransaction.** `shouldRollback` is the set of the objects that have
the flag; `running` the connections with a transaction, whose driver refuses a
second one. Every end of a transaction may fail.

**SingleShotConnect.** The functor holds the handle of its own connection:
`ConnectSingleShot` makes the connection and `AssignHandle` stores the handle
afterwards, and another thread may emit in between. `calls` is each thread's
stack of functor calls, `posted` what waits in the event queue of a queued one.

**KDCoro.** The coroutine, the `KDCoroExpected` awaiters it makes and the terminator's
connections. `slots` are the connections in their order, and a signal (`emitting`)
calls one of them per step; a slot that resumes the coroutine waits until that
suspends again. `wrong` collects the slots that called a dead awaiter or resumed
what did not wait for them: in the program that is undefined behaviour.

**PropertySelector.** `Before` and `RuleList` are the order of rules and
`prepareRules()`. What the QML source says, `Rules`, is a constant; in `helpers` it
is what `PropertySelectorCustomParser` reads from a source (`Parse` is
`parseBinding()`), a module of its own since it recurs over nested groups and only
TLC uses it. `applying` is the stack of the calls of
`apply()` with what each has read: while a value is written (`WriteValue` to
`SetCurrentRule`) the program may change a condition, which calls `apply()` again.
`Parent` is the default target; `rulesTarget` the one the prepared properties
belong to.

**ModelIterator.** A model is a set of paths; `Increment`, `Decrement`, `Advance`
and `GoBack` are the operators of the two iterators with their loops.
**StringTokenizer.** `Turn` is one turn of the loop of `next()`, `Skips` all of
them. **StdVectorAdaptor.** Every function that does more than forward, each
beside what a QVector holds and answers; `std::remove()` is modelled element by
element, as what it compares with may be an element that it moves.

**SquishRunner.** The main thread, one process counter per worker thread (the
steps of `runSingleTest()` and `run()`), and the squishserver processes. Each of
the programs may be missing or fail. `sys.exit()` in a worker and an exception
both end the thread (`"died"`). The commands are combinations of the options.

## What the runs show

`throttler` checks that a timer runs whenever a request waits and, for trailing
throttlers, only then, whatever slots do (`TimerHasWork`), that emissions keep
their distance but for nested ones (`Spacing`) and that debouncers wait for a
quiet period (`Debounced`); that it implements `RateLimiter` (`LimitsRate`); and
that requests are answered and the timer stops in the end (`Answered`,
`TimerStops`).

`sortproxy` checks, between any two signals, also those for two ranges of one change,
that a view which followed the signals shows the proxy's rows, and their data but in
the ranges that are still to be announced (`ViewFollows`), and that the maps are
inverse and `mapFromSource()` finds rows where the view has them (`MapsRight`); at
rest, that rows are sorted; that the backwards loop of `reorder()` stays inside the
mapping (`IteratorsInRange`), that it sorts whatever order it starts from
(`ReorderSorts`), that persistent indexes stay with their row, and one that the proxy
moves is made anew with the right row of the source, also between two signals
(`PinStays`), and that every handler ends (`HandlerReturns` is a variant: it gets
smaller with every step).

`tabletolist` checks that pairs of signals match (`ChangesPaired`), that a role goes
on to show the column it was mapped to (`RolesKeepColumnsElse`), and that a view shows
what `data()` returns and a persistent index points to the same row
(`FollowersStayRight`). Three kinds of steps are exempted in `RolesKeepColumnsElse`:

- a move to the left of the column of that role, the finding of `tabletolist_columns`;
- the end of a layout change without a hint. The code resets the model and leaves the
  mappings their numbers (`KDTableToListProxyModel.cpp:466-483`, 535-537), so when
  columns were reordered, roles show others;
- the end of a layout change of a table without rows or columns, which the code
  ignores (453-458).

`FollowersStayRight` exempts the first (of any mapped column) and the last for views,
and the last for indexes. All are properties of steps, and `RolesKeepColumnsElse` is
one of each role, so that what happens after an exempted step, or to other roles in it,
is still checked. `tabletolist_columns` checks `MovedColumnsKeepRoles`, which says of moves
alone that roles move with their columns.

`messagehandler` checks that the list loses no callback (`Linked`), that a
message calls every callback registered before it that wants it, none twice and
no other (`InformedExactly`), and that it is forwarded if any callback was
registered before it (`Forwarded`); and that both operations return (`Returns`).

`uiwatchdog` checks that a beat never happens without a worker, and that a UI
thread that hangs for `maxTimeBlocked` plus one period (or plus one report) is
reported while it hangs, if the worker was started and the elapsed timer is not
torn (`WorkerWatches`); that one which beats is not reported (`Justified`); and
that `stop()` and the destructor do not wait for ever, and delete a running thread, which
aborts the program, only if the worker's event loop did not run for all of the wait
(`Stops`); in this run a report can take longer than that, so that it happens.

`updateable` checks that after any sequence of updates the model has the rows it
was given and the counts returned account for them (`Updated`), that updates end
(`UpdateEnds`), and that in any state the view has old data in exactly those rows
whose changes are kept back, as long as no merge has lost roles
(`ViewIsBehindElse`).

`helpers` checks, one module in each behaviour:

- `Announced`: when the last guard of a property is gone, the property's last
  change has been announced, in whatever order guards came, moved and went;
  `EmittedOnce`: guards of nested scopes emit once between them, when the last of
  them goes, and only if something changed.
- `OwedOnce`: over any sequence of moves, swaps and failures a transaction that
  runs has exactly one object that will end it.
- `CalledOnce`: the slot of a single-shot connection runs once, and again only
  for calls that were under way when the connection was broken, or came before
  the handle was stored; nested emissions never get through.
- `ResumesRight`: the signal, the end of the sender and the end of the yielded
  object never resume a coroutine that does not wait for them, but for awaiters
  that no destructor disconnects; `SenderLives`: nobody waits for ever for a
  sender that has gone.
- `RuleInEffect`: when `apply()` has returned each property has the value of its most
  specific rule for the conditions as they are now, looked up in the source and not in
  the sorted list. When writing a property changes a condition, the properties that
  were set already must follow; the one being set and those still to be set are
  exempted until a call sets them that is not disturbed (`overtaken`).
- `StepsInOrder`: after any steps forward and back the iterator is at the index
  that has as many before it as steps were made, `end()` comes after the last,
  and the distance of flat iterators is the number of steps.
- `TokensRight`: the tokens are the parts of `QString::split()`.
- `AsQVector`: after any sequence of calls the vector holds and answers what a
  QVector would; without `startsWith()` and `endsWith()` of an empty vector and `mid()`
  from behind the end, for which QVector has an answer and this class has none.
- `ItemDataSet`: `setItemData()` writes each value to the cell its role is mapped
  to and to no other, and all of them if it returns true. When the source sorts
  between two columns, each value is in one row that was at the row number of the call
  at some time; what mappings do that change during the call is not claimed.

`squish` checks that with exit code 0 every test asked for has succeeded or was
skipped, whatever was repeated, aborted or skipped, but for those that a thread had
still to run, or was running, when it died (`Successful`); and that no squishserver is
left at the end, and that the script ends unless it waits for an X server
(`EndsCleanly`).

### Findings

Each is a run that TLC must find violated: places where the code does something
else than its documentation or comments say.

| Run | What happens |
|---|---|
| `tabletolist_columns` | columns moved to the left keep their number, as a branch repeats an earlier condition (`KDTableToListProxyModel.cpp:863`) |
| `uiwatchdog_started` | the thread may emit `started()` before it is connected, and then nothing is ever checked (`uiwatchdog.h:147`) |
| `updateable_roles` | merged changes are announced with the intersection of their roles (`UpdateableModel.h:411`) |
| `coro_context` | `kdCoroSignal()` does not make its awaiter with the receiver it was given, so its end resumes nobody (`KDCoro.h:129` against `qt/KDCoro/README.md:43-45`) |

### Known divergences without a run of their own

The properties above name these as exemptions, or the models as preconditions.
The code was read to behave so, and the exemption is what keeps the property
true:

- `throttle()` called by a slot of a leading emission emits again at once, as the
  timer is started only after the slots (`KDSignalThrottler.cpp:96`; its
  `README.md:24-26`). `Spacing` exempts nested emissions.
- Rows inserted under `Qt::DescendingOrder` are merged in the wrong place, as
  `lessThan()` ignores the order (`sortproxymodel.cpp:466`; `README.md:23-26`).
  Hence `SortedAscending`. The descending comparator of `std::sort` is no strict
  weak ordering (358).
- `internalId` keeps the source row in persistent indexes that do not move in the
  proxy (`sortproxymodel.cpp:48`; `sortproxymodel.h:20-24`): when the source has
  inserted or removed rows such an index maps to another row of it. `PinStays` exempts
  it, but not one that moves.
- `mapFromSource()` of rows behind a removal is off while the removal is on its
  way (`sortproxymodel.cpp:379`).
- A layout change without a hint leaves the mappings of roles their numbers though
  columns may have been reordered (`KDTableToListProxyModel.cpp:466-483`, 535-537); if
  it leaves the source without rows it begins a reset that never ends.
  `RolesKeepColumnsElse` exempts the former. A message of another thread between
  `qInstallMessageHandler()` and the store of its result is not forwarded.
- `setTarget()` after `componentComplete()` keeps the properties of the old target
  (`PropertySelector.cpp:110`), and when a condition changes while `apply()`
  writes, the outer call overwrites what the inner one set, in the property it is
  writing and those after it (250). `RuleInEffect` exempts both.
- `removeAll()` of a reference to an element of the vector compares with what is
  moved there (`KDStlContainerAdaptor.h:166`). `AsQVector` ends with such a call.
- Two guards of one signal in separate scopes, or a guard made by a slot of the
  final emission, announce twice (`notifyguard.cpp:312`). A guard made for a
  signal does not look at its parameters, and with more than one the call fails
  (160-219). `crossed` and `Callable` say so.
- `~KDCoroExpected()` leaves the connection to the signal (`KDCoro.h:92-96`), and
  `m_receiverConn` is written twice (34 and 71). `ResumesRight` lists the
  awaiters that are affected.
- In kdrunsquish, `sys.exit()` in a worker ends its thread only, and the exit code
  can still be 0 (`kdrunsquish.py:309`, 321); the `with` around `Popen()` waits
  for the X server (713-727); Ctrl-C leaves the threads running (882-885); a test
  that is named twice has no run left the second time, and `success` is not
  assigned (415, 423).
- `setItemData()` looks the row up once and uses it for every column, also when
  the source sorts in between (`KDTableToListProxyModel.cpp:278`). `ItemDataSet` allows
  any row that was there.
- A report that stops in a debugger, or takes longer than two seconds otherwise, makes
  the wait of `stop()` time out, and the thread is deleted while it runs
  (`uiwatchdog.h:160`). `Stops` allows an abort then.

## Bounds

- Throttler: intervals of 0, 2 and 3 ticks, so that an interval can get shorter
  and longer and the zero timer is there; timers one tick early or late; ages
  counted to 4, which is beyond any distance that a property compares; calls
  nested three deep, where the third level behaves as the second does. The proofs
  need none of these bounds.
- SortProxyModel: up to four rows with two keys that two roles order in opposite ways.
  Blocks of more than one row, two separate blocks, equal keys and rows on both sides
  of a block all occur with four rows. Source changes touch at most two rows at a time
  (`MaxChanged`), which are one range of the proxy or two, and one row is pinned.
- KDTableToListProxyModel: three rows and three columns, one data role (mappings
  of different roles do not depend on each other), and sources of three shapes
  after a reset, among them one with columns and no rows. A moved range with a
  column before it, in it and behind it needs three columns. `MaxColumn` bounds
  the numbers of stale mappings, and unhinted layout changes that go unnoticed
  keep the number of rows. `TableToListItemData` has two rows, two columns and
  three roles: two with one column, two with one cell, one that is not mapped, and
  one with a column that is gone.
- MessageHandler: two threads, three callbacks of different types and patterns,
  three messages. Both contend for the front of the list while one walks it. The
  proofs cover any number.
- UiWatchdog: periods of two or three ticks, maximum times of four and five, one
  tick late, delays of the worker of up to three ticks (`MaxLag`) and a wait of two
  (`WaitTimeout`), so that `stop()` can find the worker late and later than it waits.
  Of the defaults (a check every 40 ms, a maximum of 300 ms, a wait of 2 s) the runs keep
  that the period is less than the maximum time.
  `MaxAge` is beyond all sums that are compared, `Second` stands for a value that
  is wrong by more than any of them.
- UpdateableModel: three rows with two keys, so equal keys occur, and three
  versions, one of which changes several roles and two columns that are no
  neighbours. Three rows are enough to change two and insert between them. After
  an update that lost roles no other one is followed.
- NotifyGuard: two guards, four properties (two with one signal, one whose signal
  has two parameters, one without a signal) and two values. With three guards,
  where one can be moved over another while a third shares their data, 923 802
  states were checked once with no other result.
- KDSqlDatabaseTransaction: three connections of which two are usable and three
  objects, so that a swap or a move can have a bystander.
- SingleShotConnect: two threads and three emissions (`MaxEmissions`), enough for a
  nested and a concurrent one.
- KDCoro: two senders, one yielded object, two awaiters (`MaxAwaiters`), a signal
  emitted in another one (`MaxNestedEmissions`). An awaiter only refers to its own
  connections, so a third one would be a copy of the second.
- PropertySelector: two conditions and two properties with seven rules, one of them of
  a third property that the target lacks, some of them as specific as each other; two
  targets, two calls of `setTarget()` (`MaxTargets`) and one `apply()` inside another
  (`MaxNested`).
- ModelIterator: every tree within ten indexes and three levels, empty ones among
  them. StringTokenizer: every string of up to four characters of three, and
  separators of none, one and two. StdVectorAdaptor: vectors of up to four
  (`MaxSize`) of three elements, every position and one beyond. These are inputs of
  functions without memory beyond what the state shows.
- SquishRunner: two threads and three tests, so that one thread has two; two runs
  of a test at most.

## Fairness

- Throttler: code that has been entered runs on, slots return, time passes, and
  the event loop delivers expired timers. Nobody has to call anything. `Answered`
  exempts intervals that are changed for ever and, for debouncers, requests that
  keep coming, as each of these restarts the timer.
- MessageHandler: every thread runs (weak fairness of its steps). The weak
  compare-and-swap gets strong fairness: it may fail spuriously and because of
  others, but not for ever if it could succeed again and again.
- UiWatchdog: the worker thread runs, and a `wait()` that can return does. There
  is no fairness for the UI thread; it may hang for ever.
- UpdateableModel: `updateData()` runs on.
- SquishRunner: the threads run, and the programs of a test come to an end (the
  script has a time limit for none of them, but without this no test suite
  ends). An X server does not end by itself, so `XvfbEnds` has no fairness.
- SortProxyModel and KDTableToListProxyModel state termination by a variant or not
  at all, and the modules of `helpers` state safety only. They need no fairness.

## Proofs

**Throttler** (`ThrottlerProofs`), from `ThrottlerAssumption`: intervals and
tolerances are naturals, 0 is an interval, `Cap` is at least every interval.
None of the properties is inductive: they say when a timer runs and how old the
last emission is, and this depends on who is on the stack. The invariant `IInv`
adds to `TypeOK`

- `StackInv`: only `throttle()` of a leading throttler is nested, all frames but
  the innermost are in their slots, and the outermost tells whether the object is
  being destroyed;
- `ArmInv`: which timer runs at each kind of emission;
- `SpacingInv` and `QuietInv`: the age plus what the timer has left reaches the
  distance, so that it is reached when the timer fires.

Each part is shown to be preserved by every action, given the parts before it.
`TypeCorrect`, `ThrottlerTimerHasWork` (from `ThrottlerPendingIsArmed` and
`ThrottlerTrailingTimerHasWork`), `ThrottlerSpacing` and `ThrottlerDebounced`
follow. `ThrottlerLimitsRate` shows the refinement: initial states map to initial
states, and each step to a step of `RateLimiter` or a stutter, with `IInv` before
and after it. `Emit` is where it uses the distance.

**MessageHandler** (`MessageHandlerProofs`), from `MessageHandlerAssumption`:
what the constants are functions on. The invariant says that one thread at most
installs the handler and nothing is registered before it has (`OnceOK`), that a
callback is free, in one thread's hands or once in the list (`NodesOK`), and for
a walking thread that there is a place k in `pushed` it has got to: the callbacks
behind k that it had to call are called, those up to k are still to come
(`WalkedTo`). Pushing adds at the end of `pushed`, hence leaves k where it is,
and that is the argument why a walk needs no lock. `TypeCorrect`, `ListLinked`,
`CallbacksInformedExactly` (from `CallbacksInformed` and
`CallbacksInformedOnce`) and `MessagesForwarded` follow. Of `Returns` the part that
can be proved is that nothing gets in its way: who waits in `call_once()` waits for
a thread that installs the handler and waits for nobody (`RegisteringIsNotBlocked`), and a
walk has one callback less to go with each it visits, and never more (`WalksGetShorter`).

**SortProxyModel** (`SortProxyModelProofs`), from `SortProxyAssumption`: keys are
compared as integers, and rows bounded by any number. The properties speak of the
state between two signals, in the middle of a handler, so that the invariant `SortInv`
says for each kind of work in hand what has been done and what is to come: `AtRest`
(the maps are inverse, the view is what the proxy shows), `DataChanged` and
`Announcing` (the view knows all but the rows that have changed, and what is left of
these are the ranges to come), `Moving` (both iterators are at one place, and the rows
behind it are in the new order), `RowsInserted` and `Inserting` (what is not in the
map are the new rows from the iterator on, and none of these is less than the rows
that have been passed), `RowsRemoved` and `Removing` (the rows of the map that the
proxy has not invalidated are those of the source, each once and in order, and the
view shows the others as gone). `PinInPlace` says that a persistent index is where the
view shows its row. The lemmas on lists, in `ModelRowsProofs`, carry most of it: what
`WithRowsAt`, `WithoutRows` and `WithRowsMoved` have at each place, and that of a
nonempty set of naturals one is least (`LeastNumber`), which stands in for induction.
`SortMapsRight`, `SortViewFollows`, `SortIteratorsInRange` and `SortStaysAscending`
follow, and of the steps `SortReorderSorts`, `SortPinStays` and `SortHandlerReturns`.
TLC checked `SortInv` on the instance of `sortproxy` before it was proved.

**KDTableToListProxyModel** (`KDTableToListProxyModelProofs`), from
`TableToListAssumption`. `TableInv` adds to the types that roles are mapped to
columns that are there or stale, that between the two signals of a change what was
announced is what is done next (`Announced`), that a layout change has saved the
columns and rows it will look up (`Saved`), and what a follower of the signals
knows (`FollowerTypes`). `TableToListChangesPaired` follows from it, and step by
step `TableToListRolesKeepColumns` and `TableToListFollowersStayRight`.

**UpdateableModel** (`UpdateableModelProofs`), from `UpdateableModelAssumption`, which
bounds the columns: there are finitely many, as a change range is from the least to
the greatest that differ. `UpdateInv` says that the rows before both iterators are the
same (`Walked`), that the counts account for the number of rows (`Accounted`), and
that the rows a view does not know are those of the change that is kept back, which
are the last ones before the iterator and whose columns and roles cover what differs
(`KeptBack`). `UpdateGivesRows` and `ViewIsOnlyBehind` follow, and
`UpdateGetsShorter`: each turn of the loop leaves fewer rows before it, for rows that
are inserted are behind both iterators at once.

**UiWatchdog** (`ToolsProofs`). `WatchdogInv` says which timers live with
which thread (`Lifetimes`), that the elapsed timer was started when the interface
answered last or earlier, by no more than a period (`ElapsedFits`), and that the next
check comes in time (`CheckIsDue`). `WatchdogWorkerWatches` and
`WatchdogJustified` (no report of an interface that has answered) follow. Of `Stops`,
`WatchdogAbortsOnlyLate` is the part that matters most: when `wait()` gives up while the
thread runs, that has not come to its event loop for as long as the wait. It needs one
invariant more, `WaitsForLag`: who waits has waited no longer than the thread's event
loop has been kept waiting. Nothing is assumed of how long a delay is and how long the
wait.

**The helpers** (`HelpersProofs`). `KDSqlDatabaseTransaction`: objects that would roll
back have different transactions that can be, and no transaction is without one
(`OneOwner`), gives `TransactionOwedOnce`. `SingleShotConnect`: once the connection is
broken, the runs of the slot, the calls that are posted and the calls that have not
reached the slot yet are one more than those from before the handle was set and those
that were under way (`CallsAccountedFor`), gives `SingleShotCalledOnce` for any number
of threads. `NotifyGuard`, from `NotifyGuardAssumption`: who shares data has it and
blocks the target (`Held`), what is remembered is what the outermost scope found
(`Remembered`), and `Announced` itself; gives `GuardAnnounced` and `GuardEmittedOnce`.

`KDCoro`, for any number of senders, awaiters and nested signals: connections are
those that were made for their awaiters, and signals of an object that has gone are
the outermost only (`SignalsRight`); what is awaited lives and has no result yet
(`Waiting`, `SenderWatched`); what is still connected of an awaiter that nobody
waits for is what no destructor disconnects (`LeftBehind`, `WrongStays`). Together
`CoroInv`, which gives `CoroResumesRight` and `CoroSenderLives`. What disconnecting
leaves is `Among` of `Lists`, whose recursion is a function, so that
`AmongRight` (the elements that stay, each in its turn and none twice) could be
proved with `LeastNumber`; `KDCoro`, `SquishRunner` and `StdVectorAdaptor` use it in
place of `SelectSeq`.

`SquishRunner`, from `SquishRunnerAssumption`, for any number of threads, tests and
repetitions. That a test gets lost would be seen at the exit only, so `SquishInv`
follows it through its thread. If no test was asked for twice, the tests before a
thread are of its share, each once, and none has been skipped or has succeeded but
the present one (`Coming`); what the thread remembers of the present test is in the
counters (`Present`); the others of its share were skipped or have a result
(`Behind`); tests are aborted only with a failure that no thread can make good any
more (`Aborted`); and a squishserver is remembered by its test (`ServersKnown`). That
two threads never share a test (`SharesRight`, `DealtRight`) is what makes the
steps of one leave the others alone (`OthersKept`), though all write the same
counters. `SquishSucceeds` follows, and `SquishServersEnd`, which is the safety part
of `EndsCleanly`. That threads come to an end takes counting: a thread that launches a
run has one left (`RunsAreLeft`), so that a test asked for once is run no more often than
the repetitions allow and never again after it has succeeded (`SquishRunsRight`), and every
step of a thread has a test less to do, a run less of the present one, or is nearer to
the end of a run (`SquishThreadsGetOn`). TLC checked `CoroInv` and `SquishInv` on their
instances before they were proved.

**The tools** (`ToolsProofs`). `TableToListItemData`, from `ItemDataAssumption`: there
are finitely many rows and roles, and `CellRoles` has every role that a mapping names.
`ItemInv` says of a call during which no mapping changes that what has been written is
where its role is mapped to, in a row that has been at the row number (`InPlace`), no
value twice, and that while nothing has been refused a role is still to be written,
with all others of its column, or its cell has the last that belongs there (`ToCome`).
Without "with all others of its column" it would not be inductive: the last value of a
cell could still be to come. Gives `ItemIsSet`.

`StdVectorAdaptor`, for any elements and sizes. `VectorInv` is `AsQVector` with the type
of the vector; the work is in the lemmas on what the calls compute: ranges
(`PartRight`, `ErasedRight`), `std::rotate()` (`RotatedRight`), `std::find()`
(`FindRight`), and that `std::remove()`, element by element, leaves what does not
equal the value (`CompactedRight`) and removes as many as equal it (`AmongCount`).
Then there is one lemma per function, and `VectorIsAsQVector` follows.

`PropertySelector`, from `SelectorAssumption`: rules are finitely many, and each has
its own place in the source. The rules are totally ordered by `Before` (`Orders`), so
the number of rules before a rule is its place in `RuleList` (`Ranks`), and `Found`,
the first that matches, is the rule the documentation asks for. `SelectorInv` says of
the calls of `apply()` that all but the innermost are writing (`OthersWrite`), and that
what is left for a call is overtaken when another one inside of it has read conditions
(`LeftOvertaken`). What has gone wrong is then always among the overtaken properties, and
of the others it says that the innermost call has read what holds now, and that those
it does not come to any more have their rule (`ReadingRight`); that a rule being written
is the one that was found (`WritingRight`); that a property has the value of its current
rule or is being written (`ValuesRight`); and that nothing is left to do when `apply()`
has returned (`AllFit`). Gives `SelectorRuleInEffect`, for any rules, targets and
numbers of calls.

`ModelIterator`, from `ModelAssumption`: models are finite trees. `IteratorInv` says
that a depth-first iterator is at the index that has as many in front of it (`Passed`)
as steps were made, a flat one at the row of that number, both at `end()` after the
last. That a step leads to the next index rests on three parts: `Precedes` is a total
order (`OneComesFirst`, `NotBothFirst`); if an index is followed by its first child,
its next sibling, or that of the nearest ancestor that has one, then no other lies
between the two (`ChildCount`, `YoungerCount`), and if there is none it is the last
(`LastCount`); and the loops of `operator++` and `lastDescendant()` find just these
(`AboveRight`, `BelowRight`). For the last, an induction along the path to the root,
or down to the leaves, is put as a set of indexes for which the claim fails, and the
shortest or longest of these (`FromTheRoot`, `FromTheLeaves`). Gives
`IteratorStepsInOrder`.

`StringTokenizer`, from `TokenizerAssumption`: texts are of characters that can be
compared. `TokenInv` says that the tokens so far, followed by what `Split` makes of
the rest of the text, are the parts. One turn of the loop of `next()` leaves that
as it is, or shorter by the part it returns (`TurnRight`), and the loop that skips empty
parts ends at one that is not, or at the end (`SkipsRight`). That the recursion of
`Split` has a solution is proved too (`SplitExists`). Gives `TokensAreRight`.

TLC checked `ItemInv`, `SelectorInv`, `IteratorInv` and `TokenInv` on the instance of
`helpers` before they were proved.

Only model-checked:

- every liveness property (`Answered`, `TimerStops`, `Returns`, `Stops`,
  `UpdateEnds`, `RunEnds` in `EndsCleanly`), since liveness under fairness is out
  of the prover's reach. What is proved of them is that steps lead to the end
  (`WalksGetShorter`, `UpdateGetsShorter`, `SquishThreadsGetOn`) and that nothing
  prevents it (`RegisteringIsNotBlocked`), the rest is that
  steps are taken; of `Answered` and `TimerStops`, that work in hand has a timer that
  runs (`ThrottlerTimerHasWork`);
- that the parser reads the rules a source says, a recursion over nested groups: TLC
  runs it on one source in `helpers`, and `PropertySelector` is proved for whatever
  rules it reads.

## What is not modelled

- TabWindow: native mouse events, faked ones and the geometry that the window
  system reports decide every step of a drag; its own state are two pointers, and
  a model would be one of the window system.
- Throttler: deletion of the object by one of its own slots.
- SortProxyModel: moves, resets, layout and column changes of the source. The
  code does not connect them. A slot that changes the source or the proxy in the
  middle of a handler. What `std::sort` does for more than 16 rows with the
  descending comparator, which is no strict weak ordering.
- KDTableToListProxyModel: header data, `fetchMore()`, `insertRows()` and their
  like, which keep no state and forward to the source, whose signals are modelled.
  `moveRows()` forwards without looking whether there is a source (336).
- MessageHandler: the text of patterns; a pattern is the set of texts it is found
  in. Callbacks that register callbacks.
- UiWatchdog: logging, and the effect of the break.
- UpdateableModel: a slot that calls `updateData()` while another one runs. It
  would invalidate the iterators of the outer one.
- NotifyGuard: the end of the target while a guard lives (`notifyguard.cpp:316`),
  which is undefined.
- SingleShotConnect: arguments of the signal, the end of the sender or the receiver.
- KDCoro: callbacks that the program copies from an awaiter and calls itself, as
  `tst_KDCoro.cpp:42-43` and 69 do with `callbackExpected` and `callbackUnexpected`
  (in the model a signal of the sender calls them; the two differ in the result only),
  awaiters that are moved, and coroutines that wait for one another.
- PropertySelector: a target that lacks one of the conditions; values, which are the
  lines of their rules.
- ModelIterator: columns (`begin()` and `end()` of FlatIterator drop the column,
  `ModelIterator.cpp:189` and 197), models that change under the iterators, a step
  by 0 back from the end, and the wrapper that reads and writes data.
- StringTokenizer: which types are viewed and which are kept; a tokenizer that is
  moved while its view refers to its own string.
- StdVectorAdaptor: `replace()` and `swapItemsAt()` cannot be compiled, as `at()` is
  constant (294, 296). `startsWith()` and `endsWith()` of an empty vector and
  `mid()` from behind the end are undefined, though QVector defines them.
- SquishRunner: output, categories of tests, which add to the choice as suites do,
  and the numbers of displays, which are counted without a lock (716).

## Plan

Every component with state is modelled but TabWindow, and every safety property that
a run checks is proved for all values of the constants. What could still be done:

1. That the steps towards the end are enabled until it is reached, which would
   complete the proofs of termination: it speaks of `ENABLED`, which the prover does not
   expand, and would have to be put as a predicate on states for each action.
2. The two wrappers of ModelIterator that read and write data, and TabWindow with the
   window system as an environment that may report any geometry.
