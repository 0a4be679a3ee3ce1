--------------------------- MODULE SortProxyModel ---------------------------
(***************************************************************************)
(* SortProxyModel: a sorting proxy that announces what happens to its rows *)
(* with insert, remove and move signals instead of a layout change.        *)
(*                                                                         *)
(* One signal of the source model or one call of a setter becomes a series *)
(* of signals of the proxy, one per block of rows; whoever is connected    *)
(* runs between two blocks and may look at the proxy.  `job` holds the     *)
(* locals of the handler that is under way and every block is one step.    *)
(* `view` is what a view shows that has applied all signals so far and     *)
(* reads the rows it is told about; `pin` is a persistent index it keeps.  *)
(* Both remember in `of` which row of the source they really stand for:    *)
(* its present row number there, or 0 once the source has removed it.      *)
(* Rows are counted from 1; position Len + 1 is C++'s end().               *)
(***************************************************************************)
EXTENDS ModelRows, SequencesExt

CONSTANTS
  MaxRows, \* bound on the rows of the source model
  MaxChanged, \* bound on the rows the source changes at a time
  Roles,   \* what rows can be sorted by: a column, role and case sensitivity
  Keys,    \* the contents of rows, functions from Roles to comparable values
  Models,  \* the contents of the models setSourceModel() is called with
  Pinned,  \* the rows the view makes persistent indexes of
  None     \* no persistent index

ASSUME SortProxyAssumption ==
  /\ MaxRows \in Nat /\ MaxChanged \in 1..MaxRows
  /\ \A k \in Keys : DOMAIN k = Roles /\ \A r \in Roles : k[r] \in Int
  /\ \A m \in Models : m \in Seq(Keys) /\ Len(m) <= MaxRows
  /\ None \notin [of : Nat, row : Nat, internalId : Nat]

VARIABLES
  source,          \* the contents of the source model's rows
  m_sortColumn,    \* -1, or 0 for any column to sort by
  m_order,
  m_sortRole,      \* sort column, role and case sensitivity
  proxyToSource,   \* m_proxyToSourceMap
  sourceToProxy,   \* m_sourceToProxyMap, empty while it is out of date
  invalidated,     \* the proxy rows m_invalidatedRows refers to
  job,             \* the handler under way with its locals
  view,            \* the rows a view shows, [of, key]
  pin              \* a persistent index, [of, row, internalId]

settings == <<m_sortColumn, m_order, m_sortRole>>
maps     == <<proxyToSource, sourceToProxy, invalidated>>
vars     == <<source, settings, maps, job, view, pin>>

NoJob    == [op |-> "none"]
Idle     == job = NoJob
Iota(n)  == [i \in 1..n |-> i]

\* What a view reads in proxy row p; what it stands for after the source has
\* changed, `to` being where the source's rows have gone.
Shown(p) == [of |-> proxyToSource[p], key |-> source[proxyToSource[p]]]
Retarget(to) ==
  /\ view' = [p \in DOMAIN view |-> [view[p] EXCEPT !.of = to[@]]]
  /\ pin' = IF pin = None THEN None ELSE [pin EXCEPT !.of = to[@]]

\* A signal of the source has not reached the proxy's slot yet.
Undelivered == job.op \in {"rowsInserted", "rowsRemoved", "dataChanged"}
-----------------------------------------------------------------------------
(* Sorting and mapping.  Rows l and r are rows of the source model s. *)

\* lessThan(): the order of the values, whatever m_order is.
LessThan(s, l, r) ==
  m_sortColumn # -1 /\ s[l][m_sortRole] < s[r][m_sortRole]

\* sortMappingContainer(): std::sort is not stable, so rows that compare equal
\* come in any order.  For Descending its comparator is no strict weak ordering
\* once keys are equal; the insertion sort that std::sort is for up to 16 rows
\* still leaves no neighbours in the wrong order, and only that is modelled.
InOrder(s, rows) ==
  \A i \in 1..Len(rows) - 1 :
    IF m_order = "Descending" THEN ~LessThan(s, rows[i], rows[i + 1])
                              ELSE ~LessThan(s, rows[i + 1], rows[i])

\* Mistake: sorting that forgets the order.
SortedUpwards(s, rows) ==
  IF m_sortColumn = -1 THEN {rows}
  ELSE {t \in SetToSeqs(Range(rows)) :
          \A i \in 1..Len(t) - 1 : ~LessThan(s, t[i + 1], t[i])}

Sorted(s, rows) ==
  IF m_sortColumn = -1 THEN {rows}
  ELSE {t \in SetToSeqs(Range(rows)) : InOrder(s, t)}

\* buildReverseMap().
Reversed(m) == [s \in 1..Len(m) |-> CHOOSE p \in 1..Len(m) : m[p] = s]

\* mapToProxyRow(): 0 stands for a row that is not found.
MapToProxyRow(s) ==
  IF sourceToProxy # <<>> THEN sourceToProxy[s]
  ELSE SelectInSeq(proxyToSource, LAMBDA r : r = s)

\* QAbstractItemModel moves persistent indexes with the rows announced: to[r]
\* is where row r goes, 0 if it is removed.  Only indexes that change their
\* row are made anew with index(), hence with a new internalId.
PinFollows(to) ==
  pin' = IF pin = None \/ to[pin.row] = pin.row THEN pin
         ELSE IF to[pin.row] = 0 THEN None
         ELSE [pin EXCEPT !.row = to[pin.row],
                          !.internalId = proxyToSource'[to[pin.row]]]
-----------------------------------------------------------------------------
Init ==
  /\ source = <<>>
  /\ m_sortColumn = -1 /\ m_order = "Ascending" /\ m_sortRole \in Roles
  /\ proxyToSource = <<>> /\ sourceToProxy = <<>> /\ invalidated = {}
  /\ job = NoJob
  /\ view = <<>>
  /\ pin = None

\* setSourceModel() of another model, or of none: endResetModel()
\* calls rebuildRowMap() before views read everything again.
SetSourceModel ==
  /\ Idle
  /\ source' \in Models
  /\ proxyToSource' \in Sorted(source', Iota(Len(source')))
  /\ sourceToProxy' = Reversed(proxyToSource')
  /\ view' = [p \in DOMAIN proxyToSource |-> Shown(p)]'
  /\ pin' = None
  /\ UNCHANGED <<settings, invalidated, job>>

\* The view makes a persistent index of a row it shows.
Pin ==
  /\ Idle
  /\ \E p \in Pinned \cap DOMAIN view :
       pin' = [of |-> view[p].of, row |-> p, internalId |-> proxyToSource[p]]
  /\ UNCHANGED <<source, settings, maps, job, view>>
-----------------------------------------------------------------------------
(* Reordering. *)

\* sort(), setSortRole() and setSortCaseSensitivity(): the setter stores the
\* new value, some announce it, and then they call reorder().
Sort ==
  /\ Idle
  /\ m_sortColumn' \in {-1, 0} /\ m_order' \in {"Ascending", "Descending"}
  /\ <<m_sortColumn, m_order>>' # <<m_sortColumn, m_order>>
  /\ job' = [op |-> "reorder"]
  /\ UNCHANGED <<source, m_sortRole, maps, view, pin>>
SetSortRole ==
  /\ Idle
  /\ m_sortRole' \in Roles \ {m_sortRole}
  /\ job' = [op |-> "reorder"]
  /\ UNCHANGED <<source, m_sortColumn, m_order, maps, view, pin>>

\* reorder() up to its loop.
Reorder ==
  /\ job.op = "reorder"
  /\ IF proxyToSource = <<>>
     THEN job' = NoJob /\ UNCHANGED sourceToProxy
     ELSE /\ \E newOrder \in Sorted(source, Iota(Len(source))) :
               job' = [op |-> "moving", newOrder |-> newOrder,
                       ordered |-> Len(newOrder), unordered |-> Len(newOrder)]
          /\ sourceToProxy' = <<>>
  /\ UNCHANGED <<source, settings, proxyToSource, invalidated, view, pin>>

\* How many rows the loop of reorder() skips, from the back, as they are in
\* place, and where it goes on then.
Skipped ==
  Max({k \in 0..job.ordered - 1 : \A i \in 0..k - 1 :
         job.newOrder[job.ordered - i] = proxyToSource[job.unordered - i]})
OrderedAt == job.ordered - Skipped
MoveTo    == job.unordered - Skipped

\* find_from_back(): the row that belongs behind row MoveTo; and how many rows
\* before it belong before it.
MovedRow ==
  SelectLastInSubSeq(proxyToSource, 1, MoveTo - 1, LAMBDA r : r = job.newOrder[OrderedAt])
MoveCount ==
  1 + Max({k \in 0..Min({MovedRow - 1, OrderedAt - 1}) : \A i \in 1..k :
             proxyToSource[MovedRow - i] = job.newOrder[OrderedAt - i]})

\* Mistake: going on one row before the destination, whatever the block's size.
MoveBlockByOne ==
  /\ job.op = "moving" /\ OrderedAt # 1
  /\ LET n == MoveCount IN
     /\ proxyToSource' = WithRowsMovedBehind(proxyToSource, MovedRow, n, MoveTo)
     /\ view' = WithRowsMovedBehind(view, MovedRow, n, MoveTo)
     /\ PinFollows([r \in DOMAIN view |->
          IF r \in MovedRow - n + 1..MovedRow THEN r + MoveTo - MovedRow
          ELSE IF r \in MovedRow + 1..MoveTo THEN r - n ELSE r])
     /\ job' = [job EXCEPT !.ordered = OrderedAt - n, !.unordered = MoveTo - 1]
  /\ UNCHANGED <<source, settings, sourceToProxy, invalidated>>

\* Mistake: announcing the first row of the block only.
MoveBlockAnnounced ==
  /\ job.op = "moving" /\ OrderedAt # 1
  /\ LET n == MoveCount IN
     /\ proxyToSource' = WithRowsMovedBehind(proxyToSource, MovedRow, n, MoveTo)
     /\ view' = WithRowsMovedBehind(view, MovedRow, 1, MoveTo)
     /\ PinFollows([r \in DOMAIN view |->
          IF r \in MovedRow - n + 1..MovedRow THEN r + MoveTo - MovedRow
          ELSE IF r \in MovedRow + 1..MoveTo THEN r - n ELSE r])
     /\ job' = [job EXCEPT !.ordered = OrderedAt - n, !.unordered = MoveTo - n]
  /\ UNCHANGED <<source, settings, sourceToProxy, invalidated>>

\* One beginMoveRows() .. endMoveRows() of reorder().
MoveBlock ==
  /\ job.op = "moving" /\ OrderedAt # 1
  /\ LET n == MoveCount IN
     /\ proxyToSource' = WithRowsMovedBehind(proxyToSource, MovedRow, n, MoveTo)
     /\ view' = WithRowsMovedBehind(view, MovedRow, n, MoveTo)
     /\ PinFollows([r \in DOMAIN view |->
          IF r \in MovedRow - n + 1..MovedRow THEN r + MoveTo - MovedRow
          ELSE IF r \in MovedRow + 1..MoveTo THEN r - n ELSE r])
     /\ job' = [job EXCEPT !.ordered = OrderedAt - n, !.unordered = MoveTo - n]
  /\ UNCHANGED <<source, settings, sourceToProxy, invalidated>>

MovesDone == job.op = "moving" /\ OrderedAt = 1
-----------------------------------------------------------------------------
(* Changed, inserted and removed rows. *)

\* The source changes rows and announces the roles, or none for all of them.
SourceDataChanged ==
  /\ Idle
  /\ \E first \in DOMAIN source :
     \E last \in first..Min({Len(source), first + MaxChanged - 1}) :
     \E keys \in [first..last -> Keys] :
       LET changed == {r \in Roles : \E i \in first..last : keys[i][r] # source[i][r]}
       IN  /\ changed # {}
           /\ source' = [i \in DOMAIN source |-> IF i \in first..last THEN keys[i] ELSE source[i]]
           /\ \E roles \in {{}, changed} :
                job' = [op |-> "dataChanged", first |-> first, last |-> last, roles |-> roles]
  /\ UNCHANGED <<settings, maps, view, pin>>

\* Mistake: a range that keeps only the row it was begun with.
RangesNotExtended(rows) ==
  {r \in [from : rows, to : rows] : r.from = r.to /\ r.from - 1 \notin rows}

\* handleDataChanged(): the proxy rows of the changed rows as ranges of
\* consecutive rows, which is what its accumulator makes of them.
RangesOf(rows) ==
  {r \in [from : rows, to : rows] :
     r.from..r.to \subseteq rows /\ r.from <= r.to /\ {r.from - 1, r.to + 1} \cap rows = {}}

HandleDataChanged ==
  /\ job.op = "dataChanged"
  /\ job' = [op |-> "announcing", roles |-> job.roles,
             ranges |-> RangesOf({MapToProxyRow(s) : s \in job.first..job.last})]
  /\ UNCHANGED <<source, settings, maps, view, pin>>

\* One dataChanged() of handleDataChanged(), from the first range to the last:
\* views read the rows of the range again.  The rows are reordered after the last.
FirstRange == CHOOSE r \in job.ranges : \A other \in job.ranges : r.from <= other.from
AnnounceRange ==
  /\ job.op = "announcing"
  /\ view' = [p \in DOMAIN view |->
       IF p \in FirstRange.from..FirstRange.to THEN Shown(p) ELSE view[p]]
  /\ job' = IF job.ranges # {FirstRange} THEN [job EXCEPT !.ranges = @ \ {FirstRange}]
            ELSE IF job.roles = {} \/ m_sortRole \in job.roles THEN [op |-> "reorder"]
            ELSE NoJob
  /\ UNCHANGED <<source, settings, maps, pin>>

SourceInsertRows ==
  /\ Idle
  /\ \E n \in 1..MaxRows - Len(source), pos \in 1..Len(source) + 1 :
     \E keys \in [1..n -> Keys] :
       /\ source' = WithRowsAt(source, pos, keys)
       /\ Retarget([i \in DOMAIN source |-> IF i >= pos THEN i + n ELSE i])
       /\ job' = [op |-> "rowsInserted", first |-> pos, last |-> pos + n - 1]
  /\ UNCHANGED <<settings, maps>>

Shift(rows, first, by) ==
  [p \in DOMAIN rows |-> IF rows[p] >= first THEN rows[p] + by ELSE rows[p]]

\* handleRowsInserted() up to its loop: the new rows are sorted, and the rows
\* behind them have moved in the source.
HandleRowsInserted ==
  /\ job.op = "rowsInserted"
  /\ sourceToProxy' = <<>>
  /\ proxyToSource' = Shift(proxyToSource, job.first, job.last - job.first + 1)
  /\ \E newRows \in Sorted(source, [i \in 1..job.last - job.first + 1 |-> job.first + i - 1]) :
       job' = [op |-> "inserting", newRows |-> newRows, newIt |-> 1, curIt |-> 1]
  /\ UNCHANGED <<source, settings, invalidated, view, pin>>

\* Mistake: comparing the other way round.
InsertPosSwapped ==
  Min({p \in job.curIt..Len(proxyToSource) :
         LessThan(source, proxyToSource[p], job.newRows[job.newIt])}
      \cup {Len(proxyToSource) + 1})

\* The merge: the first row, from curIt on, that the next new row is less
\* than, or the end, and how many of the new rows go before it.
InsertPos ==
  Min({p \in job.curIt..Len(proxyToSource) :
         LessThan(source, job.newRows[job.newIt], proxyToSource[p])}
      \cup {Len(proxyToSource) + 1})
InsertCount ==
  IF InsertPos > Len(proxyToSource) THEN Len(job.newRows) - job.newIt + 1
  ELSE 1 + Max({k \in 0..Len(job.newRows) - job.newIt : \A i \in 1..k :
         ~LessThan(source, proxyToSource[InsertPos], job.newRows[job.newIt + i])})

InsertBlock ==
  /\ job.op = "inserting" /\ job.newIt <= Len(job.newRows)
  /\ LET n == InsertCount
         pos == InsertPos
         rows == SubSeq(job.newRows, job.newIt, job.newIt + n - 1)
     IN  /\ proxyToSource' = WithRowsAt(proxyToSource, pos, rows)
         /\ view' = WithRowsAt(view, pos, [i \in 1..n |-> [of |-> rows[i], key |-> source[rows[i]]]])
         /\ PinFollows([r \in DOMAIN view |-> IF r >= pos THEN r + n ELSE r])
         /\ job' = [job EXCEPT !.newIt = job.newIt + n, !.curIt = pos + 1]
  /\ UNCHANGED <<source, settings, sourceToProxy, invalidated>>

InsertsDone == job.op = "inserting" /\ job.newIt > Len(job.newRows)

SourceRemoveRows ==
  /\ Idle
  /\ \E first \in DOMAIN source : \E last \in first..Len(source) :
       /\ source' = WithoutRows(source, first, last)
       /\ Retarget([i \in DOMAIN source |->
            IF i \in first..last THEN 0 ELSE IF i > last THEN i - (last - first + 1) ELSE i])
       /\ job' = [op |-> "rowsRemoved", first |-> first, last |-> last]
  /\ UNCHANGED <<settings, maps>>

\* handleRowsRemoved() up to its loop.
HandleRowsRemoved ==
  /\ job.op = "rowsRemoved"
  /\ sourceToProxy' = <<>>
  /\ proxyToSource' = Shift(proxyToSource, job.last + 1, job.first - job.last - 1)
  /\ invalidated' = {p \in DOMAIN proxyToSource : proxyToSource[p] \in job.first..job.last}
  /\ job' = [op |-> "removing"]
  /\ UNCHANGED <<source, settings, view, pin>>

\* The last run of consecutive rows to be removed.
LastRemoved == Max(invalidated)
FirstRemoved == Min({p \in invalidated : p..LastRemoved \subseteq invalidated})

\* Mistake: a block is removed again and again.
RemoveBlockAgain ==
  /\ job.op = "removing" /\ invalidated # {}
  /\ LET first == FirstRemoved
         last == LastRemoved
     IN  /\ proxyToSource' = WithoutRows(proxyToSource, first, last)
         /\ view' = WithoutRows(view, first, last)
         /\ PinFollows([r \in DOMAIN view |->
              IF r \in first..last THEN 0
              ELSE IF r > last THEN r - (last - first + 1) ELSE r])
  /\ UNCHANGED <<source, settings, sourceToProxy, job, invalidated>>

\* One beginRemoveRows() .. endRemoveRows() of handleRowsRemoved().
RemoveBlock ==
  /\ job.op = "removing" /\ invalidated # {}
  /\ LET first == FirstRemoved
         last == LastRemoved
     IN  /\ proxyToSource' = WithoutRows(proxyToSource, first, last)
         /\ view' = WithoutRows(view, first, last)
         /\ PinFollows([r \in DOMAIN view |->
              IF r \in first..last THEN 0
              ELSE IF r > last THEN r - (last - first + 1) ELSE r])
         /\ invalidated' = invalidated \ (first..last)
  /\ UNCHANGED <<source, settings, sourceToProxy, job>>

RemovesDone == job.op = "removing" /\ invalidated = {}

\* Mistake: not making the reverse map anew.
FinishUnmapped ==
  /\ MovesDone \/ InsertsDone \/ RemovesDone
  /\ job' = NoJob
  /\ UNCHANGED <<source, settings, maps, view, pin>>

\* All three handlers end with the reverse map made anew.
Finish ==
  /\ MovesDone \/ InsertsDone \/ RemovesDone
  /\ sourceToProxy' = Reversed(proxyToSource)
  /\ job' = NoJob
  /\ UNCHANGED <<source, settings, proxyToSource, invalidated, view, pin>>
-----------------------------------------------------------------------------
HandlerStep ==
  \/ Reorder \/ MoveBlock
  \/ HandleDataChanged \/ AnnounceRange
  \/ HandleRowsInserted \/ InsertBlock
  \/ HandleRowsRemoved \/ RemoveBlock
  \/ Finish

Next ==
  \/ SetSourceModel \/ Pin \/ Sort \/ SetSortRole
  \/ SourceDataChanged \/ SourceInsertRows \/ SourceRemoveRows
  \/ HandlerStep

Spec == Init /\ [][Next]_vars
-----------------------------------------------------------------------------
\* The row maps are permutations and inverse to each other whenever no handler
\* is under way (what the test's verifyInternalMapping() compares).
MapsInverse ==
  Idle => /\ Len(proxyToSource) = Len(source)
          /\ Range(proxyToSource) = DOMAIN source
          /\ sourceToProxy = Reversed(proxyToSource)

\* Between any two signals, those of one changed range of rows and of the next
\* too, a view that has followed them all shows the proxy's rows.  It shows
\* their data except where a range that is still to be announced has changed;
\* the rows it cannot read any more are exactly the ones that the source has
\* lost, and they are masked.
ViewFollows ==
  Undelivered \/
    /\ Len(view) = Len(proxyToSource)
    /\ \A p \in DOMAIN view :
         IF p \in invalidated THEN view[p].of = 0
         ELSE /\ view[p].of = proxyToSource[p]
              /\ \/ view[p] = Shown(p)
                 \/ job.op = "announcing" /\ \E r \in job.ranges : p \in r.from..r.to

\* mapFromSource() called by a slot between two signals: a row of the source
\* is found where the view shows it, and not at all if the proxy has not
\* inserted it yet.
MapFromSourceRight ==
  Undelivered \/ job.op = "removing" \/
    \A s \in DOMAIN source :
      LET p == MapToProxyRow(s)
      IN  IF p # 0 THEN p \in DOMAIN view /\ view[p].of = s
                    ELSE job.op = "inserting" /\ \A q \in DOMAIN view : view[q].of # s

\* Rows are mapped right in both directions, in slots too where they can be.
MapsRight == MapsInverse /\ MapFromSourceRight

\* The iterators of reorder() stay in the mapping: orderedIt never gets before
\* the beginning, and the row that belongs at the end of the unordered rows is
\* among them, so that beginMoveRows() accepts every block.
IteratorsInRange ==
  job.op = "moving" =>
    /\ job.ordered >= 1 /\ job.unordered >= 1
    /\ OrderedAt # 1 => MovedRow \in 1..MoveTo - 1

\* A view sorted in ascending order is sorted after every insertion, removal,
\* change of data and change of the sort role.
SortedAscending ==
  Idle /\ m_sortColumn # -1 /\ m_order = "Ascending" => InOrder(source, proxyToSource)

\* reorder() ends in the requested order, and in the order of the source when
\* sorting is disabled, whatever order the rows were in.
ReorderSorts ==
  [][job.op = "moving" /\ Idle' =>
       IF m_sortColumn = -1 THEN proxyToSource' = Iota(Len(source'))
       ELSE InOrder(source', proxyToSource')]_vars

\* A persistent index stays with the row it was made for.  It may map to
\* another row of the source once that has inserted or removed rows before it
\* (index() stores the number of the source's row, and an index that stays in
\* place keeps it); but one that the proxy moves is made anew for the right row
\* even with the maps half done, and one that maps right keeps doing so while
\* the source's rows have their numbers.
PinStays ==
  /\ [](pin # None => view[pin.row].of = pin.of)
  /\ [][pin # None /\ pin' # None /\ pin.of = pin.internalId /\ pin'.of = pin.of
          => pin'.internalId = pin.of]_vars
  /\ [][pin # None /\ pin' # None /\ pin'.row # pin.row /\ pin'.of # 0
          => pin'.internalId = pin'.of]_vars

\* Every handler comes to its end: in each of its steps fewer rows are left to
\* be announced, moved, inserted or removed, and none of its loops can go round
\* for ever.
RowsLeft ==
  CASE job.op = "dataChanged" -> 3 * MaxRows + 2
    [] job.op = "announcing" -> 2 * MaxRows + 1 + Cardinality(job.ranges)
    [] job.op \in {"reorder", "rowsInserted", "rowsRemoved"} -> 2 * MaxRows + 1
    [] job.op = "moving"    -> job.ordered
    [] job.op = "inserting" -> Len(job.newRows) - job.newIt + 1
    [] job.op = "removing"  -> Cardinality(invalidated)
HandlerReturns == [][~Idle /\ ~Idle' => RowsLeft' < RowsLeft]_vars
=============================================================================
