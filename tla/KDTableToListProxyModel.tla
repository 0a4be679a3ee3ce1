---------------------- MODULE KDTableToListProxyModel ----------------------
(***************************************************************************)
(* KDTableToListProxyModel: shows the rows of a table as a list; each role *)
(* of the list is mapped to a column, and a role, of the table.            *)
(*                                                                         *)
(* Rows and columns of the source have identities, so that a mapping, a    *)
(* persistent index and what a view has read can be compared with what     *)
(* they stand for.  A change of the source that has an AboutToBe signal    *)
(* takes two steps: that signal's slot, then the change and the slot for   *)
(* the signal after it.  Other changes and their slots are one step.       *)
(* `view` is what a view has read that follows the proxy's signals.        *)
(* Rows and columns are counted from 1; column 0 is C++'s -1.              *)
(***************************************************************************)
EXTENDS ModelRows, SequencesExt

CONSTANTS
  RowIds, ColumnIds, \* the rows and columns a source can have
  DataRoles,         \* the roles of the proxy
  ColumnRoles,       \* the roles of the source
  Tables,            \* the contents of a source after a reset
  MaxColumn,         \* bound on the column numbers of stale mappings
  None               \* no row, no column, no data, no persistent index

Distinct(S) == {s \in BoundedSeq(S, Cardinality(S)) : IsInjective(s)}
NoTable == [columns |-> <<>>, rows |-> <<>>]

ASSUME TableToListAssumption ==
  /\ IsFiniteSet(RowIds) /\ IsFiniteSet(ColumnIds)
  /\ Tables \subseteq [columns : Distinct(ColumnIds), rows : Distinct(RowIds)]
  /\ MaxColumn \in Nat /\ MaxColumn >= Cardinality(ColumnIds)
  /\ None \notin RowIds \cup ColumnIds

VARIABLES
  hasSource,      \* m_sourceModel is set
  columns, rows,  \* the source's columns and top-level rows
  m_roleMappings, \* function from mapped data roles to [column, columnRole, of],
                  \* `of` being the column the mapping was made for
  change,         \* the change of the source under way, with saved indexes
  begun,          \* what beginInsertRows() and the like have announced
  resetting,      \* after beginResetModel(), until endResetModel()
  view,           \* what a view has read, by row and data role
  pin             \* a persistent index of the proxy, [row, of]

table == <<hasSource, columns, rows>>
vars  == <<table, m_roleMappings, change, begun, resetting, view, pin>>

NoChange == [op |-> "none"]
Idle     == change = NoChange
NotBegun == [kind |-> "none"]
-----------------------------------------------------------------------------
\* findRoleMapping() finds a mapping of the role.
Mapped(role) == role \in DOMAIN m_roleMappings

\* data(): which cell is shown for a data role in row p.
Data(p, role) ==
  IF Mapped(role) /\ m_roleMappings[role].column \in DOMAIN columns
  THEN <<rows[p], columns[m_roleMappings[role].column], m_roleMappings[role].columnRole>>
  ELSE <<None, None, None>>
AllData == [p \in DOMAIN rows |-> [role \in DataRoles |-> Data(p, role)]]

\* The persistent index of row p, and the row a persistent index is in.
IndexOf(s, id) == SelectInSeq(s, LAMBDA e : e = id)
At(s, i) == IF i \in DOMAIN s THEN s[i] ELSE None

\* beginResetModel() and endResetModel(): a view gives up what it has before
\* and reads everything afterwards.
BeginReset == resetting' = TRUE /\ view' = <<>> /\ pin' = None
EndReset ==
  /\ resetting' = FALSE
  /\ view' = AllData'
  /\ pin' = None

\* Another source, or the same one after a reset, has columns of its own, and
\* the mappings mean those that now have their numbers.
Remapped == [r \in DOMAIN m_roleMappings |->
  [m_roleMappings[r] EXCEPT !.of = At(columns', m_roleMappings[r].column)]]

\* beginInsertRows(), beginRemoveRows(), beginMoveRows() and their ends: a view
\* does what was announced, and persistent indexes move with their rows.
Begin(kind, first, last, to) ==
  /\ begun' = [kind |-> kind, first |-> first, last |-> last, to |-> to]
  /\ UNCHANGED <<resetting, view, pin>>

RowAfter(p) ==
  LET n == begun.last - begun.first + 1
      inside == p \in begun.first..begun.last
  IN  CASE begun.kind = "insert" -> IF p >= begun.first THEN p + n ELSE p
        [] begun.kind = "remove" -> IF inside THEN 0 ELSE IF p > begun.last THEN p - n ELSE p
        [] begun.kind = "move" /\ begun.to > begun.last ->
             IF inside THEN p + begun.to - begun.last - 1
             ELSE IF p \in begun.last + 1..begun.to - 1 THEN p - n ELSE p
        [] begun.kind = "move" /\ begun.to < begun.first ->
             IF inside THEN p - (begun.first - begun.to)
             ELSE IF p \in begun.to..begun.first - 1 THEN p + n ELSE p

End(kind) ==
  /\ begun' = IF begun.kind = kind THEN NotBegun ELSE [kind |-> "mismatched"]
  /\ view' = CASE resetting -> view
               [] ~resetting /\ begun.kind = "insert" ->
                    WithRowsAt(view, begun.first, SubSeq(AllData', begun.first, begun.last))
               [] ~resetting /\ begun.kind = "remove" -> WithoutRows(view, begun.first, begun.last)
               [] ~resetting /\ begun.kind = "move" ->
                    WithRowsMoved(view, begun.first, begun.last, begun.to)
  /\ pin' = IF pin = None \/ RowAfter(pin.row) = 0 THEN None
            ELSE [pin EXCEPT !.row = RowAfter(pin.row)]
  /\ UNCHANGED resetting

\* dataChanged() of the proxy for rows first..last and some data roles.
EmitDataChanged(first, last, roles) ==
  view' = IF resetting THEN view
          ELSE [p \in DOMAIN view |->
                 IF p \in first..last
                 THEN [r \in DataRoles |-> IF r \in roles THEN AllData'[p][r] ELSE view[p][r]]
                 ELSE view[p]]
-----------------------------------------------------------------------------
Init ==
  /\ hasSource = FALSE /\ columns = <<>> /\ rows = <<>>
  /\ m_roleMappings = <<>>
  /\ change = NoChange /\ begun = NotBegun /\ resetting = FALSE
  /\ view = <<>> /\ pin = None

\* setSourceModel() of a model that has t, or of none as when the source is destroyed.
SetSourceModel(has, t) ==
  /\ Idle
  /\ hasSource' = has /\ columns' = t.columns /\ rows' = t.rows
  /\ m_roleMappings' = Remapped
  /\ EndReset
  /\ UNCHANGED <<change, begun>>
SourceModelDestroyed == hasSource /\ SetSourceModel(FALSE, NoTable)

SetRoleMapping ==
  /\ Idle /\ hasSource
  /\ UNCHANGED <<table, change, begun>>
  /\ \E role \in DataRoles, column \in DOMAIN columns, columnRole \in ColumnRoles :
       m_roleMappings' = [r \in DOMAIN m_roleMappings \cup {role} |->
         IF r = role THEN [column |-> column, columnRole |-> columnRole, of |-> columns[column]]
         ELSE m_roleMappings[r]]
  /\ EndReset

UnsetRoleMapping ==
  /\ Idle
  /\ UNCHANGED <<table, change, begun>>
  /\ \E role \in DataRoles :
       /\ Mapped(role)
       /\ m_roleMappings' = Restrict(m_roleMappings, DOMAIN m_roleMappings \ {role})
  /\ EndReset

\* A view keeps a persistent index.
Pin ==
  /\ Idle /\ ~resetting /\ pin = None
  /\ \E p \in DOMAIN view : pin' = [row |-> p, of |-> rows[p]]
  /\ UNCHANGED <<table, m_roleMappings, change, begun, resetting, view>>
-----------------------------------------------------------------------------
(* Changed data, and rows. *)

\* The roles of the proxy that show changed cells.
MappedRolesChanged(firstColumn, lastColumn, roles) ==
  {r \in DOMAIN m_roleMappings :
     /\ m_roleMappings[r].column \in firstColumn..lastColumn
     /\ roles = {} \/ m_roleMappings[r].columnRole \in roles}

\* dataChangedInSourceModel(): roles = {} stands for all roles of the source.
\* What a view has read of the changed cells before is outdated.
CellsChanged(first, last, firstColumn, lastColumn, roles) ==
  LET Hit(cell) == /\ cell[1] \in {rows[p] : p \in first..last}
                   /\ cell[2] \in {columns[c] : c \in firstColumn..lastColumn}
                   /\ roles = {} \/ cell[3] \in roles
      mapped == MappedRolesChanged(firstColumn, lastColumn, roles)
  IN  view' = [p \in DOMAIN view |-> [r \in DataRoles |->
        IF p \in first..last /\ r \in mapped THEN Data(p, r)
        ELSE IF Hit(view[p][r]) THEN <<"outdated", None, None>> ELSE view[p][r]]]
DataChanged ==
  /\ Idle /\ ~resetting
  /\ \E first, last \in DOMAIN rows, firstColumn, lastColumn \in DOMAIN columns :
     \E roles \in SUBSET ColumnRoles :
       /\ first <= last /\ firstColumn <= lastColumn
       /\ CellsChanged(first, last, firstColumn, lastColumn, roles)
  /\ UNCHANGED <<table, m_roleMappings, change, begun, resetting, pin>>

\* rowsAboutToBeInsertedInSourceModel(), rowsInsertedInSourceModel()
RowsAboutToBeInserted ==
  /\ Idle /\ hasSource
  /\ \E new \in Distinct(RowIds \ Range(rows)) \ {<<>>}, at \in 1..Len(rows) + 1 :
       /\ change' = [op |-> "rowsInserted", rows |-> WithRowsAt(rows, at, new)]
       /\ Begin("insert", at, at + Len(new) - 1, 0)
  /\ UNCHANGED <<table, m_roleMappings>>
RowsInserted ==
  /\ change.op = "rowsInserted"
  /\ UNCHANGED <<hasSource, columns, m_roleMappings>>
  /\ rows' = change.rows
  /\ End("insert")
  /\ change' = NoChange

\* rowsAboutToBeRemovedInSourceModel(), rowsRemovedInSourceModel()
RowsAboutToBeRemoved ==
  /\ Idle
  /\ \E first, last \in DOMAIN rows :
       /\ first <= last
       /\ change' = [op |-> "rowsRemoved", rows |-> WithoutRows(rows, first, last)]
       /\ Begin("remove", first, last, 0)
  /\ UNCHANGED <<table, m_roleMappings>>
RowsRemoved ==
  /\ change.op = "rowsRemoved"
  /\ UNCHANGED <<hasSource, columns, m_roleMappings>>
  /\ rows' = change.rows
  /\ End("remove")
  /\ change' = NoChange

\* rowsAboutToBeMovedInSourceModel(), rowsMovedInSourceModel(): from elsewhere
\* in the source to below the root, the other way, or below the root.  Moves
\* that begin and end elsewhere return at once.
RowsAboutToBeMoved ==
  /\ Idle /\ hasSource
  /\ \/ \E new \in Distinct(RowIds \ Range(rows)) \ {<<>>}, to \in 1..Len(rows) + 1 :
          /\ change' = [op |-> "rowsMoved", rows |-> WithRowsAt(rows, to, new),
                        fromRoot |-> FALSE, toRoot |-> TRUE]
          /\ Begin("insert", to, to + Len(new) - 1, 0)
     \/ \E first, last \in DOMAIN rows :
          /\ first <= last
          /\ change' = [op |-> "rowsMoved", rows |-> WithoutRows(rows, first, last),
                        fromRoot |-> TRUE, toRoot |-> FALSE]
          /\ Begin("remove", first, last, 0)
     \/ \E first, last \in DOMAIN rows : \E to \in MoveTargets(Len(rows), first, last) :
          /\ first <= last
          /\ change' = [op |-> "rowsMoved", rows |-> WithRowsMoved(rows, first, last, to),
                        fromRoot |-> TRUE, toRoot |-> TRUE]
          /\ Begin("move", first, last, to)
  /\ UNCHANGED <<table, m_roleMappings>>

\* Mistake: looking only at where the rows come from.
MoveEndsAsFrom == IF change.fromRoot THEN "move" ELSE "insert"

MoveEndsAs ==
  CASE ~change.fromRoot -> "insert"
    [] change.fromRoot /\ ~change.toRoot -> "remove"
    [] change.fromRoot /\ change.toRoot -> "move"
RowsMoved ==
  /\ change.op = "rowsMoved"
  /\ UNCHANGED <<hasSource, columns, m_roleMappings>>
  /\ rows' = change.rows
  /\ End(MoveEndsAs)
  /\ change' = NoChange
-----------------------------------------------------------------------------
(* Columns. *)

\* Mistake: leaving a mapping to the first of the columns behind.
AfterInsertBehind(c, first, last) == IF c > first THEN c + last - first + 1 ELSE c

\* Where a mapping to column c goes.
AfterInsert(c, first, last) == IF c >= first THEN c + last - first + 1 ELSE c
AfterRemove(c, first, last) == IF c > last THEN c - (last - first + 1) ELSE c
AfterMove(c, start, end, column) ==
  IF start < column
  THEN CASE c < start -> c
         [] c \in start..end -> c + column - end - 1
         [] c \in end + 1..column - 1 -> c - (end - start + 1)
         [] c >= column -> c
  ELSE CASE c < column -> c
         [] c \in column..start - 1 -> c + end - start + 1
         [] c >= start -> c \* the branch for start..end asks for c < column again

\* `to` tells for each column a mapping can have where it goes.
SetColumns(to) ==
  m_roleMappings' = [r \in DOMAIN m_roleMappings |->
    [m_roleMappings[r] EXCEPT !.column = to[@]]]

\* columnsInsertedInSourceModel()
InsertedColumns(first, last) ==
  /\ SetColumns([c \in 0..MaxColumn |-> AfterInsert(c, first, last)])
  /\ UNCHANGED view

\* Mistake: forgetting to announce the roles that have lost their column.
RemovedColumnsSilently(first, last) ==
  LET lost == {r \in DOMAIN m_roleMappings : m_roleMappings[r].column \in first..last}
  IN  /\ m_roleMappings' = [r \in DOMAIN m_roleMappings \ lost |->
           [m_roleMappings[r] EXCEPT !.column = AfterRemove(@, first, last)]]
      /\ UNCHANGED view

\* columnsRemovedInSourceModel(): mappings to removed columns are removed, too.
RemovedColumns(first, last) ==
  LET lost == {r \in DOMAIN m_roleMappings : m_roleMappings[r].column \in first..last}
  IN  /\ m_roleMappings' = [r \in DOMAIN m_roleMappings \ lost |->
           [m_roleMappings[r] EXCEPT !.column = AfterRemove(@, first, last)]]
      /\ IF lost = {} THEN UNCHANGED view ELSE EmitDataChanged(1, Len(rows), lost)

\* What the source inserts, with the bound on stale mappings.
NewColumns ==
  {new \in Distinct(ColumnIds \ Range(columns)) \ {<<>>} :
     \A r \in DOMAIN m_roleMappings : m_roleMappings[r].column + Len(new) <= MaxColumn}

ColumnsInserted ==
  /\ Idle /\ hasSource
  /\ UNCHANGED <<hasSource, rows, change, begun, resetting, pin>>
  /\ \E new \in NewColumns, at \in 1..Len(columns) + 1 :
       /\ columns' = WithRowsAt(columns, at, new)
       /\ InsertedColumns(at, at + Len(new) - 1)

ColumnsRemoved ==
  /\ Idle
  /\ UNCHANGED <<hasSource, rows, change, begun, resetting, pin>>
  /\ \E first, last \in DOMAIN columns :
       /\ first <= last
       /\ columns' = WithoutRows(columns, first, last)
       /\ RemovedColumns(first, last)

\* columnsMovedInSourceModel(): columns that come from elsewhere in the source
\* are inserted, and those that go there are removed.
ColumnsMovedFrom(start, end, column, new) ==
  /\ columns' = WithRowsAt(columns, column, new)
  /\ InsertedColumns(column, column + end - start)
ColumnsMovedAway(start, end) ==
  /\ columns' = WithoutRows(columns, start, end)
  /\ RemovedColumns(start, end)
ColumnsMovedBelowRoot(start, end, column) ==
  /\ columns' = WithRowsMoved(columns, start, end, column)
  /\ SetColumns([c \in 0..MaxColumn |-> AfterMove(c, start, end, column)])
  /\ UNCHANGED view
ColumnsMoved ==
  /\ Idle /\ hasSource
  /\ UNCHANGED <<hasSource, rows, change, begun, resetting, pin>>
  /\ \/ \E new \in NewColumns, column \in 1..Len(columns) + 1 :
          ColumnsMovedFrom(1, Len(new), column, new)
     \/ \E start, end \in DOMAIN columns : start <= end /\ ColumnsMovedAway(start, end)
     \/ \E start, end \in DOMAIN columns : \E column \in MoveTargets(Len(columns), start, end) :
          start <= end /\ ColumnsMovedBelowRoot(start, end, column)
-----------------------------------------------------------------------------
(* Resets and layout changes. *)

\* modelAboutToBeResetInSourceModel(), modelResetInSourceModel()
ModelAboutToBeReset ==
  /\ Idle /\ hasSource
  /\ change' = [op |-> "reset"]
  /\ BeginReset
  /\ UNCHANGED <<table, m_roleMappings, begun>>
ModelReset ==
  /\ change.op = "reset"
  /\ UNCHANGED <<hasSource, begun>>
  /\ \E t \in Tables : columns' = t.columns /\ rows' = t.rows
  /\ m_roleMappings' = Remapped
  /\ EndReset
  /\ change' = NoChange

\* layoutAboutToBeChangedInSourceModel() for a change below the root; a source
\* without rows is ignored.
HasChildren == rows # <<>> /\ columns # <<>>
LayoutAboutToBeChanged ==
  /\ Idle /\ hasSource
  /\ \/ /\ change' = [op |-> "layout"]
        /\ IF HasChildren THEN BeginReset ELSE UNCHANGED <<resetting, view, pin>>
     \/ /\ \/ change' = [op |-> "verticalSort",
                         saved |-> IF HasChildren /\ pin # None THEN At(rows, pin.row) ELSE None]
           \/ change' = [op |-> "horizontalSort",
                         saved |-> IF HasChildren
                                   THEN [r \in DOMAIN m_roleMappings |-> At(columns, m_roleMappings[r].column)]
                                   ELSE <<>>]
        /\ UNCHANGED <<resetting, view, pin>>
  /\ UNCHANGED <<table, m_roleMappings, begun>>

\* layoutChangedInSourceModel(): without a hint anything can have happened,
\* and a reset is ended; rows that have been sorted are found again by the
\* persistent indexes saved before, and so are columns.
\* The mappings keep their numbers without a hint, whatever became of the columns
\* they were made for.
\* Unhinted changes that go unnoticed at both ends keep the number of rows here.
LayoutChanged ==
  /\ change.op = "layout"
  /\ UNCHANGED <<hasSource, m_roleMappings, begun>>
  /\ \E t \in Tables : columns' = t.columns /\ rows' = t.rows
  /\ ~HasChildren /\ ~HasChildren' => Len(rows') = Len(rows)
  /\ IF HasChildren' THEN EndReset ELSE UNCHANGED <<resetting, view, pin>>
  /\ change' = NoChange

RowsSorted ==
  /\ change.op = "verticalSort"
  /\ UNCHANGED <<hasSource, columns, m_roleMappings, begun, resetting>>
  /\ rows' \in SetToSeqs(Range(rows))
  /\ view' = IF HasChildren /\ ~resetting THEN AllData' ELSE view
  /\ pin' = IF change.saved # None THEN [pin EXCEPT !.row = IndexOf(rows', change.saved)] ELSE pin
  /\ change' = NoChange

ColumnsSorted ==
  /\ change.op = "horizontalSort"
  /\ columns' \in SetToSeqs(Range(columns))
  /\ IF HasChildren
     THEN m_roleMappings' = [r \in DOMAIN m_roleMappings |->
            [m_roleMappings[r] EXCEPT !.column = IndexOf(columns', change.saved[r])]]
     ELSE UNCHANGED m_roleMappings
  /\ change' = NoChange
  /\ UNCHANGED <<hasSource, rows, begun, resetting, view, pin>>
-----------------------------------------------------------------------------
RowStep ==
  \/ RowsAboutToBeInserted \/ RowsInserted
  \/ RowsAboutToBeRemoved \/ RowsRemoved
  \/ RowsAboutToBeMoved \/ RowsMoved
ColumnStep ==
  \/ ColumnsInserted \/ ColumnsRemoved \/ ColumnsMoved
LayoutStep ==
  \/ ModelAboutToBeReset \/ ModelReset
  \/ LayoutAboutToBeChanged \/ LayoutChanged \/ RowsSorted \/ ColumnsSorted

Next ==
  \/ (\E t \in Tables : SetSourceModel(TRUE, t)) \/ SourceModelDestroyed
  \/ SetRoleMapping \/ UnsetRoleMapping \/ Pin
  \/ DataChanged
  \/ RowStep \/ ColumnStep \/ LayoutStep

Spec == Init /\ [][Next]_vars
-----------------------------------------------------------------------------
\* Every beginInsertRows(), beginRemoveRows() and beginMoveRows() is followed
\* by its own end, also when the source moves rows into or out of the list.
ChangesPaired ==
  begun.kind # "mismatched" /\ (Idle => begun = NotBegun)

\* A role shows the column that it was mapped to.
ShowsItsColumn(r) == At(columns, m_roleMappings[r].column) = m_roleMappings[r].of

\* When the source moves columns, the roles mapped to them move with them.
MovedColumnsKeepRoles ==
  [][ColumnsMoved => \A r \in DOMAIN m_roleMappings' : ShowsItsColumn(r) => ShowsItsColumn(r)']_vars

\* Three kinds of steps do go wrong: moves to the left of the column of a role;
\* layout changes without a hint, after which the mappings have their old
\* numbers though columns have been added, removed or moved; and layout changes
\* of a table that has no rows or no columns before and after, which are ignored.
MovedLeft(r) ==
  \E start, end \in DOMAIN columns : \E column \in 1..start - 1 :
    m_roleMappings[r].column \in start..end /\ ColumnsMovedBelowRoot(start, end, column)
Unhinted == change.op = "layout"
Overlooked ==
  /\ change.op \in {"layout", "verticalSort", "horizontalSort"}
  /\ ~HasChildren /\ ~HasChildren'

\* No other change of the source makes a role show another column, also while
\* other roles do so; and a role that is mapped anew shows its column.
RolesKeepColumnsElse ==
  [][\A r \in DOMAIN m_roleMappings' :
       (Mapped(r) => ShowsItsColumn(r))
         => ShowsItsColumn(r)' \/ Unhinted \/ Overlooked \/ (Mapped(r) /\ MovedLeft(r))]_vars

\* A view that follows the signals shows what data() returns in spite of every
\* change of the source but moves to the left of a mapped column and changes
\* that are ignored, and a persistent index points to its row.
ViewRight == resetting \/ view = AllData
PinRight  == pin = None \/ resetting \/ At(rows, pin.row) = pin.of
FollowersStayRight ==
  [][/\ ViewRight => ViewRight' \/ Overlooked \/ \E r \in DOMAIN m_roleMappings : MovedLeft(r)
     /\ PinRight => PinRight' \/ Overlooked]_vars
=============================================================================
