--------------------------- MODULE UpdateableModel ---------------------------
(***************************************************************************)
(* KDToolBox's UpdateableModel: updateData() walks through the rows it is  *)
(* given and the rows of the model, both ordered, and inserts, removes and *)
(* changes rows until they are the same.  Changes of neighbouring rows are *)
(* kept back to be announced together, as the policy says.                 *)
(*                                                                         *)
(* A row has a key, which lessThan() compares, and a version, which is the *)
(* set of its cells that differ from what they are otherwise.  A view      *)
(* follows the signals of the model and reads what they tell it to read.   *)
(* One step is one iteration of updateCollection().  Rows count from 1.    *)
(***************************************************************************)
EXTENDS ModelRows, FiniteSets

CONSTANTS
  Keys,       \* integers
  Columns,    \* integers
  Roles,
  Versions,   \* the versions of a row, sets of cells
  MaxRows,    \* bound: the rows that updateData() is given
  None        \* no changes are kept back: m_firstChangedRow is -1

Cells == Columns \X Roles
Row   == [key : Keys, cells : Versions]

ASSUME UpdateableModelAssumption ==
  /\ Keys \subseteq Int /\ Columns \subseteq Int /\ IsFiniteSet(Columns) /\ MaxRows \in Nat
  /\ Versions \subseteq SUBSET Cells
  /\ None \notin [first : Nat, last : Nat, columns : SUBSET Columns, roles : SUBSET Roles]

Policies == {"AlwaysMergeNeighbouringRows", "MergeWhenColumnsMatch",
             "MergeWhenRolesMatch", "MergeOnPerfectMatch"}

VARIABLES
  source,            \* the rows from srcBegin to srcEnd
  target,            \* targetContainer
  srcIt, targetIt,   \* the iterators
  changeMergePolicy,
  changes,           \* m_firstChangedRow to m_changedRoles, or None
  updating,          \* updateData() runs
  ops,               \* Operations
  view,              \* history: the rows as the view has got to know them
  rowsBefore,        \* history: the number of rows before updateData()
  rolesLost          \* history: a change with more roles than one it was merged
                     \* with has ever lost them

vars == <<source, target, srcIt, targetIt, changeMergePolicy, changes, updating, ops, view, rowsBefore, rolesLost>>

lessThan(a, b)     == a.key < b.key
Differing(a, b)    == (a \ b) \cup (b \ a)
ChangedColumns(cs) == {cell[1] : cell \in cs}
ChangedRoles(cs)   == {cell[2] : cell \in cs}

Init ==
  /\ source = <<>> /\ target = <<>> /\ view = <<>>
  /\ srcIt = 1 /\ targetIt = 1 /\ updating = FALSE
  /\ changes = None /\ changeMergePolicy = "MergeOnPerfectMatch"
  /\ ops = [inserts |-> 0, removals |-> 0, updates |-> 0] /\ rowsBefore = 0 /\ rolesLost = FALSE
-----------------------------------------------------------------------------
\* The ranges of columns that flushCachedChanges() builds.
ColumnRanges(columns) ==
  {r \in columns \X columns :
     r[1] <= r[2] /\ r[1] .. r[2] \subseteq columns /\ {r[1] - 1, r[2] + 1} \cap columns = {}}

\* What a view reads on dataChanged(); no roles are all roles.
Reread(old, now, columns, roles) ==
  [old EXCEPT !.cells =
     {cell \in now.cells \cup old.cells :
        cell \in IF cell[1] \in columns /\ (roles = {} \/ cell[2] \in roles) THEN now.cells ELSE old.cells}]

\* Mistake: announcing the first of the rows only.
FlushedFirst ==
  IF changes = None THEN view
  ELSE [view EXCEPT ![changes.first] = Reread(@, target[changes.first], changes.columns, changes.roles)]

\* flushCachedChanges(): what the view has after it.
Flushed ==
  IF changes = None THEN view
  ELSE LET announced == UNION {r[1] .. r[2] : r \in ColumnRanges(changes.columns)}
       IN  [row \in DOMAIN view |->
              IF row \in changes.first .. changes.last
              THEN Reread(view[row], target[row], announced, changes.roles) ELSE view[row]]

\* addChange(): the new change becomes part of those kept back, if the policy
\* says so, and otherwise takes their place when they have been announced.
Merges(columns, roles) ==
  /\ changes # None
  /\ CASE changeMergePolicy = "AlwaysMergeNeighbouringRows" -> TRUE
       [] changeMergePolicy = "MergeWhenColumnsMatch" -> changes.columns = columns
       [] changeMergePolicy = "MergeWhenRolesMatch"   -> changes.roles = roles
       [] changeMergePolicy = "MergeOnPerfectMatch"   -> changes.columns = columns /\ changes.roles = roles

MergedRoles(roles) ==
  IF changeMergePolicy \in {"AlwaysMergeNeighbouringRows", "MergeWhenColumnsMatch"}
  THEN changes.roles \cap roles ELSE changes.roles

AddChange(row, columns, roles) ==
  IF Merges(columns, roles)
  THEN /\ changes' = [changes EXCEPT !.last = row, !.columns = @ \cup columns, !.roles = MergedRoles(roles)]
       /\ rolesLost' = (rolesLost \/ MergedRoles(roles) \notin {{}, changes.roles \cup roles})
       /\ UNCHANGED view
  ELSE /\ changes' = [first |-> row, last |-> row, columns |-> columns, roles |-> roles]
       /\ view' = Flushed /\ UNCHANGED rolesLost

\* onEqual(), and the end of updateData(): what is kept back is announced.
FlushChanges == view' = Flushed /\ changes' = None
-----------------------------------------------------------------------------
setChangeMergePolicy ==
  /\ ~updating /\ changeMergePolicy' \in Policies
  /\ UNCHANGED <<source, target, srcIt, targetIt, changes, updating, ops, view, rowsBefore, rolesLost>>

\* updateCollection() up to its loop.
BeginBoth == srcIt' = 1 /\ targetIt' = 1

\* Bound: no update is followed that comes after one which lost roles.
UpdateData ==
  /\ ~updating /\ updating' = TRUE /\ ~rolesLost
  /\ \E n \in 0..MaxRows : \E rows \in [1..n -> Row] :
       /\ \A i \in 1 .. n - 1 : ~lessThan(rows[i + 1], rows[i])
       /\ source' = rows
  /\ BeginBoth /\ rowsBefore' = Len(target)
  /\ ops' = [inserts |-> 0, removals |-> 0, updates |-> 0]
  /\ UNCHANGED <<target, changeMergePolicy, changes, view, rolesLost>>

More  == updating /\ srcIt <= Len(source)
AtEnd == targetIt > Len(target)

\* The rows of s from i to `last` come before `row`, and the one behind them
\* does not.
Before(s, i, last, row) ==
  /\ last \in i .. Len(s)
  /\ \A k \in i .. last : lessThan(s[k], row)
  /\ last < Len(s) => ~lessThan(s[last + 1], row)

\* std::rotate(): the rows of s from `middle` on come before those from `first`.
Rotated(s, first, middle) ==
  SubSeq(s, 1, first - 1) \o SubSeq(s, middle, Len(s)) \o SubSeq(s, first, middle - 1)

\* insertRange(): what becomes of the container, and the row behind those that have been
\* inserted.  A container that cannot insert a range appends the rows and rotates them.
insertRange(container, before, rows) ==
  {[container |-> inserted, next |-> before + Len(rows)] : inserted \in
     {WithRowsAt(container, before, rows), Rotated(container \o rows, before, Len(container) + 1)}}

\* onInsert() of the rows of the source up to `last`.
onInsert(last) ==
  LET rows == SubSeq(source, srcIt, last) IN
  /\ \E range \in insertRange(target, targetIt, rows) :
       target' = range.container /\ targetIt' = range.next
  /\ view' = WithRowsAt(Flushed, targetIt, rows) /\ changes' = None
  /\ ops' = [ops EXCEPT !.inserts = @ + Len(rows)]
InsertRows ==
  /\ More
  /\ \E last \in srcIt .. Len(source) :
       /\ IF AtEnd THEN last = Len(source) ELSE Before(source, srcIt, last, target[targetIt])
       /\ onInsert(last) /\ srcIt' = last + 1
  /\ UNCHANGED <<source, changeMergePolicy, updating, rowsBefore, rolesLost>>

\* onRemove(), also for what is left when the source has ended, which ends
\* the update too.
RemoveRows(last) ==
  /\ target' = WithoutRows(target, targetIt, last) /\ view' = WithoutRows(Flushed, targetIt, last)
  /\ ops' = [ops EXCEPT !.removals = @ + last - targetIt + 1]
  /\ changes' = None
RemoveSome ==
  /\ More /\ ~AtEnd
  /\ \E last \in targetIt .. Len(target) :
       Before(target, targetIt, last, source[srcIt]) /\ RemoveRows(last)
  /\ UNCHANGED <<source, srcIt, targetIt, changeMergePolicy, updating, rowsBefore, rolesLost>>

\* Mistake: not going on to the target's next row.
KeepEqual ==
  /\ More /\ ~AtEnd /\ source[srcIt] = target[targetIt]
  /\ changes' = None /\ view' = Flushed
  /\ UNCHANGED <<source, target, srcIt, targetIt, changeMergePolicy, updating, ops, rowsBefore, rolesLost>>

\* Rows with the same key.  hasChanged() may leave
\* out the roles, which means all of them.
Same == More /\ ~AtEnd /\ source[srcIt].key = target[targetIt].key
Equal ==
  /\ Same /\ source[srcIt] = target[targetIt]
  /\ FlushChanges
  /\ srcIt' = srcIt + 1 /\ targetIt' = targetIt + 1
  /\ UNCHANGED <<source, target, changeMergePolicy, updating, ops, rowsBefore, rolesLost>>
Change ==
  /\ Same /\ source[srcIt] # target[targetIt]
  /\ target' = [target EXCEPT ![targetIt] = source[srcIt]]
  /\ LET cells == Differing(source[srcIt].cells, target[targetIt].cells) IN
       \E roles \in {ChangedRoles(cells), {}} : AddChange(targetIt, ChangedColumns(cells), roles)
  /\ srcIt' = srcIt + 1 /\ targetIt' = targetIt + 1
  /\ ops' = [ops EXCEPT !.updates = @ + 1]
  /\ UNCHANGED <<source, changeMergePolicy, updating, rowsBefore>>

\* Mistake: leaving the rows behind the last one given.
FinishLeavingRows ==
  /\ updating /\ srcIt > Len(source) /\ updating' = FALSE
  /\ view' = Flushed /\ changes' = None
  /\ UNCHANGED <<source, target, srcIt, targetIt, changeMergePolicy, ops, rowsBefore, rolesLost>>

Finish ==
  /\ updating /\ srcIt > Len(source) /\ updating' = FALSE
  /\ IF AtEnd THEN FlushChanges /\ UNCHANGED <<target, ops>> ELSE RemoveRows(Len(target))
  /\ UNCHANGED <<source, srcIt, targetIt, changeMergePolicy, rowsBefore, rolesLost>>
-----------------------------------------------------------------------------
Step == InsertRows \/ RemoveSome \/ Equal \/ Change \/ Finish
Next == setChangeMergePolicy \/ UpdateData \/ Step

\* updateData() runs.
Spec == Init /\ [][Next]_vars /\ WF_vars(Step)
-----------------------------------------------------------------------------
\* The view has the rows of the model at any time, except that it has old data
\* in exactly those rows whose changes are being kept back.
RowsKeptBack == IF changes = None THEN {} ELSE changes.first .. changes.last
ViewIsBehind ==
  /\ Len(view) = Len(target)
  /\ {row \in DOMAIN view : view[row] # target[row]} = RowsKeptBack

\* So it is as long as no merged change has lost roles.
ViewIsBehindElse == ~rolesLost => ViewIsBehind

\* After an update the model has the rows it was given, and what updateData()
\* returns accounts for them.
Updated ==
  ~updating =>
    /\ target = source
    /\ Len(target) = rowsBefore + ops.inserts - ops.removals

\* Every update ends.
UpdateEnds == updating ~> ~updating
=============================================================================
