------------------------ MODULE UpdateableModelProofs ------------------------
(***************************************************************************)
(* What updateData() makes of the rows of a model and of a view that       *)
(* follows its signals, for any rows, columns and roles.                   *)
(***************************************************************************)
EXTENDS UpdateableModel, ModelRowsProofs

KeptBackChange == [first : Nat, last : Nat, columns : SUBSET Columns, roles : SUBSET Roles]
ViewRow        == [key : Keys, cells : SUBSET Cells]
Counts         == [inserts : Nat, removals : Nat, updates : Nat]

TypeOK ==
  /\ source \in Seq(Row) /\ target \in Seq(Row) /\ view \in Seq(ViewRow)
  /\ srcIt \in Nat /\ targetIt \in Nat
  /\ changeMergePolicy \in Policies
  /\ changes \in KeptBackChange \cup {None}
  /\ updating \in BOOLEAN /\ rolesLost \in BOOLEAN
  /\ ops \in Counts /\ rowsBefore \in Nat

\* The rows in front of the iterators are done, and those behind them are not.
Walked ==
  IF updating
  THEN /\ srcIt \in 1 .. Len(source) + 1 /\ targetIt = srcIt /\ targetIt <= Len(target) + 1
       /\ \A row \in 1 .. srcIt - 1 : target[row] = source[row]
  ELSE target = source /\ changes = None

Accounted == Len(target) = rowsBefore + ops.inserts - ops.removals

\* The view does not know that a row has changed, but what is kept back tells it.
Owed(row) ==
  /\ view[row] # target[row] /\ view[row].key = target[row].key
  /\ \A cell \in Differing(view[row].cells, target[row].cells) :
       cell[1] \in changes.columns /\ (changes.roles = {} \/ cell[2] \in changes.roles)

\* The rows that are kept back are the last ones in front of the iterator.
KeptBack ==
  /\ Len(view) = Len(target)
  /\ changes # None => changes.first \in 1 .. changes.last /\ changes.last = targetIt - 1
  /\ ~rolesLost =>
       \A row \in 1 .. Len(target) : IF row \in RowsKeptBack THEN Owed(row) ELSE view[row] = target[row]

UpdateInv == TypeOK /\ Walked /\ Accounted /\ KeptBack
-----------------------------------------------------------------------------
(* The operators *)

\* The ranges that are announced are those of the columns that have changed.
LEMMA RangesCover ==
  ASSUME NEW columns \in SUBSET Columns
  PROVE  UNION {r[1] .. r[2] : r \in ColumnRanges(columns)} = columns
<1>1. IsFiniteSet(columns) /\ columns \subseteq Int
  BY UpdateableModelAssumption, FS_Subset
<1>2. Cardinality(columns) \in Nat
  BY <1>1, FS_CardinalityType
<1>3. ASSUME NEW c \in columns PROVE \E r \in ColumnRanges(columns) : c \in r[1] .. r[2]
  <2> DEFINE Above == {n \in Nat : c + n + 1 \notin columns}
             Below == {n \in Nat : c - n - 1 \notin columns}
             many  == Cardinality(columns)
  <2>1. c \in Int
    BY <1>1
  <2>2. Above # {}
    <3>1. SUFFICES ASSUME Above = {} PROVE FALSE
      OBVIOUS
    <3>2. \A n \in Nat : c + n + 1 \in columns
      BY <3>1
    <3>3. ASSUME NEW x \in c + 1 .. c + many + 1 PROVE x \in columns
      <4>1. x - c - 1 \in Nat /\ c + (x - c - 1) + 1 = x
        BY <1>2, <2>1
      <4>. QED BY <3>2, <4>1
    <3>4. Cardinality(c + 1 .. c + many + 1) = many + 1
      BY <1>2, <2>1, FS_Interval
    <3>5. Cardinality(c + 1 .. c + many + 1) <= many
      BY <1>1, <3>3, FS_Subset
    <3>. QED BY <1>2, <3>4, <3>5
  <2>3. Below # {}
    <3>1. SUFFICES ASSUME Below = {} PROVE FALSE
      OBVIOUS
    <3>2. \A n \in Nat : c - n - 1 \in columns
      BY <3>1
    <3>3. ASSUME NEW x \in c - many - 1 .. c - 1 PROVE x \in columns
      <4>1. c - x - 1 \in Nat /\ c - (c - x - 1) - 1 = x
        BY <1>2, <2>1
      <4>. QED BY <3>2, <4>1
    <3>4. Cardinality(c - many - 1 .. c - 1) = many + 1
      BY <1>2, <2>1, FS_Interval
    <3>5. Cardinality(c - many - 1 .. c - 1) <= many
      BY <1>1, <3>3, FS_Subset
    <3>. QED BY <1>2, <3>4, <3>5
  <2>4. PICK n \in Above : \A m \in Above : n <= m
    BY <2>2, LeastNumber
  <2>5. PICK k \in Below : \A m \in Below : k <= m
    BY <2>3, LeastNumber
  <2>6. ASSUME NEW x \in c .. c + n PROVE x \in columns
    <3>1. CASE x = c
      BY <3>1
    <3>2. CASE x # c
      <4>1. x - c - 1 \in Nat /\ x - c - 1 < n /\ c + (x - c - 1) + 1 = x
        BY <2>1, <3>2
      <4>. QED BY <2>4, <4>1
    <3>. QED BY <3>1, <3>2
  <2>7. ASSUME NEW x \in c - k .. c PROVE x \in columns
    <3>1. CASE x = c
      BY <3>1
    <3>2. CASE x # c
      <4>1. c - x - 1 \in Nat /\ c - x - 1 < k /\ c - (c - x - 1) - 1 = x
        BY <2>1, <3>2
      <4>. QED BY <2>5, <4>1
    <3>. QED BY <3>1, <3>2
  <2>8. c - k \in columns /\ c + n \in columns /\ c - k <= c + n /\ c \in c - k .. c + n
    BY <2>1, <2>6, <2>7
  <2>9. ASSUME NEW x \in c - k .. c + n PROVE x \in columns
    BY <2>1, <2>6, <2>7
  <2>10. (c - k) - 1 \notin columns /\ (c + n) + 1 \notin columns
    BY <2>1
  <2>11. <<c - k, c + n>> \in ColumnRanges(columns)
    BY <2>8, <2>9, <2>10 DEF ColumnRanges
  <2>. QED BY <2>8, <2>11
<1>4. ASSUME NEW r \in ColumnRanges(columns), NEW x \in r[1] .. r[2] PROVE x \in columns
  BY DEF ColumnRanges
<1>. QED BY <1>3, <1>4

\* A view that reads all cells in which it differs has the row then.
LEMMA RereadRight ==
  ASSUME NEW old \in ViewRow, NEW now \in Row, NEW columns, NEW roles
  PROVE  /\ Reread(old, now, columns, roles) \in ViewRow
         /\ (/\ old.key = now.key
             /\ \A cell \in Differing(old.cells, now.cells) : cell[1] \in columns /\ (roles = {} \/ cell[2] \in roles))
            => Reread(old, now, columns, roles) = now
<1> DEFINE cells == {cell \in now.cells \cup old.cells :
                       cell \in IF cell[1] \in columns /\ (roles = {} \/ cell[2] \in roles) THEN now.cells ELSE old.cells}
<1>1. /\ now.cells \in SUBSET Cells /\ now = [key |-> now.key, cells |-> now.cells]
      /\ old.cells \in SUBSET Cells /\ old.key \in Keys
  BY UpdateableModelAssumption DEF Row, ViewRow
<1>2. Reread(old, now, columns, roles) = [key |-> old.key, cells |-> cells]
  BY DEF Reread, ViewRow
<1>3. cells \in SUBSET Cells
  BY <1>1
<1>4. ASSUME \A cell \in Differing(old.cells, now.cells) : cell[1] \in columns /\ (roles = {} \/ cell[2] \in roles)
      PROVE  cells = now.cells
  <2>1. ASSUME NEW cell \in cells PROVE cell \in now.cells
    BY <1>4 DEF Differing
  <2>2. ASSUME NEW cell \in now.cells PROVE cell \in cells
    BY <1>4 DEF Differing
  <2>. QED BY <2>1, <2>2
<1> HIDE DEF cells
<1>. QED BY <1>1, <1>2, <1>3, <1>4 DEF ViewRow

\* When the changes that were kept back have been announced the view has the
\* rows of the model.
LEMMA FlushedRight ==
  ASSUME UpdateInv
  PROVE  /\ Flushed \in Seq(ViewRow) /\ Len(Flushed) = Len(target)
         /\ ~rolesLost => Flushed = target
<1>1. /\ Len(view) \in Nat /\ DOMAIN view = 1 .. Len(view) /\ Len(target) = Len(view)
      /\ view \in Seq(ViewRow) /\ target \in Seq(Row) /\ Row \subseteq ViewRow
      /\ \A row \in 1 .. Len(view) : view[row] \in ViewRow /\ target[row] \in Row
  BY LenProperties, ElementOfSeq, UpdateableModelAssumption DEF UpdateInv, TypeOK, KeptBack, Row, ViewRow
<1>2. target \in Seq(ViewRow)
  BY <1>1, SeqMonotonic
<1>3. CASE changes = None
  <2>1. Flushed = view /\ RowsKeptBack = {}
    BY <1>3 DEF Flushed, RowsKeptBack
  <2>2. ~rolesLost => \A row \in 1 .. Len(target) : view[row] = target[row]
    BY <2>1 DEF UpdateInv, KeptBack
  <2>. QED BY <1>1, <1>2, <2>1, <2>2, SeqEqual
<1>4. CASE changes # None
  <2>1. changes \in KeptBackChange /\ RowsKeptBack = changes.first .. changes.last
    BY <1>4 DEF UpdateInv, TypeOK, RowsKeptBack
  <2>2. UNION {r[1] .. r[2] : r \in ColumnRanges(changes.columns)} = changes.columns
    BY <2>1, RangesCover DEF KeptBackChange
  <2>3. Flushed = [row \in 1 .. Len(view) |->
                     IF row \in changes.first .. changes.last
                     THEN Reread(view[row], target[row], changes.columns, changes.roles) ELSE view[row]]
    BY <1>1, <1>4, <2>2 DEF Flushed
  <2>4. \A row \in 1 .. Len(view) : Flushed[row] \in ViewRow
    BY <1>1, <2>3, RereadRight
  <2>5. Flushed \in Seq(ViewRow) /\ Len(Flushed) = Len(view)
    BY <1>1, <2>3, <2>4
  <2>6. ASSUME ~rolesLost, NEW row \in 1 .. Len(view) PROVE Flushed[row] = target[row]
    <3>1. CASE row \in changes.first .. changes.last
      <4>1. Owed(row)
        BY <1>1, <2>1, <2>6, <3>1 DEF UpdateInv, KeptBack
      <4>2. Reread(view[row], target[row], changes.columns, changes.roles) = target[row]
        BY <1>1, <4>1, RereadRight DEF Owed
      <4>. QED BY <2>3, <3>1, <4>2
    <3>2. CASE row \notin changes.first .. changes.last
      BY <1>1, <2>1, <2>3, <2>6, <3>2 DEF UpdateInv, KeptBack
    <3>. QED BY <3>1, <3>2
  <2>. QED BY <1>1, <1>2, <2>5, <2>6, SeqEqual
<1>. QED BY <1>3, <1>4

\* Rows that are appended and rotated come where they would have been inserted.
LEMMA RotatedIsInserted ==
  ASSUME NEW T, NEW s \in Seq(T), NEW t \in Seq(T), NEW pos \in 1 .. Len(s) + 1
  PROVE  Rotated(s \o t, pos, Len(s) + 1) = WithRowsAt(s, pos, t)
<1> DEFINE all == s \o t
<1>1. Len(s) \in Nat /\ Len(t) \in Nat
  BY LenProperties
<1>2. /\ all \in Seq(T) /\ Len(all) = Len(s) + Len(t)
      /\ \A i \in 1 .. Len(s) + Len(t) : all[i] = IF i <= Len(s) THEN s[i] ELSE t[i - Len(s)]
  BY ConcatProperties
<1> HIDE DEF all
<1>3. SubSeq(all, 1, pos - 1) = SubSeq(s, 1, pos - 1)
  <2>1. /\ SubSeq(s, 1, pos - 1) \in Seq(T) /\ Len(SubSeq(s, 1, pos - 1)) = pos - 1
        /\ \A i \in 1 .. pos - 1 : SubSeq(s, 1, pos - 1)[i] = s[i]
    BY <1>1, PartOfRows
  <2>2. /\ SubSeq(all, 1, pos - 1) \in Seq(T) /\ Len(SubSeq(all, 1, pos - 1)) = pos - 1
        /\ \A i \in 1 .. pos - 1 : SubSeq(all, 1, pos - 1)[i] = all[i]
    BY <1>1, <1>2, PartOfRows
  <2>3. \A i \in 1 .. pos - 1 : all[i] = s[i]
    BY <1>1, <1>2
  <2>. QED BY <2>1, <2>2, <2>3, SeqEqual
<1>4. SubSeq(all, Len(s) + 1, Len(all)) = t
  <2>1. Len(s) + 1 \in 1 .. Len(all) + 1 /\ Len(all) \in Len(s) + 1 - 1 .. Len(all)
        /\ Len(all) - (Len(s) + 1) + 1 = Len(t)
    BY <1>1, <1>2
  <2>2. /\ SubSeq(all, Len(s) + 1, Len(all)) \in Seq(T) /\ Len(SubSeq(all, Len(s) + 1, Len(all))) = Len(t)
        /\ \A i \in 1 .. Len(t) : SubSeq(all, Len(s) + 1, Len(all))[i] = all[Len(s) + 1 + i - 1]
    BY <1>2, <2>1, PartOfRows
  <2>3. ASSUME NEW i \in 1 .. Len(t) PROVE all[Len(s) + 1 + i - 1] = t[i]
    <3>1. Len(s) + 1 + i - 1 \in 1 .. Len(s) + Len(t) /\ ~(Len(s) + 1 + i - 1 <= Len(s))
          /\ Len(s) + 1 + i - 1 - Len(s) = i
      BY <1>1
    <3>. QED BY <1>2, <3>1
  <2>. QED BY <2>2, <2>3, SeqEqual
<1>5. SubSeq(all, pos, Len(s)) = SubSeq(s, pos, Len(s))
  <2>1. /\ SubSeq(s, pos, Len(s)) \in Seq(T) /\ Len(SubSeq(s, pos, Len(s))) = Len(s) - pos + 1
        /\ \A i \in 1 .. Len(s) - pos + 1 : SubSeq(s, pos, Len(s))[i] = s[pos + i - 1]
    BY <1>1, PartOfRows
  <2>2. /\ SubSeq(all, pos, Len(s)) \in Seq(T) /\ Len(SubSeq(all, pos, Len(s))) = Len(s) - pos + 1
        /\ \A i \in 1 .. Len(s) - pos + 1 : SubSeq(all, pos, Len(s))[i] = all[pos + i - 1]
    BY <1>1, <1>2, PartOfRows
  <2>3. \A i \in 1 .. Len(s) - pos + 1 : all[pos + i - 1] = s[pos + i - 1]
    BY <1>1, <1>2
  <2>. QED BY <2>1, <2>2, <2>3, SeqEqual
<1>6. PICK m : m = Len(s) + 1
  OBVIOUS
<1>7. m - 1 = Len(s)
  BY <1>1, <1>6
<1>8. PICK before, behind : before = SubSeq(s, 1, pos - 1) /\ behind = SubSeq(s, pos, Len(s))
  OBVIOUS
<1>9. Rotated(all, pos, m) = before \o t \o behind
  <2>1. SubSeq(all, 1, pos - 1) = before /\ SubSeq(all, m, Len(all)) = t
    BY <1>3, <1>4, <1>6, <1>8
  <2>2. SubSeq(all, pos, m - 1) = behind
    BY <1>5, <1>7, <1>8
  <2>. QED BY ONLY <2>1, <2>2 DEF Rotated
<1>10. WithRowsAt(s, pos, t) = before \o t \o behind
  BY ONLY <1>8 DEF WithRowsAt
<1>. QED BY <1>6, <1>9, <1>10 DEF all

\* insertRange() gives the rows in their place whichever container it is given.
LEMMA InsertRangeRight ==
  ASSUME NEW s \in Seq(Row), NEW t \in Seq(Row), NEW pos \in 1 .. Len(s) + 1, NEW range \in insertRange(s, pos, t)
  PROVE  range.container = WithRowsAt(s, pos, t) /\ range.next = pos + Len(t)
BY RotatedIsInserted DEF insertRange
-----------------------------------------------------------------------------
(* The steps *)

\* An empty model has no rows to tell of.
LEMMA UpdateInvInit == Init => UpdateInv
<1> SUFFICES ASSUME Init PROVE UpdateInv
  OBVIOUS
<1>1. \A T : <<>> \in Seq(T) /\ Len(<<>>) = 0
  BY EmptySeq
<1>2. TypeOK
  BY <1>1 DEF Init, TypeOK, Policies, Counts
<1>3. Walked
  BY DEF Init, Walked
<1>4. Accounted
  BY <1>1 DEF Init, Accounted
<1>5. KeptBack
  BY <1>1 DEF Init, KeptBack
<1>. QED BY <1>2, <1>3, <1>4, <1>5 DEF UpdateInv

\* Rows that are inserted.
LEMMA InsertStep == UpdateInv /\ InsertRows => UpdateInv'
<1> SUFFICES ASSUME UpdateInv, InsertRows PROVE UpdateInv'
  OBVIOUS
<1>1. PICK last \in srcIt .. Len(source) : onInsert(last) /\ srcIt' = last + 1
  BY DEF InsertRows
<1>2. /\ updating /\ srcIt \in 1 .. Len(source) + 1 /\ targetIt = srcIt /\ targetIt <= Len(target) + 1
      /\ \A row \in 1 .. srcIt - 1 : target[row] = source[row]
      /\ source \in Seq(Row) /\ target \in Seq(Row) /\ Len(source) \in Nat /\ Len(target) \in Nat
      /\ srcIt \in Nat /\ last \in Nat /\ targetIt \in 1 .. Len(target) + 1
  BY LenProperties DEF InsertRows, More, UpdateInv, TypeOK, Walked
<1> DEFINE given == SubSeq(source, srcIt, last)
<1>3. /\ given \in Seq(Row) /\ Len(given) = last - srcIt + 1
      /\ \A i \in 1 .. last - srcIt + 1 : given[i] = source[srcIt + i - 1]
  BY <1>2, PartOfRows
<1>4. PICK range \in insertRange(target, targetIt, given) : target' = range.container /\ targetIt' = range.next
  BY <1>1 DEF onInsert
<1> HIDE DEF given
<1>5. target' = WithRowsAt(target, targetIt, given) /\ targetIt' = targetIt + Len(given)
  BY <1>2, <1>3, <1>4, InsertRangeRight
<1>6. /\ target' \in Seq(Row) /\ Len(target') = Len(target) + Len(given)
      /\ \A i \in 1 .. Len(target) + Len(given) :
           target'[i] = IF i < targetIt THEN target[i]
                        ELSE IF i < targetIt + Len(given) THEN given[i - targetIt + 1] ELSE target[i - Len(given)]
  <2>1. target \in Seq(Row) /\ given \in Seq(Row) /\ targetIt \in 1 .. Len(target) + 1
    BY <1>2, <1>3
  <2>2. /\ WithRowsAt(target, targetIt, given) \in Seq(Row)
        /\ Len(WithRowsAt(target, targetIt, given)) = Len(target) + Len(given)
        /\ \A i \in 1 .. Len(target) + Len(given) :
             WithRowsAt(target, targetIt, given)[i] =
               IF i < targetIt THEN target[i]
               ELSE IF i < targetIt + Len(given) THEN given[i - targetIt + 1] ELSE target[i - Len(given)]
    BY ONLY <2>1, RowsInsertedRight
  <2>. QED BY ONLY <1>5, <2>2
<1>7. /\ view' = WithRowsAt(Flushed, targetIt, given) /\ changes' = None
      /\ ops' = [ops EXCEPT !.inserts = @ + Len(given)]
      /\ UNCHANGED <<source, changeMergePolicy, updating, rowsBefore, rolesLost>>
  BY <1>1 DEF onInsert, given, InsertRows
<1>8. view' \in Seq(ViewRow) /\ Len(view') = Len(target') /\ (~rolesLost => view' = target')
  <2>1. given \in Seq(ViewRow)
    <3>1. Row \subseteq ViewRow
      BY UpdateableModelAssumption DEF Row, ViewRow
    <3>. QED BY <1>3, <3>1, SeqMonotonic
  <2>2. Flushed \in Seq(ViewRow) /\ Len(Flushed) = Len(target) /\ (~rolesLost => Flushed = target)
    BY FlushedRight
  <2>3. WithRowsAt(Flushed, targetIt, given) \in Seq(ViewRow)
        /\ Len(WithRowsAt(Flushed, targetIt, given)) = Len(Flushed) + Len(given)
    BY <1>2, <2>1, <2>2, RowsInsertedRight
  <2>. QED BY <1>5, <1>6, <1>7, <2>2, <2>3
<1>9. Walked'
  <2>1. targetIt' = srcIt' /\ srcIt' \in 1 .. Len(source') + 1 /\ targetIt' <= Len(target') + 1
    BY <1>1, <1>2, <1>3, <1>5, <1>6, <1>7
  <2>2. ASSUME NEW row \in 1 .. srcIt' - 1 PROVE target'[row] = source'[row]
    <3>1. row \in 1 .. Len(target) + Len(given) /\ row < targetIt + Len(given)
      BY <1>1, <1>2, <1>3
    <3>2. CASE row < targetIt
      <4>1. target'[row] = target[row]
        BY <1>6, <3>1, <3>2
      <4>. QED BY <1>2, <1>7, <3>2, <4>1
    <3>3. CASE ~(row < targetIt)
      <4>1. row - targetIt + 1 \in 1 .. last - srcIt + 1 /\ srcIt + (row - targetIt + 1) - 1 = row
        BY <1>1, <1>2, <3>1, <3>3
      <4>. QED BY <1>3, <1>6, <1>7, <3>1, <3>3, <4>1
    <3>. QED BY <3>2, <3>3
  <2>. QED BY <1>2, <1>7, <2>1, <2>2 DEF Walked
<1>10. ops' \in Counts /\ Accounted'
  <2>1. Len(given) \in Nat /\ Len(target') = Len(target) + Len(given) /\ rowsBefore' = rowsBefore
    BY <1>2, <1>3, <1>6, <1>7
  <2>2. ops \in Counts /\ rowsBefore \in Nat /\ Accounted
    BY DEF UpdateInv, TypeOK
  <2>3. ops' = [inserts |-> ops.inserts + Len(given), removals |-> ops.removals, updates |-> ops.updates]
    BY <1>7, <2>2 DEF Counts
  <2>. QED BY <1>2, <2>1, <2>2, <2>3, SMTT(20) DEF Accounted, Counts
<1>11. KeptBack'
  BY <1>7, <1>8 DEF KeptBack, RowsKeptBack
<1>12. TypeOK'
  <2>1. srcIt' \in Nat /\ targetIt' \in Nat
    BY <1>1, <1>2, <1>3, <1>5
  <2>2. changes' \in KeptBackChange \cup {None} /\ UNCHANGED <<source, changeMergePolicy, updating, rowsBefore, rolesLost>>
    BY <1>7
  <2>3. target' \in Seq(Row) /\ view' \in Seq(ViewRow) /\ ops' \in Counts
    BY <1>5, <1>6, <1>8, <1>10
  <2>. QED BY <2>1, <2>2, <2>3 DEF UpdateInv, TypeOK
<1>. QED BY <1>9, <1>10, <1>11, <1>12 DEF UpdateInv

\* Rows that are removed.
LEMMA RemoveStep ==
  ASSUME UpdateInv, updating, NEW last \in targetIt .. Len(target), RemoveRows(last),
         UNCHANGED <<source, srcIt, targetIt, changeMergePolicy, rowsBefore, rolesLost>>
  PROVE  /\ target' \in Seq(Row) /\ Len(target') = Len(target) - (last - targetIt + 1)
         /\ targetIt <= Len(target') + 1 /\ \A row \in 1 .. srcIt - 1 : target'[row] = source[row]
         /\ view' \in Seq(ViewRow) /\ Len(view') = Len(target') /\ (~rolesLost => view' = target')
         /\ ops' \in Counts /\ Accounted' /\ changes' = None
<1>1. /\ srcIt \in 1 .. Len(source) + 1 /\ targetIt = srcIt /\ targetIt <= Len(target) + 1
      /\ \A row \in 1 .. srcIt - 1 : target[row] = source[row]
      /\ target \in Seq(Row) /\ Len(target) \in Nat /\ targetIt \in Nat
  BY LenProperties DEF UpdateInv, TypeOK, Walked
<1>2. targetIt \in 1 .. Len(target) /\ last \in Nat
  BY <1>1
<1>3. /\ target' = WithoutRows(target, targetIt, last) /\ view' = WithoutRows(Flushed, targetIt, last)
      /\ ops' = [ops EXCEPT !.removals = @ + last - targetIt + 1] /\ changes' = None
      /\ UNCHANGED <<source, srcIt, targetIt, rowsBefore, rolesLost>>
  BY DEF RemoveRows
<1>4. /\ target' \in Seq(Row) /\ Len(target') = Len(target) - (last - targetIt + 1)
      /\ \A i \in 1 .. Len(target) - (last - targetIt + 1) :
           target'[i] = IF i < targetIt THEN target[i] ELSE target[i + last - targetIt + 1]
  BY <1>1, <1>2, <1>3, RowsRemovedRight
<1>5. Len(target') \in Nat /\ Len(target') >= targetIt - 1
  BY <1>1, <1>2, <1>4
<1>6. ASSUME NEW row \in 1 .. srcIt - 1 PROVE target'[row] = source[row]
  <2>1. row \in 1 .. Len(target) - (last - targetIt + 1) /\ row < targetIt
    BY <1>1, <1>2
  <2>. QED BY <1>1, <1>4, <2>1
<1>7. view' \in Seq(ViewRow) /\ Len(view') = Len(target') /\ (~rolesLost => view' = target')
  <2>1. Flushed \in Seq(ViewRow) /\ Len(Flushed) = Len(target) /\ (~rolesLost => Flushed = target)
    BY FlushedRight
  <2>2. targetIt \in 1 .. Len(Flushed) /\ last \in targetIt .. Len(Flushed)
    BY <1>2, <2>1
  <2>3. WithoutRows(Flushed, targetIt, last) \in Seq(ViewRow)
        /\ Len(WithoutRows(Flushed, targetIt, last)) = Len(Flushed) - (last - targetIt + 1)
    BY <2>1, <2>2, RowsRemovedRight
  <2>. QED BY <1>3, <1>4, <2>1, <2>3
<1>8. ops' \in Counts /\ Accounted'
  <2>1. ops \in Counts /\ rowsBefore \in Nat /\ Accounted
    BY DEF UpdateInv, TypeOK
  <2>2. ops' = [inserts |-> ops.inserts, removals |-> ops.removals + last - targetIt + 1, updates |-> ops.updates]
    BY <1>3, <2>1 DEF Counts
  <2>3. ops.inserts \in Nat /\ ops.removals \in Nat /\ ops.updates \in Nat
    BY <2>1 DEF Counts
  <2>4. ops.removals + last - targetIt + 1 \in Nat
    BY <1>1, <1>2, <2>3
  <2>5. ops' \in Counts
    BY <2>2, <2>3, <2>4 DEF Counts
  <2>6. /\ Len(target') = Len(target) - (last - targetIt + 1) /\ rowsBefore' = rowsBefore
        /\ Len(target) = rowsBefore + ops.inserts - ops.removals
        /\ ops'.inserts = ops.inserts /\ ops'.removals = ops.removals + last - targetIt + 1
    BY <1>3, <1>4, <2>1, <2>2 DEF Accounted
  <2>7. Accounted'
    BY <1>1, <1>2, <2>1, <2>3, <2>6, SMTT(20) DEF Accounted
  <2>. QED BY <2>5, <2>7
<1>. QED BY <1>1, <1>3, <1>4, <1>5, <1>6, <1>7, <1>8

\* Rows with the same key that differ: the change is kept back.
LEMMA ChangeStep == UpdateInv /\ Change => UpdateInv'
<1> SUFFICES ASSUME UpdateInv, Change PROVE UpdateInv'
  OBVIOUS
<1>1. /\ updating /\ srcIt \in 1 .. Len(source) /\ targetIt = srcIt /\ targetIt \in 1 .. Len(target)
      /\ source[srcIt].key = target[targetIt].key /\ source[srcIt] # target[targetIt]
      /\ \A row \in 1 .. srcIt - 1 : target[row] = source[row]
      /\ source \in Seq(Row) /\ target \in Seq(Row) /\ Len(source) \in Nat /\ Len(target) \in Nat
      /\ source[srcIt] \in Row /\ target[targetIt] \in Row
  BY LenProperties, ElementOfSeq DEF Change, Same, More, AtEnd, UpdateInv, TypeOK, Walked
<1>2. /\ target' = [target EXCEPT ![targetIt] = source[srcIt]]
      /\ srcIt' = srcIt + 1 /\ targetIt' = targetIt + 1 /\ ops' = [ops EXCEPT !.updates = @ + 1]
      /\ UNCHANGED <<source, changeMergePolicy, updating, rowsBefore>>
  BY DEF Change
<1>3. /\ target' \in Seq(Row) /\ Len(target') = Len(target)
      /\ \A row \in 1 .. Len(target) : target'[row] = IF row = targetIt THEN source[srcIt] ELSE target[row]
  BY <1>1, <1>2, ExceptSeq
<1>4. Walked'
  <2>1. srcIt' \in 1 .. Len(source') + 1 /\ targetIt' = srcIt' /\ targetIt' <= Len(target') + 1
    BY <1>1, <1>2, <1>3
  <2>2. ASSUME NEW row \in 1 .. srcIt' - 1 PROVE target'[row] = source'[row]
    <3>1. row \in 1 .. Len(target) /\ (row = targetIt \/ row \in 1 .. srcIt - 1)
      BY <1>1, <1>2
    <3>. QED BY <1>1, <1>2, <1>3, <3>1
  <2>. QED BY <1>1, <1>2, <2>1, <2>2 DEF Walked
<1>5. ops' \in Counts /\ Accounted'
  <2>1. ops \in Counts /\ rowsBefore \in Nat /\ Accounted
    BY DEF UpdateInv, TypeOK
  <2>2. ops' = [inserts |-> ops.inserts, removals |-> ops.removals, updates |-> ops.updates + 1]
    BY <1>2, <2>1 DEF Counts
  <2>3. ops' \in Counts
    BY <2>1, <2>2 DEF Counts
  <2>4. Accounted'
    BY <1>2, <1>3, <2>1, <2>2 DEF Accounted
  <2>. QED BY <2>3, <2>4
<1>6. PICK cells, columns, roles :
         /\ cells = Differing(source[srcIt].cells, target[targetIt].cells)
         /\ columns = ChangedColumns(cells) /\ roles \in {ChangedRoles(cells), {}}
         /\ AddChange(targetIt, columns, roles)
  BY DEF Change
<1>7. /\ cells \subseteq Cells /\ columns \in SUBSET Columns /\ roles \in SUBSET Roles
      /\ \A cell \in cells : cell[1] \in columns /\ (roles = {} \/ cell[2] \in roles)
  <2>1. cells \subseteq Cells
    BY <1>1, <1>6, UpdateableModelAssumption DEF Differing, Row
  <2>. QED BY <1>6, <2>1 DEF ChangedColumns, ChangedRoles, Cells
\* The row was what the view has, and is not any more.
<1>8. ~rolesLost => /\ view[targetIt] # target'[targetIt] /\ view[targetIt].key = target'[targetIt].key
                    /\ Differing(view[targetIt].cells, target'[targetIt].cells) = cells
  <2>1. targetIt \notin RowsKeptBack
    BY <1>1 DEF RowsKeptBack, UpdateInv, TypeOK, KeptBack, KeptBackChange
  <2>2. ~rolesLost => view[targetIt] = target[targetIt]
    BY <1>1, <2>1 DEF UpdateInv, KeptBack
  <2>3. target'[targetIt] = source[srcIt]
    BY <1>1, <1>3
  <2>. QED BY <1>1, <1>6, <2>2, <2>3 DEF Differing
<1>9. CASE Merges(columns, roles)
  <2>1. /\ changes # None /\ changes \in KeptBackChange /\ changes.first \in 1 .. changes.last
        /\ changes.last = targetIt - 1 /\ Len(view) = Len(target)
    BY <1>9 DEF Merges, UpdateInv, TypeOK, KeptBack
  <2>2. PICK merged \in SUBSET Roles : merged = MergedRoles(roles)
    BY <1>7, <2>1 DEF MergedRoles, KeptBackChange
  <2>7. changes.roles = {} \/ roles = {} => merged = {}
    BY <1>9, <2>2 DEF Merges, MergedRoles, UpdateInv, TypeOK, Policies
  <2>3. /\ changes' = [first |-> changes.first, last |-> targetIt, columns |-> changes.columns \cup columns, roles |-> merged]
        /\ rolesLost' = (rolesLost \/ merged \notin {{}, changes.roles \cup roles})
        /\ UNCHANGED view
    BY <1>6, <1>9, <2>1, <2>2 DEF AddChange, KeptBackChange
  <2>4. /\ changes' \in KeptBackChange /\ changes' # None /\ changes'.first \in 1 .. changes'.last
        /\ changes'.last = targetIt' - 1
    BY <1>1, <1>2, <1>7, <2>1, <2>2, <2>3, UpdateableModelAssumption DEF KeptBackChange
  <2>5. ASSUME ~rolesLost', NEW row \in 1 .. Len(target')
        PROVE  IF row \in RowsKeptBack' THEN Owed(row)' ELSE view'[row] = target'[row]
    <3>1. ~rolesLost /\ (merged = {} \/ merged = changes.roles \cup roles)
      BY <2>3, <2>5
    <3>2. RowsKeptBack' = changes.first .. targetIt /\ RowsKeptBack = changes.first .. targetIt - 1
      BY <2>1, <2>3, <2>4 DEF RowsKeptBack
    <3>3. IF row \in RowsKeptBack THEN Owed(row) ELSE view[row] = target[row]
      BY <1>3, <2>5, <3>1 DEF UpdateInv, KeptBack
    <3>6. /\ changes'.columns = changes.columns \cup columns
          /\ changes'.roles = {} \/ (changes'.roles = changes.roles \cup roles /\ changes.roles # {} /\ roles # {})
      BY <2>3, <2>7, <3>1
    <3>4. CASE row = targetIt
      <4>1. row \in RowsKeptBack'
        BY <1>1, <2>1, <3>2, <3>4
      <4>2. /\ view'[row] # target'[row] /\ view'[row].key = target'[row].key
            /\ Differing(view'[row].cells, target'[row].cells) = cells
        BY <1>8, <2>3, <3>1, <3>4
      <4>3. \A cell \in cells : cell[1] \in changes'.columns /\ (changes'.roles = {} \/ cell[2] \in changes'.roles)
        BY <1>7, <3>6
      <4>4. Owed(row)'
        BY <4>2, <4>3 DEF Owed, Differing
      <4>. QED BY <4>1, <4>4
    <3>5. CASE row # targetIt
      <4>1. target'[row] = target[row] /\ view'[row] = view[row] /\ (row \in RowsKeptBack' <=> row \in RowsKeptBack)
        BY <1>1, <1>3, <2>1, <2>3, <3>2, <3>5 DEF KeptBackChange
      <4>2. ASSUME Owed(row) PROVE Owed(row)'
        <5>1. \A cell \in Differing(view[row].cells, target[row].cells) :
                cell[1] \in changes'.columns /\ (changes'.roles = {} \/ cell[2] \in changes'.roles)
          BY <3>6, <4>2 DEF Owed
        <5>. QED BY <4>1, <4>2, <5>1 DEF Owed, Differing
      <4>. QED BY <3>3, <4>1, <4>2
    <3>. QED BY <3>4, <3>5
  <2>6. KeptBack'
    BY <1>3, <2>1, <2>3, <2>4, <2>5 DEF KeptBack
  <2>8. TypeOK'
    BY <1>1, <1>2, <1>3, <1>5, <2>3, <2>4 DEF UpdateInv, TypeOK
  <2>. QED BY <1>4, <1>5, <2>6, <2>8 DEF UpdateInv
<1>10. CASE ~Merges(columns, roles)
  <2>1. /\ changes' = [first |-> targetIt, last |-> targetIt, columns |-> columns, roles |-> roles]
        /\ view' = Flushed /\ rolesLost' = rolesLost
    BY <1>6, <1>10 DEF AddChange
  <2>2. Flushed \in Seq(ViewRow) /\ Len(Flushed) = Len(target) /\ (~rolesLost => Flushed = target)
    BY FlushedRight
  <2>3. /\ changes' \in KeptBackChange /\ changes' # None /\ changes'.first \in 1 .. changes'.last
        /\ changes'.last = targetIt' - 1
    BY <1>1, <1>2, <1>7, <2>1, UpdateableModelAssumption DEF KeptBackChange
  <2>4. ASSUME ~rolesLost', NEW row \in 1 .. Len(target')
        PROVE  IF row \in RowsKeptBack' THEN Owed(row)' ELSE view'[row] = target'[row]
    <3>1. RowsKeptBack' = {targetIt}
      BY <1>1, <2>1, <2>3 DEF RowsKeptBack
    <3>2. view' = target /\ target'[targetIt] = source[srcIt]
      BY <1>1, <1>3, <2>1, <2>2, <2>4
    <3>3. Differing(target[targetIt].cells, source[srcIt].cells) = cells
      BY <1>6 DEF Differing
    <3>4. CASE row = targetIt
      <4>1. row \in RowsKeptBack'
        BY <3>1, <3>4
      <4>2. /\ view'[row] # target'[row] /\ view'[row].key = target'[row].key
            /\ Differing(view'[row].cells, target'[row].cells) = cells
        BY <1>1, <3>2, <3>3, <3>4
      <4>3. \A cell \in cells : cell[1] \in changes'.columns /\ (changes'.roles = {} \/ cell[2] \in changes'.roles)
        BY <1>7, <2>1
      <4>4. Owed(row)'
        BY <4>2, <4>3 DEF Owed, Differing
      <4>. QED BY <4>1, <4>4
    <3>5. CASE row # targetIt
      BY <1>3, <2>4, <3>1, <3>2, <3>5
    <3>. QED BY <3>4, <3>5
  <2>5. KeptBack'
    BY <1>3, <2>1, <2>2, <2>3, <2>4 DEF KeptBack
  <2>6. TypeOK'
    BY <1>1, <1>2, <1>3, <1>5, <2>1, <2>2, <2>3 DEF UpdateInv, TypeOK
  <2>. QED BY <1>4, <1>5, <2>5, <2>6 DEF UpdateInv
<1>. QED BY <1>9, <1>10

\* An update that ends: the rows behind the last one given go.
LEMMA FinishStep == UpdateInv /\ Finish => UpdateInv'
<1> SUFFICES ASSUME UpdateInv, Finish PROVE UpdateInv'
  OBVIOUS
<1>1. /\ updating /\ ~updating' /\ updating' \in BOOLEAN /\ srcIt = Len(source) + 1 /\ targetIt = srcIt
      /\ targetIt <= Len(target) + 1 /\ \A row \in 1 .. srcIt - 1 : target[row] = source[row]
      /\ source \in Seq(Row) /\ target \in Seq(Row) /\ Len(source) \in Nat /\ Len(target) \in Nat
      /\ UNCHANGED <<source, srcIt, targetIt, changeMergePolicy, rowsBefore, rolesLost>>
  <2>1. /\ updating /\ ~updating' /\ updating' \in BOOLEAN /\ srcIt > Len(source)
        /\ UNCHANGED <<source, srcIt, targetIt, changeMergePolicy, rowsBefore, rolesLost>>
    BY DEF Finish
  <2>2. source \in Seq(Row) /\ target \in Seq(Row) /\ Len(source) \in Nat /\ Len(target) \in Nat
    BY LenProperties DEF UpdateInv, TypeOK
  <2>3. /\ srcIt \in 1 .. Len(source) + 1 /\ targetIt = srcIt /\ targetIt <= Len(target) + 1
        /\ \A row \in 1 .. srcIt - 1 : target[row] = source[row]
    BY <2>1 DEF UpdateInv, Walked
  <2>. QED BY <2>1, <2>2, <2>3
<1>2. /\ target' \in Seq(Row) /\ Len(target') = Len(source) /\ \A row \in 1 .. Len(source) : target'[row] = source[row]
      /\ view' \in Seq(ViewRow) /\ Len(view') = Len(target') /\ (~rolesLost => view' = target')
      /\ ops' \in Counts /\ Accounted' /\ changes' = None
  <2>1. CASE AtEnd
    <3>1. view' = Flushed /\ changes' = None /\ UNCHANGED <<target, ops>>
      BY <2>1 DEF Finish, FlushChanges
    <3>2. Flushed \in Seq(ViewRow) /\ Len(Flushed) = Len(target) /\ (~rolesLost => Flushed = target)
      BY FlushedRight
    <3>3. Len(target) = Len(source)
      BY <1>1, <2>1 DEF AtEnd
    <3>4. ops \in Counts /\ Accounted
      BY DEF UpdateInv, TypeOK
    <3>. QED BY <1>1, <3>1, <3>2, <3>3, <3>4, SMTT(20) DEF Accounted
  <2>2. CASE ~AtEnd
    <3>1. RemoveRows(Len(target)) /\ Len(target) \in targetIt .. Len(target)
      BY <1>1, <2>2 DEF Finish, AtEnd
    <3>2. /\ target' \in Seq(Row) /\ Len(target') = Len(target) - (Len(target) - targetIt + 1)
          /\ \A row \in 1 .. srcIt - 1 : target'[row] = source[row]
          /\ view' \in Seq(ViewRow) /\ Len(view') = Len(target') /\ (~rolesLost => view' = target')
          /\ ops' \in Counts /\ Accounted' /\ changes' = None
      BY <1>1, <3>1, RemoveStep
    <3>. QED BY <1>1, <3>2
  <2>. QED BY <2>1, <2>2
<1>3. target' = source
  BY <1>1, <1>2, SeqEqual
<1>4. Walked'
  BY <1>1, <1>2, <1>3 DEF Walked
<1>5. KeptBack'
  BY <1>1, <1>2 DEF KeptBack, RowsKeptBack
<1>6. TypeOK'
  BY <1>1, <1>2 DEF UpdateInv, TypeOK
<1>. QED BY <1>2, <1>4, <1>5, <1>6 DEF UpdateInv

\* Each step leaves the rows in front of the iterators done.
LEMMA UpdateInvStep == UpdateInv /\ [Next]_vars => UpdateInv'
<1> SUFFICES ASSUME UpdateInv, [Next]_vars PROVE UpdateInv'
  OBVIOUS
<1>1. CASE setChangeMergePolicy
  BY <1>1 DEF setChangeMergePolicy, UpdateInv, TypeOK, Walked, Accounted, KeptBack, RowsKeptBack, Owed
<1>2. CASE UpdateData
  <2>1. PICK n \in 0 .. MaxRows : \E rows \in [1 .. n -> Row] : source' = rows
    BY <1>2 DEF UpdateData
  <2>2. source' \in Seq(Row) /\ Len(source') \in Nat
    BY <2>1, UpdateableModelAssumption, LenProperties
  <2>3. /\ updating' = TRUE /\ srcIt' = 1 /\ targetIt' = 1 /\ rowsBefore' = Len(target)
        /\ ops' = [inserts |-> 0, removals |-> 0, updates |-> 0]
        /\ UNCHANGED <<target, changeMergePolicy, changes, view, rolesLost>>
    BY <1>2 DEF UpdateData, BeginBoth
  <2>4. Len(target) \in Nat /\ changes = None
    BY <1>2, LenProperties DEF UpdateData, UpdateInv, TypeOK, Walked
  <2>5. Walked'
    BY <2>2, <2>3, <2>4 DEF Walked
  <2>6. Accounted'
    BY <2>3, <2>4 DEF Accounted
  <2>7. KeptBack'
    BY <2>3, <2>4 DEF UpdateInv, KeptBack, RowsKeptBack
  <2>8. TypeOK'
    BY <2>2, <2>3, <2>4 DEF UpdateInv, TypeOK, Counts
  <2>. QED BY <2>5, <2>6, <2>7, <2>8 DEF UpdateInv
<1>3. CASE InsertRows
  BY <1>3, InsertStep
<1>4. CASE RemoveSome
  <2>1. PICK last \in targetIt .. Len(target) : RemoveRows(last)
    BY <1>4 DEF RemoveSome
  <2>2. /\ updating /\ UNCHANGED <<source, srcIt, targetIt, changeMergePolicy, updating, rowsBefore, rolesLost>>
    BY <1>4 DEF RemoveSome, More
  <2>3. /\ target' \in Seq(Row) /\ targetIt <= Len(target') + 1 /\ \A row \in 1 .. srcIt - 1 : target'[row] = source[row]
        /\ view' \in Seq(ViewRow) /\ Len(view') = Len(target') /\ (~rolesLost => view' = target')
        /\ ops' \in Counts /\ Accounted' /\ changes' = None
    BY <2>1, <2>2, RemoveStep
  <2>4. Walked'
    BY <2>2, <2>3 DEF UpdateInv, Walked
  <2>5. KeptBack'
    BY <2>2, <2>3 DEF KeptBack, RowsKeptBack
  <2>6. TypeOK'
    BY <2>2, <2>3 DEF UpdateInv, TypeOK
  <2>. QED BY <2>3, <2>4, <2>5, <2>6 DEF UpdateInv
<1>5. CASE Equal
  <2>1. /\ updating /\ srcIt \in 1 .. Len(source) /\ targetIt = srcIt /\ targetIt \in 1 .. Len(target)
        /\ source[srcIt] = target[targetIt] /\ Len(source) \in Nat /\ Len(target) \in Nat
        /\ \A row \in 1 .. srcIt - 1 : target[row] = source[row]
    BY <1>5, LenProperties DEF Equal, Same, More, AtEnd, UpdateInv, TypeOK, Walked
  <2>2. /\ view' = Flushed /\ changes' = None /\ srcIt' = srcIt + 1 /\ targetIt' = targetIt + 1
        /\ UNCHANGED <<source, target, changeMergePolicy, updating, ops, rowsBefore, rolesLost>>
    BY <1>5 DEF Equal, FlushChanges
  <2>3. Flushed \in Seq(ViewRow) /\ Len(Flushed) = Len(target) /\ (~rolesLost => Flushed = target)
    BY FlushedRight
  <2>4. Walked'
    BY <2>1, <2>2 DEF Walked
  <2>5. Accounted'
    BY <2>2 DEF UpdateInv, Accounted
  <2>6. KeptBack'
    BY <2>2, <2>3 DEF KeptBack, RowsKeptBack
  <2>7. TypeOK'
    BY <2>1, <2>2, <2>3 DEF UpdateInv, TypeOK
  <2>. QED BY <2>4, <2>5, <2>6, <2>7 DEF UpdateInv
<1>6. CASE Change
  BY <1>6, ChangeStep
<1>7. CASE Finish
  BY <1>7, FinishStep
<1>8. CASE UNCHANGED vars
  BY <1>8 DEF vars, UpdateInv, TypeOK, Walked, Accounted, KeptBack, RowsKeptBack, Owed
<1>. QED BY <1>1, <1>2, <1>3, <1>4, <1>5, <1>6, <1>7, <1>8 DEF Next, Step

\* updateData() never has other rows in front of its iterators than those it was
\* given, and tells of no other changes than those it owes.
THEOREM UpdateWalks == Spec => []UpdateInv
<1>. QED BY UpdateInvInit, UpdateInvStep, PTL DEF Spec

\* The rows that updateData() leaves in the container are those it was given, and
\* the Operations it returns account for their number.
THEOREM UpdateGivesRows == Spec => []Updated
<1>1. UpdateInv => Updated
  BY DEF UpdateInv, Walked, Accounted, Updated
<1>. QED BY <1>1, UpdateWalks, PTL

\* A view that follows the signals is behind the model in exactly the rows whose
\* changes are kept back, as long as no merged change has lost roles.
THEOREM ViewIsOnlyBehind == Spec => []ViewIsBehindElse
<1>1. UpdateInv => ViewIsBehindElse
  <2> SUFFICES ASSUME UpdateInv, ~rolesLost PROVE ViewIsBehind
    BY DEF ViewIsBehindElse
  <2>1. /\ Len(view) = Len(target) /\ DOMAIN view = 1 .. Len(target) /\ Len(target) \in Nat
    BY LenProperties DEF UpdateInv, TypeOK, KeptBack
  <2>2. ASSUME NEW row \in DOMAIN view PROVE view[row] # target[row] <=> row \in RowsKeptBack
    BY <2>1 DEF UpdateInv, KeptBack, Owed
  <2>3. RowsKeptBack \subseteq DOMAIN view
    <3>1. CASE changes = None
      BY <3>1 DEF RowsKeptBack
    <3>2. CASE changes # None
      <4>1. changes.first \in Nat /\ changes.last \in Nat /\ changes.first >= 1 /\ changes.last = targetIt - 1
        BY <3>2 DEF UpdateInv, TypeOK, KeptBackChange, KeptBack
      <4>2. targetIt \in Nat /\ targetIt <= Len(target) + 1
        BY <3>2 DEF UpdateInv, TypeOK, Walked
      <4>. QED BY <2>1, <3>2, <4>1, <4>2 DEF RowsKeptBack
    <3>. QED BY <3>1, <3>2
  <2>. QED BY <2>1, <2>2, <2>3 DEF ViewIsBehind
<1>. QED BY <1>1, UpdateWalks, PTL

\* The rows of the source and of the target that updateData() has not come to.
RowsToCome == (Len(source) + 1 - srcIt) + (Len(target) + 1 - targetIt)

\* Every step of the loop leaves fewer of them: a run of rows is inserted once, and what
\* is inserted is not looked at again.
LoopGetsShorter == [][updating /\ updating' => RowsToCome' \in 0 .. RowsToCome - 1]_vars

\* The loop of updateData() comes to an end whatever the rows are: the safety part of
\* UpdateEnds.
THEOREM UpdateGetsShorter == Spec => LoopGetsShorter
<1>1. ASSUME UpdateInv, UpdateInv', Next, updating, updating' PROVE RowsToCome' \in 0 .. RowsToCome - 1
  <2>1. /\ Len(source) \in Nat /\ Len(target) \in Nat /\ srcIt \in Nat /\ targetIt \in Nat
        /\ srcIt = targetIt
    BY <1>1, LenProperties DEF UpdateInv, TypeOK, Walked
  <2>2. /\ Len(source') \in Nat /\ Len(target') \in Nat /\ srcIt' \in Nat /\ targetIt' \in Nat
        /\ srcIt' <= Len(source') + 1 /\ targetIt' = srcIt' /\ targetIt' <= Len(target') + 1
    BY <1>1, LenProperties DEF UpdateInv, TypeOK, Walked
  <2>3. RowsToCome' < RowsToCome
    <3>1. CASE InsertRows
      <4>1. PICK last \in srcIt .. Len(source) : onInsert(last) /\ srcIt' = last + 1
        BY <3>1 DEF InsertRows
      <4>2. /\ source' = source /\ source \in Seq(Row) /\ target \in Seq(Row)
            /\ srcIt \in 1 .. Len(source) + 1 /\ targetIt \in 1 .. Len(target) + 1
        BY <1>1, <3>1 DEF InsertRows, UpdateInv, TypeOK, Walked
      <4> DEFINE given == SubSeq(source, srcIt, last)
      <4>3. given \in Seq(Row) /\ Len(given) = last - srcIt + 1
        BY <2>1, <4>2, PartOfRows
      <4>4. PICK range \in insertRange(target, targetIt, given) : target' = range.container
        BY <4>1 DEF onInsert
      <4> HIDE DEF given
      <4>5. target' = WithRowsAt(target, targetIt, given)
        BY <4>2, <4>3, <4>4, InsertRangeRight
      <4>6. Len(target') = Len(target) + Len(given)
        BY <4>2, <4>3, <4>5, RowsInsertedRight
      <4>. QED BY <2>1, <2>2, <4>1, <4>2, <4>3, <4>6 DEF RowsToCome
    <3>2. CASE RemoveSome
      <4>1. PICK last \in targetIt .. Len(target) : RemoveRows(last)
        BY <3>2 DEF RemoveSome
      <4>2. UNCHANGED <<source, srcIt, targetIt, changeMergePolicy, rowsBefore, rolesLost>>
        BY <3>2 DEF RemoveSome
      <4>3. Len(target') = Len(target) - (last - targetIt + 1)
        BY <1>1, <4>1, <4>2, RemoveStep
      <4>. QED BY <2>1, <2>2, <4>1, <4>2, <4>3 DEF RowsToCome
    <3>3. CASE Equal
      BY <2>1, <2>2, <3>3 DEF Equal, RowsToCome
    <3>4. CASE Change
      <4>1. srcIt' = srcIt + 1 /\ targetIt' = targetIt + 1 /\ source' = source
        BY <3>4 DEF Change
      <4>2. Len(target') = Len(target)
        BY <1>1, <3>4, LenProperties DEF Change, UpdateInv, TypeOK
      <4>. QED BY <2>1, <2>2, <4>1, <4>2 DEF RowsToCome
    <3>. QED BY <1>1, <3>1, <3>2, <3>3, <3>4 DEF Next, Step, setChangeMergePolicy, UpdateData, Finish
  <2>. QED BY <2>1, <2>2, <2>3 DEF RowsToCome
<1>2. UpdateInv /\ UpdateInv' /\ [Next]_vars => [updating /\ updating' => RowsToCome' \in 0 .. RowsToCome - 1]_vars
  BY <1>1
<1>. QED BY <1>2, UpdateWalks, UpdateInvStep, PTL DEF Spec, LoopGetsShorter

=============================================================================
