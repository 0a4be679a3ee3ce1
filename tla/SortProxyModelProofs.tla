------------------------ MODULE SortProxyModelProofs ------------------------
(***************************************************************************)
(* Whatever the source does, the proxy's two maps describe a permutation   *)
(* of its rows, a view that follows the signals shows it, and rows are     *)
(* sorted, for models of any size.                                         *)
(***************************************************************************)
EXTENDS SortProxyModel, ModelRowsProofs

(* The invariant: what each step of a handler may rely on *)

\* All rows from 1 to n, each once.
Permutes(rows, n) == Len(rows) = n /\ IsInjective(rows) /\ Range(rows) = 1 .. n

\* No row is less than one before it.
Ascends(rows) ==
  m_order = "Ascending" => \A p, q \in DOMAIN rows : p < q => ~LessThan(source, rows[q], rows[p])

\* The view stands for the rows that the mapping has, and shows their contents.
Shows(rows) == \A p \in DOMAIN view : view[p] = [of |-> rows[p], key |-> source[rows[p]]]

StateTypes ==
  /\ source \in Seq(Keys) /\ Len(source) <= MaxRows
  /\ m_sortColumn \in {-1, 0} /\ m_order \in {"Ascending", "Descending"} /\ m_sortRole \in Roles
  /\ proxyToSource \in Seq(Nat \ {0}) /\ Len(proxyToSource) <= MaxRows
  /\ view \in Seq([of : Nat, key : Keys]) /\ Len(view) = Len(proxyToSource)
  /\ pin # None => pin \in [of : Nat, row : DOMAIN view, internalId : Nat \ {0}]
  /\ invalidated \subseteq DOMAIN proxyToSource /\ (job.op # "removing" => invalidated = {})
  /\ job.op \in {"none", "reorder", "dataChanged", "announcing", "moving", "rowsInserted",
                "inserting", "rowsRemoved", "removing"}

\* A persistent index is where the view shows its row.
PinInPlace == pin # None => view[pin.row].of = pin.of

\* Nothing is under way, or only a call of reorder() about to begin.
AtRest ==
  /\ Permutes(proxyToSource, Len(source)) /\ sourceToProxy = Reversed(proxyToSource)
  /\ Shows(proxyToSource)
  /\ job = NoJob => Ascends(proxyToSource)

\* The view has not read the rows that the source has changed.
DataChanged ==
  /\ job \in [op : {"dataChanged"}, first : DOMAIN source, last : DOMAIN source, roles : SUBSET Roles]
  /\ job.first <= job.last
  /\ Permutes(proxyToSource, Len(source)) /\ sourceToProxy = Reversed(proxyToSource)
  /\ \A p \in DOMAIN view :
       /\ view[p].of = proxyToSource[p]
       /\ proxyToSource[p] \notin job.first .. job.last => view[p] = Shown(p)
  /\ job.roles = {} \/ m_sortRole \in job.roles \/ Ascends(proxyToSource)

\* What the view has not read again is in a range still to be announced.
Announcing ==
  /\ job \in [op : {"announcing"}, ranges : SUBSET [from : DOMAIN view, to : DOMAIN view], roles : SUBSET Roles]
  /\ job.ranges # {}
  /\ Permutes(proxyToSource, Len(source)) /\ sourceToProxy = Reversed(proxyToSource)
  /\ \A p \in DOMAIN view :
       /\ view[p].of = proxyToSource[p]
       /\ view[p] = Shown(p) \/ \E r \in job.ranges : p \in r.from .. r.to
  /\ job.roles = {} \/ m_sortRole \in job.roles \/ Ascends(proxyToSource)

\* Both iterators of reorder() are at the same place, and what is behind them
\* is in order.
Moving ==
  /\ job \in [op : {"moving"}, newOrder : Sorted(source, Iota(Len(source))),
              ordered : DOMAIN source, unordered : DOMAIN source]
  /\ job.ordered = job.unordered
  /\ \A i \in DOMAIN source : i > job.ordered => job.newOrder[i] = proxyToSource[i]
  /\ Permutes(proxyToSource, Len(source)) /\ sourceToProxy = <<>>
  /\ Shows(proxyToSource)

\* The mapping has the rows as they were before the source inserted some.
RowsInserted ==
  /\ job \in [op : {"rowsInserted"}, first : DOMAIN source, last : DOMAIN source]
  /\ job.first <= job.last
  /\ Permutes(proxyToSource, Len(source) - (job.last - job.first + 1))
  /\ Shows(Shift(proxyToSource, job.first, job.last - job.first + 1))
  /\ Ascends(Shift(proxyToSource, job.first, job.last - job.first + 1))

\* What is not in the mapping are the new rows from newIt on; none of these is
\* less than the rows before curIt.
Inserting ==
  /\ job \in [op : {"inserting"}, newRows : Seq(DOMAIN source), newIt : Nat \ {0}, curIt : Nat \ {0}]
  /\ job.newIt <= Len(job.newRows) + 1 /\ job.curIt <= Len(proxyToSource) + 1
  /\ Len(proxyToSource) + (Len(job.newRows) - job.newIt + 1) = Len(source)
  /\ IsInjective(proxyToSource) /\ IsInjective(job.newRows) /\ sourceToProxy = <<>>
  /\ \A p \in DOMAIN proxyToSource :
       /\ proxyToSource[p] \in DOMAIN source
       /\ \A i \in job.newIt .. Len(job.newRows) : proxyToSource[p] # job.newRows[i]
  /\ Shows(proxyToSource)
  /\ Ascends(proxyToSource) /\ Ascends(job.newRows)
  /\ m_order = "Ascending" => \A i \in job.newIt .. Len(job.newRows) : \A p \in 1 .. job.curIt - 1 :
       ~LessThan(source, job.newRows[i], proxyToSource[p])

\* Where row i of the source is after the removal of first .. last.
RowBehind(i) == IF i > job.last THEN i - (job.last - job.first + 1) ELSE i

\* The mapping has the rows as they were before the source removed some.
RowsRemoved ==
  /\ job \in [op : {"rowsRemoved"}, first : Nat \ {0}, last : Nat \ {0}]
  /\ job.first <= job.last /\ job.last <= Len(source) + (job.last - job.first + 1)
  /\ Permutes(proxyToSource, Len(source) + (job.last - job.first + 1))
  /\ \A p \in DOMAIN view :
       IF proxyToSource[p] \in job.first .. job.last THEN view[p].of = 0
       ELSE view[p] = [of |-> RowBehind(proxyToSource[p]), key |-> source[RowBehind(proxyToSource[p])]]
  /\ m_order = "Ascending" => \A p, q \in DOMAIN proxyToSource :
       p < q /\ {proxyToSource[p], proxyToSource[q]} \cap (job.first .. job.last) = {}
         => ~LessThan(source, RowBehind(proxyToSource[q]), RowBehind(proxyToSource[p]))

\* The rows of the mapping that are not invalidated are those of the source.
Removing ==
  /\ job = [op |-> "removing"] /\ sourceToProxy = <<>>
  /\ \A s \in DOMAIN source : \E p \in DOMAIN proxyToSource \ invalidated : proxyToSource[p] = s
  /\ \A p \in DOMAIN proxyToSource \ invalidated :
       /\ proxyToSource[p] \in DOMAIN source /\ view[p] = Shown(p)
       /\ \A q \in DOMAIN proxyToSource \ invalidated : proxyToSource[p] = proxyToSource[q] => p = q
  /\ \A p \in invalidated : view[p].of = 0
  /\ m_order = "Ascending" => \A p, q \in DOMAIN proxyToSource \ invalidated :
       p < q => ~LessThan(source, proxyToSource[q], proxyToSource[p])

SortInv ==
  /\ StateTypes /\ PinInPlace
  /\ job.op \in {"none", "reorder"} => job \in {NoJob, [op |-> "reorder"]} /\ AtRest
  /\ job.op = "dataChanged"  => DataChanged
  /\ job.op = "announcing"   => Announcing
  /\ job.op = "moving"       => Moving
  /\ job.op = "rowsInserted" => RowsInserted
  /\ job.op = "inserting"    => Inserting
  /\ job.op = "rowsRemoved"  => RowsRemoved
  /\ job.op = "removing"     => Removing

(* Numbers, permutations and orders *)

\* How many numbers there are in a mapping without repetitions.
LEMMA InjectiveCount ==
  ASSUME NEW T, NEW m \in Seq(T), IsInjective(m)
  PROVE  IsFiniteSet(Range(m)) /\ Cardinality(Range(m)) = Len(m)
<1>1. Len(m) \in Nat /\ DOMAIN m = 1 .. Len(m) /\ m \in [1 .. Len(m) -> T]
  BY LenProperties
<1>2. m \in Bijection(1 .. Len(m), Range(m))
  BY <1>1 DEF Bijection, Injection, Surjection, IsInjective, Range
<1>3. ExistsBijection(1 .. Len(m), Range(m))
  BY <1>2 DEF ExistsBijection
<1>4. IsFiniteSet(1 .. Len(m)) /\ Cardinality(1 .. Len(m)) = Len(m)
  BY <1>1, FS_Interval
<1>. QED BY <1>3, <1>4, FS_Bijection

\* If the rows of a mapping are 1 to n, there are n.
LEMMA PermutesOnto ==
  ASSUME NEW T, NEW m \in Seq(T), NEW n \in Nat, IsInjective(m), Range(m) = 1 .. n
  PROVE  Permutes(m, n)
<1>1. Cardinality(1 .. n) = n
  BY FS_Interval
<1>. QED BY <1>1, InjectiveCount DEF Permutes

\* The same rows in another order: there are as many, each once.
LEMMA SequencesOfSet ==
  ASSUME NEW S, IsFiniteSet(S), NEW t \in SetToSeqs(S)
  PROVE  t \in Seq(S) /\ Len(t) = Cardinality(S) /\ IsInjective(t) /\ Range(t) = S
<1>1. PICK n \in Nat : n = Cardinality(S)
  BY FS_CardinalityType
<1>2. t \in [1 .. n -> S] /\ \A i, j \in 1 .. n : i # j => t[i] # t[j]
  BY <1>1 DEF SetToSeqs
<1>3. t \in Seq(S) /\ Len(t) = n /\ IsInjective(t)
  BY <1>2 DEF IsInjective
<1>4. t \in Injection(1 .. n, S)
  BY <1>2 DEF Injection, IsInjective
<1>5. IsFiniteSet(1 .. n) /\ Cardinality(1 .. n) = n
  BY FS_Interval
<1>6. t \in Surjection(1 .. n, S)
  BY <1>1, <1>4, <1>5, FS_Injection
<1>7. Range(t) = S
  BY <1>2, <1>6 DEF Surjection, Range
<1>. QED BY <1>1, <1>3, <1>7

\* Sorting keeps the rows and orders them, or leaves them alone.
LEMMA SortedRight ==
  ASSUME NEW T, NEW rows \in Seq(T), IsInjective(rows), NEW s, NEW t \in Sorted(s, rows)
  PROVE  /\ t \in Seq(T) /\ Len(t) = Len(rows) /\ IsInjective(t) /\ Range(t) = Range(rows)
         /\ IF m_sortColumn = -1 THEN t = rows ELSE InOrder(s, t)
<1>1. CASE m_sortColumn = -1
  BY <1>1 DEF Sorted
<1>2. CASE m_sortColumn # -1
  <2>1. t \in SetToSeqs(Range(rows)) /\ InOrder(s, t)
    BY <1>2 DEF Sorted
  <2>2. Range(rows) \subseteq T
    BY LenProperties DEF Range
  <2>3. IsFiniteSet(Range(rows)) /\ Cardinality(Range(rows)) = Len(rows)
    BY InjectiveCount
  <2>4. t \in Seq(Range(rows)) /\ Len(t) = Len(rows) /\ IsInjective(t) /\ Range(t) = Range(rows)
    BY <2>1, <2>3, SequencesOfSet
  <2>5. t \in Seq(T)
    BY <2>2, <2>4, SeqMonotonic
  <2>. QED BY <1>2, <2>1, <2>4, <2>5
<1>. QED BY <1>1, <1>2

\* If no row is less than the one before it, then none is less than any before.
LEMMA NeighboursInOrder ==
  ASSUME NEW v, NEW n \in Nat, \A i \in 1 .. n : v[i] \in Int,
         \A i \in 1 .. n - 1 : v[i] <= v[i + 1]
  PROVE  \A i, j \in 1 .. n : i < j => v[i] <= v[j]
<1> DEFINE wrong == {d \in 1 .. n : \E i \in 1 .. n : i + d \in 1 .. n /\ v[i + d] < v[i]}
<1>1. wrong = {}
  <2> SUFFICES ASSUME wrong # {} PROVE FALSE
    OBVIOUS
  <2>1. wrong \in SUBSET Nat
    OBVIOUS
  <2>2. PICK d \in wrong : \A e \in wrong : d <= e
    BY <2>1, LeastNumber
  <2>3. PICK i \in 1 .. n : i + d \in 1 .. n /\ v[i + d] < v[i]
    OBVIOUS
  <2>4. d # 1
    BY <2>3
  <2>5. d - 1 \in 1 .. n /\ i + (d - 1) \in 1 .. n /\ d - 1 \notin wrong
    <3>1. d \in 1 .. n /\ ~(d <= d - 1)
      OBVIOUS
    <3>2. d - 1 \in 1 .. n /\ i + (d - 1) \in 1 .. n
      BY <2>3, <2>4, <3>1
    <3>3. d - 1 \notin wrong
      BY ONLY <2>2, <3>1
    <3>. QED BY <3>2, <3>3
  <2>6. v[i] <= v[i + (d - 1)]
    BY <2>5
  <2>7. v[i + (d - 1)] <= v[i + d]
    <3>1. PICK k : k = i + (d - 1)
      OBVIOUS
    <3>2. k \in 1 .. n - 1 /\ k + 1 = i + d
      BY <2>3, <2>5, <3>1
    <3>3. v[k] <= v[k + 1]
      BY <3>2
    <3>. QED BY <3>1, <3>2, <3>3
  <2>. QED BY <2>3, <2>5, <2>6, <2>7
<1>2. ASSUME NEW i \in 1 .. n, NEW j \in 1 .. n, i < j, v[j] < v[i] PROVE FALSE
  <2>1. PICK d : d = j - i
    OBVIOUS
  <2>2. d \in 1 .. n /\ i + d = j
    BY <1>2, <2>1
  <2>3. d \in wrong
    BY <1>2, <2>2
  <2>. QED BY <1>1, <2>3
<1>. QED BY <1>2

\* A sorted mapping ascends, if it is sorted so.
LEMMA SortedAscends ==
  ASSUME SortProxyAssumption, NEW s \in Seq(Keys), m_sortRole \in Roles, NEW rows \in Seq(Nat),
         m_sortColumn # -1, m_order = "Ascending", InOrder(s, rows), \A p \in DOMAIN rows : rows[p] \in DOMAIN s
  PROVE  \A p, q \in DOMAIN rows : p < q => ~LessThan(s, rows[q], rows[p])
<1>1. Len(rows) \in Nat /\ DOMAIN rows = 1 .. Len(rows)
  BY LenProperties
<1> DEFINE value == [p \in 1 .. Len(rows) |-> s[rows[p]][m_sortRole]]
<1>2. \A p \in 1 .. Len(rows) : value[p] \in Int
  <2> TAKE p \in 1 .. Len(rows)
  <2>1. rows[p] \in DOMAIN s
    BY <1>1
  <2>2. s[rows[p]] \in Keys
    BY <2>1, LenProperties, ElementOfSeq
  <2>. QED BY <2>2, SortProxyAssumption DEF SortProxyAssumption
<1>3. \A p \in 1 .. Len(rows) - 1 : value[p] <= value[p + 1]
  <2> TAKE p \in 1 .. Len(rows) - 1
  <2>1. p \in 1 .. Len(rows) /\ p + 1 \in 1 .. Len(rows)
    BY <1>1
  <2>2. ~(value[p + 1] < value[p])
    BY <2>1 DEF InOrder, LessThan
  <2>3. PICK here, next : here = value[p] /\ next = value[p + 1]
    OBVIOUS
  <2>4. here \in Int /\ next \in Int /\ ~(next < here)
    BY <1>2, <2>1, <2>2, <2>3
  <2>5. here <= next
    BY ONLY <2>4
  <2>. QED BY <2>3, <2>5
<1>4. \A p, q \in 1 .. Len(rows) : p < q => value[p] <= value[q]
  BY <1>1, <1>2, <1>3, NeighboursInOrder
<1>5. ASSUME NEW p \in DOMAIN rows, NEW q \in DOMAIN rows, p < q PROVE ~LessThan(s, rows[q], rows[p])
  <2>1. p \in 1 .. Len(rows) /\ q \in 1 .. Len(rows)
    BY <1>1
  <2>2. value[p] <= value[q] /\ value[p] \in Int /\ value[q] \in Int
    BY <1>2, <1>4, <1>5, <2>1
  <2>3. PICK left, right : left = value[p] /\ right = value[q]
    OBVIOUS
  <2>4. left \in Int /\ right \in Int /\ left <= right
    BY <2>2, <2>3
  <2>5. ~(right < left)
    BY ONLY <2>4
  <2>. QED BY <2>1, <2>3, <2>5 DEF LessThan
<1>. QED BY <1>5

\* The reverse map of a permutation finds every row.
LEMMA ReversedRight ==
  ASSUME NEW n \in Nat, NEW m \in Seq(Nat), Permutes(m, n)
  PROVE  /\ Len(m) = n /\ DOMAIN m = 1 .. n /\ DOMAIN Reversed(m) = 1 .. n
         /\ \A s \in 1 .. n : Reversed(m)[s] \in 1 .. n /\ m[Reversed(m)[s]] = s
         /\ \A p \in 1 .. n : m[p] \in 1 .. n /\ Reversed(m)[m[p]] = p
<1>1. Len(m) = n /\ DOMAIN m = 1 .. n
  BY LenProperties DEF Permutes
<1>2. ASSUME NEW s \in 1 .. n PROVE Reversed(m)[s] \in 1 .. n /\ m[Reversed(m)[s]] = s
  <2>1. \E p \in 1 .. n : m[p] = s
    BY <1>1 DEF Permutes, Range
  <2>. QED BY <1>1, <2>1 DEF Reversed
<1>3. ASSUME NEW p \in 1 .. n PROVE m[p] \in 1 .. n /\ Reversed(m)[m[p]] = p
  <2>1. m[p] \in 1 .. n
    BY <1>1 DEF Permutes, Range
  <2>. QED BY <1>1, <1>2, <2>1 DEF Permutes, IsInjective
<1>4. DOMAIN Reversed(m) = 1 .. n
  BY <1>1 DEF Reversed
<1>. QED BY <1>1, <1>2, <1>3, <1>4

\* As many rows as there are from 1 to n, each once, are all of them.
LEMMA PermutesInto ==
  ASSUME NEW T, NEW m \in Seq(T), NEW n \in Nat, IsInjective(m), Len(m) = n, \A p \in 1 .. n : m[p] \in 1 .. n
  PROVE  Permutes(m, n)
<1>1. m \in [1 .. n -> 1 .. n] /\ DOMAIN m = 1 .. n
  BY LenProperties
<1>2. m \in Injection(1 .. n, 1 .. n)
  BY <1>1 DEF Injection
<1>3. IsFiniteSet(1 .. n) /\ Cardinality(1 .. n) = n
  BY FS_Interval
<1>4. m \in Surjection(1 .. n, 1 .. n)
  BY <1>2, <1>3, FS_Injection
<1>5. Range(m) = 1 .. n
  BY <1>1, <1>4 DEF Surjection, Range
<1>. QED BY <1>5 DEF Permutes

(* Rows that move *)

\* Which row comes to row i, and where row r goes, when the n rows up to `last`
\* are moved behind row `to`.
MovedFrom(i, last, n, to) == IF i <= last - n \/ i > to THEN i ELSE IF i <= to - n THEN i + n ELSE i - (to - last)
MovedTo(r, last, n, to) ==
  IF r \in last - n + 1 .. last THEN r + to - last ELSE IF r \in last + 1 .. to THEN r - n ELSE r

\* The rotation, row by row.
LEMMA RowsMovedBehindRight ==
  ASSUME NEW T, NEW s \in Seq(T), NEW to \in 1 .. Len(s), NEW last \in 1 .. to - 1, NEW n \in 1 .. last
  PROVE  /\ WithRowsMovedBehind(s, last, n, to) \in Seq(T) /\ Len(WithRowsMovedBehind(s, last, n, to)) = Len(s)
         /\ \A i \in 1 .. Len(s) : WithRowsMovedBehind(s, last, n, to)[i] = s[MovedFrom(i, last, n, to)]
<1>1. Len(s) \in Nat
  BY LenProperties
<1>2. PICK first, dest : first = last - n + 1 /\ dest = to + 1
  OBVIOUS
<1>3. /\ first \in 1 .. Len(s) /\ last \in first .. Len(s) /\ dest \in 1 .. Len(s) + 1 /\ dest \notin first .. last + 1
      /\ dest > last /\ first - 1 = last - n /\ dest - 1 = to /\ dest - 1 - last = to - last /\ last - first + 1 = n
  BY <1>1, <1>2
<1>4. dest \in MoveTargets(Len(s), first, last)
  BY <1>3 DEF MoveTargets
<1>5. WithRowsMovedBehind(s, last, n, to) = WithRowsMoved(s, first, last, dest)
  <2>1. WithRowsMoved(s, first, last, dest) =
          SubSeq(s, 1, first - 1) \o SubSeq(s, last + 1, dest - 1) \o SubSeq(s, first, last) \o SubSeq(s, dest, Len(s))
    BY <1>3 DEF WithRowsMoved
  <2>2. WithRowsMovedBehind(s, last, n, to) =
          SubSeq(s, 1, last - n) \o SubSeq(s, last + 1, to) \o SubSeq(s, first, last) \o SubSeq(s, dest, Len(s))
    BY <1>2, Zenon DEF WithRowsMovedBehind
  <2>. QED BY <1>3, <2>1, <2>2, Zenon
<1>6. PICK now : now = WithRowsMoved(s, first, last, dest)
  OBVIOUS
<1>7. /\ now \in Seq(T) /\ Len(now) = Len(s)
      /\ \A i \in 1 .. Len(s) :
           now[i] = IF i < first \/ i >= dest THEN s[i]
                    ELSE IF i < first + (dest - 1 - last) THEN s[i + (last - first + 1)] ELSE s[i - (dest - 1 - last)]
  <2>1. s \in Seq(T) /\ first \in 1 .. Len(s) /\ last \in first .. Len(s) /\ dest > last
    BY <1>3
  <2>. QED BY ONLY <2>1, <1>4, <1>6, RowsMovedRight
<1>8. ASSUME NEW i \in 1 .. Len(s) PROVE now[i] = s[MovedFrom(i, last, n, to)]
  <2>1. /\ i < first <=> i <= last - n
        /\ i >= dest <=> i > to
        /\ i < first + (dest - 1 - last) <=> i <= to - n
    BY <1>1, <1>2
  <2>. QED BY <1>3, <1>7, <2>1 DEF MovedFrom
<1>. QED BY <1>5, <1>6, <1>7, <1>8

\* It loses no row.
LEMMA MovedBothWays ==
  ASSUME NEW N \in Nat, NEW to \in 1 .. N, NEW last \in 1 .. to - 1, NEW n \in 1 .. last, NEW i \in 1 .. N
  PROVE  /\ MovedTo(i, last, n, to) \in 1 .. N /\ MovedFrom(MovedTo(i, last, n, to), last, n, to) = i
         /\ MovedFrom(i, last, n, to) \in 1 .. N /\ MovedTo(MovedFrom(i, last, n, to), last, n, to) = i
BY DEF MovedTo, MovedFrom

(* What the steps have in common *)

\* A persistent index that is made anew is made with the row of the source it
\* stands for.
PinKept ==
  /\ pin # None /\ pin' # None /\ pin.of = pin.internalId /\ pin'.of = pin.of => pin'.internalId = pin.of
  /\ pin # None /\ pin' # None /\ pin'.row # pin.row /\ pin'.of # 0 => pin'.internalId = pin'.of

\* What a step may never do.
StepRight ==
  /\ PinKept
  /\ ~Idle /\ ~Idle' => RowsLeft' < RowsLeft
  /\ job.op = "moving" /\ Idle' =>
       IF m_sortColumn = -1 THEN proxyToSource' = Iota(Len(source')) ELSE InOrder(source', proxyToSource')

\* The variant in each kind of job.
RowsLeftRight ==
  /\ job.op = "dataChanged" => RowsLeft = 3 * MaxRows + 2
  /\ job.op = "announcing" => RowsLeft = 2 * MaxRows + 1 + Cardinality(job.ranges)
  /\ job.op \in {"reorder", "rowsInserted", "rowsRemoved"} => RowsLeft = 2 * MaxRows + 1
  /\ job.op = "moving" => RowsLeft = job.ordered
  /\ job.op = "inserting" => RowsLeft = Len(job.newRows) - job.newIt + 1
  /\ job.op = "removing" => RowsLeft = Cardinality(invalidated)

\* So it is, and so it will be.
LEMMA RowsLeftIs == RowsLeftRight
<1>1. job.op = "dataChanged" => RowsLeft = 3 * MaxRows + 2
  BY Zenon DEF RowsLeft
<1>6. job.op = "announcing" => RowsLeft = 2 * MaxRows + 1 + Cardinality(job.ranges)
  BY Zenon DEF RowsLeft
<1>2. job.op \in {"reorder", "rowsInserted", "rowsRemoved"} => RowsLeft = 2 * MaxRows + 1
  BY Zenon DEF RowsLeft
<1>3. job.op = "moving" => RowsLeft = job.ordered
  BY Zenon DEF RowsLeft
<1>4. job.op = "inserting" => RowsLeft = Len(job.newRows) - job.newIt + 1
  BY Zenon DEF RowsLeft
<1>5. job.op = "removing" => RowsLeft = Cardinality(invalidated)
  BY Zenon DEF RowsLeft
<1>. QED BY <1>1, <1>2, <1>3, <1>4, <1>5, <1>6, Zenon DEF RowsLeftRight

\* The same one step later.
LEMMA RowsLeftNext == RowsLeftRight'
BY RowsLeftIs, PTL

\* A persistent index moves with its row, if each row goes where the mapping
\* and the view have it.
LEMMA PinMoves ==
  ASSUME NEW to, PinFollows(to), PinInPlace, pin # None => pin \in [of : Nat, row : DOMAIN view, internalId : Nat \ {0}],
         \A r \in DOMAIN view : to[r] # 0 =>
           /\ to[r] \in DOMAIN view' /\ view'[to[r]].of = view[r].of
           /\ proxyToSource'[to[r]] \in Nat \ {0} /\ view'[to[r]].of \in {0, proxyToSource'[to[r]]},
         0 \notin DOMAIN view
  PROVE  /\ pin' # None => pin' \in [of : Nat, row : DOMAIN view', internalId : Nat \ {0}]
         /\ PinInPlace' /\ PinKept
<1>1. CASE pin = None
  BY <1>1 DEF PinFollows, PinInPlace, PinKept
<1>2. CASE pin # None
  <2>1. pin \in [of : Nat, row : DOMAIN view, internalId : Nat \ {0}] /\ view[pin.row].of = pin.of
    BY <1>2 DEF PinInPlace
  <2>2. CASE to[pin.row] = pin.row
    <3>1. pin' = pin /\ to[pin.row] # 0
      BY <2>1, <2>2 DEF PinFollows
    <3>2. pin.row \in DOMAIN view' /\ view'[pin.row].of = pin.of
      BY <2>1, <2>2, <3>1
    <3>. QED BY <2>1, <3>1, <3>2 DEF PinInPlace, PinKept
  <2>3. CASE to[pin.row] # pin.row /\ to[pin.row] = 0
    BY <1>2, <2>3 DEF PinFollows, PinInPlace, PinKept
  <2>4. CASE to[pin.row] # pin.row /\ to[pin.row] # 0
    <3>1. pin' = [of |-> pin.of, row |-> to[pin.row], internalId |-> proxyToSource'[to[pin.row]]]
      BY <1>2, <2>1, <2>4 DEF PinFollows
    <3>2. /\ to[pin.row] \in DOMAIN view' /\ view'[to[pin.row]].of = pin.of
          /\ proxyToSource'[to[pin.row]] \in Nat \ {0} /\ pin.of \in {0, proxyToSource'[to[pin.row]]}
      BY <2>1, <2>4
    <3>3. pin' \in [of : Nat, row : DOMAIN view', internalId : Nat \ {0}]
      BY <2>1, <3>1, <3>2
    <3>4. PinInPlace'
      BY <3>1, <3>2 DEF PinInPlace
    <3>5. PinKept
      BY <2>1, <3>1, <3>2 DEF PinKept
    <3>. QED BY <3>3, <3>4, <3>5
  <2>. QED BY <2>2, <2>3, <2>4
<1>. QED BY <1>1, <1>2

\* The source has changed, and the view's rows stand for others.
LEMMA PinRetargeted ==
  ASSUME NEW to, Retarget(to), PinInPlace, view \in Seq([of : Nat, key : Keys]),
         pin # None => pin \in [of : Nat, row : DOMAIN view, internalId : Nat \ {0}],
         \A p \in DOMAIN view : to[view[p].of] \in Nat
  PROVE  /\ pin' # None => pin' \in [of : Nat, row : DOMAIN view', internalId : Nat \ {0}]
         /\ view' \in Seq([of : Nat, key : Keys]) /\ Len(view') = Len(view)
         /\ \A p \in DOMAIN view : view'[p] = [of |-> to[view[p].of], key |-> view[p].key]
         /\ PinInPlace' /\ PinKept
<1>1. /\ Len(view) \in Nat /\ DOMAIN view = 1 .. Len(view)
      /\ \A p \in DOMAIN view : view[p] \in [of : Nat, key : Keys]
  <2>1. /\ Len(view) \in Nat /\ DOMAIN view = 1 .. Len(view)
        /\ view \in [1 .. Len(view) -> [of : Nat, key : Keys]]
    BY LenProperties
  <2>. QED BY <2>1
<1>2. /\ DOMAIN view' = 1 .. Len(view) /\ view' = [p \in 1 .. Len(view) |-> view'[p]]
      /\ \A p \in DOMAIN view : view'[p] = [of |-> to[view[p].of], key |-> view[p].key]
  BY <1>1 DEF Retarget
<1>3. \A p \in 1 .. Len(view) : view'[p] \in [of : Nat, key : Keys]
  BY <1>1, <1>2
<1>4. view' \in Seq([of : Nat, key : Keys]) /\ Len(view') = Len(view)
  BY <1>1, <1>2, <1>3
<1>5. CASE pin = None
  BY <1>2, <1>4, <1>5 DEF Retarget, PinInPlace, PinKept
<1>6. CASE pin # None
  <2>1. pin \in [of : Nat, row : DOMAIN view, internalId : Nat \ {0}] /\ view[pin.row].of = pin.of
    BY <1>6 DEF PinInPlace
  <2>2. pin' = [of |-> to[pin.of], row |-> pin.row, internalId |-> pin.internalId]
    BY <1>6, <2>1 DEF Retarget
  <2>3. pin' \in [of : Nat, row : DOMAIN view', internalId : Nat \ {0}] /\ PinInPlace'
    BY <1>1, <1>2, <2>1, <2>2 DEF PinInPlace
  <2>4. PinKept
    BY <2>1, <2>2 DEF PinKept
  <2>. QED BY <1>2, <1>4, <2>3, <2>4
<1>. QED BY <1>5, <1>6

\* The types of what is indexed.
LEMMA Ranges ==
  ASSUME StateTypes
  PROVE  /\ Len(source) \in Nat /\ DOMAIN source = 1 .. Len(source)
         /\ \A i \in 1 .. Len(source) : source[i] \in Keys
         /\ Len(proxyToSource) \in Nat /\ DOMAIN proxyToSource = 1 .. Len(proxyToSource)
         /\ \A p \in DOMAIN proxyToSource : proxyToSource[p] \in Nat \ {0}
         /\ DOMAIN view = DOMAIN proxyToSource /\ 0 \notin DOMAIN view
         /\ \A p \in DOMAIN view : view[p] \in [of : Nat, key : Keys]
<1>1. Len(source) \in Nat /\ DOMAIN source = 1 .. Len(source) /\ source \in [1 .. Len(source) -> Keys]
  BY LenProperties DEF StateTypes
<1>2. /\ Len(proxyToSource) \in Nat /\ DOMAIN proxyToSource = 1 .. Len(proxyToSource)
      /\ proxyToSource \in [1 .. Len(proxyToSource) -> Nat \ {0}]
  BY LenProperties DEF StateTypes
<1>3. /\ Len(view) = Len(proxyToSource) /\ DOMAIN view = 1 .. Len(view)
      /\ view \in [1 .. Len(view) -> [of : Nat, key : Keys]]
  BY LenProperties DEF StateTypes
<1>. QED BY <1>1, <1>2, <1>3

\* The rows of the source in their order.
LEMMA IotaRight ==
  ASSUME NEW n \in Nat
  PROVE  Iota(n) \in Seq(Nat \ {0}) /\ IsInjective(Iota(n)) /\ Len(Iota(n)) = n /\ Range(Iota(n)) = 1 .. n
BY DEF Iota, IsInjective, Range

\* Sorting them permutes them.
LEMMA AllSorted ==
  ASSUME SortProxyAssumption, NEW s \in Seq(Keys), m_sortRole \in Roles, NEW m \in Sorted(s, Iota(Len(s)))
  PROVE  /\ m \in Seq(Nat \ {0}) /\ Permutes(m, Len(s))
         /\ IF m_sortColumn = -1 THEN m = Iota(Len(s)) ELSE InOrder(s, m)
         /\ m_order = "Ascending" => \A p, q \in DOMAIN m : p < q => ~LessThan(s, m[q], m[p])
<1>1. Len(s) \in Nat /\ DOMAIN s = 1 .. Len(s)
  BY LenProperties
<1>2. PICK all : all = Iota(Len(s))
  OBVIOUS
<1>3. all \in Seq(Nat \ {0}) /\ IsInjective(all) /\ Len(all) = Len(s) /\ Range(all) = 1 .. Len(s)
  BY <1>1, <1>2, IotaRight
<1>4. /\ m \in Seq(Nat \ {0}) /\ Len(m) = Len(s) /\ IsInjective(m) /\ Range(m) = 1 .. Len(s)
      /\ IF m_sortColumn = -1 THEN m = all ELSE InOrder(s, m)
  BY <1>2, <1>3, SortedRight
<1>5. m \in Seq(Nat) /\ \A p \in DOMAIN m : m[p] \in DOMAIN s
  BY <1>1, <1>4, SeqMonotonic DEF Range
<1>6. CASE m_sortColumn = -1
  BY <1>2, <1>4, <1>6 DEF Permutes, LessThan
<1>7. CASE m_sortColumn # -1
  <2>1. m_order = "Ascending" => \A p, q \in DOMAIN m : p < q => ~LessThan(s, m[q], m[p])
    BY <1>4, <1>5, <1>7, SortedAscends
  <2>. QED BY <1>4, <1>7, <2>1 DEF Permutes
<1>. QED BY <1>6, <1>7

(* The steps *)

\* Another source model.
LEMMA SetSourceModelStep ==
  ASSUME SortProxyAssumption, SortInv, SetSourceModel
  PROVE  SortInv' /\ StepRight
<1>1. /\ job = NoJob /\ job' = NoJob /\ pin' = None /\ invalidated' = {}
      /\ m_sortColumn' = m_sortColumn /\ m_order' = m_order /\ m_sortRole' = m_sortRole
      /\ m_sortColumn \in {-1, 0} /\ m_order \in {"Ascending", "Descending"} /\ m_sortRole \in Roles
  BY DEF SetSourceModel, Idle, SortInv, StateTypes, settings, NoJob
<1>2. source' \in Seq(Keys) /\ Len(source') <= MaxRows /\ Len(source') \in Nat /\ DOMAIN source' = 1 .. Len(source')
  BY LenProperties, SortProxyAssumption DEF SetSourceModel, SortProxyAssumption
<1>3. proxyToSource' \in Sorted(source', Iota(Len(source'))) /\ sourceToProxy' = Reversed(proxyToSource')
  BY DEF SetSourceModel
<1>4. /\ proxyToSource' \in Seq(Nat \ {0}) /\ Permutes(proxyToSource', Len(source'))
      /\ m_order = "Ascending" => \A p, q \in DOMAIN proxyToSource' :
           p < q => ~LessThan(source', proxyToSource'[q], proxyToSource'[p])
  BY <1>1, <1>2, <1>3, AllSorted
<1>5. /\ DOMAIN proxyToSource' = 1 .. Len(source') /\ Len(proxyToSource') = Len(source')
      /\ \A p \in DOMAIN proxyToSource' : proxyToSource'[p] \in DOMAIN source'
  BY <1>2, <1>4, LenProperties DEF Permutes, Range
<1>6. view' = [p \in DOMAIN proxyToSource' |-> [of |-> proxyToSource'[p], key |-> source'[proxyToSource'[p]]]]
  BY DEF SetSourceModel, Shown
<1>7. view' \in Seq([of : Nat, key : Keys]) /\ Len(view') = Len(proxyToSource')
  <2>1. \A p \in 1 .. Len(source') : source'[p] \in Keys
    BY <1>2, LenProperties
  <2>2. \A p \in DOMAIN proxyToSource' : view'[p] \in [of : Nat, key : Keys]
    BY <1>2, <1>5, <1>6, <2>1
  <2>. QED BY <1>2, <1>5, <1>6, <2>2
<1>8. StateTypes' /\ PinInPlace'
  BY <1>1, <1>2, <1>4, <1>5, <1>7 DEF StateTypes, PinInPlace, NoJob
<1>9. AtRest'
  BY <1>1, <1>3, <1>4, <1>6 DEF AtRest, Shows, Ascends, LessThan
<1>10. SortInv'
  BY <1>1, <1>8, <1>9 DEF SortInv, NoJob
<1>. QED BY <1>1, <1>10 DEF StepRight, PinKept, Idle, NoJob

\* A persistent index is made.
LEMMA PinStep ==
  ASSUME SortInv, Pin
  PROVE  SortInv' /\ StepRight
<1>1. /\ job = NoJob /\ AtRest /\ StateTypes /\ PinInPlace
      /\ UNCHANGED <<source, m_sortColumn, m_order, m_sortRole, proxyToSource, sourceToProxy, invalidated, job, view>>
  BY DEF Pin, Idle, SortInv, settings, maps, NoJob
<1>2. PICK p \in DOMAIN view : pin' = [of |-> view[p].of, row |-> p, internalId |-> proxyToSource[p]]
  BY DEF Pin
<1>3. /\ view[p] = [of |-> proxyToSource[p], key |-> source[proxyToSource[p]]]
      /\ proxyToSource[p] \in Nat \ {0} /\ DOMAIN view = DOMAIN proxyToSource
  BY <1>1, Ranges DEF AtRest, Shows
<1>4. pin' \in [of : Nat, row : DOMAIN view', internalId : Nat \ {0}] /\ PinInPlace' /\ PinKept
  BY <1>1, <1>2, <1>3 DEF PinInPlace, PinKept
<1>5. StateTypes'
  BY <1>1, <1>4 DEF StateTypes
<1>6. AtRest'
  BY <1>1 DEF AtRest, Shows, Ascends, LessThan
<1>. QED BY <1>1, <1>4, <1>5, <1>6 DEF SortInv, StepRight, Idle, NoJob

\* What to sort by changes, and reorder() is to follow.
LEMMA SortStep ==
  ASSUME SortInv, Sort \/ SetSortRole
  PROVE  SortInv' /\ StepRight
<1>1. /\ job = NoJob /\ AtRest /\ StateTypes /\ PinInPlace /\ job' = [op |-> "reorder"]
      /\ UNCHANGED <<source, proxyToSource, sourceToProxy, invalidated, view, pin>>
      /\ m_sortColumn' \in {-1, 0} /\ m_order' \in {"Ascending", "Descending"} /\ m_sortRole' \in Roles
  BY DEF Sort, SetSortRole, Idle, SortInv, StateTypes, maps, NoJob
<1>2. StateTypes' /\ PinInPlace'
  BY <1>1 DEF StateTypes, PinInPlace, NoJob
<1>3. AtRest'
  BY <1>1 DEF AtRest, Shows, NoJob
<1>. QED BY <1>1, <1>2, <1>3 DEF SortInv, StepRight, PinKept, Idle, NoJob

\* The proxy finds every row of the source, with the reverse map and without.
LEMMA MapRight ==
  ASSUME StateTypes, Permutes(proxyToSource, Len(source)), sourceToProxy \in {Reversed(proxyToSource), <<>>}
  PROVE  \A s \in DOMAIN source : MapToProxyRow(s) \in DOMAIN proxyToSource /\ proxyToSource[MapToProxyRow(s)] = s
<1> TAKE s \in DOMAIN source
<1>1. /\ Len(source) \in Nat /\ DOMAIN source = 1 .. Len(source) /\ DOMAIN proxyToSource = 1 .. Len(source)
      /\ Len(proxyToSource) = Len(source) /\ proxyToSource \in Seq(Nat)
  <2>1. proxyToSource \in Seq(Nat)
    BY SeqMonotonic DEF StateTypes
  <2>. QED BY <2>1, Ranges DEF Permutes
<1>2. CASE sourceToProxy # <<>>
  <2>1. MapToProxyRow(s) = Reversed(proxyToSource)[s]
    BY <1>2 DEF MapToProxyRow
  <2>. QED BY <1>1, <2>1, ReversedRight
<1>3. CASE sourceToProxy = <<>>
  <2> DEFINE places == {p \in 1 .. Len(proxyToSource) : proxyToSource[p] = s}
  <2>1. places \in SUBSET Nat /\ places # {}
    BY <1>1 DEF Permutes, Range
  <2>2. MapToProxyRow(s) = Min(places)
    BY <1>3, <2>1 DEF MapToProxyRow, SelectInSeq
  <2>. QED BY <1>1, <2>1, <2>2, MinRight
<1>. QED BY <1>2, <1>3

\* Every one of the rows is in a range, and there are no more ranges than rows.
LEMMA RangesRight ==
  ASSUME NEW n \in Nat, NEW rows \in SUBSET (1 .. n)
  PROVE  /\ RangesOf(rows) \subseteq [from : 1 .. n, to : 1 .. n]
         /\ \A p \in rows : \E r \in RangesOf(rows) : p \in r.from .. r.to
         /\ IsFiniteSet(RangesOf(rows)) /\ Cardinality(RangesOf(rows)) <= n
<1>1. RangesOf(rows) \subseteq [from : 1 .. n, to : 1 .. n]
  BY DEF RangesOf
<1>2. ASSUME NEW p \in rows PROVE \E r \in RangesOf(rows) : p \in r.from .. r.to
  <2> DEFINE before == {i \in rows : i <= p /\ i .. p \subseteq rows}
             after  == {i \in rows : i >= p /\ p .. i \subseteq rows}
  <2>1. p \in before /\ before \in SUBSET Nat /\ p \in after /\ after \in SUBSET Nat /\ \A i \in after : i <= n
    <3>1. p \in Nat /\ p .. p = {p}
      OBVIOUS
    <3>2. p \in before /\ p \in after
      BY <3>1
    <3>n. \A i \in rows : i \in Nat
      OBVIOUS
    <3>b. \A i \in before \cup after : i \in rows
      OBVIOUS
    <3>3. before \in SUBSET Nat /\ after \in SUBSET Nat
      <4> HIDE DEF before, after
      <4>. QED BY <3>n, <3>b
    <3>4. \A i \in rows : i <= n
      OBVIOUS
    <3>5. \A i \in after : i <= n
      BY <3>4
    <3>. QED BY <3>2, <3>3, <3>5
  <2>2. PICK from \in before : \A i \in before : from <= i
    BY <2>1, LeastNumber
  <2>3. PICK to \in after : \A i \in after : i <= to
    <3> HIDE DEF after
    <3>. QED BY <2>1, MaxRight
  <2>4. from \in rows /\ to \in rows /\ from <= p /\ p <= to /\ from .. to \subseteq rows
    <3>1. ASSUME NEW i \in from .. to PROVE i \in rows
      <4>1. i \in from .. p \/ i \in p .. to
        OBVIOUS
      <4>. QED BY <4>1
    <3>. QED BY <3>1
  <2>5. from - 1 \notin rows
    <3> SUFFICES ASSUME from - 1 \in rows PROVE FALSE
      OBVIOUS
    <3>1. ASSUME NEW i \in from - 1 .. p PROVE i \in rows
      <4>1. i = from - 1 \/ i \in from .. p
        BY <2>4
      <4>. QED BY <4>1
    <3>2. from - 1 \in before
      BY <2>4, <3>1
    <3>. QED BY <2>2, <2>4, <3>2
  <2>6. to + 1 \notin rows
    <3> SUFFICES ASSUME to + 1 \in rows PROVE FALSE
      OBVIOUS
    <3>1. ASSUME NEW i \in p .. to + 1 PROVE i \in rows
      <4>1. i = to + 1 \/ i \in p .. to
        BY <2>4
      <4>. QED BY <4>1
    <3>2. to + 1 \in after
      BY <2>4, <3>1
    <3>. QED BY <2>3, <2>4, <3>2
  <2>7. [from |-> from, to |-> to] \in RangesOf(rows)
    BY <2>4, <2>5, <2>6 DEF RangesOf
  <2>. QED BY <2>4, <2>7
<1>3. IsFiniteSet(RangesOf(rows)) /\ Cardinality(RangesOf(rows)) <= n
  <2> DEFINE from == [r \in RangesOf(rows) |-> r.from]
  <2>1. ASSUME NEW r \in RangesOf(rows), NEW q \in RangesOf(rows), r.from = q.from PROVE r = q
    <3>1. /\ r \in [from : rows, to : rows] /\ q \in [from : rows, to : rows]
          /\ r.from .. r.to \subseteq rows /\ q.from .. q.to \subseteq rows
          /\ r.from <= r.to /\ q.from <= q.to /\ r.to + 1 \notin rows /\ q.to + 1 \notin rows
      BY DEF RangesOf
    <3>n. \A x \in rows : x \in Nat
      OBVIOUS
    <3>o. r.from \in Nat /\ q.from \in Nat /\ r.to \in Nat /\ q.to \in Nat
      BY <3>1, <3>n
    <3>2. ~(r.to < q.to)
      <4> SUFFICES ASSUME r.to < q.to PROVE FALSE
        OBVIOUS
      <4>1. r.to + 1 \in q.from .. q.to
        BY <2>1, <3>1, <3>o
      <4>. QED BY <3>1, <4>1
    <3>3. ~(q.to < r.to)
      <4> SUFFICES ASSUME q.to < r.to PROVE FALSE
        OBVIOUS
      <4>1. q.to + 1 \in r.from .. r.to
        BY <2>1, <3>1, <3>o
      <4>. QED BY <3>1, <4>1
    <3>4. r.to = q.to
      BY <3>o, <3>2, <3>3
    <3>. QED BY <2>1, <3>1, <3>4
  <2>2. from \in Injection(RangesOf(rows), 1 .. n)
    BY <1>1, <2>1 DEF Injection, IsInjective
  <2>3. IsFiniteSet(1 .. n) /\ Cardinality(1 .. n) = n
    BY FS_Interval
  <2>. QED BY <2>2, <2>3, FS_Injection DEF ExistsInjection
<1>. QED BY <1>1, <1>2, <1>3

\* The ranges of the changed rows are to be announced.
LEMMA HandleDataChangedStep ==
  ASSUME SortProxyAssumption, SortInv, HandleDataChanged
  PROVE  SortInv' /\ StepRight
<1>1. /\ job.op = "dataChanged" /\ DataChanged /\ StateTypes /\ PinInPlace
      /\ UNCHANGED <<source, m_sortColumn, m_order, m_sortRole, proxyToSource, sourceToProxy, invalidated, view, pin>>
  BY DEF HandleDataChanged, SortInv, settings, maps
<1>2. /\ DOMAIN source = 1 .. Len(source) /\ Len(source) \in Nat /\ DOMAIN view = 1 .. Len(source)
      /\ DOMAIN proxyToSource = 1 .. Len(source) /\ Len(source) <= MaxRows
  BY <1>1, Ranges DEF DataChanged, Permutes, StateTypes
<1>3. /\ Permutes(proxyToSource, Len(source)) /\ sourceToProxy = Reversed(proxyToSource)
      /\ job.first .. job.last \subseteq DOMAIN source /\ job.first \in job.first .. job.last
  BY <1>1, <1>2 DEF DataChanged
<1>4. \A p \in DOMAIN proxyToSource : proxyToSource[p] \in DOMAIN source
  BY <1>2, <1>3 DEF Permutes, Range
<1>5. \A s \in DOMAIN source : MapToProxyRow(s) \in DOMAIN proxyToSource /\ proxyToSource[MapToProxyRow(s)] = s
  BY <1>1, <1>3, MapRight
<1>6. PICK rows : rows = {MapToProxyRow(s) : s \in job.first .. job.last}
  OBVIOUS
<1>7. rows \in SUBSET (1 .. Len(source)) /\ rows # {}
  BY <1>2, <1>3, <1>5, <1>6
<1>8. ASSUME NEW p \in DOMAIN proxyToSource, proxyToSource[p] \in job.first .. job.last PROVE p \in rows
  <2>1. MapToProxyRow(proxyToSource[p]) = p
    BY <1>3, <1>4, <1>5 DEF Permutes, IsInjective
  <2>. QED BY <1>6, <1>8, <2>1
<1>9. job' = [op |-> "announcing", roles |-> job.roles, ranges |-> RangesOf(rows)]
  BY <1>6 DEF HandleDataChanged
<1>10. /\ RangesOf(rows) \subseteq [from : 1 .. Len(source), to : 1 .. Len(source)]
       /\ \A p \in rows : \E r \in RangesOf(rows) : p \in r.from .. r.to
       /\ IsFiniteSet(RangesOf(rows)) /\ Cardinality(RangesOf(rows)) <= Len(source)
  BY <1>2, <1>7, RangesRight
<1>11. StateTypes' /\ PinInPlace'
  BY <1>1, <1>9 DEF StateTypes, PinInPlace
<1>12. Announcing'
  <2>1. job.roles \in SUBSET Roles
    BY <1>1 DEF DataChanged
  <2>2. job' \in [op : {"announcing"}, ranges : SUBSET [from : DOMAIN view', to : DOMAIN view'], roles : SUBSET Roles]
    BY <1>1, <1>2, <1>9, <1>10, <2>1
  <2>3. job'.ranges # {}
    BY <1>7, <1>9, <1>10
  <2>4. ASSUME NEW p \in DOMAIN view
        PROVE  /\ view[p].of = proxyToSource[p]
               /\ view[p] = [of |-> proxyToSource[p], key |-> source[proxyToSource[p]]] \/ \E r \in RangesOf(rows) : p \in r.from .. r.to
    <3>1. view[p].of = proxyToSource[p] /\ (proxyToSource[p] \notin job.first .. job.last => view[p] = Shown(p))
      BY <1>1 DEF DataChanged
    <3>. QED BY <1>2, <1>8, <1>10, <3>1 DEF Shown
  <2>5. job.roles = {} \/ m_sortRole \in job.roles \/ Ascends(proxyToSource)'
    BY <1>1 DEF DataChanged, Ascends, LessThan
  <2>. QED BY <1>1, <1>3, <1>9, <2>2, <2>3, <2>4, <2>5 DEF Announcing, Shown
<1>13. RowsLeft' < RowsLeft
  <2>1. RowsLeft = 3 * MaxRows + 2
    BY <1>1, RowsLeftIs DEF RowsLeftRight
  <2>2. RowsLeft' = 2 * MaxRows + 1 + Cardinality(RangesOf(rows))
    BY <1>9, RowsLeftNext DEF RowsLeftRight
  <2>3. Cardinality(RangesOf(rows)) \in Nat
    BY <1>10, FS_CardinalityType
  <2>. QED BY <1>2, <1>10, <2>1, <2>2, <2>3, SortProxyAssumption DEF SortProxyAssumption
<1>. QED BY <1>1, <1>9, <1>11, <1>12, <1>13 DEF SortInv, StepRight, PinKept

\* There is a first range.
LEMMA FirstRangeRight ==
  ASSUME StateTypes, Announcing
  PROVE  FirstRange \in job.ranges
<1>1. job.ranges \subseteq [from : DOMAIN view, to : DOMAIN view] /\ job.ranges # {}
  BY DEF Announcing
<1>2. DOMAIN view \subseteq Nat
  BY Ranges
<1>3. {r.from : r \in job.ranges} \in SUBSET Nat /\ {r.from : r \in job.ranges} # {}
  BY <1>1, <1>2
<1>4. PICK from \in {r.from : r \in job.ranges} : \A other \in {r.from : r \in job.ranges} : from <= other
  BY <1>3, LeastNumber
<1>5. \E r \in job.ranges : \A other \in job.ranges : r.from <= other.from
  BY <1>4
<1>. QED BY <1>5 DEF FirstRange

\* The view reads the rows of a range again, and after the last one the rows
\* are reordered if they may have to.
LEMMA AnnounceRangeStep ==
  ASSUME SortProxyAssumption, SortInv, AnnounceRange
  PROVE  SortInv' /\ StepRight
<1>1. /\ job.op = "announcing" /\ Announcing /\ StateTypes /\ PinInPlace
      /\ UNCHANGED <<source, m_sortColumn, m_order, m_sortRole, proxyToSource, sourceToProxy, invalidated, pin>>
  BY DEF AnnounceRange, SortInv, settings, maps
<1>2. /\ DOMAIN source = 1 .. Len(source) /\ Len(source) \in Nat /\ DOMAIN view = DOMAIN proxyToSource
      /\ DOMAIN proxyToSource = 1 .. Len(proxyToSource) /\ Len(proxyToSource) \in Nat
      /\ \A i \in 1 .. Len(source) : source[i] \in Keys
  BY <1>1, Ranges
<1>3. Permutes(proxyToSource, Len(source)) /\ sourceToProxy = Reversed(proxyToSource)
  BY <1>1 DEF Announcing
<1>4. \A p \in DOMAIN proxyToSource : proxyToSource[p] \in DOMAIN source /\ proxyToSource[p] \in Nat
  <2>1. \A p \in DOMAIN proxyToSource : proxyToSource[p] \in 1 .. Len(source)
    BY <1>3 DEF Permutes, Range
  <2>. QED BY <1>2, <2>1
<1>5. PICK first \in job.ranges : first = FirstRange
  BY <1>1, FirstRangeRight
<1>6. view' = [p \in DOMAIN view |-> IF p \in first.from .. first.to THEN Shown(p) ELSE view[p]]
  BY <1>5 DEF AnnounceRange
<1>7. /\ DOMAIN view' = DOMAIN view
      /\ \A p \in DOMAIN view :
           /\ view'[p] = IF p \in first.from .. first.to THEN [of |-> proxyToSource[p], key |-> source[proxyToSource[p]]]
                         ELSE view[p]
           /\ view[p].of = proxyToSource[p] /\ view'[p].of = view[p].of
  BY <1>1, <1>6 DEF Announcing, Shown
<1>8. view' \in Seq([of : Nat, key : Keys]) /\ Len(view') = Len(proxyToSource)
  <2>1. \A p \in 1 .. Len(proxyToSource) : view[p] \in [of : Nat, key : Keys]
    BY <1>1, <1>2, Ranges
  <2>2. \A p \in 1 .. Len(proxyToSource) : view'[p] \in [of : Nat, key : Keys]
    BY <1>2, <1>4, <1>7, <2>1
  <2>3. view' \in [1 .. Len(proxyToSource) -> [of : Nat, key : Keys]]
    BY <1>2, <1>6, <2>2
  <2>. QED BY <1>2, <2>3, FunctionIsSeq
<1>9. /\ job' \in {[job EXCEPT !.ranges = job.ranges \ {first}], NoJob, [op |-> "reorder"]}
      /\ job'.op = "announcing" => job.ranges # {first} /\ job' = [job EXCEPT !.ranges = job.ranges \ {first}]
      /\ job'.op # "announcing" => job.ranges = {first} /\ job' \in {NoJob, [op |-> "reorder"]}
      /\ job' = NoJob => job.roles # {} /\ m_sortRole \notin job.roles
  BY <1>1, <1>5 DEF AnnounceRange, NoJob, Announcing
<1>10. job'.op \in {"announcing", "none", "reorder"}
  BY <1>1, <1>9 DEF NoJob, Announcing
<1>11. StateTypes'
  BY <1>1, <1>2, <1>7, <1>8, <1>10 DEF StateTypes
<1>12. PinInPlace' /\ PinKept
  <2>1. pin # None => pin.row \in DOMAIN view
    BY <1>1 DEF StateTypes
  <2>. QED BY <1>1, <1>7, <2>1 DEF PinInPlace, PinKept
<1>13. job'.op # "announcing" => AtRest'
  <2> SUFFICES ASSUME job'.op # "announcing" PROVE AtRest'
    OBVIOUS
  <2>1. \A p \in DOMAIN view : view'[p] = [of |-> proxyToSource[p], key |-> source[proxyToSource[p]]]
    BY <1>1, <1>7, <1>9 DEF Announcing, Shown
  <2>2. job' = NoJob => Ascends(proxyToSource)'
    BY <1>1, <1>9 DEF Announcing, Ascends, LessThan
  <2>. QED BY <1>1, <1>3, <1>7, <2>1, <2>2 DEF AtRest, Shows
<1>14. job'.op = "announcing" => Announcing'
  <2> SUFFICES ASSUME job'.op = "announcing" PROVE Announcing'
    OBVIOUS
  <2>1. job.ranges # {first} /\ job' = [op |-> "announcing", ranges |-> job.ranges \ {first}, roles |-> job.roles]
    BY <1>1, <1>9 DEF Announcing
  <2>2. /\ job' \in [op : {"announcing"}, ranges : SUBSET [from : DOMAIN view', to : DOMAIN view'], roles : SUBSET Roles]
        /\ job'.ranges # {}
    BY <1>1, <1>5, <1>7, <2>1 DEF Announcing
  <2>3. ASSUME NEW p \in DOMAIN view
        PROVE  /\ view'[p].of = proxyToSource[p]
               /\ \/ view'[p] = [of |-> proxyToSource[p], key |-> source[proxyToSource[p]]]
                  \/ \E r \in job.ranges \ {first} : p \in r.from .. r.to
    BY <1>1, <1>7 DEF Announcing, Shown
  <2>4. job.roles = {} \/ m_sortRole \in job.roles \/ Ascends(proxyToSource)'
    BY <1>1 DEF Announcing, Ascends, LessThan
  <2>. QED BY <1>1, <1>3, <1>7, <2>1, <2>2, <2>3, <2>4 DEF Announcing, Shown
<1>15. ~Idle' => RowsLeft' < RowsLeft
  <2>1. IsFiniteSet(job.ranges)
    <3>1. IsFiniteSet(1 .. Len(proxyToSource))
      BY <1>2, FS_Interval
    <3>2. IsFiniteSet((1 .. Len(proxyToSource)) \X (1 .. Len(proxyToSource)))
      BY <3>1, FS_Product
    <3> DEFINE at == [r \in job.ranges |-> <<r.from, r.to>>]
    <3>3. \A r \in job.ranges :
            r \in [from : 1 .. Len(proxyToSource), to : 1 .. Len(proxyToSource)]
      BY <1>1, <1>2 DEF Announcing
    <3>4. \A r, q \in job.ranges : at[r] = at[q] => r = q
      BY <3>3
    <3>5. at \in [job.ranges -> (1 .. Len(proxyToSource)) \X (1 .. Len(proxyToSource))]
      BY <3>3
    <3>6. at \in Injection(job.ranges, (1 .. Len(proxyToSource)) \X (1 .. Len(proxyToSource)))
      <4> HIDE DEF at
      <4>1. DOMAIN at = job.ranges
        BY <3>5
      <4>. QED BY <3>4, <3>5, <4>1 DEF Injection, IsInjective
    <3>. QED BY <3>2, <3>6, FS_Injection DEF ExistsInjection
  <2>2. RowsLeft = 2 * MaxRows + 1 + Cardinality(job.ranges)
    BY <1>1, RowsLeftIs DEF RowsLeftRight
  <2>3. /\ Cardinality(job.ranges) \in Nat /\ Cardinality(job.ranges) > 0
        /\ Cardinality(job.ranges \ {first}) = Cardinality(job.ranges) - 1
    BY <1>5, <2>1, FS_CardinalityType, FS_RemoveElement, FS_EmptySet
  <2>4. job'.op = "reorder" => RowsLeft' = 2 * MaxRows + 1
    BY RowsLeftNext DEF RowsLeftRight
  <2>5. job'.op = "announcing" => RowsLeft' = 2 * MaxRows + 1 + (Cardinality(job.ranges) - 1)
    <3>1. job'.op = "announcing" => job'.ranges = job.ranges \ {first}
      BY <1>1, <1>9 DEF Announcing
    <3>. QED BY <2>3, <3>1, RowsLeftNext DEF RowsLeftRight
  <2>6. ~Idle' => job'.op # "none"
    BY <1>1, <1>9 DEF Idle, NoJob, Announcing
  <2>. QED BY <1>10, <2>2, <2>3, <2>4, <2>5, <2>6, SortProxyAssumption DEF SortProxyAssumption
<1>16. job'.op \in {"none", "reorder"} => job' \in {NoJob, [op |-> "reorder"]}
  BY <1>9
<1>. QED BY <1>1, <1>10, <1>11, <1>12, <1>13, <1>14, <1>15, <1>16 DEF SortInv, StepRight

\* The source changes rows, and the view has yet to learn of it.
LEMMA SourceDataChangedStep ==
  ASSUME SortProxyAssumption, SortInv, SourceDataChanged
  PROVE  SortInv' /\ StepRight
<1>1. /\ job = NoJob /\ AtRest /\ StateTypes /\ PinInPlace
      /\ UNCHANGED <<m_sortColumn, m_order, m_sortRole, proxyToSource, sourceToProxy, invalidated, view, pin>>
  BY DEF SourceDataChanged, Idle, SortInv, settings, maps, NoJob
<1>2. /\ DOMAIN source = 1 .. Len(source) /\ Len(source) \in Nat /\ DOMAIN view = DOMAIN proxyToSource
      /\ \A i \in 1 .. Len(source) : source[i] \in Keys
  BY <1>1, Ranges
<1>3. PICK first \in DOMAIN source :
       \E last \in first .. Min({Len(source), first + MaxChanged - 1}) : \E keys \in [first .. last -> Keys] :
       LET changed == {r \in Roles : \E i \in first .. last : keys[i][r] # source[i][r]}
       IN  /\ changed # {}
           /\ source' = [i \in DOMAIN source |-> IF i \in first .. last THEN keys[i] ELSE source[i]]
           /\ \E roles \in {{}, changed} :
                job' = [op |-> "dataChanged", first |-> first, last |-> last, roles |-> roles]
  BY Zenon DEF SourceDataChanged
<1>4. PICK last \in first .. Min({Len(source), first + MaxChanged - 1}) : \E keys \in [first .. last -> Keys] :
       LET changed == {r \in Roles : \E i \in first .. last : keys[i][r] # source[i][r]}
       IN  /\ changed # {}
           /\ source' = [i \in DOMAIN source |-> IF i \in first .. last THEN keys[i] ELSE source[i]]
           /\ \E roles \in {{}, changed} :
                job' = [op |-> "dataChanged", first |-> first, last |-> last, roles |-> roles]
  BY <1>3, Zenon
<1>5. PICK keys \in [first .. last -> Keys] :
       LET changed == {r \in Roles : \E i \in first .. last : keys[i][r] # source[i][r]}
       IN  /\ changed # {}
           /\ source' = [i \in DOMAIN source |-> IF i \in first .. last THEN keys[i] ELSE source[i]]
           /\ \E roles \in {{}, changed} :
                job' = [op |-> "dataChanged", first |-> first, last |-> last, roles |-> roles]
  BY <1>4, Zenon
<1>6. PICK roles \in {{}, {r \in Roles : \E i \in first .. last : keys[i][r] # source[i][r]}} :
        job' = [op |-> "dataChanged", first |-> first, last |-> last, roles |-> roles]
  BY <1>5
<1>7. first \in DOMAIN source /\ last \in DOMAIN source /\ roles \in SUBSET Roles
  <2>1. PICK most : most = Min({Len(source), first + MaxChanged - 1})
    OBVIOUS
  <2>2. {Len(source), first + MaxChanged - 1} \in SUBSET Nat
    BY <1>2, SortProxyAssumption DEF SortProxyAssumption
  <2>3. most \in Nat /\ most <= Len(source)
    BY <2>1, <2>2, MinRight
  <2>. QED BY <1>2, <1>4, <2>1, <2>3
<1>8. DOMAIN source' = DOMAIN source /\ source' \in Seq(Keys) /\ Len(source') = Len(source)
  <2>1. source' \in [1 .. Len(source) -> Keys]
    BY <1>2, <1>5
  <2>. QED BY <1>2, <2>1, FunctionIsSeq
<1>9. StateTypes' /\ PinInPlace'
  BY <1>1, <1>6, <1>8 DEF StateTypes, PinInPlace, NoJob
<1>10. DataChanged'
  <2>1. job' \in [op : {"dataChanged"}, first : DOMAIN source', last : DOMAIN source', roles : SUBSET Roles]
    BY <1>6, <1>7, <1>8
  <2>2. \A p \in DOMAIN view : proxyToSource[p] \in DOMAIN source /\ view[p] = [of |-> proxyToSource[p], key |-> source[proxyToSource[p]]]
    BY <1>1, <1>2 DEF AtRest, Shows, Permutes, Range
  <2>3. \A p \in DOMAIN view :
          /\ view[p].of = proxyToSource[p]
          /\ proxyToSource[p] \notin first .. last => view[p] = [of |-> proxyToSource[p], key |-> source'[proxyToSource[p]]]
    BY <1>5, <2>2
  <2>4. roles = {} \/ m_sortRole \in roles \/ Ascends(proxyToSource)'
    <3> SUFFICES ASSUME roles # {}, m_sortRole \notin roles PROVE Ascends(proxyToSource)'
      OBVIOUS
    <3>1. \A i \in first .. last : keys[i][m_sortRole] = source[i][m_sortRole]
      BY <1>1 DEF StateTypes
    <3>2. \A i \in DOMAIN source : source'[i][m_sortRole] = source[i][m_sortRole]
      BY <1>5, <3>1
    <3>. QED BY <1>1, <1>2, <2>2, <3>2 DEF AtRest, Ascends, LessThan
  <2>. QED BY <1>1, <1>6, <1>8, <2>1, <2>3, <2>4 DEF DataChanged, AtRest, Shown
<1>. QED BY <1>1, <1>6, <1>9, <1>10 DEF SortInv, StepRight, PinKept, Idle, NoJob

\* reorder() sorts the rows of the source and begins to move the proxy's.
LEMMA ReorderStep ==
  ASSUME SortProxyAssumption, SortInv, Reorder
  PROVE  SortInv' /\ StepRight
<1>1. /\ job = [op |-> "reorder"] /\ AtRest /\ StateTypes /\ PinInPlace
      /\ UNCHANGED <<source, m_sortColumn, m_order, m_sortRole, proxyToSource, invalidated, view, pin>>
  BY DEF Reorder, SortInv, settings, NoJob
<1>2. /\ DOMAIN source = 1 .. Len(source) /\ Len(source) \in Nat /\ DOMAIN view = DOMAIN proxyToSource
      /\ proxyToSource \in Seq(Nat \ {0})
  BY <1>1, Ranges DEF StateTypes
<1>3. CASE proxyToSource = <<>>
  <2>1. job' = NoJob /\ sourceToProxy' = sourceToProxy
    BY <1>3 DEF Reorder
  <2>2. StateTypes' /\ PinInPlace'
    BY <1>1, <2>1 DEF StateTypes, PinInPlace, NoJob
  <2>3. AtRest'
    BY <1>1, <1>3, <2>1 DEF AtRest, Shows, Ascends
  <2>. QED BY <1>1, <2>1, <2>2, <2>3 DEF SortInv, StepRight, PinKept, Idle, NoJob
<1>4. CASE proxyToSource # <<>>
  <2>1. PICK newOrder \in Sorted(source, Iota(Len(source))) :
          job' = [op |-> "moving", newOrder |-> newOrder, ordered |-> Len(newOrder), unordered |-> Len(newOrder)]
    BY <1>4 DEF Reorder
  <2>2. newOrder \in Seq(Nat \ {0}) /\ Len(newOrder) = Len(source)
    BY <1>1, AllSorted DEF StateTypes, Permutes
  <2>3. Len(source) \in DOMAIN source /\ sourceToProxy' = <<>>
    <3>1. Len(proxyToSource) \in Nat \ {0}
      BY <1>2, <1>4, EmptySeq
    <3>. QED BY <1>1, <1>2, <1>4, <3>1 DEF AtRest, Permutes, Reorder
  <2>4. StateTypes' /\ PinInPlace'
    BY <1>1, <2>1 DEF StateTypes, PinInPlace
  <2>5. Moving'
    <3>1. job' \in [op : {"moving"}, newOrder : Sorted(source, Iota(Len(source))), ordered : DOMAIN source, unordered : DOMAIN source]
      BY <2>1, <2>2, <2>3
    <3>2. Sorted(source, Iota(Len(source)))' = Sorted(source, Iota(Len(source)))
      BY <1>1 DEF Sorted, InOrder, LessThan
    <3>3. \A i \in DOMAIN source : ~(i > Len(newOrder))
      BY <1>2, <2>2
    <3>. QED BY <1>1, <2>1, <2>3, <3>1, <3>2, <3>3 DEF Moving, AtRest, Shows
  <2>6. RowsLeft' < RowsLeft
    <3>1. RowsLeft = 2 * MaxRows + 1
      BY <1>1, RowsLeftIs DEF RowsLeftRight
    <3>2. RowsLeft' = Len(source)
      BY <2>1, <2>2, RowsLeftNext DEF RowsLeftRight
    <3>3. MaxRows \in Nat /\ Len(source) \in Nat /\ Len(source) <= MaxRows
      BY <1>1, <1>2, SortProxyAssumption DEF StateTypes, SortProxyAssumption
    <3>. QED BY <3>1, <3>2, <3>3
  <2>. QED BY <1>1, <2>1, <2>4, <2>5, <2>6 DEF SortInv, StepRight, PinKept, Idle, NoJob
<1>. QED BY <1>3, <1>4

(* reorder() *)

\* Rows that are in place already are skipped from the back, and no others.
LEMMA SkippedRight ==
  ASSUME SortProxyAssumption, StateTypes, Moving
  PROVE  /\ OrderedAt \in 1 .. Len(source) /\ OrderedAt <= job.ordered /\ MoveTo = OrderedAt
         /\ \A i \in DOMAIN source : i > OrderedAt => job.newOrder[i] = proxyToSource[i]
         /\ OrderedAt # 1 => job.newOrder[OrderedAt] # proxyToSource[OrderedAt]
<1> DEFINE runs == {k \in 0 .. job.ordered - 1 : \A i \in 0 .. k - 1 :
                      job.newOrder[job.ordered - i] = proxyToSource[job.unordered - i]}
<1>1. Len(source) \in Nat /\ DOMAIN source = 1 .. Len(source)
  BY Ranges
<1>2. PICK at : at = job.ordered
  OBVIOUS
<1>3. /\ at \in 1 .. Len(source) /\ job.unordered = at /\ job.ordered = at
      /\ \A i \in DOMAIN source : i > at => job.newOrder[i] = proxyToSource[i]
  BY <1>1, <1>2 DEF Moving
<1>4. runs \in SUBSET Nat /\ runs # {} /\ \A k \in runs : k <= at - 1
  <2>1. 0 \in runs
    BY <1>3
  <2>. QED BY <1>3, <2>1
<1>5. PICK n : n = Skipped
  OBVIOUS
<1>6. n \in runs /\ \A k \in runs : k <= n
  <2>1. n = Max(runs)
    BY <1>5 DEF Skipped
  <2>2. at - 1 \in Nat
    BY <1>3
  <2>. QED BY ONLY <1>4, <2>1, <2>2, MaxRight
<1>7. /\ n \in 0 .. at - 1 /\ OrderedAt = at - n /\ MoveTo = at - n
      /\ \A i \in 0 .. n - 1 : job.newOrder[at - i] = proxyToSource[at - i]
  BY <1>3, <1>5, <1>6 DEF OrderedAt, MoveTo
<1>8. ASSUME NEW i \in DOMAIN source, i > at - n PROVE job.newOrder[i] = proxyToSource[i]
  <2>1. CASE i > at
    BY <1>3, <2>1
  <2>2. CASE i <= at
    <3>1. PICK d : d = at - i
      OBVIOUS
    <3>2. d \in 0 .. n - 1 /\ at - d = i
      BY <1>1, <1>3, <1>7, <1>8, <2>2, <3>1
    <3>3. job.newOrder[at - d] = proxyToSource[at - d]
      BY <1>7, <3>2
    <3>. QED BY <3>2, <3>3
  <2>. QED BY <1>1, <1>3, <2>1, <2>2
<1>9. ASSUME at - n # 1, job.newOrder[at - n] = proxyToSource[at - n] PROVE FALSE
  <2>1. PICK k : k = n + 1
    OBVIOUS
  <2>2. k \in 0 .. job.ordered - 1 /\ ~(k <= n)
    BY <1>3, <1>7, <1>9, <2>1
  <2>3. ASSUME NEW i \in 0 .. k - 1 PROVE job.newOrder[job.ordered - i] = proxyToSource[job.unordered - i]
    <3>1. i \in 0 .. n - 1 \/ i = n
      BY <1>7, <2>1, <2>3
    <3>. QED BY <1>3, <1>7, <1>9, <3>1
  <2>4. k \in runs
    BY <2>2, <2>3
  <2>. QED BY ONLY <1>6, <2>2, <2>4
<1>10. at - n \in 1 .. Len(source) /\ at - n <= at
  BY <1>1, <1>3, <1>7
<1>. QED BY <1>2, <1>7, <1>8, <1>9, <1>10

\* The row that belongs to the back of the rows to be moved is one of them, and
\* the block that goes with it ends there.
LEMMA BlockRight ==
  ASSUME SortProxyAssumption, StateTypes, Moving, OrderedAt # 1
  PROVE  /\ MovedRow \in 1 .. OrderedAt - 1 /\ MoveCount \in 1 .. MovedRow
         /\ \A i \in 0 .. MoveCount - 1 : proxyToSource[MovedRow - i] = job.newOrder[OrderedAt - i]
<1>1. /\ Len(source) \in Nat /\ DOMAIN source = 1 .. Len(source)
      /\ DOMAIN proxyToSource = 1 .. Len(source) /\ IsInjective(proxyToSource) /\ Range(proxyToSource) = 1 .. Len(source)
  BY Ranges DEF Moving, Permutes
<1>2. job.newOrder \in Sorted(source, Iota(Len(source)))
  BY DEF Moving
<1>3. Permutes(job.newOrder, Len(source)) /\ job.newOrder \in Seq(Nat \ {0})
  BY <1>2, AllSorted DEF StateTypes
<1>4. DOMAIN job.newOrder = 1 .. Len(source) /\ IsInjective(job.newOrder) /\ Range(job.newOrder) = 1 .. Len(source)
  BY <1>3, LenProperties DEF Permutes
<1>5. PICK at : at = OrderedAt
  OBVIOUS
<1>6. /\ at \in 1 .. Len(source) /\ at # 1 /\ MoveTo = at /\ job.newOrder[at] # proxyToSource[at]
      /\ \A i \in 1 .. Len(source) : i > at => job.newOrder[i] = proxyToSource[i]
  BY <1>1, <1>5, SkippedRight
<1> DEFINE places == {p \in 1 .. at - 1 : proxyToSource[p] = job.newOrder[at]}
<1>7. places \in SUBSET Nat /\ places # {} /\ \A p \in places : p <= at - 1
  <2>1. job.newOrder[at] \in 1 .. Len(source)
    BY <1>4, <1>6 DEF Range
  <2>2. PICK p \in 1 .. Len(source) : proxyToSource[p] = job.newOrder[at]
    BY <1>1, <2>1 DEF Range
  <2>3. ~(p > at)
    <3> SUFFICES ASSUME p > at PROVE FALSE
      OBVIOUS
    <3>1. job.newOrder[p] = job.newOrder[at]
      BY <1>6, <2>2
    <3>. QED BY <1>4, <1>6, <3>1 DEF IsInjective
  <2>4. p # at
    BY <1>6, <2>2
  <2>5. p \in places
    BY <1>1, <1>6, <2>2, <2>3, <2>4
  <2>. QED BY <1>1, <1>6, <2>5
<1>8. PICK row : row = MovedRow
  OBVIOUS
<1>9. row \in places
  <2>1. row = Max(places)
    BY <1>5, <1>6, <1>7, <1>8 DEF MovedRow, SelectLastInSubSeq
  <2>2. at - 1 \in Nat
    BY <1>6
  <2>. QED BY ONLY <1>7, <2>1, <2>2, MaxRight
<1>10. row \in 1 .. at - 1 /\ proxyToSource[row] = job.newOrder[at]
  BY <1>9
<1> DEFINE runs == {k \in 0 .. row - 1 : \A i \in 1 .. k : proxyToSource[row - i] = job.newOrder[at - i]}
<1>11. Min({row - 1, at - 1}) = row - 1
  <2>1. {row - 1, at - 1} \in SUBSET Nat /\ row - 1 < at - 1
    BY <1>1, <1>6, <1>10
  <2>2. Min({row - 1, at - 1}) \in {row - 1, at - 1} /\ Min({row - 1, at - 1}) <= row - 1
    BY ONLY <2>1, MinRight
  <2>. QED BY <1>1, <1>6, <1>10, <2>1, <2>2
<1>12. runs \in SUBSET Nat /\ runs # {} /\ \A k \in runs : k <= row - 1
  <2>1. row - 1 \in Nat
    BY <1>1, <1>6, <1>10
  <2>2. 0 \in runs
    BY <2>1
  <2>3. \A k \in runs : k \in Nat /\ k <= row - 1
    BY <2>1
  <2>. QED BY <2>2, <2>3
<1>13. PICK n : n = MoveCount - 1
  OBVIOUS
<1>14. n \in runs /\ MoveCount = n + 1
  <2>1. PICK k : k = Max(runs)
    OBVIOUS
  <2>2. MoveCount = 1 + k
    BY <1>5, <1>8, <1>11, <2>1, Zenon DEF MoveCount
  <2>3. row - 1 \in Nat
    BY <1>1, <1>6, <1>10
  <2>4. k \in runs
    BY ONLY <1>12, <2>1, <2>3, MaxRight
  <2>. QED BY <1>12, <1>13, <2>2, <2>4
<1>15. ASSUME NEW i \in 0 .. n PROVE proxyToSource[row - i] = job.newOrder[at - i]
  <2>1. CASE i = 0
    BY <1>1, <1>6, <1>10, <2>1
  <2>2. CASE i # 0
    <3>1. n \in Nat
      BY <1>12, <1>14
    <3>2. i \in 1 .. n
      BY <1>15, <2>2, <3>1
    <3>. QED BY <1>14, <3>2
  <2>. QED BY <2>1, <2>2
<1>16. n + 1 \in 1 .. row /\ n + 1 - 1 = n
  BY <1>1, <1>6, <1>10, <1>14
<1>. QED BY <1>5, <1>8, <1>10, <1>14, <1>15, <1>16

\* A block of rows moves to its place.
LEMMA MoveBlockStep ==
  ASSUME SortProxyAssumption, SortInv, MoveBlock
  PROVE  SortInv' /\ StepRight
<1>1. /\ job.op = "moving" /\ Moving /\ StateTypes /\ PinInPlace /\ OrderedAt # 1
      /\ UNCHANGED <<source, m_sortColumn, m_order, m_sortRole, sourceToProxy, invalidated>>
  BY DEF MoveBlock, SortInv, settings
<1>2. PICK at, row, n : at = OrderedAt /\ row = MovedRow /\ n = MoveCount
  OBVIOUS
<1>3. /\ Len(source) \in Nat /\ DOMAIN source = 1 .. Len(source) /\ DOMAIN proxyToSource = 1 .. Len(source)
      /\ DOMAIN view = 1 .. Len(source) /\ 0 \notin DOMAIN view
      /\ proxyToSource \in Seq(Nat \ {0}) /\ view \in Seq([of : Nat, key : Keys])
      /\ Len(proxyToSource) = Len(source) /\ Len(view) = Len(source) /\ Len(source) <= MaxRows
      /\ \A p \in 1 .. Len(source) : proxyToSource[p] \in 1 .. Len(source)
      /\ IsInjective(proxyToSource)
  BY <1>1, Ranges DEF StateTypes, Moving, Permutes, Range
<1>4. /\ at \in 1 .. Len(source) /\ at <= job.ordered /\ MoveTo = at /\ row \in 1 .. at - 1 /\ n \in 1 .. row
      /\ \A i \in 1 .. Len(source) : i > at => job.newOrder[i] = proxyToSource[i]
      /\ \A i \in 0 .. n - 1 : proxyToSource[row - i] = job.newOrder[at - i]
  BY <1>1, <1>2, <1>3, SkippedRight, BlockRight
<1>5. PICK now, seen : now = proxyToSource' /\ seen = view'
  OBVIOUS
<1>6. /\ now \in Seq(Nat \ {0}) /\ Len(now) = Len(source)
      /\ \A i \in 1 .. Len(source) : now[i] = proxyToSource[MovedFrom(i, row, n, at)]
  <2>1. now = WithRowsMovedBehind(proxyToSource, row, n, at)
    BY <1>2, <1>4, <1>5 DEF MoveBlock
  <2>2. PICK T : T = Nat \ {0}
    OBVIOUS
  <2>3. proxyToSource \in Seq(T) /\ at \in 1 .. Len(proxyToSource) /\ row \in 1 .. at - 1 /\ n \in 1 .. row
    BY <1>3, <1>4, <2>2
  <2>4. /\ now \in Seq(T) /\ Len(now) = Len(proxyToSource)
        /\ \A i \in 1 .. Len(proxyToSource) : now[i] = proxyToSource[MovedFrom(i, row, n, at)]
    BY ONLY <2>1, <2>3, RowsMovedBehindRight
  <2>. QED BY <1>3, <2>2, <2>4
<1>7. /\ seen \in Seq([of : Nat, key : Keys]) /\ Len(seen) = Len(source)
      /\ \A i \in 1 .. Len(source) : seen[i] = view[MovedFrom(i, row, n, at)]
  <2>1. seen = WithRowsMovedBehind(view, row, n, at)
    BY <1>2, <1>4, <1>5 DEF MoveBlock
  <2>2. PICK T : T = [of : Nat, key : Keys]
    OBVIOUS
  <2>3. view \in Seq(T) /\ at \in 1 .. Len(view) /\ row \in 1 .. at - 1 /\ n \in 1 .. row
    BY <1>3, <1>4, <2>2
  <2>4. /\ seen \in Seq(T) /\ Len(seen) = Len(view)
        /\ \A i \in 1 .. Len(view) : seen[i] = view[MovedFrom(i, row, n, at)]
    BY ONLY <2>1, <2>3, RowsMovedBehindRight
  <2>. QED BY <1>3, <2>2, <2>4
<1>8. \A i \in 1 .. Len(source) :
        /\ MovedTo(i, row, n, at) \in 1 .. Len(source) /\ MovedFrom(MovedTo(i, row, n, at), row, n, at) = i
        /\ MovedFrom(i, row, n, at) \in 1 .. Len(source) /\ MovedTo(MovedFrom(i, row, n, at), row, n, at) = i
  <2>1. Len(source) \in Nat /\ at \in 1 .. Len(source) /\ row \in 1 .. at - 1 /\ n \in 1 .. row
    BY <1>3, <1>4
  <2>. QED BY ONLY <2>1, MovedBothWays
<1>9. Permutes(now, Len(source))
  <2>1. DOMAIN now = 1 .. Len(source)
    BY <1>6, LenProperties
  <2>2. IsInjective(now)
    <3> SUFFICES ASSUME NEW i \in 1 .. Len(source), NEW j \in 1 .. Len(source), now[i] = now[j] PROVE i = j
      BY <2>1 DEF IsInjective
    <3>1. MovedFrom(i, row, n, at) = MovedFrom(j, row, n, at)
      BY <1>3, <1>6, <1>8 DEF IsInjective
    <3>. QED BY <1>8, <3>1
  <2>3. \A p \in 1 .. Len(source) : now[p] \in 1 .. Len(source)
    BY <1>3, <1>6, <1>8
  <2>. QED BY <1>3, <1>6, <2>2, <2>3, PermutesInto
<1>10. DOMAIN seen = 1 .. Len(source) /\ \A i \in 1 .. Len(source) : seen[i] = [of |-> now[i], key |-> source[now[i]]]
  <2>1. DOMAIN seen = 1 .. Len(source)
    BY <1>7, LenProperties
  <2>2. \A i \in 1 .. Len(source) : view[i] = [of |-> proxyToSource[i], key |-> source[proxyToSource[i]]]
    BY <1>1, <1>3 DEF Moving, Shows
  <2>3. ASSUME NEW i \in 1 .. Len(source) PROVE seen[i] = [of |-> now[i], key |-> source[now[i]]]
    <3>1. PICK f \in 1 .. Len(source) : f = MovedFrom(i, row, n, at)
      BY <1>8
    <3>2. seen[i] = view[f] /\ now[i] = proxyToSource[f]
      BY <1>6, <1>7, <3>1
    <3>. QED BY <2>2, <3>2
  <2>. QED BY <2>1, <2>3
<1>11. job' = [op |-> "moving", newOrder |-> job.newOrder, ordered |-> at - n, unordered |-> at - n]
  <2>1. job' = [job EXCEPT !.ordered = at - n, !.unordered = at - n]
    BY <1>2, <1>4 DEF MoveBlock
  <2>. QED BY <1>1, <2>1 DEF Moving
<1>12. Moving'
  <2>1. at - n \in DOMAIN source
    <3>1. PICK len : len = Len(source)
      OBVIOUS
    <3>2. len \in Nat /\ at \in 1 .. len /\ row \in 1 .. at - 1 /\ n \in 1 .. row
      BY <1>3, <1>4, <3>1
    <3>3. at - n \in 1 .. len
      BY ONLY <3>2
    <3>. QED BY <1>3, <3>1, <3>3
  <2>2. ASSUME NEW i \in 1 .. Len(source), i > at - n PROVE job.newOrder[i] = now[i]
    <3>1. CASE i > at
      BY <1>4, <1>6, <3>1 DEF MovedFrom
    <3>2. CASE i <= at
      <4>1. PICK d : d = at - i
        OBVIOUS
      <4>2. d \in 0 .. n - 1 /\ at - d = i /\ row - d = i - (at - row)
        BY <1>3, <1>4, <2>2, <3>2, <4>1
      <4>3. MovedFrom(i, row, n, at) = i - (at - row)
        BY <1>3, <1>4, <2>2, <3>2 DEF MovedFrom
      <4>4. proxyToSource[row - d] = job.newOrder[at - d]
        BY <1>4, <4>2
      <4>. QED BY <1>6, <4>2, <4>3, <4>4
    <3>. QED BY <1>3, <1>4, <3>1, <3>2
  <2>3. job' \in [op : {"moving"}, newOrder : Sorted(source, Iota(Len(source))), ordered : DOMAIN source, unordered : DOMAIN source]
    BY <1>1, <1>11, <2>1 DEF Moving
  <2>4. Sorted(source, Iota(Len(source)))' = Sorted(source, Iota(Len(source)))
    BY <1>1 DEF Sorted, InOrder, LessThan
  <2>5. Permutes(proxyToSource, Len(source))' /\ sourceToProxy' = <<>>
    BY <1>1, <1>5, <1>9 DEF Moving
  <2>6. Shows(proxyToSource)'
    BY <1>1, <1>5, <1>10 DEF Shows
  <2>7. \A i \in DOMAIN source : i > at - n => job.newOrder[i] = proxyToSource'[i]
    BY <1>3, <1>5, <2>2
  <2>. QED BY <1>1, <1>11, <2>3, <2>4, <2>5, <2>6, <2>7 DEF Moving
<1>13. /\ pin' # None => pin' \in [of : Nat, row : DOMAIN view', internalId : Nat \ {0}]
       /\ PinInPlace' /\ PinKept
  <2> DEFINE to == [r \in DOMAIN view |-> MovedTo(r, row, n, at)]
  <2>1. PinFollows(to)
    <3>1. PinFollows([r \in DOMAIN view |->
            IF r \in row - n + 1 .. row THEN r + at - row ELSE IF r \in row + 1 .. at THEN r - n ELSE r])
      BY <1>2, <1>4 DEF MoveBlock
    <3>2. to = [r \in DOMAIN view |->
            IF r \in row - n + 1 .. row THEN r + at - row ELSE IF r \in row + 1 .. at THEN r - n ELSE r]
      BY Zenon DEF MovedTo
    <3>. QED BY <3>1, <3>2
  <2>2. ASSUME NEW r \in DOMAIN view
        PROVE  /\ to[r] \in DOMAIN view' /\ view'[to[r]].of = view[r].of
               /\ proxyToSource'[to[r]] \in Nat \ {0} /\ view'[to[r]].of \in {0, proxyToSource'[to[r]]}
    <3>1. PICK t : t = to[r]
      OBVIOUS
    <3>2. t \in 1 .. Len(source) /\ MovedFrom(t, row, n, at) = r
      BY <1>3, <1>8, <3>1
    <3>3. seen[t] = view[r] /\ seen[t] = [of |-> now[t], key |-> source[now[t]]] /\ now[t] \in Nat \ {0}
      BY <1>6, <1>7, <1>10, <3>2, ElementOfSeq
    <3>. QED BY <1>5, <1>10, <3>1, <3>2, <3>3
  <2>3. PICK t : t = to
    OBVIOUS
  <2>4. PinFollows(t) /\ \A r \in DOMAIN view : t[r] # 0 =>
           /\ t[r] \in DOMAIN view' /\ view'[t[r]].of = view[r].of
           /\ proxyToSource'[t[r]] \in Nat \ {0} /\ view'[t[r]].of \in {0, proxyToSource'[t[r]]}
    BY <2>1, <2>2, <2>3
  <2>5. PinInPlace /\ (pin # None => pin \in [of : Nat, row : DOMAIN view, internalId : Nat \ {0}])
    BY <1>1 DEF StateTypes
  <2>. QED BY ONLY <1>3, <2>4, <2>5, PinMoves
<1>14. StateTypes'
  <2>1. DOMAIN proxyToSource' = DOMAIN proxyToSource
    BY <1>3, <1>5, <1>6, LenProperties
  <2>. QED BY <1>1, <1>3, <1>5, <1>6, <1>7, <1>11, <1>13, <2>1 DEF StateTypes
<1>15. RowsLeft' < RowsLeft
  <2>1. RowsLeft = job.ordered /\ RowsLeft' = at - n
    BY <1>1, <1>11, RowsLeftIs, RowsLeftNext DEF RowsLeftRight
  <2>2. job.ordered \in Nat /\ at \in Nat /\ n \in Nat /\ n >= 1 /\ at <= job.ordered
    BY <1>1, <1>3, <1>4 DEF Moving
  <2>. QED BY <2>1, <2>2
<1>16. ~Idle'
  BY <1>11 DEF Idle, NoJob
<1>. QED BY <1>11, <1>12, <1>13, <1>14, <1>15, <1>16 DEF SortInv, StepRight

\* The handlers end when all rows are in the mapping.
LEMMA FinishStep ==
  ASSUME SortProxyAssumption, SortInv, Finish
  PROVE  SortInv' /\ StepRight
<1>1. /\ StateTypes /\ PinInPlace /\ job' = NoJob /\ sourceToProxy' = Reversed(proxyToSource)
      /\ UNCHANGED <<source, m_sortColumn, m_order, m_sortRole, proxyToSource, invalidated, view, pin>>
  BY DEF Finish, SortInv, settings
<1>2. /\ Len(source) \in Nat /\ DOMAIN source = 1 .. Len(source) /\ DOMAIN view = DOMAIN proxyToSource
      /\ Len(proxyToSource) \in Nat /\ DOMAIN proxyToSource = 1 .. Len(proxyToSource)
      /\ proxyToSource \in Seq(Nat \ {0})
  BY <1>1, Ranges DEF StateTypes
<1>3. ASSUME MovesDone
      PROVE  /\ Permutes(proxyToSource, Len(source)) /\ Ascends(proxyToSource) /\ Shows(proxyToSource) /\ invalidated = {}
             /\ IF m_sortColumn = -1 THEN proxyToSource = Iota(Len(source)) ELSE InOrder(source, proxyToSource)
  <2>1. job.op = "moving" /\ Moving /\ OrderedAt = 1
    BY <1>3 DEF MovesDone, SortInv
  <2>2. PICK order : order = job.newOrder
    OBVIOUS
  <2>3. \A i \in DOMAIN source : i > 1 => order[i] = proxyToSource[i]
    BY <1>1, <2>1, <2>2, SkippedRight
  <2>4. order \in Sorted(source, Iota(Len(source)))
    BY <2>1, <2>2 DEF Moving
  <2>5. /\ order \in Seq(Nat \ {0}) /\ Permutes(order, Len(source))
        /\ IF m_sortColumn = -1 THEN order = Iota(Len(source)) ELSE InOrder(source, order)
        /\ m_order = "Ascending" => \A p, q \in DOMAIN order : p < q => ~LessThan(source, order[q], order[p])
    BY <1>1, <2>4, AllSorted DEF StateTypes
  <2>6. Permutes(proxyToSource, Len(source)) /\ Shows(proxyToSource) /\ invalidated = {}
    BY <1>1, <2>1 DEF Moving, StateTypes
  <2>7. \A i \in 1 .. Len(source) : order[i] = proxyToSource[i]
    <3> SUFFICES ASSUME 1 \in 1 .. Len(source), order[1] # proxyToSource[1] PROVE FALSE
      BY <1>2, <2>3
    <3>1. DOMAIN order = 1 .. Len(source) /\ DOMAIN proxyToSource = 1 .. Len(source)
      BY <1>2, <2>5, <2>6, LenProperties DEF Permutes
    <3>2. order[1] \in 1 .. Len(source)
      BY <2>5, <3>1 DEF Permutes, Range
    <3>3. PICK p \in 1 .. Len(source) : proxyToSource[p] = order[1]
      BY <2>6, <3>1, <3>2 DEF Permutes, Range
    <3>4. p > 1 /\ order[p] = order[1]
      BY <1>2, <2>3, <3>3
    <3>. QED BY <2>5, <3>1, <3>4 DEF Permutes, IsInjective
  <2>8. order = proxyToSource
    BY <1>2, <2>5, <2>6, <2>7, SeqEqual DEF Permutes
  <2>. QED BY <2>5, <2>6, <2>8 DEF Ascends
<1>4. ASSUME InsertsDone
      PROVE  Permutes(proxyToSource, Len(source)) /\ Ascends(proxyToSource) /\ Shows(proxyToSource) /\ invalidated = {}
  <2>1. job.op = "inserting" /\ Inserting /\ job.newIt > Len(job.newRows)
    BY <1>4 DEF InsertsDone, SortInv
  <2>2. Len(job.newRows) \in Nat
    BY <2>1, LenProperties DEF Inserting
  <2>3. Len(proxyToSource) = Len(source)
    <3>1. PICK l, it : l = Len(job.newRows) /\ it = job.newIt
      OBVIOUS
    <3>2. it \in Nat /\ it > l /\ it <= l + 1 /\ Len(proxyToSource) + (l - it + 1) = Len(source)
      BY <2>1, <3>1 DEF Inserting
    <3>3. PICK m, n : m = Len(proxyToSource) /\ n = Len(source)
      OBVIOUS
    <3>4. l \in Nat /\ m \in Nat /\ n \in Nat /\ m + (l - it + 1) = n
      BY <1>2, <2>2, <3>1, <3>2, <3>3
    <3>5. m = n
      BY ONLY <3>2, <3>4
    <3>. QED BY <3>3, <3>5
  <2>4. IsInjective(proxyToSource) /\ \A p \in 1 .. Len(source) : proxyToSource[p] \in 1 .. Len(source)
    BY <1>2, <2>1, <2>3 DEF Inserting
  <2>. QED BY <1>1, <1>2, <2>1, <2>3, <2>4, PermutesInto DEF Inserting, StateTypes
<1>5. ASSUME RemovesDone
      PROVE  Permutes(proxyToSource, Len(source)) /\ Ascends(proxyToSource) /\ Shows(proxyToSource) /\ invalidated = {}
  <2>1. Removing /\ invalidated = {}
    BY <1>5 DEF RemovesDone, SortInv
  <2>2. IsInjective(proxyToSource) /\ Range(proxyToSource) = 1 .. Len(source)
    BY <1>2, <2>1 DEF Removing, IsInjective, Range
  <2>3. Permutes(proxyToSource, Len(source))
    BY <1>2, <2>2, PermutesOnto
  <2>. QED BY <1>2, <2>1, <2>3 DEF Removing, Ascends, Shows, Shown
<1>6. Permutes(proxyToSource, Len(source)) /\ Ascends(proxyToSource) /\ Shows(proxyToSource) /\ invalidated = {}
  BY <1>3, <1>4, <1>5 DEF Finish
<1>7. StateTypes' /\ PinInPlace'
  BY <1>1, <1>6 DEF StateTypes, PinInPlace, NoJob
<1>8. AtRest'
  <2>1. Ascends(proxyToSource)'
    BY <1>1, <1>6 DEF Ascends, LessThan
  <2>. QED BY <1>1, <1>6, <2>1 DEF AtRest, Shows
<1>9. job.op = "moving" =>
        IF m_sortColumn = -1 THEN proxyToSource' = Iota(Len(source')) ELSE InOrder(source', proxyToSource')
  <2> SUFFICES ASSUME job.op = "moving"
               PROVE  IF m_sortColumn = -1 THEN proxyToSource' = Iota(Len(source')) ELSE InOrder(source', proxyToSource')
    OBVIOUS
  <2>1. MovesDone
    BY DEF Finish, MovesDone, InsertsDone, RemovesDone
  <2>. QED BY <1>1, <1>3, <2>1
<1>. QED BY <1>1, <1>7, <1>8, <1>9 DEF SortInv, StepRight, PinKept, Idle, NoJob

(* Rows that are inserted *)

\* The source inserts rows, and the proxy has yet to learn of it.
LEMMA SourceInsertRowsStep ==
  ASSUME SortProxyAssumption, SortInv, SourceInsertRows
  PROVE  SortInv' /\ StepRight
<1>1. /\ job = NoJob /\ AtRest /\ StateTypes /\ PinInPlace
      /\ UNCHANGED <<m_sortColumn, m_order, m_sortRole, proxyToSource, sourceToProxy, invalidated>>
  BY DEF SourceInsertRows, Idle, SortInv, settings, maps, NoJob
<1>2. /\ DOMAIN source = 1 .. Len(source) /\ Len(source) \in Nat /\ source \in Seq(Keys)
      /\ DOMAIN view = DOMAIN proxyToSource /\ DOMAIN proxyToSource = 1 .. Len(source) /\ Len(proxyToSource) = Len(source)
      /\ proxyToSource \in Seq(Nat \ {0}) /\ view \in Seq([of : Nat, key : Keys]) /\ Len(view) = Len(source)
      /\ Len(source) <= MaxRows /\ MaxRows \in Nat
      /\ Permutes(proxyToSource, Len(source)) /\ \A p \in 1 .. Len(source) : proxyToSource[p] \in 1 .. Len(source)
  BY <1>1, Ranges, SortProxyAssumption DEF AtRest, Permutes, Range, StateTypes, SortProxyAssumption
<1>3. PICK n \in 1 .. MaxRows - Len(source), pos \in 1 .. Len(source) + 1 : \E keys \in [1 .. n -> Keys] :
        /\ source' = WithRowsAt(source, pos, keys)
        /\ Retarget([i \in DOMAIN source |-> IF i >= pos THEN i + n ELSE i])
        /\ job' = [op |-> "rowsInserted", first |-> pos, last |-> pos + n - 1]
  BY Zenon DEF SourceInsertRows
<1>4. PICK keys \in [1 .. n -> Keys] : source' = WithRowsAt(source, pos, keys)
  BY <1>3
<1>5. PICK to : to = [i \in DOMAIN source |-> IF i >= pos THEN i + n ELSE i]
  OBVIOUS
<1>6. Retarget(to) /\ job' = [op |-> "rowsInserted", first |-> pos, last |-> pos + n - 1]
  BY <1>3, <1>5
<1>7. n \in Nat /\ n >= 1 /\ keys \in Seq(Keys) /\ Len(keys) = n
  BY <1>2, <1>4, FunctionIsSeq
<1>8. /\ source' \in Seq(Keys) /\ Len(source') = Len(source) + n /\ DOMAIN source' = 1 .. Len(source) + n
      /\ \A r \in 1 .. Len(source) : to[r] \in 1 .. Len(source) + n /\ source'[to[r]] = source[r]
  <2>1. /\ source' \in Seq(Keys) /\ Len(source') = Len(source) + Len(keys)
        /\ \A i \in 1 .. Len(source) + Len(keys) : source'[i] =
             IF i < pos THEN source[i] ELSE IF i < pos + Len(keys) THEN keys[i - pos + 1] ELSE source[i - Len(keys)]
    <3>1. source \in Seq(Keys) /\ keys \in Seq(Keys) /\ pos \in 1 .. Len(source) + 1
      BY <1>2, <1>7
    <3>. QED BY ONLY <1>4, <3>1, RowsInsertedRight
  <2>2. ASSUME NEW r \in 1 .. Len(source) PROVE to[r] \in 1 .. Len(source) + n /\ source'[to[r]] = source[r]
    <3>1. CASE r >= pos
      <4>1. to[r] = r + n
        BY <1>2, <1>5, <3>1
      <4>2. r + n \in 1 .. Len(source) + n /\ ~(r + n < pos) /\ ~(r + n < pos + n) /\ r + n - n = r
        BY <1>2, <1>7, <3>1
      <4>. QED BY <1>7, <2>1, <4>1, <4>2
    <3>2. CASE ~(r >= pos)
      <4>1. to[r] = r
        BY <1>2, <1>5, <3>2
      <4>2. r \in 1 .. Len(source) + n /\ r < pos
        BY <1>2, <1>7, <3>2
      <4>. QED BY <1>7, <2>1, <4>1, <4>2
    <3>. QED BY <3>1, <3>2
  <2>3. DOMAIN source' = 1 .. Len(source) + n
    BY <1>7, <2>1, LenProperties
  <2>. QED BY <1>7, <2>1, <2>2, <2>3
<1>9. \A p \in DOMAIN view : /\ view[p].of = proxyToSource[p] /\ view[p].key = source[proxyToSource[p]]
                             /\ proxyToSource[p] \in 1 .. Len(source)
  BY <1>1, <1>2 DEF AtRest, Shows
<1>10. /\ pin' # None => pin' \in [of : Nat, row : DOMAIN view', internalId : Nat \ {0}]
       /\ view' \in Seq([of : Nat, key : Keys]) /\ Len(view') = Len(view)
       /\ \A p \in DOMAIN view : view'[p] = [of |-> to[view[p].of], key |-> view[p].key]
       /\ PinInPlace' /\ PinKept
  <2>1. \A p \in DOMAIN view : to[view[p].of] \in Nat
    BY <1>8, <1>9
  <2>2. PinInPlace /\ (pin # None => pin \in [of : Nat, row : DOMAIN view, internalId : Nat \ {0}])
    BY <1>1 DEF StateTypes
  <2>. QED BY ONLY <1>2, <1>6, <2>1, <2>2, PinRetargeted
<1>11. StateTypes'
  <2>1. Len(source') <= MaxRows
    BY <1>2, <1>3, <1>8
  <2>2. job'.op = "rowsInserted"
    BY <1>6
  <2>. QED BY <1>1, <1>2, <1>8, <1>10, <2>1, <2>2 DEF StateTypes, NoJob
<1>12. PICK shifted : shifted = Shift(proxyToSource, pos, n)
  OBVIOUS
<1>13. DOMAIN shifted = DOMAIN proxyToSource /\ \A p \in DOMAIN proxyToSource : shifted[p] = to[proxyToSource[p]]
  BY <1>2, <1>5, <1>12 DEF Shift
<1>14. RowsInserted'
  <2>1. /\ pos \in DOMAIN source' /\ pos + n - 1 \in DOMAIN source' /\ pos <= pos + n - 1 /\ pos + n - 1 - pos + 1 = n
        /\ Len(source') - n = Len(source)
    BY <1>2, <1>7, <1>8
  <2>2. job' \in [op : {"rowsInserted"}, first : DOMAIN source', last : DOMAIN source'] /\ job'.last - job'.first + 1 = n
        /\ job'.first = pos /\ job'.first <= job'.last
    BY <1>6, <2>1
  <2>3. Permutes(proxyToSource', Len(source') - n)
    BY <1>1, <1>2, <2>1
  <2>4. Shift(proxyToSource', job'.first, job'.last - job'.first + 1) = shifted
    BY <1>1, <1>12, <2>2
  <2>5. Shows(shifted)'
    <3>1. \A p \in DOMAIN view : view'[p] = [of |-> shifted[p], key |-> source'[shifted[p]]]
      <4> TAKE p \in DOMAIN view
      <4>1. PICK r \in 1 .. Len(source) : r = proxyToSource[p]
        BY <1>9
      <4>2. view'[p] = [of |-> to[r], key |-> source[r]]
        <5>1. view[p].of = r /\ view[p].key = source[r]
          BY <1>9, <4>1
        <5>. QED BY <1>10, <5>1
      <4>3. shifted[p] = to[r]
        BY <1>2, <1>8, <1>9, <1>10, <1>13, <4>1
      <4>4. source'[to[r]] = source[r]
        BY <1>8, <4>1
      <4>. QED BY <4>2, <4>3, <4>4
    <3>2. DOMAIN view' = DOMAIN view
      BY <1>2, <1>10, LenProperties
    <3>. QED BY <3>1, <3>2 DEF Shows
  <2>6. Ascends(shifted)'
    <3>1. \A p \in DOMAIN shifted : source'[shifted[p]] = source[proxyToSource[p]]
      BY <1>2, <1>8, <1>13
    <3>. QED BY <1>1, <1>13, <3>1 DEF AtRest, Ascends, LessThan
  <2>7. Shows(Shift(proxyToSource, job.first, job.last - job.first + 1))'
    BY <2>4, <2>5 DEF Shows
  <2>8. Ascends(Shift(proxyToSource, job.first, job.last - job.first + 1))'
    BY <2>4, <2>6 DEF Ascends
  <2>. QED BY <2>2, <2>3, <2>7, <2>8 DEF RowsInserted
<1>. QED BY <1>1, <1>6, <1>10, <1>11, <1>14 DEF SortInv, StepRight, Idle, NoJob

\* Some rows of the source, sorted.
LEMMA SomeSorted ==
  ASSUME SortProxyAssumption, NEW s \in Seq(Keys), m_sortRole \in Roles,
         NEW rows \in Seq(DOMAIN s), IsInjective(rows), m_sortColumn # -1, NEW m \in Sorted(s, rows)
  PROVE  m_order = "Ascending" => \A p, q \in DOMAIN m : p < q => ~LessThan(s, m[q], m[p])
<1>1. m \in Seq(DOMAIN s) /\ InOrder(s, m)
  BY SortedRight
<1>2. DOMAIN s \subseteq Nat /\ \A p \in DOMAIN m : m[p] \in DOMAIN s
  <2>1. DOMAIN m = 1 .. Len(m) /\ m \in [1 .. Len(m) -> DOMAIN s] /\ DOMAIN s = 1 .. Len(s) /\ Len(s) \in Nat
    BY <1>1, LenProperties
  <2>. QED BY <2>1
<1>3. m \in Seq(Nat)
  BY <1>1, <1>2, SeqMonotonic
<1>. QED BY <1>1, <1>2, <1>3, SortedAscends

\* The new rows are sorted before they are merged.
LEMMA HandleRowsInsertedStep ==
  ASSUME SortProxyAssumption, SortInv, HandleRowsInserted
  PROVE  SortInv' /\ StepRight
<1>1. /\ job.op = "rowsInserted" /\ RowsInserted /\ StateTypes /\ PinInPlace /\ sourceToProxy' = <<>>
      /\ UNCHANGED <<source, m_sortColumn, m_order, m_sortRole, invalidated, view, pin>>
  BY DEF HandleRowsInserted, SortInv, settings
<1>2. PICK first, last, n, new : first = job.first /\ last = job.last /\ n = last - first + 1 /\ new = [i \in 1 .. n |-> first + i - 1]
  OBVIOUS
<1>3. /\ Len(source) \in Nat /\ DOMAIN source = 1 .. Len(source) /\ Len(source) <= MaxRows /\ MaxRows \in Nat
      /\ first \in 1 .. Len(source) /\ last \in 1 .. Len(source) /\ first <= last /\ n \in Nat /\ n >= 1
      /\ DOMAIN view = DOMAIN proxyToSource
  <2>1. /\ Len(source) \in Nat /\ DOMAIN source = 1 .. Len(source) /\ Len(source) <= MaxRows /\ MaxRows \in Nat
        /\ DOMAIN view = DOMAIN proxyToSource
    BY <1>1, Ranges, SortProxyAssumption DEF StateTypes, SortProxyAssumption
  <2>2. first \in 1 .. Len(source) /\ last \in 1 .. Len(source) /\ first <= last
    BY <1>1, <1>2, <2>1 DEF RowsInserted
  <2>3. n \in Nat /\ n >= 1
    BY <1>2, <2>1, <2>2
  <2>. QED BY <2>1, <2>2, <2>3
<1>4. /\ DOMAIN proxyToSource = 1 .. Len(source) - n /\ Len(proxyToSource) = Len(source) - n
      /\ IsInjective(proxyToSource) /\ \A p \in 1 .. Len(source) - n : proxyToSource[p] \in 1 .. Len(source) - n
  BY <1>1, <1>2, Ranges DEF RowsInserted, Permutes, Range
<1>5. PICK newRows \in Sorted(source, new) : job' = [op |-> "inserting", newRows |-> newRows, newIt |-> 1, curIt |-> 1]
  BY <1>2 DEF HandleRowsInserted
<1>6. new \in Seq(DOMAIN source) /\ Len(new) = n /\ IsInjective(new) /\ \A i \in 1 .. n : new[i] \in first .. last
  <2>1. new \in [1 .. n -> DOMAIN source]
    BY <1>2, <1>3
  <2>2. new \in Seq(DOMAIN source) /\ Len(new) = n
    BY <1>3, <2>1, FunctionIsSeq
  <2>3. DOMAIN new = 1 .. n /\ \A i \in 1 .. n : new[i] = first + i - 1
    BY <1>2
  <2>4. first \in Nat /\ last \in Nat /\ n = last - first + 1
    BY <1>2, <1>3
  <2>5. \A i \in 1 .. n : new[i] \in first .. last
    BY ONLY <2>3, <2>4
  <2>6. \A i, j \in 1 .. n : new[i] = new[j] => i = j
    BY ONLY <2>3, <2>4
  <2>. QED BY <2>2, <2>3, <2>5, <2>6 DEF IsInjective
<1>7. /\ newRows \in Seq(DOMAIN source) /\ Len(newRows) = n /\ IsInjective(newRows) /\ Range(newRows) = Range(new)
      /\ DOMAIN newRows = 1 .. n /\ \A i \in 1 .. n : newRows[i] \in first .. last
  <2>1. newRows \in Seq(DOMAIN source) /\ Len(newRows) = n /\ IsInjective(newRows) /\ Range(newRows) = Range(new)
    BY <1>6, SortedRight
  <2>2. DOMAIN newRows = 1 .. n /\ DOMAIN new = 1 .. n
    BY <1>6, <2>1, LenProperties
  <2>. QED BY <1>6, <2>1, <2>2 DEF Range
<1>8. PICK now : now = Shift(proxyToSource, first, n)
  OBVIOUS
<1>9. /\ proxyToSource' = now /\ DOMAIN now = 1 .. Len(source) - n
      /\ \A p \in 1 .. Len(source) - n :
           /\ now[p] = IF proxyToSource[p] >= first THEN proxyToSource[p] + n ELSE proxyToSource[p]
           /\ now[p] \in 1 .. Len(source) /\ now[p] \notin first .. last
  <2>1. proxyToSource' = now
    BY <1>2, <1>8 DEF HandleRowsInserted
  <2>2. now = [p \in 1 .. Len(source) - n |-> IF proxyToSource[p] >= first THEN proxyToSource[p] + n ELSE proxyToSource[p]]
    BY <1>4, <1>8 DEF Shift
  <2>3. ASSUME NEW p \in 1 .. Len(source) - n
        PROVE  /\ now[p] = IF proxyToSource[p] >= first THEN proxyToSource[p] + n ELSE proxyToSource[p]
               /\ now[p] \in 1 .. Len(source) /\ now[p] \notin first .. last
    <3>1. PICK r \in 1 .. Len(source) - n : r = proxyToSource[p]
      BY <1>4
    <3>2. now[p] = IF r >= first THEN r + n ELSE r
      BY <2>2, <3>1
    <3>3. r >= first => r + n > last
      BY <1>2, <1>3
    <3>. QED BY <1>3, <3>1, <3>2, <3>3
  <2>. QED BY <2>1, <2>2, <2>3
<1>10. now \in Seq(Nat \ {0}) /\ Len(now) = Len(source) - n /\ IsInjective(now)
  <2>1. now \in [1 .. Len(source) - n -> Nat \ {0}] /\ Len(source) - n \in Nat
    <3>1. now = [p \in 1 .. Len(source) - n |-> now[p]]
      BY <1>4, <1>8 DEF Shift
    <3>2. \A p \in 1 .. Len(source) - n : now[p] \in Nat \ {0}
      BY <1>3, <1>9
    <3>3. Len(source) - n \in Nat
      BY <1>2, <1>3
    <3>. QED BY ONLY <3>1, <3>2, <3>3
  <2>2. now \in Seq(Nat \ {0}) /\ Len(now) = Len(source) - n
    BY <2>1, FunctionIsSeq
  <2>3. IsInjective(now)
    <3> SUFFICES ASSUME NEW p \in 1 .. Len(source) - n, NEW q \in 1 .. Len(source) - n, now[p] = now[q] PROVE p = q
      BY <1>9 DEF IsInjective
    <3>1. PICK r \in 1 .. Len(source) - n, t \in 1 .. Len(source) - n : r = proxyToSource[p] /\ t = proxyToSource[q]
      BY <1>4
    <3>2. (IF r >= first THEN r + n ELSE r) = (IF t >= first THEN t + n ELSE t)
      BY <1>9, <3>1
    <3>3. r = t
      BY <1>3, <3>2
    <3>. QED BY <1>4, <3>1, <3>3 DEF IsInjective
  <2>. QED BY <2>2, <2>3
<1>11. StateTypes' /\ PinInPlace' /\ PinKept
  <2>1. Len(now) <= MaxRows /\ Len(view) = Len(now)
    BY <1>1, <1>3, <1>4, <1>10 DEF StateTypes
  <2>2. invalidated = {} /\ job'.op = "inserting"
    BY <1>1, <1>5 DEF StateTypes
  <2>. QED BY <1>1, <1>9, <1>10, <2>1, <2>2 DEF StateTypes, PinInPlace, PinKept
<1>12. Inserting'
  <2>1. job' \in [op : {"inserting"}, newRows : Seq(DOMAIN source'), newIt : Nat \ {0}, curIt : Nat \ {0}]
    BY <1>1, <1>5, <1>7
  <2>2. /\ 1 <= Len(newRows) + 1 /\ 1 <= Len(now) + 1 /\ Len(now) + (Len(newRows) - 1 + 1) = Len(source')
    <3>1. Len(source) \in Nat /\ n \in Nat /\ Len(source) - n \in Nat
      BY <1>1, <1>3, <1>4, Ranges
    <3>. QED BY <1>1, <1>7, <1>10, <3>1
  <2>3. \A p \in DOMAIN now : now[p] \in DOMAIN source' /\ \A i \in 1 .. Len(newRows) : now[p] # newRows[i]
    BY <1>1, <1>3, <1>7, <1>9
  <2>4. Shift(proxyToSource, job.first, job.last - job.first + 1) = now
    BY <1>2, <1>8
  <2>5. Shows(proxyToSource)'
    BY <1>1, <1>9, <2>4 DEF RowsInserted, Shows
  <2>6. Ascends(proxyToSource)'
    BY <1>1, <1>9, <2>4 DEF RowsInserted, Ascends, LessThan
  <2>7. m_order = "Ascending" => \A p, q \in DOMAIN newRows : p < q => ~LessThan(source, newRows[q], newRows[p])
    <3>1. CASE m_sortColumn = -1
      BY <3>1 DEF LessThan
    <3>2. CASE m_sortColumn # -1
      BY <1>1, <1>5, <1>6, <3>2, SomeSorted DEF StateTypes
    <3>. QED BY <3>1, <3>2
  <2>8. Ascends(job.newRows)'
    BY <1>1, <1>5, <2>7 DEF Ascends, LessThan
  <2>9. 1 .. 1 - 1 = {}
    OBVIOUS
  <2>. QED BY <1>1, <1>5, <1>7, <1>9, <1>10, <2>1, <2>2, <2>3, <2>5, <2>6, <2>8, <2>9 DEF Inserting
<1>13. RowsLeft' < RowsLeft
  <2>1. RowsLeft = 2 * MaxRows + 1
    BY <1>1, RowsLeftIs DEF RowsLeftRight
  <2>2. RowsLeft' = n - 1 + 1
    BY <1>5, <1>7, RowsLeftNext DEF RowsLeftRight
  <2>. QED BY <1>2, <1>3, <2>1, <2>2
<1>. QED BY <1>1, <1>5, <1>11, <1>12, <1>13 DEF SortInv, StepRight, Idle, NoJob

\* Rows are compared as numbers are.
LEMMA LessOrder ==
  ASSUME SortProxyAssumption, StateTypes, NEW a \in DOMAIN source, NEW b \in DOMAIN source, NEW c \in DOMAIN source
  PROVE  /\ ~LessThan(source, b, a) /\ ~LessThan(source, c, b) => ~LessThan(source, c, a)
         /\ LessThan(source, a, b) => ~LessThan(source, b, a)
         /\ ~LessThan(source, a, a)
<1>1. \A i \in DOMAIN source : source[i][m_sortRole] \in Int
  BY Ranges, SortProxyAssumption DEF SortProxyAssumption, StateTypes
<1>2. PICK x, y, z : x = source[a][m_sortRole] /\ y = source[b][m_sortRole] /\ z = source[c][m_sortRole]
  OBVIOUS
<1>3. x \in Int /\ y \in Int /\ z \in Int
  BY <1>1, <1>2
<1>. QED BY <1>2, <1>3 DEF LessThan

\* Where the merge puts the next new rows: all before are not greater, all
\* behind are not less.
LEMMA MergeRight ==
  ASSUME SortProxyAssumption, StateTypes, Inserting, job.newIt <= Len(job.newRows)
  PROVE  /\ InsertPos \in 1 .. Len(proxyToSource) + 1 /\ InsertCount \in 1 .. Len(job.newRows) - job.newIt + 1
         /\ m_order = "Ascending" =>
              /\ \A i \in job.newIt .. Len(job.newRows) : \A p \in 1 .. InsertPos - 1 :
                   ~LessThan(source, job.newRows[i], proxyToSource[p])
              /\ \A i \in job.newIt .. job.newIt + InsertCount - 1 : \A p \in InsertPos .. Len(proxyToSource) :
                   ~LessThan(source, proxyToSource[p], job.newRows[i])
<1>1. PICK l, m, it, cur, new : l = Len(proxyToSource) /\ m = Len(new) /\ it = job.newIt /\ cur = job.curIt /\ new = job.newRows
  OBVIOUS
<1>2. /\ l \in Nat /\ m \in Nat /\ it \in 1 .. m /\ cur \in 1 .. l + 1 /\ DOMAIN proxyToSource = 1 .. l /\ DOMAIN new = 1 .. m
      /\ \A i \in 1 .. m : new[i] \in DOMAIN source
      /\ \A p \in 1 .. l : proxyToSource[p] \in DOMAIN source
  <2>1. l \in Nat /\ DOMAIN proxyToSource = 1 .. l
    BY <1>1, Ranges
  <2>2. new \in Seq(DOMAIN source) /\ it \in Nat \ {0} /\ cur \in Nat \ {0} /\ it <= m /\ cur <= l + 1
        /\ \A p \in DOMAIN proxyToSource : proxyToSource[p] \in DOMAIN source
    BY <1>1 DEF Inserting
  <2>3. m \in Nat /\ DOMAIN new = 1 .. m /\ new \in [1 .. m -> DOMAIN source]
    BY <1>1, <2>2, LenProperties
  <2>4. \A i \in 1 .. m : new[i] \in DOMAIN source
    BY ONLY <2>3
  <2>5. \A p \in 1 .. l : proxyToSource[p] \in DOMAIN source
    BY ONLY <2>1, <2>2
  <2>6. it \in 1 .. m /\ cur \in 1 .. l + 1
    BY ONLY <2>1, <2>2, <2>3
  <2>. QED BY ONLY <2>1, <2>3, <2>4, <2>5, <2>6
<1> DEFINE greater == {p \in cur .. l : LessThan(source, new[it], proxyToSource[p])} \cup {l + 1}
<1>3. PICK pos : pos = Min(greater)
  OBVIOUS
<1>4. pos \in greater /\ \A p \in greater : pos <= p
  <2>1. greater \in SUBSET Nat /\ greater # {}
    BY <1>2
  <2>. QED BY ONLY <1>3, <2>1, MinRight
<1>5. /\ InsertPos = pos /\ pos \in cur .. l + 1
      /\ pos <= l => LessThan(source, new[it], proxyToSource[pos])
      /\ \A p \in cur .. pos - 1 : ~LessThan(source, new[it], proxyToSource[p])
  <2>1. InsertPos = pos
    BY <1>1, <1>3 DEF InsertPos
  <2>2. ASSUME NEW p \in cur .. pos - 1, LessThan(source, new[it], proxyToSource[p]) PROVE FALSE
    <3>1. p \in cur .. l /\ p < pos
      BY <1>2, <1>4, <2>2
    <3>2. p \in greater
      BY <2>2, <3>1
    <3>. QED BY <1>2, <1>4, <3>1, <3>2
  <2>. QED BY <1>2, <1>4, <2>1, <2>2
<1> DEFINE runs == {k \in 0 .. m - it : \A i \in 1 .. k : ~LessThan(source, proxyToSource[pos], new[it + i])}
<1>6. PICK n : n = InsertCount
  OBVIOUS
<1>7. n \in 1 .. m - it + 1 /\ (pos <= l => n - 1 \in runs)
  <2>1. CASE pos > l
    <3>1. n = m - it + 1
      BY <1>1, <1>5, <1>6, <2>1 DEF InsertCount
    <3>2. l \in Nat /\ pos \in Int /\ m \in Nat /\ it \in 1 .. m
      BY <1>2, <1>5
    <3>. QED BY ONLY <2>1, <3>1, <3>2
  <2>2. CASE ~(pos > l)
    <3>1. PICK k : k = Max(runs)
      OBVIOUS
    <3>2. n = 1 + k
      BY <1>1, <1>5, <1>6, <2>2, <3>1, Zenon DEF InsertCount
    <3>3. 0 \in runs /\ m - it \in Nat /\ runs \in SUBSET Nat /\ \A j \in runs : j <= m - it
      BY <1>2
    <3>4. k \in runs
      BY ONLY <3>1, <3>3, MaxRight
    <3>. QED BY <1>2, <3>2, <3>3, <3>4
  <2>. QED BY <2>1, <2>2
<1>8. ASSUME m_order = "Ascending"
      PROVE  /\ \A i, j \in 1 .. m : i <= j => ~LessThan(source, new[j], new[i])
             /\ \A p, q \in 1 .. l : p <= q => ~LessThan(source, proxyToSource[q], proxyToSource[p])
             /\ \A i \in it .. m : \A p \in 1 .. cur - 1 : ~LessThan(source, new[i], proxyToSource[p])
  <2>1. \A i, j \in 1 .. m : i < j => ~LessThan(source, new[j], new[i])
    BY <1>1, <1>2, <1>8 DEF Inserting, Ascends
  <2>2. \A p, q \in 1 .. l : p < q => ~LessThan(source, proxyToSource[q], proxyToSource[p])
    BY <1>1, <1>2, <1>8 DEF Inserting, Ascends
  <2>3. \A i \in it .. m : \A p \in 1 .. cur - 1 : ~LessThan(source, new[i], proxyToSource[p])
    BY <1>1, <1>8 DEF Inserting
  <2>4. \A r \in DOMAIN source : ~LessThan(source, r, r)
    BY LessOrder
  <2>. QED BY <1>2, <2>1, <2>2, <2>3, <2>4
<1>9. ASSUME m_order = "Ascending", NEW i \in it .. m, NEW p \in 1 .. pos - 1
      PROVE  ~LessThan(source, new[i], proxyToSource[p])
  <2>1. i \in 1 .. m /\ it \in 1 .. m /\ it <= i /\ p \in 1 .. l
    BY <1>2, <1>5
  <2>2. CASE p < cur
    BY <1>2, <1>8, <1>9, <2>1, <2>2
  <2>3. CASE ~(p < cur)
    <3>1. ~LessThan(source, new[it], proxyToSource[p])
      BY <1>2, <1>5, <2>1, <2>3
    <3>2. ~LessThan(source, new[i], new[it])
      BY <1>8, <1>9, <2>1
    <3>. QED BY <1>2, <2>1, <3>1, <3>2, LessOrder
  <2>. QED BY <2>2, <2>3
<1>10. ASSUME m_order = "Ascending", NEW i \in it .. it + n - 1, NEW p \in pos .. l
       PROVE  ~LessThan(source, proxyToSource[p], new[i])
  <2>1. i \in 1 .. m /\ it \in 1 .. m /\ it <= i /\ p \in 1 .. l /\ pos \in 1 .. l /\ pos <= p
    BY <1>2, <1>5, <1>7
  <2>2. ~LessThan(source, proxyToSource[p], proxyToSource[pos])
    BY <1>8, <1>10, <2>1
  <2>3. ~LessThan(source, proxyToSource[pos], new[i])
    <3>1. CASE i = it
      <4>1. LessThan(source, new[it], proxyToSource[pos])
        BY <1>5, <2>1
      <4>. QED BY <1>2, <2>1, <3>1, <4>1, LessOrder
    <3>2. CASE i # it
      <4>1. PICK d : d = i - it
        OBVIOUS
      <4>2. d \in 1 .. n - 1 /\ it + d = i
        BY <1>7, <2>1, <3>2, <4>1
      <4>3. n - 1 \in runs
        BY <1>7, <2>1
      <4>. QED BY <4>2, <4>3
    <3>. QED BY <3>1, <3>2
  <2>. QED BY <1>2, <2>1, <2>2, <2>3, LessOrder
<1>11. pos \in 1 .. l + 1
  BY <1>2, <1>5
<1>. QED BY <1>1, <1>5, <1>6, <1>7, <1>9, <1>10, <1>11

\* A block of the new rows is merged into the mapping.
LEMMA InsertBlockStep ==
  ASSUME SortProxyAssumption, SortInv, InsertBlock
  PROVE  SortInv' /\ StepRight
<1>1. /\ job.op = "inserting" /\ Inserting /\ StateTypes /\ PinInPlace /\ job.newIt <= Len(job.newRows)
      /\ UNCHANGED <<source, m_sortColumn, m_order, m_sortRole, sourceToProxy, invalidated>>
  BY DEF InsertBlock, SortInv, settings
<1>2. PICK old, new, l, m, it, pos, n, now, seen :
        /\ old = proxyToSource /\ new = job.newRows /\ l = Len(old) /\ m = Len(new)
        /\ it = job.newIt /\ pos = InsertPos /\ n = InsertCount /\ now = proxyToSource' /\ seen = view'
  OBVIOUS
<1>3. /\ Len(source) \in Nat /\ DOMAIN source = 1 .. Len(source) /\ Len(source) <= MaxRows
      /\ l \in Nat /\ m \in Nat /\ DOMAIN old = 1 .. l /\ DOMAIN new = 1 .. m
      /\ DOMAIN view = 1 .. l /\ 0 \notin DOMAIN view /\ Len(view) = l
      /\ old \in Seq(Nat \ {0}) /\ view \in Seq([of : Nat, key : Keys])
      /\ \A r \in DOMAIN source : source[r] \in Keys
  <2>1. new \in Seq(DOMAIN source)
    BY <1>1, <1>2 DEF Inserting
  <2>2. m \in Nat /\ DOMAIN new = 1 .. m
    BY <1>2, <2>1, LenProperties
  <2>. QED BY <1>1, <1>2, <2>2, Ranges DEF StateTypes
<1>4. /\ it \in 1 .. m /\ pos \in 1 .. l + 1 /\ n \in 1 .. m - it + 1
      /\ IsInjective(old) /\ IsInjective(new) /\ l + (m - it + 1) = Len(source)
      /\ \A p \in 1 .. l : old[p] \in DOMAIN source /\ \A i \in it .. m : old[p] # new[i]
      /\ \A i \in 1 .. m : new[i] \in DOMAIN source
      /\ \A p \in 1 .. l : view[p] = [of |-> old[p], key |-> source[old[p]]]
  <2>1. pos \in 1 .. l + 1 /\ n \in 1 .. m - it + 1
    BY <1>1, <1>2, MergeRight
  <2>2. /\ new \in Seq(DOMAIN source) /\ it \in Nat \ {0} /\ it <= m
        /\ IsInjective(old) /\ IsInjective(new) /\ l + (m - it + 1) = Len(source)
        /\ \A p \in DOMAIN old : old[p] \in DOMAIN source /\ \A i \in it .. m : old[p] # new[i]
        /\ \A p \in DOMAIN view : view[p] = [of |-> old[p], key |-> source[old[p]]]
    BY <1>1, <1>2 DEF Inserting, Shows
  <2>3. \A i \in 1 .. m : new[i] \in DOMAIN source
    BY <1>2, <2>2, ElementOfSeq
  <2>4. it \in 1 .. m
    BY <1>3, <2>2
  <2>5. \A p \in 1 .. l : old[p] \in DOMAIN source /\ \A i \in it .. m : old[p] # new[i]
    BY ONLY <1>3, <2>2
  <2>6. \A p \in 1 .. l : view[p] = [of |-> old[p], key |-> source[old[p]]]
    BY ONLY <1>3, <2>2
  <2>. QED BY <2>1, <2>2, <2>3, <2>4, <2>5, <2>6
<1>n. /\ l \in Nat /\ m \in Nat /\ it \in 1 .. m /\ pos \in 1 .. l + 1 /\ n \in 1 .. m - it + 1
      /\ l + (m - it + 1) = Len(source) /\ Len(source) \in Nat
  BY <1>3, <1>4
<1>i. /\ \A p, q \in 1 .. l : p # q => old[p] # old[q]
      /\ \A i, j \in 1 .. m : i # j => new[i] # new[j]
      /\ \A p \in 1 .. l : \A i \in it .. m : old[p] # new[i]
  BY <1>3, <1>4 DEF IsInjective
<1>5. ASSUME m_order = "Ascending"
      PROVE  /\ \A i \in it .. m : \A p \in 1 .. pos - 1 : ~LessThan(source, new[i], old[p])
             /\ \A i \in it .. it + n - 1 : \A p \in pos .. l : ~LessThan(source, old[p], new[i])
             /\ \A i, j \in 1 .. m : i < j => ~LessThan(source, new[j], new[i])
             /\ \A p, q \in 1 .. l : p < q => ~LessThan(source, old[q], old[p])
  <2>1. /\ \A i \in it .. m : \A p \in 1 .. pos - 1 : ~LessThan(source, new[i], old[p])
        /\ \A i \in it .. it + n - 1 : \A p \in pos .. l : ~LessThan(source, old[p], new[i])
    BY <1>1, <1>2, <1>5, MergeRight
  <2>2. /\ \A i, j \in 1 .. m : i < j => ~LessThan(source, new[j], new[i])
        /\ \A p, q \in 1 .. l : p < q => ~LessThan(source, old[q], old[p])
    BY <1>1, <1>2, <1>3, <1>5 DEF Inserting, Ascends
  <2>. QED BY <2>1, <2>2
<1>6. PICK rows, news : rows = SubSeq(new, it, it + n - 1) /\ news = [i \in 1 .. n |-> [of |-> rows[i], key |-> source[rows[i]]]]
  OBVIOUS
<1>7. /\ rows \in Seq(Nat \ {0}) /\ Len(rows) = n /\ \A d \in 0 .. n - 1 : rows[d + 1] = new[it + d]
      /\ \A i \in 1 .. n : rows[i] \in DOMAIN source
  <2>1. PICK end : end = it + n - 1
    OBVIOUS
  <2>a. it \in 1 .. m + 1 /\ end \in it - 1 .. m /\ end - it + 1 = n
    BY ONLY <2>1, <1>n
  <2>b. new \in Seq(DOMAIN source) /\ Len(new) = m
    BY <1>1, <1>2 DEF Inserting
  <2>c. /\ SubSeq(new, it, end) \in Seq(DOMAIN source) /\ Len(SubSeq(new, it, end)) = end - it + 1
        /\ \A i \in 1 .. end - it + 1 : SubSeq(new, it, end)[i] = new[it + i - 1]
    BY ONLY <2>a, <2>b, PartOfRows
  <2>2. rows \in Seq(DOMAIN source) /\ Len(rows) = n /\ \A i \in 1 .. n : rows[i] = new[it + i - 1]
    BY <1>6, <2>1, <2>a, <2>c
  <2>3. DOMAIN source \subseteq Nat \ {0}
    BY <1>3
  <2>4. rows \in Seq(Nat \ {0})
    BY <2>2, <2>3, SeqMonotonic
  <2>5. \A d \in 0 .. n - 1 : rows[d + 1] = new[it + d]
    <3> TAKE d \in 0 .. n - 1
    <3>1. d + 1 \in 1 .. n /\ it + (d + 1) - 1 = it + d
      BY ONLY <1>n, d \in 0 .. n - 1
    <3>. QED BY <2>2, <3>1
  <2>6. \A i \in 1 .. n : rows[i] \in DOMAIN source
    BY <2>2, ElementOfSeq
  <2>. QED BY <2>2, <2>4, <2>5, <2>6
<1>8. n \in Nat /\ n >= 1 /\ news \in Seq([of : Nat, key : Keys]) /\ Len(news) = n
  <2>1. n \in Nat /\ n >= 1
    BY ONLY <1>n
  <2>2. ASSUME NEW i \in 1 .. n PROVE news[i] \in [of : Nat, key : Keys]
    <3>1. news[i] = [of |-> rows[i], key |-> source[rows[i]]]
      BY <1>6
    <3>2. rows[i] \in DOMAIN source /\ rows[i] \in Nat
      BY <1>3, <1>7
    <3>3. source[rows[i]] \in Keys
      BY <1>3, <3>2
    <3>. QED BY ONLY <3>1, <3>2, <3>3
  <2>3. news \in [1 .. n -> [of : Nat, key : Keys]]
    BY ONLY <1>6, <2>2
  <2>. QED BY <2>1, <2>3, FunctionIsSeq
<1>9. /\ now = WithRowsAt(old, pos, rows) /\ seen = WithRowsAt(view, pos, news)
      /\ PinFollows([r \in DOMAIN view |-> IF r >= pos THEN r + n ELSE r])
      /\ job' = [job EXCEPT !.newIt = it + n, !.curIt = pos + 1]
  BY <1>2, <1>6, Zenon DEF InsertBlock
<1>10. /\ now \in Seq(Nat \ {0}) /\ Len(now) = l + n
       /\ \A i \in 1 .. l + n : now[i] = IF i < pos THEN old[i] ELSE IF i < pos + n THEN rows[i - pos + 1] ELSE old[i - n]
  <2>0. PICK T : T = Nat \ {0}
    OBVIOUS
  <2>1. old \in Seq(T) /\ rows \in Seq(T) /\ pos \in 1 .. Len(old) + 1 /\ now = WithRowsAt(old, pos, rows)
    BY <1>2, <1>3, <1>4, <1>7, <1>9, <2>0
  <2>2. /\ now \in Seq(T) /\ Len(now) = Len(old) + Len(rows)
        /\ \A i \in 1 .. Len(old) + Len(rows) : now[i] =
             IF i < pos THEN old[i] ELSE IF i < pos + Len(rows) THEN rows[i - pos + 1] ELSE old[i - Len(rows)]
    BY ONLY <2>1, RowsInsertedRight
  <2>3. Len(old) = l /\ Len(rows) = n
    BY <1>2, <1>7
  <2>. QED BY ONLY <2>0, <2>2, <2>3
<1>11. /\ seen \in Seq([of : Nat, key : Keys]) /\ Len(seen) = l + n
       /\ \A i \in 1 .. l + n : seen[i] = IF i < pos THEN view[i] ELSE IF i < pos + n THEN news[i - pos + 1] ELSE view[i - n]
  <2>0. PICK T : T = [of : Nat, key : Keys]
    OBVIOUS
  <2>1. view \in Seq(T) /\ news \in Seq(T) /\ pos \in 1 .. Len(view) + 1 /\ seen = WithRowsAt(view, pos, news)
    BY <1>2, <1>3, <1>4, <1>8, <1>9, <2>0
  <2>2. /\ seen \in Seq(T) /\ Len(seen) = Len(view) + Len(news)
        /\ \A i \in 1 .. Len(view) + Len(news) : seen[i] =
             IF i < pos THEN view[i] ELSE IF i < pos + Len(news) THEN news[i - pos + 1] ELSE view[i - Len(news)]
    BY ONLY <2>1, RowsInsertedRight
  <2>3. Len(view) = l /\ Len(news) = n
    BY <1>3, <1>8
  <2>. QED BY ONLY <2>0, <2>2, <2>3
<1>12. /\ DOMAIN now = 1 .. l + n /\ DOMAIN seen = 1 .. l + n
       /\ \A i \in 1 .. pos - 1 : now[i] = old[i] /\ seen[i] = view[i]
       /\ \A d \in 0 .. n - 1 : /\ now[pos + d] = new[it + d]
                                /\ seen[pos + d] = [of |-> new[it + d], key |-> source[new[it + d]]]
       /\ \A q \in pos .. l : now[q + n] = old[q] /\ seen[q + n] = view[q]
  <2>1. DOMAIN now = 1 .. l + n /\ DOMAIN seen = 1 .. l + n
    BY <1>10, <1>11, LenProperties
  <2>2. ASSUME NEW i \in 1 .. pos - 1 PROVE now[i] = old[i] /\ seen[i] = view[i]
    <3>1. i \in 1 .. l + n /\ i < pos
      BY ONLY <1>n, i \in 1 .. pos - 1
    <3>. QED BY <1>10, <1>11, <3>1
  <2>3. ASSUME NEW d \in 0 .. n - 1
        PROVE  now[pos + d] = new[it + d] /\ seen[pos + d] = [of |-> new[it + d], key |-> source[new[it + d]]]
    <3>1. PICK i : i = pos + d
      OBVIOUS
    <3>2. i \in 1 .. l + n /\ ~(i < pos) /\ i < pos + n /\ i - pos + 1 = d + 1 /\ d + 1 \in 1 .. n
      BY ONLY <1>n, <3>1, d \in 0 .. n - 1
    <3>3. rows[d + 1] = new[it + d]
      BY <1>7
    <3>4. news[d + 1] = [of |-> rows[d + 1], key |-> source[rows[d + 1]]]
      BY <1>6, <3>2
    <3>5. now[i] = rows[d + 1] /\ seen[i] = news[d + 1]
      BY <1>10, <1>11, <3>2
    <3>. QED BY <3>1, <3>3, <3>4, <3>5
  <2>4. ASSUME NEW q \in pos .. l PROVE now[q + n] = old[q] /\ seen[q + n] = view[q]
    <3>1. PICK i : i = q + n
      OBVIOUS
    <3>2. i \in 1 .. l + n /\ ~(i < pos) /\ ~(i < pos + n) /\ i - n = q
      BY ONLY <1>n, <3>1, q \in pos .. l
    <3>. QED BY <1>10, <1>11, <3>1, <3>2
  <2>. QED BY <2>1, <2>2, <2>3, <2>4
<1>13. ASSUME NEW i \in 1 .. l + n
       PROVE  i \in 1 .. pos - 1 \/ (\E d \in 0 .. n - 1 : i = pos + d) \/ (\E q \in pos .. l : i = q + n)
  <2>1. CASE i < pos
    BY ONLY <1>n, <2>1, i \in 1 .. l + n
  <2>2. CASE ~(i < pos) /\ i < pos + n
    <3>1. i - pos \in 0 .. n - 1 /\ i = pos + (i - pos)
      BY ONLY <1>n, <2>2, i \in 1 .. l + n
    <3>. QED BY <3>1
  <2>3. CASE ~(i < pos) /\ ~(i < pos + n)
    <3>1. i - n \in pos .. l /\ i = (i - n) + n
      BY ONLY <1>n, <2>3, i \in 1 .. l + n
    <3>. QED BY <3>1
  <2>. QED BY <2>1, <2>2, <2>3
<1>14. /\ \A d \in 0 .. n - 1 : it + d \in it .. m /\ it + d \in 1 .. m /\ it + d \in it .. it + n - 1
       /\ \A p \in 1 .. pos - 1 : p \in 1 .. l
       /\ \A q \in pos .. l : q \in 1 .. l
  BY ONLY <1>n
<1>15. ASSUME NEW i \in 1 .. l + n, NEW j \in 1 .. l + n, i < j
       PROVE  now[i] # now[j] /\ (m_order = "Ascending" => ~LessThan(source, now[j], now[i]))
  <2>1. CASE i \in 1 .. pos - 1 /\ j \in 1 .. pos - 1
    <3>1. i \in 1 .. l /\ j \in 1 .. l /\ i # j /\ now[i] = old[i] /\ now[j] = old[j]
      <4>1. i # j
        BY ONLY <1>n, <1>15, i \in 1 .. l + n, j \in 1 .. l + n, n \in Nat
      <4>. QED BY <1>12, <1>14, <2>1, <4>1
    <3>. QED BY <1>i, <1>5, <1>15, <3>1
  <2>2. CASE i \in 1 .. pos - 1 /\ \E d \in 0 .. n - 1 : j = pos + d
    <3>1. PICK d \in 0 .. n - 1 : j = pos + d
      BY <2>2
    <3>2. i \in 1 .. l /\ it + d \in it .. m /\ now[i] = old[i] /\ now[j] = new[it + d]
      BY <1>12, <1>14, <2>2, <3>1
    <3>. QED BY <1>i, <1>5, <2>2, <3>2
  <2>3. CASE i \in 1 .. pos - 1 /\ \E q \in pos .. l : j = q + n
    <3>1. PICK q \in pos .. l : j = q + n
      BY <2>3
    <3>2. i < q /\ i # q
      BY ONLY <1>n, <2>3, <3>1
    <3>3. i \in 1 .. l /\ q \in 1 .. l /\ now[i] = old[i] /\ now[j] = old[q]
      BY <1>12, <1>14, <2>3, <3>1
    <3>. QED BY <1>i, <1>5, <3>2, <3>3
  <2>4. CASE (\E d \in 0 .. n - 1 : i = pos + d) /\ (\E d \in 0 .. n - 1 : j = pos + d)
    <3>1. PICK d \in 0 .. n - 1, e \in 0 .. n - 1 : i = pos + d /\ j = pos + e
      BY <2>4
    <3>2. it + d < it + e /\ it + d # it + e
      BY ONLY <1>n, <1>15, <3>1
    <3>3. it + d \in 1 .. m /\ it + e \in 1 .. m /\ now[i] = new[it + d] /\ now[j] = new[it + e]
      BY <1>12, <1>14, <3>1
    <3>. QED BY <1>i, <1>5, <3>2, <3>3
  <2>5. CASE (\E d \in 0 .. n - 1 : i = pos + d) /\ (\E q \in pos .. l : j = q + n)
    <3>1. PICK d \in 0 .. n - 1, q \in pos .. l : i = pos + d /\ j = q + n
      BY <2>5
    <3>2. it + d \in it .. m /\ it + d \in it .. it + n - 1 /\ q \in 1 .. l /\ now[i] = new[it + d] /\ now[j] = old[q]
      BY <1>12, <1>14, <3>1
    <3>. QED BY <1>i, <1>5, <3>2
  <2>6. CASE (\E q \in pos .. l : i = q + n) /\ (\E q \in pos .. l : j = q + n)
    <3>1. PICK p \in pos .. l, q \in pos .. l : i = p + n /\ j = q + n
      BY <2>6
    <3>2. p < q /\ p # q
      BY ONLY <1>n, <1>15, <3>1
    <3>3. p \in 1 .. l /\ q \in 1 .. l /\ now[i] = old[p] /\ now[j] = old[q]
      BY <1>12, <1>14, <3>1
    <3>. QED BY <1>i, <1>5, <3>2, <3>3
  <2>7. CASE j \in 1 .. pos - 1 /\ ~(i \in 1 .. pos - 1)
    BY ONLY <1>n, <1>15, <2>7, i \in 1 .. l + n
  <2>8. CASE (\E q \in pos .. l : i = q + n) /\ (\E d \in 0 .. n - 1 : j = pos + d)
    <3>1. PICK d \in 0 .. n - 1, q \in pos .. l : j = pos + d /\ i = q + n
      BY <2>8
    <3>. QED BY ONLY <1>n, <1>15, <3>1
  <2>9. /\ i \in 1 .. pos - 1 \/ (\E d \in 0 .. n - 1 : i = pos + d) \/ (\E q \in pos .. l : i = q + n)
        /\ j \in 1 .. pos - 1 \/ (\E d \in 0 .. n - 1 : j = pos + d) \/ (\E q \in pos .. l : j = q + n)
    BY <1>13
  <2>. QED BY <2>1, <2>2, <2>3, <2>4, <2>5, <2>6, <2>7, <2>8, <2>9, Zenon
<1>16. IsInjective(now)
  <2> SUFFICES ASSUME NEW i \in 1 .. l + n, NEW j \in 1 .. l + n, i # j PROVE now[i] # now[j]
    BY <1>12 DEF IsInjective
  <2>1. i < j \/ j < i
    BY <1>3, <1>8
  <2>. QED BY <1>15, <2>1
<1>17. \A i \in 1 .. l + n : /\ now[i] \in DOMAIN source /\ seen[i] = [of |-> now[i], key |-> source[now[i]]]
                             /\ \A k \in it + n .. m : now[i] # new[k]
  <2> TAKE i \in 1 .. l + n
  <2>1. CASE i \in 1 .. pos - 1
    <3>1. i \in 1 .. l /\ now[i] = old[i] /\ seen[i] = [of |-> old[i], key |-> source[old[i]]]
      BY <1>4, <1>12, <1>14, <2>1
    <3>2. \A k \in it + n .. m : k \in it .. m
      BY ONLY <1>n
    <3>. QED BY <1>4, <1>i, <3>1, <3>2
  <2>2. CASE \E d \in 0 .. n - 1 : i = pos + d
    <3>1. PICK d \in 0 .. n - 1 : i = pos + d
      BY <2>2
    <3>2. it + d \in 1 .. m /\ now[i] = new[it + d] /\ seen[i] = [of |-> new[it + d], key |-> source[new[it + d]]]
      BY <1>12, <1>14, <3>1
    <3>3. \A k \in it + n .. m : k \in 1 .. m /\ k # it + d
      BY ONLY <1>n, d \in 0 .. n - 1
    <3>. QED BY <1>4, <1>i, <3>2, <3>3
  <2>3. CASE \E q \in pos .. l : i = q + n
    <3>1. PICK q \in pos .. l : i = q + n
      BY <2>3
    <3>2. /\ q \in 1 .. l /\ now[i] = old[q] /\ seen[i] = [of |-> old[q], key |-> source[old[q]]]
          /\ \A k \in it + n .. m : k \in it .. m
      BY <1>4, <1>12, <1>14, <1>n, <3>1
    <3>. QED BY <1>4, <1>i, <3>2
  <2>4. i \in 1 .. pos - 1 \/ (\E d \in 0 .. n - 1 : i = pos + d) \/ (\E q \in pos .. l : i = q + n)
    BY <1>13
  <2>. QED BY <2>1, <2>2, <2>3, <2>4
<1>18. job' = [op |-> "inserting", newRows |-> new, newIt |-> it + n, curIt |-> pos + 1]
  BY <1>1, <1>2, <1>9 DEF Inserting
<1>19. Inserting'
  <2>1. job' \in [op : {"inserting"}, newRows : Seq(DOMAIN source'), newIt : Nat \ {0}, curIt : Nat \ {0}]
    <3>1. new \in Seq(DOMAIN source) /\ it + n \in Nat \ {0} /\ pos + 1 \in Nat \ {0}
      <4>1. it + n \in Nat \ {0} /\ pos + 1 \in Nat \ {0}
        BY ONLY <1>n
      <4>. QED BY <1>1, <1>2, <4>1 DEF Inserting
    <3>. QED BY <1>1, <1>18, <3>1
  <2>2. it + n <= m + 1 /\ pos + 1 <= l + n + 1 /\ l + n + (m - (it + n) + 1) = Len(source)
    BY ONLY <1>n
  <2>3. m_order = "Ascending" => \A k \in it + n .. m : \A p \in 1 .. pos + 1 - 1 : ~LessThan(source, new[k], now[p])
    <3> SUFFICES ASSUME m_order = "Ascending", NEW k \in it + n .. m, NEW p \in 1 .. pos + 1 - 1
                 PROVE  ~LessThan(source, new[k], now[p])
      OBVIOUS
    <3>1. k \in it .. m /\ k \in 1 .. m /\ it \in 1 .. m /\ it < k
      BY ONLY <1>n, k \in it + n .. m
    <3>2. CASE p \in 1 .. pos - 1
      BY <1>5, <1>12, <3>1, <3>2
    <3>3. CASE p = pos
      <4>1. PICK d : d = 0
        OBVIOUS
      <4>2. d \in 0 .. n - 1 /\ pos + d = pos /\ it + d = it
        BY ONLY <1>n, <4>1
      <4>3. now[pos + d] = new[it + d]
        BY <1>12, <4>2
      <4>4. now[pos] = new[it]
        BY ONLY <4>2, <4>3
      <4>. QED BY <1>5, <3>1, <3>3, <4>4
    <3>4. p \in 1 .. pos - 1 \/ p = pos
      BY ONLY <1>n, p \in 1 .. pos + 1 - 1
    <3>. QED BY <3>2, <3>3, <3>4
  <2>4. Shows(proxyToSource)'
    BY <1>1, <1>2, <1>12, <1>17 DEF Shows
  <2>5. Ascends(proxyToSource)'
    BY <1>1, <1>2, <1>12, <1>15 DEF Ascends, LessThan
  <2>6. Ascends(job.newRows)'
    BY <1>1, <1>2, <1>18 DEF Inserting, Ascends, LessThan
  <2>7. \A p \in DOMAIN now : now[p] \in DOMAIN source /\ \A k \in it + n .. m : now[p] # new[k]
    BY <1>12, <1>17
  <2>8. sourceToProxy' = <<>> /\ Len(now) = l + n
    BY <1>1, <1>10 DEF Inserting
  <2>10. /\ job'.newRows = new /\ job'.newIt = it + n /\ job'.curIt = pos + 1 /\ proxyToSource' = now
         /\ Len(new) = m /\ UNCHANGED <<source, m_order>> /\ IsInjective(new)
    BY <1>1, <1>2, <1>4, <1>18
  <2>11. /\ job'.newIt <= Len(job'.newRows) + 1 /\ job'.curIt <= Len(proxyToSource') + 1
         /\ Len(proxyToSource') + (Len(job'.newRows) - job'.newIt + 1) = Len(source')
    BY ONLY <2>2, <2>8, <2>10
  <2>12. IsInjective(proxyToSource') /\ IsInjective(job'.newRows) /\ sourceToProxy' = <<>>
    BY <1>16, <2>8, <2>10
  <2>13. \A p \in DOMAIN proxyToSource' :
           /\ proxyToSource'[p] \in DOMAIN source'
           /\ \A i \in job'.newIt .. Len(job'.newRows) : proxyToSource'[p] # job'.newRows[i]
    BY ONLY <2>7, <2>10
  <2>14. (m_order = "Ascending" => \A i \in job.newIt .. Len(job.newRows) : \A p \in 1 .. job.curIt - 1 :
           ~LessThan(source, job.newRows[i], proxyToSource[p]))'
    <3>1. \A k \in it + n .. m : \A p \in 1 .. pos + 1 - 1 :
             m_order = "Ascending" => ~(m_sortColumn # -1 /\ source[new[k]][m_sortRole] < source[now[p]][m_sortRole])
      BY <2>3 DEF LessThan
    <3>2. m_order' = m_order /\ m_sortColumn' = m_sortColumn /\ m_sortRole' = m_sortRole /\ source' = source
      BY <1>1
    <3>3. ASSUME NEW i \in job'.newIt .. Len(job'.newRows), NEW p \in 1 .. job'.curIt - 1, m_order' = "Ascending"
          PROVE  ~(m_sortColumn' # -1 /\ source'[job'.newRows[i]][m_sortRole'] < source'[proxyToSource'[p]][m_sortRole'])
      <4>1. Len(job'.newRows) = m /\ job'.newIt = it + n /\ job'.curIt = pos + 1
        BY ONLY <2>10
      <4>2. i \in it + n .. m
        BY <4>1
      <4>3. p \in 1 .. pos + 1 - 1
        BY <1>n, <4>1
      <4>. QED BY <2>10, <3>1, <3>2, <3>3, <4>2, <4>3, Zenon
    <3>. QED BY <3>3 DEF LessThan
  <2>. QED BY <2>1, <2>4, <2>5, <2>6, <2>11, <2>12, <2>13, <2>14, Zenon DEF Inserting
<1>20. /\ pin' # None => pin' \in [of : Nat, row : DOMAIN view', internalId : Nat \ {0}]
       /\ PinInPlace' /\ PinKept
  <2>1. PICK to : to = [r \in DOMAIN view |-> IF r >= pos THEN r + n ELSE r]
    OBVIOUS
  <2>2. ASSUME NEW r \in DOMAIN view
        PROVE  /\ to[r] \in DOMAIN view' /\ view'[to[r]].of = view[r].of
               /\ proxyToSource'[to[r]] \in Nat \ {0} /\ view'[to[r]].of \in {0, proxyToSource'[to[r]]}
    <3>1. PICK t : t = to[r]
      OBVIOUS
    <3>2. t \in 1 .. l + n /\ seen[t] = view[r]
      <4>0. r \in 1 .. l
        BY <1>3
      <4>1. CASE r >= pos
        <5>1. t = r + n
          BY <2>1, <3>1, <4>1
        <5>2. r \in pos .. l /\ t \in 1 .. l + n
          <6>1. r \in pos .. l
            BY ONLY <1>n, <4>0, <4>1
          <6>2. t \in 1 .. l + n
            BY ONLY <1>n, <4>0, <5>1
          <6>. QED BY <6>1, <6>2
        <5>. QED BY <1>12, <5>1, <5>2
      <4>2. CASE ~(r >= pos)
        <5>1. t = r
          BY <2>1, <3>1, <4>2
        <5>2. r \in 1 .. pos - 1 /\ t \in 1 .. l + n
          BY ONLY <1>n, <4>0, <4>2, <5>1
        <5>. QED BY <1>12, <5>1, <5>2
      <4>. QED BY <4>1, <4>2
    <3>3. now[t] \in Nat \ {0} /\ seen[t] = [of |-> now[t], key |-> source[now[t]]]
      <4>1. now[t] \in DOMAIN source /\ seen[t] = [of |-> now[t], key |-> source[now[t]]]
        BY <1>17, <3>2
      <4>2. DOMAIN source \subseteq Nat \ {0}
        BY <1>3
      <4>. QED BY <4>1, <4>2
    <3>. QED BY <1>2, <1>12, <3>1, <3>2, <3>3
  <2>3. PinFollows(to) /\ \A r \in DOMAIN view : to[r] # 0 =>
           /\ to[r] \in DOMAIN view' /\ view'[to[r]].of = view[r].of
           /\ proxyToSource'[to[r]] \in Nat \ {0} /\ view'[to[r]].of \in {0, proxyToSource'[to[r]]}
    BY <1>9, <2>1, <2>2
  <2>4. PinInPlace /\ (pin # None => pin \in [of : Nat, row : DOMAIN view, internalId : Nat \ {0}])
    BY <1>1 DEF StateTypes
  <2>. QED BY ONLY <1>3, <2>3, <2>4, PinMoves
<1>21. StateTypes'
  <2>1. l + n <= MaxRows
    <3>1. MaxRows \in Nat
      BY SortProxyAssumption DEF SortProxyAssumption
    <3>. QED BY <1>3, <1>4, <1>8, <3>1
  <2>2. invalidated' = {} /\ job'.op = "inserting"
    BY <1>1, <1>18 DEF StateTypes
  <2>. QED BY <1>1, <1>2, <1>3, <1>10, <1>11, <1>12, <1>20, <2>1, <2>2 DEF StateTypes
<1>22. RowsLeft' < RowsLeft
  <2>1. RowsLeft = m - it + 1 /\ RowsLeft' = m - (it + n) + 1
    BY <1>1, <1>2, <1>18, RowsLeftIs, RowsLeftNext DEF RowsLeftRight
  <2>. QED BY <1>3, <1>4, <1>8, <2>1
<1>. QED BY <1>1, <1>18, <1>19, <1>20, <1>21, <1>22 DEF SortInv, StepRight, Idle, NoJob

(* Rows that are removed *)

\* The source removes rows, and the proxy has yet to learn of it.
LEMMA SourceRemoveRowsStep ==
  ASSUME SortProxyAssumption, SortInv, SourceRemoveRows
  PROVE  SortInv' /\ StepRight
<1>1. /\ job = NoJob /\ AtRest /\ StateTypes /\ PinInPlace
      /\ UNCHANGED <<m_sortColumn, m_order, m_sortRole, proxyToSource, sourceToProxy, invalidated>>
  BY DEF SourceRemoveRows, Idle, SortInv, settings, maps, NoJob
<1>2. /\ DOMAIN source = 1 .. Len(source) /\ Len(source) \in Nat /\ source \in Seq(Keys)
      /\ DOMAIN view = DOMAIN proxyToSource /\ DOMAIN proxyToSource = 1 .. Len(source) /\ Len(proxyToSource) = Len(source)
      /\ proxyToSource \in Seq(Nat \ {0}) /\ view \in Seq([of : Nat, key : Keys]) /\ Len(view) = Len(source)
      /\ Len(source) <= MaxRows /\ MaxRows \in Nat
      /\ Permutes(proxyToSource, Len(source)) /\ \A p \in 1 .. Len(source) : proxyToSource[p] \in 1 .. Len(source)
  BY <1>1, Ranges, SortProxyAssumption DEF AtRest, Permutes, Range, StateTypes, SortProxyAssumption
<1>3. \E first \in DOMAIN source : \E last \in first .. Len(source) :
        /\ source' = WithoutRows(source, first, last)
        /\ Retarget([i \in DOMAIN source |->
             IF i \in first .. last THEN 0 ELSE IF i > last THEN i - (last - first + 1) ELSE i])
        /\ job' = [op |-> "rowsRemoved", first |-> first, last |-> last]
  BY Zenon DEF SourceRemoveRows
<1>4. PICK first, last :
        /\ first \in DOMAIN source /\ last \in first .. Len(source)
        /\ source' = WithoutRows(source, first, last)
        /\ Retarget([i \in DOMAIN source |->
             IF i \in first .. last THEN 0 ELSE IF i > last THEN i - (last - first + 1) ELSE i])
        /\ job' = [op |-> "rowsRemoved", first |-> first, last |-> last]
  BY <1>3, Zenon
<1>5. PICK to : to = [i \in DOMAIN source |->
                  IF i \in first .. last THEN 0 ELSE IF i > last THEN i - (last - first + 1) ELSE i]
  OBVIOUS
<1>n. PICK n : n = last - first + 1
  OBVIOUS
<1>6. Retarget(to) /\ job' = [op |-> "rowsRemoved", first |-> first, last |-> last]
  BY <1>4, <1>5
<1>7. first \in 1 .. Len(source) /\ last \in 1 .. Len(source) /\ first <= last /\ n \in 1 .. Len(source)
      /\ Len(source) \in Nat /\ n = last - first + 1
  <2>1. first \in 1 .. Len(source) /\ Len(source) \in Nat /\ last \in first .. Len(source)
    BY <1>2, <1>4
  <2>. QED BY ONLY <2>1, <1>n
<1>l. PICK len : len = Len(source)
  OBVIOUS
<1>m. len \in Nat /\ first \in Nat /\ first >= 1 /\ last \in Nat /\ first <= last /\ last <= len
      /\ n = last - first + 1 /\ n \in Nat /\ n <= len
  BY ONLY <1>7, <1>l
<1>8. /\ source' \in Seq(Keys) /\ Len(source') = Len(source) - n /\ DOMAIN source' = 1 .. Len(source) - n
      /\ \A r \in 1 .. Len(source) :
           /\ r \in first .. last => to[r] = 0
           /\ r \notin first .. last => /\ to[r] = (IF r > last THEN r - n ELSE r)
                                        /\ to[r] \in 1 .. Len(source) - n /\ source'[to[r]] = source[r]
  <2>1. /\ source' \in Seq(Keys) /\ Len(source') = Len(source) - n
        /\ \A i \in 1 .. Len(source) - n : source'[i] = IF i < first THEN source[i] ELSE source[i + last - first + 1]
    <3>1. source \in Seq(Keys) /\ first \in 1 .. Len(source) /\ last \in first .. Len(source)
      BY <1>2, <1>4
    <3>2. source' = WithoutRows(source, first, last)
      BY <1>4
    <3>3. /\ source' \in Seq(Keys) /\ Len(source') = Len(source) - (last - first + 1)
          /\ \A i \in 1 .. Len(source) - (last - first + 1) :
               source'[i] = IF i < first THEN source[i] ELSE source[i + last - first + 1]
      BY ONLY <3>1, <3>2, RowsRemovedRight, Zenon
    <3>. QED BY ONLY <1>n, <3>3
  <2>2. DOMAIN source' = 1 .. Len(source) - n
    BY <2>1, LenProperties
  <2>3. ASSUME NEW r \in 1 .. Len(source), r \in first .. last PROVE to[r] = 0
    BY <1>2, <1>5, <2>3
  <2>4. ASSUME NEW r \in 1 .. Len(source), r \notin first .. last
        PROVE  /\ to[r] = (IF r > last THEN r - n ELSE r)
               /\ to[r] \in 1 .. Len(source) - n /\ source'[to[r]] = source[r]
    <3>1. to[r] = IF r > last THEN r - n ELSE r
      BY <1>2, <1>5, <1>n, <2>4
    <3>2. CASE r > last
      <4>1. PICK t : t = r - n
        OBVIOUS
      <4>2. r \in Nat /\ r <= len
        BY ONLY <1>l, <1>m, r \in 1 .. Len(source)
      <4>3. t \in 1 .. len - n /\ ~(t < first) /\ t + last - first + 1 = r
        <5>1. t \in Int /\ t >= first
          BY ONLY <1>m, <3>2, <4>1, <4>2
        <5>2. t <= len - n /\ t + last - first + 1 = r
          BY ONLY <1>m, <4>1, <4>2
        <5>. QED BY ONLY <1>m, <5>1, <5>2
      <4>4. to[r] = t
        BY <3>1, <3>2, <4>1
      <4>5. t \in 1 .. Len(source) - n
        BY ONLY <1>l, <4>3
      <4>6. source'[t] = source[t + last - first + 1]
        BY ONLY <2>1, <4>3, <4>5
      <4>. QED BY ONLY <3>1, <4>3, <4>4, <4>5, <4>6
    <3>3. CASE ~(r > last)
      <4>1. r \in Nat /\ r >= 1 /\ r <= len /\ ~(r >= first /\ r <= last)
        BY ONLY <1>l, <1>m, <2>4, r \in 1 .. Len(source)
      <4>2. r \in 1 .. len - n /\ r < first
        BY ONLY <1>m, <3>3, <4>1
      <4>3. to[r] = r
        BY <3>1, <3>3
      <4>4. r \in 1 .. Len(source) - n
        BY ONLY <1>l, <4>2
      <4>. QED BY ONLY <2>1, <3>1, <4>2, <4>3, <4>4
    <3>. QED BY <3>1, <3>2, <3>3
  <2>. QED BY <2>1, <2>2, <2>3, <2>4
<1>9. \A p \in DOMAIN view : /\ view[p].of = proxyToSource[p] /\ view[p].key = source[proxyToSource[p]]
                             /\ proxyToSource[p] \in 1 .. Len(source)
  <2> TAKE p \in DOMAIN view
  <2>1. view[p] = [of |-> proxyToSource[p], key |-> source[proxyToSource[p]]]
    BY <1>1 DEF AtRest, Shows
  <2>2. proxyToSource[p] \in 1 .. Len(source)
    BY <1>2
  <2>. QED BY <2>1, <2>2
<1>10. /\ pin' # None => pin' \in [of : Nat, row : DOMAIN view', internalId : Nat \ {0}]
       /\ view' \in Seq([of : Nat, key : Keys]) /\ Len(view') = Len(view)
       /\ \A p \in DOMAIN view : view'[p] = [of |-> to[view[p].of], key |-> view[p].key]
       /\ PinInPlace' /\ PinKept
  <2>1. \A p \in DOMAIN view : to[view[p].of] \in Nat
    <3> TAKE p \in DOMAIN view
    <3>1. PICK r \in 1 .. Len(source) : r = view[p].of
      BY <1>9
    <3>2. to[r] = 0 \/ to[r] \in 1 .. Len(source) - n
      BY <1>8
    <3>3. to[r] \in Nat
      BY ONLY <3>2
    <3>. QED BY <3>1, <3>3
  <2>2. PinInPlace /\ (pin # None => pin \in [of : Nat, row : DOMAIN view, internalId : Nat \ {0}])
    BY <1>1 DEF StateTypes
  <2>. QED BY ONLY <1>2, <1>6, <2>1, <2>2, PinRetargeted
<1>11. StateTypes'
  <2>1. Len(source') <= MaxRows
    BY <1>2, <1>7, <1>8
  <2>2. job'.op = "rowsRemoved"
    BY <1>6
  <2>. QED BY <1>1, <1>2, <1>8, <1>10, <2>1, <2>2 DEF StateTypes, NoJob
<1>12. RowsRemoved'
  <2>1. Len(source') + (last - first + 1) = Len(source) /\ last <= Len(source') + (last - first + 1)
    <3>1. PICK left : left = Len(source')
      OBVIOUS
    <3>2. left = len - n
      BY <1>8, <1>l, <3>1
    <3>3. left + (last - first + 1) = len /\ last <= left + (last - first + 1)
      BY ONLY <1>m, <3>2
    <3>. QED BY <1>l, <3>1, <3>3
  <2>2. /\ job' \in [op : {"rowsRemoved"}, first : Nat \ {0}, last : Nat \ {0}]
        /\ job'.first = first /\ job'.last = last /\ job'.first <= job'.last
    BY <1>6, <1>7
  <2>3. Permutes(proxyToSource', Len(source') + (job'.last - job'.first + 1))
    BY <1>1, <1>2, <2>1, <2>2
  <2>4. \A r \in 1 .. Len(source) : r \notin first .. last => to[r] = IF r > last THEN r - (last - first + 1) ELSE r
    BY <1>5, <1>8, <1>n
  <2>5. DOMAIN view' = 1 .. Len(source)
    BY <1>2, <1>10, LenProperties
  <2>6. ASSUME NEW p \in 1 .. Len(source)
        PROVE  IF proxyToSource[p] \in first .. last THEN view'[p].of = 0
               ELSE view'[p] = [of |-> to[proxyToSource[p]], key |-> source'[to[proxyToSource[p]]]]
    <3>1. PICK r \in 1 .. Len(source) : r = proxyToSource[p]
      BY <1>2
    <3>2. p \in DOMAIN view /\ view[p].of = r /\ view[p].key = source[r]
      BY <1>2, <1>9, <3>1
    <3>3. view'[p] = [of |-> to[r], key |-> source[r]]
      BY <1>10, <3>2
    <3>. QED BY <1>8, <3>1, <3>3
  <2>7. ASSUME m_order = "Ascending", NEW p \in 1 .. Len(source), NEW q \in 1 .. Len(source), p < q,
               proxyToSource[p] \notin first .. last, proxyToSource[q] \notin first .. last
        PROVE  ~(m_sortColumn # -1
                   /\ source'[to[proxyToSource[q]]][m_sortRole] < source'[to[proxyToSource[p]]][m_sortRole])
    <3>1. source'[to[proxyToSource[p]]] = source[proxyToSource[p]] /\ source'[to[proxyToSource[q]]] = source[proxyToSource[q]]
      BY <1>2, <1>8, <2>7
    <3>2. ~LessThan(source, proxyToSource[q], proxyToSource[p])
      BY <1>1, <1>2, <2>7 DEF AtRest, Ascends
    <3>. QED BY <3>1, <3>2 DEF LessThan
  <2>8. /\ proxyToSource' = proxyToSource /\ m_order' = m_order /\ m_sortColumn' = m_sortColumn /\ m_sortRole' = m_sortRole
        /\ DOMAIN proxyToSource = 1 .. Len(source) /\ \A p \in 1 .. Len(source) : proxyToSource[p] \in 1 .. Len(source)
    BY <1>1, <1>2
  <2>9. (\A p \in DOMAIN view :
           IF proxyToSource[p] \in job.first .. job.last THEN view[p].of = 0
           ELSE view[p] = [of |-> RowBehind(proxyToSource[p]), key |-> source[RowBehind(proxyToSource[p])]])'
    <3>1. \A p \in 1 .. Len(source) :
             IF proxyToSource'[p] \in first .. last THEN view'[p].of = 0
             ELSE view'[p] = [of |-> IF proxyToSource'[p] > last THEN proxyToSource'[p] - (last - first + 1) ELSE proxyToSource'[p],
                              key |-> source'[IF proxyToSource'[p] > last THEN proxyToSource'[p] - (last - first + 1)
                                              ELSE proxyToSource'[p]]]
      <4> TAKE p \in 1 .. Len(source)
      <4>1. PICK r \in 1 .. Len(source) : r = proxyToSource'[p]
        BY <2>8
      <4>2. CASE r \in first .. last
        BY <2>6, <2>8, <4>1, <4>2
      <4>3. CASE r \notin first .. last
        <5>1. view'[p] = [of |-> to[r], key |-> source'[to[r]]] /\ to[r] = IF r > last THEN r - (last - first + 1) ELSE r
          BY <2>4, <2>6, <2>8, <4>1, <4>3
        <5>. QED BY <4>1, <4>3, <5>1, Zenon
      <4>. QED BY <4>2, <4>3
    <3>2. job'.first = first /\ job'.last = last
      BY <2>2
    <3>. QED BY ONLY <2>5, <3>1, <3>2, Zenon DEF RowBehind
  <2>10. (m_order = "Ascending" => \A p, q \in DOMAIN proxyToSource :
           p < q /\ {proxyToSource[p], proxyToSource[q]} \cap (job.first .. job.last) = {}
             => ~LessThan(source, RowBehind(proxyToSource[q]), RowBehind(proxyToSource[p])))'
    <3>1. ASSUME m_order' = "Ascending", NEW p \in 1 .. Len(source), NEW q \in 1 .. Len(source), p < q,
                 {proxyToSource'[p], proxyToSource'[q]} \cap (first .. last) = {}
          PROVE  ~(m_sortColumn' # -1 /\
                     source'[IF proxyToSource'[q] > last THEN proxyToSource'[q] - (last - first + 1)
                             ELSE proxyToSource'[q]][m_sortRole']
                     < source'[IF proxyToSource'[p] > last THEN proxyToSource'[p] - (last - first + 1)
                               ELSE proxyToSource'[p]][m_sortRole'])
      <4>1. PICK r \in 1 .. Len(source), o \in 1 .. Len(source) : r = proxyToSource'[p] /\ o = proxyToSource'[q]
        BY <2>8
      <4>2. r \notin first .. last /\ o \notin first .. last
        BY <3>1, <4>1
      <4>3. /\ to[r] = (IF r > last THEN r - (last - first + 1) ELSE r)
            /\ to[o] = (IF o > last THEN o - (last - first + 1) ELSE o)
        BY <2>4, <4>2
      <4>4. ~(m_sortColumn # -1 /\ source'[to[o]][m_sortRole] < source'[to[r]][m_sortRole])
        BY <2>7, <2>8, <3>1, <4>1, <4>2
      <4>. QED BY <2>8, <4>1, <4>3, <4>4, Zenon
    <3>2. job'.first = first /\ job'.last = last /\ DOMAIN proxyToSource' = 1 .. Len(source)
      BY <2>2, <2>8
    <3>. QED BY ONLY <3>1, <3>2, Zenon DEF LessThan, RowBehind
  <2>. QED BY <2>1, <2>2, <2>3, <2>9, <2>10 DEF RowsRemoved
<1>. QED BY <1>1, <1>6, <1>10, <1>11, <1>12 DEF SortInv, StepRight, Idle, NoJob

\* The rows that the source has lost are masked, and the rows behind them have
\* moved in the source.
LEMMA HandleRowsRemovedStep ==
  ASSUME SortProxyAssumption, SortInv, HandleRowsRemoved
  PROVE  SortInv' /\ StepRight
<1>1. /\ job.op = "rowsRemoved" /\ RowsRemoved /\ StateTypes /\ PinInPlace /\ sourceToProxy' = <<>> /\ job' = [op |-> "removing"]
      /\ UNCHANGED <<source, m_sortColumn, m_order, m_sortRole, view, pin>>
  BY DEF HandleRowsRemoved, SortInv, settings
<1>2. PICK first, last, n, len, all :
        first = job.first /\ last = job.last /\ n = last - first + 1 /\ len = Len(source) /\ all = len + n
  OBVIOUS
<1>3. /\ len \in Nat /\ DOMAIN source = 1 .. len /\ DOMAIN view = DOMAIN proxyToSource
      /\ first \in Nat \ {0} /\ last \in Nat \ {0} /\ first <= last /\ last <= len + (last - first + 1)
      /\ Permutes(proxyToSource, len + (last - first + 1))
      /\ proxyToSource \in Seq(Nat \ {0}) /\ Len(proxyToSource) <= MaxRows /\ MaxRows \in Nat
  <2>1. /\ len \in Nat /\ DOMAIN source = 1 .. len /\ DOMAIN view = DOMAIN proxyToSource /\ MaxRows \in Nat
        /\ proxyToSource \in Seq(Nat \ {0}) /\ Len(proxyToSource) <= MaxRows
    BY <1>1, <1>2, Ranges, SortProxyAssumption DEF StateTypes, SortProxyAssumption
  <2>2. first \in Nat \ {0} /\ last \in Nat \ {0}
    BY <1>1, <1>2 DEF RowsRemoved
  <2>3. first <= last /\ last <= len + (last - first + 1) /\ Permutes(proxyToSource, len + (last - first + 1))
    BY <1>1, <1>2, Zenon DEF RowsRemoved
  <2>. QED BY <2>1, <2>2, <2>3
<1>4. /\ n \in Nat /\ n >= 1 /\ n = last - first + 1 /\ all \in Nat /\ all = len + n /\ first \in 1 .. all /\ last \in 1 .. all
      /\ first <= last /\ len \in Nat
  <2>1. /\ len \in Nat /\ first \in Nat /\ first >= 1 /\ last \in Nat /\ first <= last
        /\ last <= len + (last - first + 1) /\ n = last - first + 1 /\ all = len + n
    BY <1>2, <1>3
  <2>2. n \in Nat /\ n >= 1 /\ last <= len + n
    BY ONLY <2>1
  <2>3. all \in Nat /\ first <= all /\ last <= all
    BY ONLY <2>1, <2>2
  <2>. QED BY ONLY <2>1, <2>2, <2>3
<1>5. /\ Permutes(proxyToSource, all) /\ DOMAIN proxyToSource = 1 .. all /\ DOMAIN view = 1 .. all
      /\ \A p \in 1 .. all : proxyToSource[p] \in 1 .. all
      /\ \A r \in 1 .. all : \E p \in 1 .. all : proxyToSource[p] = r
      /\ \A p, q \in 1 .. all : proxyToSource[p] = proxyToSource[q] => p = q
  <2>1. Permutes(proxyToSource, all)
    BY <1>2, <1>3
  <2>2. DOMAIN proxyToSource = 1 .. all
    BY <1>3, <2>1, LenProperties DEF Permutes
  <2>. QED BY <1>3, <2>1, <2>2 DEF Permutes, Range, IsInjective
<1>6. PICK to, now, lost :
        /\ to = [r \in 1 .. all |-> IF r > last THEN r - (last - first + 1) ELSE r]
        /\ now = proxyToSource' /\ lost = invalidated'
  OBVIOUS
<1>7. \A r \in 1 .. all : /\ to[r] \in Nat \ {0} /\ to[r] = (IF r >= last + 1 THEN r + (first - last - 1) ELSE r)
                          /\ r \notin first .. last => to[r] \in 1 .. len
  <2> TAKE r \in 1 .. all
  <2>1. CASE r > last
    <3>1. to[r] = r - (last - first + 1) /\ r >= last + 1
      BY <1>4, <1>6, <2>1
    <3>. QED BY ONLY <1>4, <2>1, <3>1, r \in 1 .. all
  <2>2. CASE ~(r > last)
    <3>1. to[r] = r /\ ~(r >= last + 1)
      BY <1>4, <1>6, <2>2
    <3>2. r \notin first .. last => r \in 1 .. len
      BY ONLY <1>4, <2>2, r \in 1 .. all
    <3>. QED BY <3>1, <3>2
  <2>. QED BY <2>1, <2>2
<1>8. now = [p \in 1 .. all |-> to[proxyToSource[p]]]
  <2>1. now = Shift(proxyToSource, last + 1, first - last - 1)
    BY <1>2, <1>6 DEF HandleRowsRemoved
  <2>2. ASSUME NEW p \in 1 .. all
        PROVE  (IF proxyToSource[p] >= last + 1 THEN proxyToSource[p] + (first - last - 1) ELSE proxyToSource[p])
                 = to[proxyToSource[p]]
    <3>1. PICK r \in 1 .. all : r = proxyToSource[p]
      BY <1>5
    <3>. QED BY <1>7, <3>1
  <2>. QED BY <1>5, <2>1, <2>2, Zenon DEF Shift
<1>9. /\ DOMAIN now = 1 .. all /\ \A p \in 1 .. all : now[p] = to[proxyToSource[p]] /\ now[p] \in Nat \ {0}
      /\ now \in Seq(Nat \ {0}) /\ Len(now) = all
  <2>1. \A p \in 1 .. all : now[p] = to[proxyToSource[p]] /\ now[p] \in Nat \ {0}
    BY <1>5, <1>7, <1>8
  <2>2. now \in [1 .. all -> Nat \ {0}]
    BY <1>8, <2>1
  <2>. QED BY <1>4, <1>8, <2>1, <2>2, FunctionIsSeq
<1>10. lost \subseteq 1 .. all /\ \A p \in 1 .. all : p \in lost <=> proxyToSource[p] \in first .. last
  <2>1. lost = {p \in 1 .. all : proxyToSource[p] \in first .. last}
    BY <1>2, <1>5, <1>6 DEF HandleRowsRemoved
  <2>. QED BY <2>1
<1>11. StateTypes' /\ PinInPlace' /\ PinKept
  <2>1. all <= MaxRows /\ Len(view) = all
    BY <1>1, <1>3, <1>5 DEF Permutes, StateTypes
  <2>2. job'.op = "removing" /\ proxyToSource' = now /\ invalidated' = lost
    BY <1>1, <1>6
  <2>. QED BY <1>1, <1>9, <1>10, <2>1, <2>2 DEF StateTypes, PinInPlace, PinKept
<1>12. \A s \in 1 .. len : \E p \in 1 .. all \ lost : now[p] = s
  <2> TAKE s \in 1 .. len
  <2>1. PICK r : r = IF s >= first THEN s + n ELSE s
    OBVIOUS
  <2>2. r \in 1 .. all /\ r \notin first .. last /\ (IF r > last THEN r - (last - first + 1) ELSE r) = s
    <3>1. CASE s >= first
      <4>1. r = s + n
        BY <2>1, <3>1
      <4>. QED BY ONLY <1>4, <3>1, <4>1, s \in 1 .. len
    <3>2. CASE ~(s >= first)
      <4>1. r = s
        BY <2>1, <3>2
      <4>. QED BY ONLY <1>4, <3>2, <4>1, s \in 1 .. len
    <3>. QED BY <3>1, <3>2
  <2>3. PICK p \in 1 .. all : proxyToSource[p] = r
    BY <1>5, <2>2
  <2>4. p \notin lost /\ now[p] = s
    BY <1>6, <1>9, <1>10, <2>2, <2>3
  <2>. QED BY <2>4
<1>13. ASSUME NEW p \in 1 .. all \ lost
       PROVE  /\ now[p] \in 1 .. len /\ view[p] = [of |-> now[p], key |-> source[now[p]]]
              /\ \A q \in 1 .. all \ lost : now[p] = now[q] => p = q
  <2>1. PICK r \in 1 .. all : r = proxyToSource[p]
    BY <1>5
  <2>2. r \notin first .. last /\ now[p] = to[r] /\ to[r] \in 1 .. len
    BY <1>7, <1>9, <1>10, <2>1
  <2>3. view[p] = [of |-> to[r], key |-> source[to[r]]]
    <3>1. view[p] = [of |-> RowBehind(r), key |-> source[RowBehind(r)]]
      <4>1. p \in DOMAIN view /\ proxyToSource[p] = r /\ r \notin job.first .. job.last
        BY <1>2, <1>5, <2>1, <2>2
      <4>. QED BY <1>1, <4>1 DEF RowsRemoved
    <3>2. RowBehind(r) = to[r]
      BY <1>2, <1>6 DEF RowBehind
    <3>. QED BY <3>1, <3>2
  <2>4. ASSUME NEW q \in 1 .. all \ lost, now[p] = now[q] PROVE p = q
    <3>1. PICK t \in 1 .. all : t = proxyToSource[q]
      BY <1>5
    <3>2. t \notin first .. last /\ to[t] = to[r]
      BY <1>9, <1>10, <2>2, <2>4, <3>1
    <3>3. /\ to[t] = (IF t > last THEN t - (last - first + 1) ELSE t)
          /\ to[r] = (IF r > last THEN r - (last - first + 1) ELSE r)
      BY <1>6
    <3>4. (t > last \/ t < first) /\ (r > last \/ r < first)
      BY ONLY <1>4, <2>2, <3>2, t \in 1 .. all, r \in 1 .. all
    <3>5. (IF t > last THEN t - n ELSE t) = (IF r > last THEN r - n ELSE r)
      BY <1>4, <3>2, <3>3
    <3>6. t = r
      BY ONLY <1>4, <3>4, <3>5, t \in 1 .. all, r \in 1 .. all
    <3>. QED BY <1>5, <2>1, <3>1, <3>6
  <2>. QED BY <2>2, <2>3, <2>4
<1>14. \A p \in lost : view[p].of = 0
  <2> TAKE p \in lost
  <2>1. p \in DOMAIN view /\ proxyToSource[p] \in job.first .. job.last
    BY <1>2, <1>5, <1>10
  <2>. QED BY <1>1, <2>1, Zenon DEF RowsRemoved
<1>15. m_order = "Ascending" => \A p, q \in 1 .. all \ lost : p < q => ~LessThan(source, now[q], now[p])
  <2> SUFFICES ASSUME m_order = "Ascending", NEW p \in 1 .. all \ lost, NEW q \in 1 .. all \ lost, p < q
               PROVE  ~LessThan(source, now[q], now[p])
    OBVIOUS
  <2>1. {proxyToSource[p], proxyToSource[q]} \cap (first .. last) = {}
    BY <1>10
  <2>2. ~LessThan(source, RowBehind(proxyToSource[q]), RowBehind(proxyToSource[p]))
    BY <1>1, <1>2, <1>5, <2>1 DEF RowsRemoved
  <2>3. RowBehind(proxyToSource[p]) = now[p] /\ RowBehind(proxyToSource[q]) = now[q]
    <3>1. PICK r \in 1 .. all, t \in 1 .. all : r = proxyToSource[p] /\ t = proxyToSource[q]
      BY <1>5
    <3>2. now[p] = to[r] /\ now[q] = to[t]
      BY <1>9, <3>1
    <3>. QED BY <1>2, <1>6, <3>1, <3>2 DEF RowBehind
  <2>. QED BY <2>2, <2>3
<1>16. Removing'
  <2>1. /\ proxyToSource' = now /\ invalidated' = lost /\ DOMAIN now = 1 .. all /\ source' = source /\ view' = view
        /\ DOMAIN source = 1 .. len /\ m_order' = m_order /\ m_sortColumn' = m_sortColumn /\ m_sortRole' = m_sortRole
    BY <1>1, <1>3, <1>6, <1>9
  <2>2. (\A s \in DOMAIN source : \E p \in DOMAIN proxyToSource \ invalidated : proxyToSource[p] = s)'
    BY <1>12, <2>1
  <2>3. (\A p \in DOMAIN proxyToSource \ invalidated :
           /\ proxyToSource[p] \in DOMAIN source /\ view[p] = Shown(p)
           /\ \A q \in DOMAIN proxyToSource \ invalidated : proxyToSource[p] = proxyToSource[q] => p = q)'
    BY <1>13, <2>1 DEF Shown
  <2>4. (\A p \in invalidated : view[p].of = 0)'
    BY <1>14, <2>1
  <2>5. (m_order = "Ascending" => \A p, q \in DOMAIN proxyToSource \ invalidated :
           p < q => ~LessThan(source, proxyToSource[q], proxyToSource[p]))'
    BY <1>15, <2>1 DEF LessThan
  <2>. QED BY <1>1, <2>2, <2>3, <2>4, <2>5 DEF Removing
<1>17. RowsLeft' < RowsLeft
  <2>1. RowsLeft = 2 * MaxRows + 1 /\ RowsLeft' = Cardinality(lost)
    BY <1>1, <1>6, RowsLeftIs, RowsLeftNext DEF RowsLeftRight
  <2>2. IsFiniteSet(1 .. all) /\ Cardinality(1 .. all) = all
    BY <1>4, FS_Interval
  <2>3. Cardinality(lost) \in Nat /\ Cardinality(lost) <= all
    <3>1. lost \in SUBSET (1 .. all)
      BY <1>10
    <3>. QED BY ONLY <2>2, <3>1, FS_Subset, FS_CardinalityType
  <2>4. all <= MaxRows
    BY <1>3, <1>5 DEF Permutes
  <2>. QED BY <1>3, <1>4, <2>1, <2>3, <2>4
<1>. QED BY <1>1, <1>11, <1>16, <1>17 DEF SortInv, StepRight, Idle, NoJob

\* The last block of masked rows is removed.
LEMMA RemoveBlockStep ==
  ASSUME SortProxyAssumption, SortInv, RemoveBlock
  PROVE  SortInv' /\ StepRight
<1>1. /\ job.op = "removing" /\ Removing /\ StateTypes /\ PinInPlace /\ invalidated # {} /\ job' = job
      /\ UNCHANGED <<source, m_sortColumn, m_order, m_sortRole, sourceToProxy>>
  BY DEF RemoveBlock, SortInv, settings
<1>2. PICK old, lost, len, l, first, last, now, seen, left :
        /\ old = proxyToSource /\ lost = invalidated /\ len = Len(source) /\ l = Len(old)
        /\ first = FirstRemoved /\ last = LastRemoved /\ now = proxyToSource' /\ seen = view' /\ left = invalidated'
  OBVIOUS
<1>3. /\ len \in Nat /\ DOMAIN source = 1 .. len /\ l \in Nat /\ DOMAIN old = 1 .. l /\ DOMAIN view = 1 .. l /\ Len(view) = l
      /\ lost \in SUBSET Nat /\ lost \subseteq 1 .. l /\ lost # {} /\ \A p \in lost : p <= l
      /\ old \in Seq(Nat \ {0}) /\ view \in Seq([of : Nat, key : Keys]) /\ 0 \notin DOMAIN view
      /\ l <= MaxRows /\ MaxRows \in Nat
  <2>1. /\ len \in Nat /\ DOMAIN source = 1 .. len /\ l \in Nat /\ DOMAIN old = 1 .. l /\ DOMAIN view = 1 .. l /\ Len(view) = l
        /\ lost \subseteq 1 .. l /\ lost # {} /\ l <= MaxRows /\ MaxRows \in Nat
        /\ old \in Seq(Nat \ {0}) /\ view \in Seq([of : Nat, key : Keys]) /\ 0 \notin DOMAIN view
    BY <1>1, <1>2, Ranges, SortProxyAssumption DEF StateTypes, SortProxyAssumption
  <2>2. lost \in SUBSET Nat /\ \A p \in lost : p <= l
    BY ONLY <2>1
  <2>. QED BY <2>1, <2>2
<1>4. last \in lost /\ \A p \in lost : p <= last
  <2>1. last = Max(lost)
    BY <1>2 DEF LastRemoved
  <2>. QED BY ONLY <1>3, <2>1, MaxRight
<1>5. first \in lost /\ first <= last /\ first .. last \subseteq lost
  <2>1. PICK starts : starts = {p \in lost : p .. last \subseteq lost}
    OBVIOUS
  <2>2. first = Min(starts)
    BY <1>2, <2>1 DEF FirstRemoved
  <2>3. starts \in SUBSET Nat /\ last \in starts
    <3>1. starts \in SUBSET Nat /\ last \in Nat
      BY <1>3, <1>4, <2>1
    <3>2. \A i \in last .. last : i = last
      BY ONLY <3>1
    <3>. QED BY <1>4, <2>1, <3>1, <3>2
  <2>4. first \in starts /\ \A p \in starts : first <= p
    BY ONLY <2>2, <2>3, MinRight
  <2>. QED BY <2>1, <2>3, <2>4
<1>6. PICK n, to, from : /\ n = last - first + 1
                         /\ to = [r \in DOMAIN view |-> IF r \in first .. last THEN 0
                                                        ELSE IF r > last THEN r - (last - first + 1) ELSE r]
                         /\ from = [i \in 1 .. l - n |-> IF i < first THEN i ELSE i + n]
  OBVIOUS
<1>7. first \in 1 .. l /\ last \in 1 .. l /\ first <= last /\ n \in 1 .. l /\ n = last - first + 1 /\ l \in Nat
  <2>1. first \in 1 .. l /\ last \in 1 .. l /\ first <= last /\ n = last - first + 1 /\ l \in Nat
    BY <1>3, <1>4, <1>5, <1>6
  <2>. QED BY ONLY <2>1
<1>8. /\ now = WithoutRows(old, first, last) /\ seen = WithoutRows(view, first, last) /\ PinFollows(to)
      /\ left = lost \ (first .. last)
  BY <1>2, <1>6, Zenon DEF RemoveBlock
<1>9. /\ now \in Seq(Nat \ {0}) /\ Len(now) = l - n
      /\ \A i \in 1 .. l - n : now[i] = IF i < first THEN old[i] ELSE old[i + last - first + 1]
  <2>1. old \in Seq(Nat \ {0}) /\ first \in 1 .. Len(old) /\ last \in first .. Len(old) /\ Len(old) = l
    BY <1>2, <1>3, <1>7
  <2>2. /\ WithoutRows(old, first, last) \in Seq(Nat \ {0})
        /\ Len(WithoutRows(old, first, last)) = Len(old) - (last - first + 1)
        /\ \A i \in 1 .. Len(old) - (last - first + 1) :
             WithoutRows(old, first, last)[i] = IF i < first THEN old[i] ELSE old[i + last - first + 1]
    BY ONLY <2>1, RowsRemovedRight
  <2>. QED BY <1>7, <1>8, <2>1, <2>2
<1>10. /\ seen \in Seq([of : Nat, key : Keys]) /\ Len(seen) = l - n
       /\ \A i \in 1 .. l - n : seen[i] = IF i < first THEN view[i] ELSE view[i + last - first + 1]
  <2>1. /\ view \in Seq([of : Nat, key : Keys]) /\ first \in 1 .. Len(view) /\ last \in first .. Len(view)
        /\ Len(view) = l
    BY <1>3, <1>7
  <2>2. /\ WithoutRows(view, first, last) \in Seq([of : Nat, key : Keys])
        /\ Len(WithoutRows(view, first, last)) = Len(view) - (last - first + 1)
        /\ \A i \in 1 .. Len(view) - (last - first + 1) :
             WithoutRows(view, first, last)[i] = IF i < first THEN view[i] ELSE view[i + last - first + 1]
    BY ONLY <2>1, RowsRemovedRight
  <2>. QED BY <1>7, <1>8, <2>1, <2>2
<1>11. ASSUME NEW i \in 1 .. l - n
       PROVE  /\ from[i] \in 1 .. l /\ from[i] \notin first .. last /\ now[i] = old[from[i]] /\ seen[i] = view[from[i]]
              /\ i \in left <=> from[i] \in lost
              /\ from[i] = (IF i < first THEN i ELSE i + n)
  <2>1. from[i] = IF i < first THEN i ELSE i + n
    BY <1>6
  <2>2. CASE i < first
    <3>1. i \in 1 .. l /\ i \notin first .. last
      BY ONLY <1>7, <2>2, i \in 1 .. l - n
    <3>. QED BY <1>8, <1>9, <1>10, <2>1, <2>2, <3>1
  <2>3. CASE ~(i < first)
    <3>1. i + n \in 1 .. l /\ i + n \notin first .. last /\ i + n > last /\ i + last - first + 1 = i + n /\ i >= first
      BY ONLY <1>7, <2>3, i \in 1 .. l - n
    <3>2. i + n \notin lost
      <4>1. last \in Int /\ i + n \in Int
        BY ONLY <1>7, i \in 1 .. l - n
      <4>2. ~(i + n <= last)
        BY ONLY <3>1, <4>1
      <4>. QED BY <1>4, <4>2
    <3>3. i \notin left
      <4>1. i \in first .. last \/ i > last
        BY ONLY <1>7, <2>3, i \in 1 .. l - n
      <4>2. i > last => ~(i <= last)
        BY ONLY <1>7, i \in 1 .. l - n
      <4>. QED BY <1>4, <1>8, <4>1, <4>2
    <3>. QED BY <1>9, <1>10, <2>1, <2>3, <3>1, <3>2, <3>3
  <2>. QED BY <2>2, <2>3
<1>12. ASSUME NEW r \in 1 .. l
       PROVE  /\ r \in first .. last => to[r] = 0
              /\ r \notin first .. last => to[r] \in 1 .. l - n /\ from[to[r]] = r
  <2>1. to[r] = IF r \in first .. last THEN 0 ELSE IF r > last THEN r - (last - first + 1) ELSE r
    BY <1>3, <1>6
  <2>2. CASE r \in first .. last
    BY <2>1, <2>2
  <2>3. CASE r \notin first .. last /\ r > last
    <3>1. to[r] = r - n
      BY <1>6, <2>1, <2>3
    <3>2. r - n \in 1 .. l - n /\ ~(r - n < first) /\ r - n + n = r
      BY ONLY <1>7, <2>3, r \in 1 .. l
    <3>. QED BY <1>6, <2>3, <3>1, <3>2
  <2>4. CASE r \notin first .. last /\ ~(r > last)
    <3>1. to[r] = r
      BY <2>1, <2>4
    <3>2. r \in 1 .. l - n /\ r < first
      BY ONLY <1>7, <2>4, r \in 1 .. l
    <3>. QED BY <1>6, <2>4, <3>1, <3>2
  <2>. QED BY <2>2, <2>3, <2>4
<1>13. ASSUME NEW i \in 1 .. l - n, NEW j \in 1 .. l - n
       PROVE  /\ from[i] = from[j] => i = j
              /\ i < j => from[i] < from[j]
  <2>1. /\ from[i] = (IF i < first THEN i ELSE i + n)
        /\ from[j] = (IF j < first THEN j ELSE j + n)
    BY <1>11
  <2>2. /\ (IF i < first THEN i ELSE i + n) = (IF j < first THEN j ELSE j + n) => i = j
        /\ i < j => (IF i < first THEN i ELSE i + n) < (IF j < first THEN j ELSE j + n)
    BY ONLY <1>7, i \in 1 .. l - n, j \in 1 .. l - n
  <2>. QED BY <2>1, <2>2
<1>14. DOMAIN now = 1 .. l - n /\ DOMAIN seen = 1 .. l - n
  BY <1>9, <1>10, LenProperties
<1>15. left \subseteq 1 .. l - n /\ left \subseteq lost
  <2> SUFFICES ASSUME NEW p \in left PROVE p \in 1 .. l - n
    BY <1>8
  <2>1. p \in lost /\ p \notin first .. last /\ p \in 1 .. l /\ p <= last
    BY <1>3, <1>4, <1>8
  <2>. QED BY ONLY <1>7, <2>1
<1>16. /\ \A s \in 1 .. len : \E p \in 1 .. l : p \notin lost /\ old[p] = s
       /\ \A p \in 1 .. l : p \notin lost =>
            /\ old[p] \in 1 .. len /\ view[p] = [of |-> old[p], key |-> source[old[p]]]
            /\ \A q \in 1 .. l : q \notin lost /\ old[p] = old[q] => p = q
       /\ \A p \in lost : view[p].of = 0
       /\ m_order = "Ascending" => \A p, q \in 1 .. l : p \notin lost /\ q \notin lost /\ p < q
                                     => ~LessThan(source, old[q], old[p])
       /\ job = [op |-> "removing"] /\ sourceToProxy = <<>>
  BY <1>1, <1>2, <1>3 DEF Removing, Shown
<1>17. Removing'
  <2>1. \A s \in 1 .. len : \E i \in 1 .. l - n : i \notin left /\ now[i] = s
    <3> TAKE s \in 1 .. len
    <3>1. PICK p \in 1 .. l : p \notin lost /\ old[p] = s
      BY <1>16
    <3>2. p \notin first .. last
      BY <1>5, <3>1
    <3>3. to[p] \in 1 .. l - n /\ from[to[p]] = p
      BY <1>12, <3>2
    <3>. QED BY <1>11, <3>1, <3>3
  <2>2. ASSUME NEW i \in 1 .. l - n, i \notin left
        PROVE  /\ now[i] \in 1 .. len /\ seen[i] = [of |-> now[i], key |-> source[now[i]]]
               /\ \A j \in 1 .. l - n : j \notin left /\ now[i] = now[j] => i = j
    <3>1. PICK p \in 1 .. l : p = from[i] /\ p \notin lost /\ now[i] = old[p] /\ seen[i] = view[p]
      BY <1>11, <2>2
    <3>2. ASSUME NEW j \in 1 .. l - n, j \notin left, now[i] = now[j] PROVE i = j
      <4>1. PICK q \in 1 .. l : q = from[j] /\ q \notin lost /\ now[j] = old[q]
        BY <1>11, <3>2
      <4>2. p = q
        <5>1. old[p] = old[q] /\ p \in 1 .. l /\ q \in 1 .. l /\ p \notin lost /\ q \notin lost
          BY <3>1, <3>2, <4>1
        <5>. QED BY <1>16, <5>1, Zenon
      <4>. QED BY <1>13, <3>1, <4>1, <4>2
    <3>. QED BY <1>16, <3>1, <3>2
  <2>3. \A i \in left : seen[i].of = 0
    BY <1>11, <1>15, <1>16
  <2>4. ASSUME m_order = "Ascending", NEW i \in 1 .. l - n, NEW j \in 1 .. l - n, i \notin left, j \notin left, i < j
        PROVE  ~LessThan(source, now[j], now[i])
    <3>1. /\ from[i] \in 1 .. l /\ from[i] \notin lost /\ now[i] = old[from[i]]
          /\ from[j] \in 1 .. l /\ from[j] \notin lost /\ now[j] = old[from[j]] /\ from[i] < from[j]
      BY <1>11, <1>13, <2>4
    <3>. QED BY <1>16, <2>4, <3>1
  <2>5. /\ proxyToSource' = now /\ invalidated' = left /\ DOMAIN now = 1 .. l - n /\ source' = source /\ view' = seen
        /\ DOMAIN source = 1 .. len /\ m_order' = m_order /\ m_sortColumn' = m_sortColumn /\ m_sortRole' = m_sortRole
    BY <1>1, <1>2, <1>3, <1>14
  <2>6. (\A s \in DOMAIN source : \E p \in DOMAIN proxyToSource \ invalidated : proxyToSource[p] = s)'
    BY <2>1, <2>5
  <2>7. (\A p \in DOMAIN proxyToSource \ invalidated :
           /\ proxyToSource[p] \in DOMAIN source /\ view[p] = Shown(p)
           /\ \A q \in DOMAIN proxyToSource \ invalidated : proxyToSource[p] = proxyToSource[q] => p = q)'
    BY <2>2, <2>5 DEF Shown
  <2>8. (\A p \in invalidated : view[p].of = 0)'
    BY <2>3, <2>5
  <2>9. (m_order = "Ascending" => \A p, q \in DOMAIN proxyToSource \ invalidated :
           p < q => ~LessThan(source, proxyToSource[q], proxyToSource[p]))'
    BY <2>4, <2>5 DEF LessThan
  <2>. QED BY <1>1, <1>16, <2>6, <2>7, <2>8, <2>9 DEF Removing
<1>18. /\ pin' # None => pin' \in [of : Nat, row : DOMAIN view', internalId : Nat \ {0}]
       /\ PinInPlace' /\ PinKept
  <2>1. ASSUME NEW r \in DOMAIN view, to[r] # 0
        PROVE  /\ to[r] \in DOMAIN view' /\ view'[to[r]].of = view[r].of
               /\ proxyToSource'[to[r]] \in Nat \ {0} /\ view'[to[r]].of \in {0, proxyToSource'[to[r]]}
    <3>1. r \in 1 .. l /\ r \notin first .. last
      BY <1>3, <1>12, <2>1
    <3>2. PICK i \in 1 .. l - n : i = to[r] /\ from[i] = r
      BY <1>12, <3>1
    <3>3. now[i] = old[r] /\ seen[i] = view[r] /\ now[i] \in Nat \ {0}
      <4>1. now[i] \in Nat \ {0}
        BY <1>9, <1>14, ElementOfSeq
      <4>. QED BY <1>11, <3>2, <4>1
    <3>4. view[r].of \in {0, old[r]}
      <4>1. CASE r \in lost
        BY <1>16, <4>1
      <4>2. CASE r \notin lost
        <5>1. view[r] = [of |-> old[r], key |-> source[old[r]]]
          BY <1>16, <3>1, <4>2
        <5>. QED BY <5>1
      <4>. QED BY <4>1, <4>2
    <3>. QED BY <1>2, <1>14, <3>2, <3>3, <3>4
  <2>2. PinInPlace /\ (pin # None => pin \in [of : Nat, row : DOMAIN view, internalId : Nat \ {0}])
    BY <1>1 DEF StateTypes
  <2>. QED BY ONLY <1>3, <1>8, <2>1, <2>2, PinMoves
<1>19. StateTypes'
  <2>1. l - n <= MaxRows /\ Len(seen) = Len(now)
    BY <1>3, <1>7, <1>9, <1>10
  <2>2. job'.op = "removing" /\ proxyToSource' = now /\ invalidated' = left /\ view' = seen
    BY <1>1, <1>2
  <2>. QED BY <1>1, <1>9, <1>10, <1>14, <1>15, <1>18, <2>1, <2>2 DEF StateTypes
<1>20. RowsLeft' < RowsLeft
  <2>1. RowsLeft = Cardinality(lost) /\ RowsLeft' = Cardinality(left)
    BY <1>1, <1>2, RowsLeftIs, RowsLeftNext DEF RowsLeftRight
  <2>2. IsFiniteSet(lost)
    <3>1. IsFiniteSet(1 .. l)
      BY <1>3, FS_Interval
    <3>2. lost \in SUBSET (1 .. l)
      BY <1>3
    <3>. QED BY ONLY <3>1, <3>2, FS_Subset
  <2>3. left \in SUBSET lost /\ left # lost
    BY <1>5, <1>7, <1>8
  <2>4. IsFiniteSet(left) /\ Cardinality(left) <= Cardinality(lost) /\ Cardinality(left) # Cardinality(lost)
    BY ONLY <2>2, <2>3, FS_Subset
  <2>5. Cardinality(left) \in Nat /\ Cardinality(lost) \in Nat
    BY ONLY <2>2, <2>4, FS_CardinalityType
  <2>. QED BY ONLY <2>1, <2>4, <2>5
<1>. QED BY <1>1, <1>17, <1>18, <1>19, <1>20 DEF SortInv, StepRight, Idle, NoJob

(* The theorems *)

\* A proxy without a source has no rows.
LEMMA SortInvInit ==
  ASSUME SortProxyAssumption, Init
  PROVE  SortInv
<1>1. /\ source = <<>> /\ proxyToSource = <<>> /\ sourceToProxy = <<>> /\ invalidated = {} /\ view = <<>> /\ pin = None
      /\ m_sortColumn = -1 /\ m_order = "Ascending" /\ m_sortRole \in Roles /\ job = NoJob
  BY DEF Init
<1>2. DOMAIN <<>> = {} /\ Len(<<>>) = 0 /\ 1 .. 0 = {}
  OBVIOUS
<1>3. Permutes(proxyToSource, Len(source))
  BY <1>1, <1>2 DEF Permutes, IsInjective, Range
<1>4. Reversed(proxyToSource) = <<>>
  <2>1. Reversed(proxyToSource) = [s \in {} |-> CHOOSE p \in 1 .. 0 : proxyToSource[p] = s]
    BY <1>1, <1>2 DEF Reversed
  <2>. QED BY <2>1
<1>5. AtRest
  BY <1>1, <1>2, <1>3, <1>4 DEF AtRest, Shows, Ascends
<1>6. StateTypes /\ PinInPlace
  BY <1>1, SortProxyAssumption DEF StateTypes, PinInPlace, NoJob, SortProxyAssumption
<1>. QED BY <1>1, <1>5, <1>6 DEF SortInv, NoJob

\* Every step preserves the invariant and does what a step may do.
LEMMA SortInvNext ==
  ASSUME SortProxyAssumption, SortInv, Next
  PROVE  SortInv' /\ StepRight
<1>1. CASE SetSourceModel
  BY <1>1, SetSourceModelStep
<1>2. CASE Pin
  BY <1>2, PinStep
<1>3. CASE Sort \/ SetSortRole
  BY <1>3, SortStep
<1>4. CASE SourceDataChanged
  BY <1>4, SourceDataChangedStep
<1>5. CASE SourceInsertRows
  BY <1>5, SourceInsertRowsStep
<1>6. CASE SourceRemoveRows
  BY <1>6, SourceRemoveRowsStep
<1>7. CASE Reorder
  BY <1>7, ReorderStep
<1>8. CASE MoveBlock
  BY <1>8, MoveBlockStep
<1>9. CASE HandleDataChanged
  BY <1>9, HandleDataChangedStep
<1>15. CASE AnnounceRange
  BY <1>15, AnnounceRangeStep
<1>10. CASE HandleRowsInserted
  BY <1>10, HandleRowsInsertedStep
<1>11. CASE InsertBlock
  BY <1>11, InsertBlockStep
<1>12. CASE HandleRowsRemoved
  BY <1>12, HandleRowsRemovedStep
<1>13. CASE RemoveBlock
  BY <1>13, RemoveBlockStep
<1>14. CASE Finish
  BY <1>14, FinishStep
<1>. QED BY <1>1, <1>2, <1>3, <1>4, <1>5, <1>6, <1>7, <1>8, <1>9, <1>10, <1>11, <1>12, <1>13, <1>14, <1>15 DEF Next, HandlerStep

\* Nor does the invariant change when nothing changes.
LEMMA SortInvStutter ==
  ASSUME SortInv, UNCHANGED vars
  PROVE  SortInv'
<1>1. UNCHANGED <<source, m_sortColumn, m_order, m_sortRole, proxyToSource, sourceToProxy, invalidated, job, view, pin>>
  BY DEF vars, settings, maps
<1>2. StateTypes' /\ PinInPlace'
  BY <1>1 DEF SortInv, StateTypes, PinInPlace
<1>3. AtRest => AtRest'
  BY <1>1 DEF AtRest, Shows, Ascends, LessThan
<1>4. DataChanged => DataChanged'
  BY <1>1 DEF DataChanged, Shown, Ascends, LessThan
<1>10. Announcing => Announcing'
  BY <1>1 DEF Announcing, Shown, Ascends, LessThan
<1>5. Moving => Moving'
  <2>1. \A s, rows : Sorted(s, rows)' = Sorted(s, rows)
    BY <1>1 DEF Sorted, InOrder, LessThan
  <2>. QED BY <1>1, <2>1 DEF Moving, Shows
<1>6. RowsInserted => RowsInserted'
  BY <1>1 DEF RowsInserted, Shows, Ascends, LessThan
<1>7. Inserting => Inserting'
  BY <1>1 DEF Inserting, Shows, Ascends, LessThan
<1>8. RowsRemoved => RowsRemoved'
  BY <1>1 DEF RowsRemoved, LessThan, RowBehind
<1>9. Removing => Removing'
  BY <1>1 DEF Removing, Shown, LessThan
<1>. QED BY <1>1, <1>2, <1>3, <1>4, <1>5, <1>6, <1>7, <1>8, <1>9, <1>10 DEF SortInv

\* The invariant is one: of every state of every behaviour, for models and
\* changes of any size, and with it the types of the state.
THEOREM SortInvariant == Spec => []SortInv
<1>1. Init => SortInv
  BY SortProxyAssumption, SortInvInit
<1>2. SortInv /\ [Next]_vars => SortInv'
  BY SortProxyAssumption, SortInvNext, SortInvStutter
<1>. QED BY <1>1, <1>2, PTL DEF Spec

\* Between two signals of the proxy, and when no handler is under way, a view
\* that has followed all signals shows the proxy's rows and their data.
THEOREM SortViewFollows == Spec => []ViewFollows
<1>1. SortInv => ViewFollows
  <2> SUFFICES ASSUME SortInv, ~Undelivered PROVE ViewFollows
    BY DEF ViewFollows
  <2>1. StateTypes
    BY DEF SortInv
  <2>2. job.op \in {"none", "reorder", "announcing", "moving", "inserting", "removing"}
    BY <2>1 DEF StateTypes, Undelivered
  <2>3. CASE job.op = "removing"
    <3>1. Removing
      BY <2>3 DEF SortInv
    <3>2. DOMAIN view = DOMAIN proxyToSource
      BY <2>1, Ranges
    <3>3. \A p \in DOMAIN view \ invalidated : view[p].of = proxyToSource[p] /\ view[p] = Shown(p)
      BY <3>1, <3>2 DEF Removing, Shown
    <3>. QED BY <2>1, <3>1, <3>2, <3>3 DEF Removing, StateTypes, ViewFollows
  <2>5. CASE job.op = "announcing"
    <3>1. Announcing
      BY <2>5 DEF SortInv
    <3>2. invalidated = {} /\ Len(view) = Len(proxyToSource)
      BY <2>1, <2>5 DEF StateTypes
    <3>. QED BY <2>5, <3>1, <3>2 DEF Announcing, ViewFollows
  <2>4. CASE job.op \notin {"announcing", "removing"}
    <3>1. Shows(proxyToSource)
      BY <2>2, <2>4 DEF SortInv, AtRest, Moving, Inserting
    <3>2. invalidated = {} /\ Len(view) = Len(proxyToSource)
      BY <2>1, <2>4 DEF StateTypes
    <3>. QED BY <3>1, <3>2 DEF Shows, Shown, ViewFollows
  <2>. QED BY <2>3, <2>4, <2>5
<1>. QED BY <1>1, SortInvariant, PTL

\* The two maps are inverse to each other when no handler is under way, and a
\* slot called between two signals finds each row where the view shows it.
THEOREM SortMapsRight == Spec => []MapsRight
<1>1. SortInv => MapsInverse
  <2> SUFFICES ASSUME SortInv, Idle PROVE MapsInverse
    BY DEF MapsInverse
  <2>1. AtRest /\ StateTypes
    BY DEF SortInv, Idle, NoJob
  <2>. QED BY <2>1, Ranges DEF AtRest, Permutes, MapsInverse
<1>2. SortInv => MapFromSourceRight
  <2> SUFFICES ASSUME SortInv, ~Undelivered, job.op # "removing", NEW s \in DOMAIN source
               PROVE  LET p == MapToProxyRow(s)
                      IN  IF p # 0 THEN p \in DOMAIN view /\ view[p].of = s
                                    ELSE job.op = "inserting" /\ \A q \in DOMAIN view : view[q].of # s
    BY DEF MapFromSourceRight
  <2>1. StateTypes
    BY DEF SortInv
  <2>2. DOMAIN view = DOMAIN proxyToSource /\ 0 \notin DOMAIN view
    BY <2>1, Ranges
  <2>3. CASE job.op \in {"none", "reorder", "moving"}
    <3>1. /\ Shows(proxyToSource) /\ Permutes(proxyToSource, Len(source))
          /\ sourceToProxy \in {Reversed(proxyToSource), <<>>}
      BY <2>3 DEF SortInv, AtRest, Moving
    <3>2. MapToProxyRow(s) \in DOMAIN proxyToSource /\ proxyToSource[MapToProxyRow(s)] = s
      BY <2>1, <3>1, MapRight
    <3>. QED BY <2>2, <3>1, <3>2 DEF Shows
  <2>5. CASE job.op = "announcing"
    <3>1. /\ Permutes(proxyToSource, Len(source)) /\ sourceToProxy = Reversed(proxyToSource)
          /\ \A p \in DOMAIN view : view[p].of = proxyToSource[p]
      BY <2>5 DEF SortInv, Announcing
    <3>2. MapToProxyRow(s) \in DOMAIN proxyToSource /\ proxyToSource[MapToProxyRow(s)] = s
      BY <2>1, <3>1, MapRight
    <3>. QED BY <2>2, <3>1, <3>2
  <2>4. CASE job.op = "inserting"
    <3>1. Shows(proxyToSource) /\ sourceToProxy = <<>>
      BY <2>4 DEF SortInv, Inserting
    <3>2. PICK places : places = {p \in 1 .. Len(proxyToSource) : proxyToSource[p] = s}
      OBVIOUS
    <3>3. MapToProxyRow(s) = IF places = {} THEN 0 ELSE Min(places)
      BY <3>1, <3>2 DEF MapToProxyRow, SelectInSeq
    <3>4. DOMAIN proxyToSource = 1 .. Len(proxyToSource)
      BY <2>1, Ranges
    <3>5. CASE places = {}
      <4>1. \A q \in DOMAIN view : view[q].of # s
        BY <2>2, <3>1, <3>2, <3>4, <3>5 DEF Shows
      <4>. QED BY <2>4, <3>3, <3>5, <4>1
    <3>6. CASE places # {}
      <4>1. places \in SUBSET Nat
        BY <3>2
      <4>2. Min(places) \in places
        BY <3>6, <4>1, MinRight
      <4>3. Min(places) \in DOMAIN view /\ proxyToSource[Min(places)] = s
        BY <2>2, <3>2, <3>4, <4>2
      <4>. QED BY <2>2, <3>1, <3>3, <3>6, <4>3 DEF Shows
    <3>. QED BY <3>5, <3>6
  <2>. QED BY <2>1, <2>3, <2>4, <2>5 DEF StateTypes, Undelivered
<1>3. SortInv => MapsRight
  BY <1>1, <1>2 DEF MapsRight
<1>. QED BY <1>3, SortInvariant, PTL

\* The iterators of reorder() stay in the mapping.
THEOREM SortIteratorsInRange == Spec => []IteratorsInRange
<1>1. SortInv => IteratorsInRange
  <2> SUFFICES ASSUME SortInv, job.op = "moving" PROVE IteratorsInRange
    BY DEF IteratorsInRange
  <2>1. StateTypes /\ Moving
    BY DEF SortInv
  <2>2. job.ordered >= 1 /\ job.unordered >= 1
    BY <2>1, Ranges DEF Moving
  <2>3. OrderedAt # 1 => MovedRow \in 1 .. MoveTo - 1
    BY <2>1, SortProxyAssumption, SkippedRight, BlockRight
  <2>. QED BY <2>2, <2>3 DEF IteratorsInRange
<1>. QED BY <1>1, SortInvariant, PTL

\* A view sorted in ascending order is sorted whenever no handler is under way.
THEOREM SortStaysAscending == Spec => []SortedAscending
<1>1. SortInv => SortedAscending
  <2> SUFFICES ASSUME SortInv, Idle, m_order = "Ascending" PROVE InOrder(source, proxyToSource)
    BY DEF SortedAscending
  <2>1. AtRest /\ StateTypes /\ job = NoJob
    BY DEF SortInv, Idle, NoJob
  <2>2. \A p, q \in DOMAIN proxyToSource : p < q => ~LessThan(source, proxyToSource[q], proxyToSource[p])
    BY <2>1 DEF AtRest, Ascends
  <2>3. ASSUME NEW i \in 1 .. Len(proxyToSource) - 1
        PROVE  i \in DOMAIN proxyToSource /\ i + 1 \in DOMAIN proxyToSource /\ i < i + 1
    <3>1. Len(proxyToSource) \in Nat /\ DOMAIN proxyToSource = 1 .. Len(proxyToSource)
      BY <2>1, Ranges
    <3>. QED BY <3>1
  <2>. QED BY <2>2, <2>3 DEF InOrder
<1>. QED BY <1>1, SortInvariant, PTL

\* reorder() ends in the order that was asked for.
THEOREM SortReorderSorts == Spec => ReorderSorts
<1>1. SortInv /\ [Next]_vars =>
        [job.op = "moving" /\ Idle' =>
           IF m_sortColumn = -1 THEN proxyToSource' = Iota(Len(source')) ELSE InOrder(source', proxyToSource')]_vars
  BY SortProxyAssumption, SortInvNext DEF StepRight
<1>. QED BY <1>1, SortInvariant, PTL DEF Spec, ReorderSorts

\* A persistent index stays with its row, and is not made anew with another.
THEOREM SortPinStays == Spec => PinStays
<1>1. SortInv => (pin # None => view[pin.row].of = pin.of)
  BY DEF SortInv, PinInPlace
<1>2. SortInv /\ [Next]_vars =>
        [pin # None /\ pin' # None /\ pin.of = pin.internalId /\ pin'.of = pin.of
           => pin'.internalId = pin.of]_vars
  BY SortProxyAssumption, SortInvNext DEF StepRight, PinKept
<1>3. SortInv /\ [Next]_vars =>
        [pin # None /\ pin' # None /\ pin'.row # pin.row /\ pin'.of # 0
           => pin'.internalId = pin'.of]_vars
  BY SortProxyAssumption, SortInvNext DEF StepRight, PinKept
<1>. QED BY <1>1, <1>2, <1>3, SortInvariant, PTL DEF Spec, PinStays

\* No loop of a handler goes round for ever.
THEOREM SortHandlerReturns == Spec => HandlerReturns
<1>1. SortInv /\ [Next]_vars => [~Idle /\ ~Idle' => RowsLeft' < RowsLeft]_vars
  BY SortProxyAssumption, SortInvNext DEF StepRight
<1>. QED BY <1>1, SortInvariant, PTL DEF Spec, HandlerReturns
=============================================================================
