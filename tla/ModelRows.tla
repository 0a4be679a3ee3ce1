------------------------------ MODULE ModelRows ------------------------------
(***************************************************************************)
(* Sequences of rows and the three block changes a QAbstractItemModel can  *)
(* announce to its views with beginInsertRows(), beginRemoveRows() and     *)
(* beginMoveRows().  Rows are counted from 1, where Qt counts from 0.      *)
(***************************************************************************)
EXTENDS Integers, Sequences

\* Rows first..last taken out.
WithoutRows(s, first, last) ==
  SubSeq(s, 1, first - 1) \o SubSeq(s, last + 1, Len(s))

\* The rows t inserted so that the first of them becomes row pos.
WithRowsAt(s, pos, t) ==
  SubSeq(s, 1, pos - 1) \o t \o SubSeq(s, pos, Len(s))

\* The n rows up to `last` moved behind row `to`, as a rotation to the left.
WithRowsMovedBehind(s, last, n, to) ==
  SubSeq(s, 1, last - n) \o SubSeq(s, last + 1, to)
    \o SubSeq(s, last - n + 1, last) \o SubSeq(s, to + 1, Len(s))

\* Rows first..last moved before the row that was row `to` until then.
WithRowsMoved(s, first, last, to) ==
  IF to > last
  THEN SubSeq(s, 1, first - 1) \o SubSeq(s, last + 1, to - 1)
         \o SubSeq(s, first, last) \o SubSeq(s, to, Len(s))
  ELSE SubSeq(s, 1, to - 1) \o SubSeq(s, first, last)
         \o SubSeq(s, to, first - 1) \o SubSeq(s, last + 1, Len(s))

\* The destinations that beginMoveRows() accepts among n rows.
MoveTargets(n, first, last) == (1..n + 1) \ (first..last + 1)
=============================================================================
