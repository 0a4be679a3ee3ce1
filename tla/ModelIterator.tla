---------------------------- MODULE ModelIterator ----------------------------
(***************************************************************************)
(* KDToolBox's DepthFirstIterator and FlatIterator, which make an item     *)
(* model a range that algorithms of the standard library can work on.      *)
(*                                                                         *)
(* A model is the set of its indexes; an index is the sequence of the rows *)
(* that lead to it, and <<>> the invalid one.  The model does not change   *)
(* while there are iterators.  Preconditions that the code asserts are     *)
(* guards.                                                                 *)
(***************************************************************************)
EXTENDS Integers, Sequences, SequencesExt, FiniteSets, FiniteSetsExt

CONSTANT Models \* the models: sets of indexes with their parents and elder siblings

ASSUME ModelAssumption ==
  \A m \in Models :
    /\ IsFiniteSet(m)
    /\ \A i \in m :
         /\ i \in Seq(Nat) /\ i # <<>>
         /\ Len(i) > 1 => Front(i) \in m
         /\ Last(i) > 0 => Append(Front(i), Last(i) - 1) \in m

VARIABLES
  model,
  kind,     \* "depthFirst" or "flat"
  iterator, \* m_index and m_atEnd
  steps     \* history: how far from begin() the iterator has been moved

iteratorVars == <<model, kind, iterator, steps>>

ParentOf(i)      == IF i = <<>> THEN <<>> ELSE Front(i)
RowCount(i)    == Cardinality({j \in model : ParentOf(j) = i})
HasChildren(i) == RowCount(i) > 0
Index(row, parent) == IF Append(parent, row) \in model THEN Append(parent, row) ELSE <<>>

It(index, atEnd) == [index |-> index, atEnd |-> atEnd]

NextSibling(i) == IF Last(i) < RowCount(ParentOf(i)) - 1 THEN Index(Last(i) + 1, ParentOf(i)) ELSE <<>>
PrevSibling(i) == IF Last(i) > 0 THEN Index(Last(i) - 1, ParentOf(i)) ELSE <<>>

LastDescendant(i) ==
  LET last[j \in model \cup {<<>>}] ==
        IF HasChildren(j) THEN last[Index(RowCount(j) - 1, j)] ELSE j
  IN last[i]

\* The loop of operator++ over an index and its ancestors.
NextSiblingAbove(i) ==
  LET next[j \in model] ==
        IF NextSibling(j) # <<>> THEN NextSibling(j)
        ELSE IF ParentOf(j) # <<>> THEN next[ParentOf(j)] ELSE <<>>
  IN next[i]

Begin == It(Index(0, <<>>), Index(0, <<>>) = <<>>)
End   == IF kind = "flat" THEN It(Index(RowCount(<<>>) - 1, <<>>), TRUE)
         ELSE It(LastDescendant(<<>>), TRUE)

\* FlatIterator::row(), of which operator- is the difference
Row(it) == (IF it.index = <<>> THEN -1 ELSE Last(it.index)) + (IF it.atEnd THEN 1 ELSE 0)

IteratorInit ==
  /\ model \in Models /\ kind \in {"depthFirst", "flat"}
  /\ iterator = Begin /\ steps = 0

\* Mistake: to the next sibling of the parent only.
NextOfParent ==
  /\ kind = "depthFirst" /\ ~iterator.atEnd
  /\ LET i == iterator.index
         next == IF HasChildren(i) THEN Index(0, i)
                 ELSE IF NextSibling(i) # <<>> \/ ParentOf(i) = <<>> THEN NextSibling(i)
                 ELSE NextSibling(ParentOf(i))
     IN iterator' = IF next # <<>> THEN It(next, FALSE) ELSE It(i, TRUE)
  /\ steps' = steps + 1 /\ UNCHANGED <<model, kind>>

\* DepthFirstIterator::operator++
Increment ==
  /\ kind = "depthFirst" /\ ~iterator.atEnd
  /\ LET i == iterator.index
         next == IF HasChildren(i) THEN Index(0, i) ELSE NextSiblingAbove(i)
     IN iterator' = IF next # <<>> THEN It(next, FALSE) ELSE It(i, TRUE)
  /\ steps' = steps + 1 /\ UNCHANGED <<model, kind>>

\* DepthFirstIterator::operator--
Decrement ==
  LET i == iterator.index IN
  /\ kind = "depthFirst" /\ i # <<>>
  /\ ~iterator.atEnd => ParentOf(i) # <<>> \/ Last(i) > 0
  /\ iterator' = IF iterator.atEnd THEN It(i, FALSE)
                 ELSE It(IF PrevSibling(i) = <<>> THEN ParentOf(i) ELSE LastDescendant(PrevSibling(i)), FALSE)
  /\ steps' = steps - 1 /\ UNCHANGED <<model, kind>>

\* FlatIterator::operator+= of a step forward
Advance(step) ==
  LET row == Last(iterator.index) + step
      rows == RowCount(ParentOf(iterator.index))
  IN /\ kind = "flat" /\ ~iterator.atEnd /\ row <= rows
     /\ iterator' = IF row < rows THEN It(Index(row, ParentOf(iterator.index)), iterator.atEnd)
                    ELSE It(Index(row - 1, ParentOf(iterator.index)), TRUE)
     /\ steps' = steps + step /\ UNCHANGED <<model, kind>>

\* FlatIterator::operator-= of a step back; sibling() of a row that is not there is
\* the invalid index.
GoBack(step) ==
  LET row == Last(iterator.index) - (IF iterator.atEnd THEN step - 1 ELSE step)
  IN /\ kind = "flat" /\ iterator.index # <<>> /\ row >= 0
     /\ iterator' = It(Index(row, ParentOf(iterator.index)), FALSE)
     /\ steps' = steps - step /\ UNCHANGED <<model, kind>>

\* A step by 0 from the end leads nowhere, and is not made here.
IteratorNext ==
  \/ Increment \/ Decrement
  \/ \E step \in 0..RowCount(<<>>) : Advance(step)
  \/ \E step \in 1..RowCount(<<>>) : GoBack(step)

IteratorSpec == IteratorInit /\ [][IteratorNext]_iteratorVars
-----------------------------------------------------------------------------
\* An index is visited before another one if that one begins as it does and goes on,
\* or has a greater row where they differ first.
Precedes(i, j) ==
  \E n \in 0..Len(j) - 1 :
    /\ n <= Len(i) /\ \A k \in 1..n : i[k] = j[k]
    /\ n = Len(i) \/ i[n + 1] < j[n + 1]

Visited == IF kind = "flat" THEN {i \in model : Len(i) = 1} ELSE model

\* Whichever way it has come, after so many steps the iterator is at the index that
\* has so many before it in the order that the class promises, and it equals end()
\* just when it has passed all of them.  The distance of flat iterators is the
\* number of steps between them.
StepsInOrder ==
  /\ IF steps = Cardinality(Visited) THEN iterator = End
     ELSE /\ ~iterator.atEnd /\ iterator.index \in Visited
          /\ steps = Cardinality({i \in Visited : Precedes(i, iterator.index)})
  /\ kind = "flat" => Row(iterator) - Row(Begin) = steps /\ Row(End) - Row(iterator) = Cardinality(Visited) - steps
=============================================================================
