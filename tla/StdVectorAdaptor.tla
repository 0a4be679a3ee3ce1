-------------------------- MODULE StdVectorAdaptor --------------------------
(***************************************************************************)
(* KDToolBox's StdVectorAdaptor: std::vector with the functions of QVector *)
(* that it lacks, so that code that uses a QVector goes on to work with it.*)
(* Each step calls one of them; the model says beside it what QVector does.*)
(*                                                                         *)
(* Positions count from 0.  They are such as the function allows.          *)
(***************************************************************************)
EXTENDS Lists, Integers, Sequences, SequencesExt, FiniteSets, FiniteSetsExt

CONSTANTS Elements, MaxSize \* bound on the size of a vector

ASSUME VectorAssumption == MaxSize \in Nat

VARIABLES
  vector, \* the elements
  answer, \* what the last call returned
  qvector,\* what a QVector would hold after the same calls, ...
  qanswer,\* ... and have answered to the last
  aliased \* history: whether a call was given a reference to an element of the
          \* vector, to remove what equals it

vectorVars == <<vector, answer, qvector, qanswer, aliased>>

Nothing == "nothing"

VectorInit ==
  /\ vector = <<>> /\ answer = Nothing /\ qvector = <<>> /\ qanswer = Nothing /\ aliased = FALSE

\* A call: the vector after it and its answer, and the same of a QVector.
Call(v, a, q, b) == vector' = v /\ answer' = a /\ qvector' = q /\ qanswer' = b /\ UNCHANGED aliased

Positions == 0..Len(vector) - 1
At(i)     == vector[i + 1]
Part(v, b, e) == SubSeq(v, b + 1, e)  \* [b, e)
Erase(v, b, e) == Part(v, 0, b) \o Part(v, e, Len(v))

\* std::find() in [b, e), which returns e when there is none.
Find(b, e, x) == Min({i \in b..e - 1 : At(i) = x} \cup {e})

\* std::rotate() of [first, last) that makes middle the first one.
Rotate(first, middle, last) ==
  Part(vector, 0, first) \o Part(vector, middle, last) \o Part(vector, first, middle) \o Part(vector, last, Len(vector))

\* What a QVector holds when the element at from is moved to to.
Moved(from, to) ==
  [i \in DOMAIN qvector |->
     IF i - 1 = to THEN qvector[from + 1]
     ELSE IF from <= i - 1 /\ i - 1 < to THEN qvector[i + 1]
     ELSE IF to < i - 1 /\ i - 1 <= from THEN qvector[i - 1] ELSE qvector[i]]
-----------------------------------------------------------------------------
\* insert(), append() and prepend()
Insert(i, x) ==
  /\ Len(vector) < MaxSize
  /\ Call(Part(vector, 0, i) \o <<x>> \o Part(vector, i, Len(vector)), Nothing, InsertAt(qvector, i + 1, x), Nothing)

\* append() of another vector, which operator+= and << call, and ...
Concat(v) ==
  /\ Len(vector) + Len(v) <= MaxSize
  /\ Call(vector \o v, Nothing, qvector \o v, Nothing)

\* ... of the vector itself.
AppendSelf ==
  /\ 2 * Len(vector) <= MaxSize
  /\ Call(vector \o vector, Nothing, qvector \o qvector, Nothing)

RemoveRange(i, count) ==
  Call(Erase(vector, i, i + count), Nothing,
       [k \in 1..Len(qvector) - count |-> IF k <= i THEN qvector[k] ELSE qvector[k + count]], Nothing)

TakeAt(i) == Call(Erase(vector, i, i + 1), At(i), RemoveAt(qvector, i + 1), qvector[i + 1])

\* std::remove(): from the first that equals x on, each one that does not equal x
\* moves to where the next one belongs.  x is a value, or the place of an element
\* of the vector which may have been overwritten meanwhile.
Compact(before, n, x) ==
  LET y == IF x.place >= 0 THEN before.v[x.place + 1] ELSE x.value IN
  IF before.v[n] = y THEN before
  ELSE [v |-> [before.v EXCEPT ![before.kept + 1] = before.v[n]], kept |-> before.kept + 1]
Compacted(x) ==
  LET turn[n \in 0..Len(vector)] ==
        IF n = 0 THEN [v |-> vector, kept |-> 0] ELSE Compact(turn[n - 1], n, x)
  IN turn[Len(vector)]

RemoveAll(x) ==
  LET c == Compacted(x)
      value == IF x.place >= 0 THEN At(x.place) ELSE x.value
  IN /\ vector' = Part(c.v, 0, c.kept) /\ answer' = Len(vector) - c.kept
     /\ qvector' = Among(qvector, Elements \ {value})
     /\ qanswer' = Cardinality({i \in DOMAIN qvector : qvector[i] = value})
     /\ aliased' = (aliased \/ x.place >= 0)

RemoveOne(x) ==
  LET i == Find(0, Len(vector), x)
      found == {k \in DOMAIN qvector : qvector[k] = x}
  IN Call(IF i = Len(vector) THEN vector ELSE Erase(vector, i, i + 1), i # Len(vector),
          IF found = {} THEN qvector ELSE RemoveAt(qvector, Min(found)), found # {})

\* removeIf(): std::remove_if() looks at each element once, before any moves there.
RemoveIf(p) ==
  LET kept == Among(vector, Elements \ p)
      removed == {k \in DOMAIN qvector : qvector[k] \in p}
  IN Call(kept, Len(vector) - Len(kept), Among(qvector, Elements \ p), Cardinality(removed))

Fill(x, i) ==
  LET size == IF i < 0 THEN Len(vector) ELSE i IN
  Call([k \in 1..size |-> x], Nothing, [k \in 1..IF i = -1 THEN Len(qvector) ELSE i |-> x], Nothing)

\* Mistake: the item that is moved to the right does not pass the one it replaces.
moveShort(from, to) ==
  Call(IF from < to THEN Rotate(from, from + 1, to) ELSE Rotate(to, from, from + 1), Nothing,
       Moved(from, to), Nothing)

move(from, to) ==
  Call(IF from < to THEN Rotate(from, from + 1, to + 1) ELSE Rotate(to, from, from + 1), Nothing,
       Moved(from, to), Nothing)

\* Functions that only answer.
Answer(a, b) == Call(vector, a, qvector, b)

Value(i, default) == Answer(IF i >= 0 /\ i < Len(vector) THEN At(i) ELSE default,
                            IF i + 1 \in DOMAIN qvector THEN qvector[i + 1] ELSE default)

\* startsWith() and endsWith(), which front() and back() leave undefined for an empty
\* vector.
StartsWith(x) == vector # <<>> /\ Answer(At(0) = x, Head(qvector) = x)
EndsWith(x)   == vector # <<>> /\ Answer(At(Len(vector) - 1) = x, Last(qvector) = x)

\* indexOf() and contains(); a negative place counts from the end.
Place(from) == IF from < 0 THEN from + Len(qvector) ELSE from
IndexOf(x, from) ==
  LET b == IF from < 0 THEN Max({from + Len(vector), 0}) ELSE from
      i == Find(b, Len(vector), x)
      found == {k \in DOMAIN qvector : qvector[k] = x /\ k - 1 >= Place(from)}
  IN Answer(IF b < Len(vector) /\ i # Len(vector) THEN i ELSE -1, IF found = {} THEN -1 ELSE Min(found) - 1)

LastIndexOf(x, from) ==
  LET b == IF from < 0 THEN from + Len(vector) ELSE IF from >= Len(vector) THEN Len(vector) - 1 ELSE from
      ahead == {i \in 0..b : At(i) = x}
      found == {k \in DOMAIN qvector : qvector[k] = x /\ k - 1 <= Place(from)}
  IN Answer(IF b >= 0 /\ ahead # {} THEN Max(ahead) ELSE -1, IF found = {} THEN -1 ELSE Max(found) - 1)

\* mid() from a position in the vector or at its end
Sub(pos, len) ==
  LET n == Min({IF len < 0 THEN Len(vector) ELSE len, Len(vector) - pos}) IN
  Answer(Part(vector, pos, pos + n), SubSeq(qvector, pos + 1, IF len < 0 THEN Len(qvector) ELSE Min({Len(qvector), pos + len})))

\* The comparison ends with the first removal of what an element refers to.
VectorStep ==
  \/ \E x \in Elements :
       \/ \E i \in 0..Len(vector) : Insert(i, x)
       \/ RemoveAll([place |-> -1, value |-> x]) \/ RemoveOne(x)
       \/ StartsWith(x) \/ EndsWith(x)
       \/ \E i \in -1..MaxSize : Fill(x, i) \/ Value(i, x)
       \/ \E i \in -MaxSize - 1..MaxSize + 1 : IndexOf(x, i) \/ LastIndexOf(x, i)
  \/ \E v \in BoundedSeq(Elements, 2) : Concat(v)
  \/ AppendSelf
  \/ \E p \in SUBSET Elements : RemoveIf(p)
  \/ \E i \in Positions :
       \/ TakeAt(i)
       \/ \E count \in 1..Len(vector) - i : RemoveRange(i, count)
       \/ RemoveAll([place |-> i, value |-> At(i)])
       \/ \E to \in Positions : move(i, to)
  \/ \E pos \in 0..Len(vector), len \in -1..MaxSize : Sub(pos, len)

VectorNext == ~aliased /\ VectorStep
VectorSpec == VectorInit /\ [][VectorNext]_vectorVars
-----------------------------------------------------------------------------
\* The vector holds and answers what a QVector would, as long as the value to
\* remove is not an element of the vector itself.  Calls that a QVector defines but
\* std::vector does not are left out: startsWith() and endsWith() of an empty vector
\* (a QVector answers false), and mid() from behind the end (it returns nothing).
AsQVector == ~aliased => vector = qvector /\ answer = qanswer
=============================================================================
