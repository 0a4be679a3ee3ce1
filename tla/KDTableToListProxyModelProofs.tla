-------------------- MODULE KDTableToListProxyModelProofs --------------------
(***************************************************************************)
(* The proxy pairs its begins and ends, the mappings of roles follow their *)
(* columns, and so do a view and its persistent index, for tables of any   *)
(* size.                                                                   *)
(***************************************************************************)
EXTENDS KDTableToListProxyModel, ModelRowsProofs

(* Rows and columns with identities *)

\* What a sequence of distinct elements is.
LEMMA DistinctRight ==
  ASSUME NEW S, IsFiniteSet(S), NEW s \in Distinct(S)
  PROVE  s \in Seq(S) /\ Len(s) \in Nat /\ DOMAIN s = 1 .. Len(s) /\ IsInjective(s)
<1>1. PICK n \in 0 .. Cardinality(S) : s \in [1 .. n -> S]
  BY DEF Distinct, BoundedSeq, SeqOf
<1>2. n \in Nat
  BY FS_CardinalityType
<1>3. s \in Seq(S)
  BY <1>1, <1>2
<1>. QED BY <1>3, LenProperties DEF Distinct

\* An element keeps its identity when others are inserted, ...
LEMMA AtInserted ==
  ASSUME NEW T, None \notin T, NEW s \in Seq(T), NEW t \in Seq(T), NEW pos \in 1 .. Len(s) + 1, NEW c \in Nat
  PROVE  At(WithRowsAt(s, pos, t), IF c >= pos THEN c + Len(t) ELSE c) = At(s, c)
<1>1. Len(s) \in Nat /\ Len(t) \in Nat /\ DOMAIN s = 1 .. Len(s)
  BY LenProperties
<1>2. PICK now : now = WithRowsAt(s, pos, t)
  OBVIOUS
<1>3. /\ now \in Seq(T) /\ Len(now) = Len(s) + Len(t)
      /\ \A i \in 1 .. Len(s) + Len(t) :
           now[i] = IF i < pos THEN s[i] ELSE IF i < pos + Len(t) THEN t[i - pos + 1] ELSE s[i - Len(t)]
  BY ONLY <1>2, s \in Seq(T), t \in Seq(T), pos \in 1 .. Len(s) + 1, RowsInsertedRight
<1>4. DOMAIN now = 1 .. Len(s) + Len(t)
  BY <1>3, LenProperties
<1>5. CASE c >= pos
  <2>1. c + Len(t) \in 1 .. Len(s) + Len(t) <=> c \in 1 .. Len(s)
    BY <1>1, <1>5
  <2>2. ~(c + Len(t) < pos) /\ ~(c + Len(t) < pos + Len(t)) /\ c + Len(t) - Len(t) = c
    BY <1>1, <1>5
  <2>. QED BY <1>1, <1>2, <1>3, <1>4, <1>5, <2>1, <2>2 DEF At
<1>6. CASE ~(c >= pos)
  <2>1. (c \in 1 .. Len(s) + Len(t) <=> c \in 1 .. Len(s)) /\ c < pos
    BY <1>1, <1>6
  <2>. QED BY <1>1, <1>2, <1>3, <1>4, <1>6, <2>1 DEF At
<1>. QED BY <1>5, <1>6

\* ... when others are removed, ...
LEMMA AtRemoved ==
  ASSUME NEW T, NEW s \in Seq(T), NEW first \in 1 .. Len(s), NEW last \in first .. Len(s), NEW c \in Nat,
         c \notin first .. last
  PROVE  At(WithoutRows(s, first, last), IF c > last THEN c - (last - first + 1) ELSE c) = At(s, c)
<1>1. Len(s) \in Nat /\ DOMAIN s = 1 .. Len(s)
  BY LenProperties
<1>2. PICK now, n : now = WithoutRows(s, first, last) /\ n = last - first + 1
  OBVIOUS
<1>3. /\ now \in Seq(T) /\ Len(now) = Len(s) - n
      /\ \A i \in 1 .. Len(s) - n : now[i] = IF i < first THEN s[i] ELSE s[i + last - first + 1]
  BY ONLY <1>2, s \in Seq(T), first \in 1 .. Len(s), last \in first .. Len(s), RowsRemovedRight
<1>4. DOMAIN now = 1 .. Len(s) - n
  BY <1>3, LenProperties
<1>5. CASE c > last
  <2>1. (c - n \in 1 .. Len(s) - n <=> c \in 1 .. Len(s)) /\ ~(c - n < first) /\ c - n + last - first + 1 = c
    BY <1>1, <1>2, <1>5
  <2>. QED BY <1>1, <1>2, <1>3, <1>4, <1>5, <2>1 DEF At
<1>6. CASE ~(c > last)
  <2>1. (c \in 1 .. Len(s) - n <=> c \in 1 .. Len(s)) /\ c < first
    BY <1>1, <1>2, <1>6
  <2>. QED BY <1>1, <1>2, <1>3, <1>4, <1>6, <2>1 DEF At
<1>. QED BY <1>2, <1>5, <1>6

\* Where every row is after a move.
MovedAs(now, s, first, last, to) ==
  /\ Len(now) = Len(s)
  /\ to > last => \A i \in 1 .. Len(s) :
       now[i] = IF i < first \/ i >= to THEN s[i]
                ELSE IF i < first + (to - 1 - last) THEN s[i + (last - first + 1)] ELSE s[i - (to - 1 - last)]
  /\ ~(to > last) => to < first /\ \A i \in 1 .. Len(s) :
       now[i] = IF i < to \/ i > last THEN s[i]
                ELSE IF i < to + (last - first + 1) THEN s[i + (first - to)] ELSE s[i - (last - first + 1)]

\* A move puts every row there.
LEMMA MovedAsRight ==
  ASSUME NEW T, NEW s \in Seq(T), NEW first \in 1 .. Len(s), NEW last \in first .. Len(s),
         NEW to \in MoveTargets(Len(s), first, last)
  PROVE  WithRowsMoved(s, first, last, to) \in Seq(T) /\ MovedAs(WithRowsMoved(s, first, last, to), s, first, last, to)
<1>1. /\ WithRowsMoved(s, first, last, to) \in Seq(T) /\ Len(WithRowsMoved(s, first, last, to)) = Len(s)
      /\ to > last => \A i \in 1 .. Len(s) :
           WithRowsMoved(s, first, last, to)[i] =
             IF i < first \/ i >= to THEN s[i]
             ELSE IF i < first + (to - 1 - last) THEN s[i + (last - first + 1)] ELSE s[i - (to - 1 - last)]
      /\ ~(to > last) => to < first /\ \A i \in 1 .. Len(s) :
           WithRowsMoved(s, first, last, to)[i] =
             IF i < to \/ i > last THEN s[i]
             ELSE IF i < to + (last - first + 1) THEN s[i + (first - to)] ELSE s[i - (last - first + 1)]
  BY RowsMovedRight
<1>. QED BY <1>1, Zenon DEF MovedAs

\* ... and when it is moved or others are moved over it.
LEMMA AtMoved ==
  ASSUME NEW T, NEW s \in Seq(T), NEW first \in 1 .. Len(s), NEW last \in first .. Len(s),
         NEW to \in MoveTargets(Len(s), first, last), NEW c \in Nat
  PROVE  /\ to > last =>
              At(WithRowsMoved(s, first, last, to),
                 IF c \in first .. last THEN c + to - last - 1
                 ELSE IF c \in last + 1 .. to - 1 THEN c - (last - first + 1) ELSE c) = At(s, c)
         /\ to < first =>
              At(WithRowsMoved(s, first, last, to),
                 IF c \in first .. last THEN c - (first - to)
                 ELSE IF c \in to .. first - 1 THEN c + (last - first + 1) ELSE c) = At(s, c)
<1>1. /\ Len(s) \in Nat /\ DOMAIN s = 1 .. Len(s) /\ to \in 1 .. Len(s) + 1 /\ to \notin first .. last + 1
      /\ (~(to > last) => to < first)
  BY LenProperties DEF MoveTargets
<1>2. PICK now : now = WithRowsMoved(s, first, last, to)
  OBVIOUS
<1>3. now \in Seq(T) /\ MovedAs(now, s, first, last, to)
  BY <1>2, MovedAsRight
<1>4. DOMAIN now = 1 .. Len(s)
  BY <1>3, LenProperties DEF MovedAs
<1>5. CASE to > last
  <2>1. CASE c \in first .. last
    <3>1. /\ c + to - last - 1 \in 1 .. Len(s) /\ c \in 1 .. Len(s) /\ c + to - last - 1 - (to - 1 - last) = c
          /\ ~(c + to - last - 1 < first \/ c + to - last - 1 >= to) /\ ~(c + to - last - 1 < first + (to - 1 - last))
      BY <1>1, <1>5, <2>1
    <3>2. PICK k : k = c + to - last - 1
      OBVIOUS
    <3>3. k \in 1 .. Len(s) /\ k - (to - 1 - last) = c /\ ~(k < first \/ k >= to) /\ ~(k < first + (to - 1 - last))
      BY <1>1, <1>5, <2>1, <3>2
    <3>4. now[k] = s[c]
      BY <1>3, <1>5, <3>3 DEF MovedAs
    <3>. QED BY <1>1, <1>2, <1>4, <1>5, <2>1, <3>1, <3>2, <3>3, <3>4 DEF At
  <2>2. CASE c \in last + 1 .. to - 1
    <3>1. /\ c - (last - first + 1) \in 1 .. Len(s) /\ c \in 1 .. Len(s) /\ c \notin first .. last
          /\ c - (last - first + 1) + (last - first + 1) = c
          /\ ~(c - (last - first + 1) < first \/ c - (last - first + 1) >= to)
          /\ c - (last - first + 1) < first + (to - 1 - last)
      BY <1>1, <1>5, <2>2
    <3>. QED BY <1>1, <1>2, <1>3, <1>4, <1>5, <2>2, <3>1 DEF At, MovedAs
  <2>3. CASE c \notin first .. last /\ c \notin last + 1 .. to - 1
    <3>1. c < first \/ c >= to
      BY <1>1, <1>5, <2>3
    <3>. QED BY <1>1, <1>2, <1>3, <1>4, <1>5, <2>3, <3>1 DEF At, MovedAs
  <2>4. ~(to < first)
    BY <1>1, <1>5
  <2>. QED BY <2>1, <2>2, <2>3, <2>4
<1>6. CASE ~(to > last)
  <2>1. CASE c \in first .. last
    <3>1. /\ c - (first - to) \in 1 .. Len(s) /\ c \in 1 .. Len(s) /\ c - (first - to) + (first - to) = c
          /\ ~(c - (first - to) < to \/ c - (first - to) > last) /\ c - (first - to) < to + (last - first + 1)
      BY <1>1, <1>3, <1>6, <2>1
    <3>. QED BY <1>1, <1>2, <1>3, <1>4, <1>6, <2>1, <3>1 DEF At, MovedAs
  <2>2. CASE c \in to .. first - 1
    <3>1. /\ c + (last - first + 1) \in 1 .. Len(s) /\ c \in 1 .. Len(s) /\ c \notin first .. last
          /\ c + (last - first + 1) - (last - first + 1) = c
          /\ ~(c + (last - first + 1) < to \/ c + (last - first + 1) > last)
          /\ ~(c + (last - first + 1) < to + (last - first + 1))
      BY <1>1, <1>3, <1>6, <2>2
    <3>. QED BY <1>1, <1>2, <1>3, <1>4, <1>6, <2>2, <3>1 DEF At, MovedAs
  <2>3. CASE c \notin first .. last /\ c \notin to .. first - 1
    <3>1. c < to \/ c > last
      BY <1>1, <1>3, <1>6, <2>3
    <3>. QED BY <1>1, <1>2, <1>3, <1>4, <1>6, <2>3, <3>1 DEF At, MovedAs
  <2>. QED BY <1>6, <2>1, <2>2, <2>3
<1>. QED BY <1>5, <1>6

\* Rows stay distinct when others are inserted, ...
LEMMA InsertedInjective ==
  ASSUME NEW T, NEW s \in Seq(T), NEW t \in Seq(T), NEW pos \in 1 .. Len(s) + 1,
         IsInjective(s), IsInjective(t), Range(t) \cap Range(s) = {}
  PROVE  IsInjective(WithRowsAt(s, pos, t))
<1>1. Len(s) \in Nat /\ Len(t) \in Nat /\ DOMAIN s = 1 .. Len(s) /\ DOMAIN t = 1 .. Len(t)
  BY LenProperties
<1>2. PICK now : now = WithRowsAt(s, pos, t)
  OBVIOUS
<1>3. /\ now \in Seq(T) /\ Len(now) = Len(s) + Len(t)
      /\ \A i \in 1 .. Len(s) + Len(t) :
           now[i] = IF i < pos THEN s[i] ELSE IF i < pos + Len(t) THEN t[i - pos + 1] ELSE s[i - Len(t)]
  BY ONLY <1>2, s \in Seq(T), t \in Seq(T), pos \in 1 .. Len(s) + 1, RowsInsertedRight
<1>4. DOMAIN now = 1 .. Len(s) + Len(t)
  BY <1>3, LenProperties
<1>5. ASSUME NEW i \in 1 .. Len(s), NEW j \in 1 .. Len(t) PROVE s[i] # t[j]
  BY <1>1 DEF Range
<1>6. ASSUME NEW i \in 1 .. Len(s) + Len(t), NEW j \in 1 .. Len(s) + Len(t), i < j PROVE now[i] # now[j]
  <2>1. pos \in Nat /\ pos >= 1 /\ pos <= Len(s) + 1
    BY <1>1
  <2>2. CASE j < pos
    <3>1. now[i] = s[i] /\ now[j] = s[j] /\ i \in 1 .. Len(s) /\ j \in 1 .. Len(s)
      BY <1>1, <1>3, <1>6, <2>1, <2>2
    <3>. QED BY <1>1, <1>6, <3>1 DEF IsInjective
  <2>3. CASE i < pos /\ j >= pos /\ j < pos + Len(t)
    <3>1. now[i] = s[i] /\ now[j] = t[j - pos + 1] /\ i \in 1 .. Len(s) /\ j - pos + 1 \in 1 .. Len(t)
      BY <1>1, <1>3, <1>6, <2>1, <2>3
    <3>. QED BY <1>5, <3>1
  <2>4. CASE i < pos /\ j >= pos + Len(t)
    <3>1. now[i] = s[i] /\ now[j] = s[j - Len(t)] /\ i \in 1 .. Len(s) /\ j - Len(t) \in 1 .. Len(s) /\ i # j - Len(t)
      BY <1>1, <1>3, <1>6, <2>1, <2>4
    <3>. QED BY <1>1, <3>1 DEF IsInjective
  <2>5. CASE i >= pos /\ j < pos + Len(t)
    <3>1. /\ now[i] = t[i - pos + 1] /\ now[j] = t[j - pos + 1] /\ i - pos + 1 \in 1 .. Len(t) /\ j - pos + 1 \in 1 .. Len(t)
          /\ i - pos + 1 # j - pos + 1
      BY <1>1, <1>3, <1>6, <2>1, <2>5
    <3>. QED BY <1>1, <3>1 DEF IsInjective
  <2>6. CASE i >= pos /\ i < pos + Len(t) /\ j >= pos + Len(t)
    <3>1. now[i] = t[i - pos + 1] /\ now[j] = s[j - Len(t)] /\ i - pos + 1 \in 1 .. Len(t) /\ j - Len(t) \in 1 .. Len(s)
      BY <1>1, <1>3, <1>6, <2>1, <2>6
    <3>. QED BY <1>5, <3>1
  <2>7. CASE i >= pos + Len(t)
    <3>1. /\ now[i] = s[i - Len(t)] /\ now[j] = s[j - Len(t)] /\ i - Len(t) \in 1 .. Len(s) /\ j - Len(t) \in 1 .. Len(s)
          /\ i - Len(t) # j - Len(t)
      BY <1>1, <1>3, <1>6, <2>1, <2>7
    <3>. QED BY <1>1, <3>1 DEF IsInjective
  <2>. QED BY <1>1, <1>6, <2>1, <2>2, <2>3, <2>4, <2>5, <2>6, <2>7
<1>7. ASSUME NEW i \in 1 .. Len(s) + Len(t), NEW j \in 1 .. Len(s) + Len(t), now[i] = now[j] PROVE i = j
  <2>1. i \in Int /\ j \in Int
    OBVIOUS
  <2>. QED BY <1>6, <1>7, <2>1
<1>. QED BY <1>2, <1>4, <1>7 DEF IsInjective

\* ... when others are removed, ...
LEMMA RemovedInjective ==
  ASSUME NEW T, NEW s \in Seq(T), NEW first \in 1 .. Len(s), NEW last \in first .. Len(s), IsInjective(s)
  PROVE  IsInjective(WithoutRows(s, first, last))
<1>1. Len(s) \in Nat /\ DOMAIN s = 1 .. Len(s)
  BY LenProperties
<1>2. PICK now, n : now = WithoutRows(s, first, last) /\ n = last - first + 1
  OBVIOUS
<1>3. /\ now \in Seq(T) /\ Len(now) = Len(s) - n
      /\ \A i \in 1 .. Len(s) - n : now[i] = IF i < first THEN s[i] ELSE s[i + last - first + 1]
  BY ONLY <1>2, s \in Seq(T), first \in 1 .. Len(s), last \in first .. Len(s), RowsRemovedRight
<1>4. DOMAIN now = 1 .. Len(s) - n
  BY <1>3, LenProperties
<1> DEFINE was(i) == IF i < first THEN i ELSE i + last - first + 1
<1>5. ASSUME NEW i \in 1 .. Len(s) - n PROVE now[i] = s[was(i)] /\ was(i) \in DOMAIN s
  BY <1>1, <1>2, <1>3
<1>6. ASSUME NEW i \in 1 .. Len(s) - n, NEW j \in 1 .. Len(s) - n, was(i) = was(j) PROVE i = j
  BY <1>1, <1>2, <1>6
<1> HIDE DEF was
<1>7. ASSUME NEW i \in 1 .. Len(s) - n, NEW j \in 1 .. Len(s) - n, now[i] = now[j] PROVE i = j
  BY <1>5, <1>6, <1>7 DEF IsInjective
<1>. QED BY <1>2, <1>4, <1>7 DEF IsInjective

\* ... and when some are moved.
LEMMA MovedInjective ==
  ASSUME NEW T, NEW s \in Seq(T), NEW first \in 1 .. Len(s), NEW last \in first .. Len(s),
         NEW to \in MoveTargets(Len(s), first, last), IsInjective(s)
  PROVE  IsInjective(WithRowsMoved(s, first, last, to))
<1>1. /\ Len(s) \in Nat /\ DOMAIN s = 1 .. Len(s) /\ to \in 1 .. Len(s) + 1 /\ to \notin first .. last + 1
      /\ (~(to > last) => to < first)
  BY LenProperties DEF MoveTargets
<1>2. PICK now : now = WithRowsMoved(s, first, last, to)
  OBVIOUS
<1>3. now \in Seq(T) /\ MovedAs(now, s, first, last, to)
  BY <1>2, MovedAsRight
<1>4. DOMAIN now = 1 .. Len(s)
  BY <1>3, LenProperties DEF MovedAs
<1>5. CASE to > last
  <2> DEFINE was(i) == IF i < first \/ i >= to THEN i
                       ELSE IF i < first + (to - 1 - last) THEN i + (last - first + 1) ELSE i - (to - 1 - last)
  <2>1. ASSUME NEW i \in 1 .. Len(s) PROVE now[i] = s[was(i)]
    BY <1>3, <1>5 DEF MovedAs
  <2>2. ASSUME NEW i \in 1 .. Len(s) PROVE was(i) \in 1 .. Len(s)
    BY <1>1, <1>5
  <2>3. ASSUME NEW i \in 1 .. Len(s), NEW j \in 1 .. Len(s), was(i) = was(j) PROVE i = j
    BY <1>1, <1>5, <2>3
  <2> HIDE DEF was
  <2>4. ASSUME NEW i \in 1 .. Len(s), NEW j \in 1 .. Len(s), now[i] = now[j] PROVE i = j
    BY <1>1, <2>1, <2>2, <2>3, <2>4 DEF IsInjective
  <2>. QED BY <1>2, <1>4, <2>4 DEF IsInjective
<1>6. CASE ~(to > last)
  <2> DEFINE was(i) == IF i < to \/ i > last THEN i
                       ELSE IF i < to + (last - first + 1) THEN i + (first - to) ELSE i - (last - first + 1)
  <2>1. ASSUME NEW i \in 1 .. Len(s) PROVE now[i] = s[was(i)]
    BY <1>3, <1>6 DEF MovedAs
  <2>2. ASSUME NEW i \in 1 .. Len(s) PROVE was(i) \in 1 .. Len(s)
    BY <1>1, <1>3, <1>6
  <2>3. ASSUME NEW i \in 1 .. Len(s), NEW j \in 1 .. Len(s), was(i) = was(j) PROVE i = j
    BY <1>1, <1>3, <1>6, <2>3
  <2> HIDE DEF was
  <2>4. ASSUME NEW i \in 1 .. Len(s), NEW j \in 1 .. Len(s), now[i] = now[j] PROVE i = j
    BY <1>1, <2>1, <2>2, <2>3, <2>4 DEF IsInjective
  <2>. QED BY <1>2, <1>4, <2>4 DEF IsInjective
<1>. QED BY <1>5, <1>6

\* Sorting keeps the number of the rows, and each row once.
LEMMA SortedRight ==
  ASSUME NEW T, IsFiniteSet(T), NEW s \in Seq(T), IsInjective(s), NEW t \in SetToSeqs(Range(s))
  PROVE  t \in Seq(T) /\ Len(t) = Len(s) /\ IsInjective(t) /\ Range(t) = Range(s)
<1>1. Len(s) \in Nat /\ DOMAIN s = 1 .. Len(s) /\ s \in [1 .. Len(s) -> T]
  BY LenProperties
<1>2. Range(s) \subseteq T /\ s \in Surjection(1 .. Len(s), Range(s))
  BY <1>1 DEF Range, Surjection
<1>3. IsFiniteSet(1 .. Len(s)) /\ Cardinality(1 .. Len(s)) = Len(s)
  BY <1>1, FS_Interval
<1>4. s \in Injection(1 .. Len(s), Range(s))
  BY <1>1, <1>2 DEF Injection, Surjection, IsInjective
<1>5. IsFiniteSet(Range(s)) /\ Cardinality(Range(s)) = Len(s)
  BY <1>2, <1>3, <1>4, FS_Surjection
<1>6. t \in [1 .. Len(s) -> Range(s)] /\ \A i, j \in 1 .. Len(s) : i # j => t[i] # t[j]
  BY <1>5 DEF SetToSeqs
<1>7. t \in Injection(1 .. Len(s), Range(s))
  BY <1>6 DEF Injection, IsInjective
<1>8. t \in Surjection(1 .. Len(s), Range(s))
  BY <1>3, <1>5, <1>7, FS_Injection
<1>9. Range(t) = Range(s)
  <2>1. DOMAIN t = 1 .. Len(s) /\ \A e \in Range(s) : \E i \in 1 .. Len(s) : t[i] = e
    BY <1>6, <1>8 DEF Surjection
  <2>2. \A i \in 1 .. Len(s) : t[i] \in Range(s)
    BY <1>6
  <2>. QED BY <2>1, <2>2 DEF Range
<1>10. t \in Seq(T) /\ Len(t) = Len(s)
  BY <1>1, <1>2, <1>6
<1>. QED BY <1>7, <1>9, <1>10 DEF Injection

\* A persistent index is in the row that has its element.
LEMMA IndexOfRight ==
  ASSUME NEW T, None \notin T, NEW s \in Seq(T), NEW id, id \in Range(s) \/ id = None
  PROVE  IndexOf(s, id) \in 0 .. Len(s) /\ At(s, IndexOf(s, id)) = id
<1>1. Len(s) \in Nat /\ DOMAIN s = 1 .. Len(s) /\ \A i \in 1 .. Len(s) : s[i] \in T
  BY LenProperties, ElementOfSeq
<1> DEFINE places == {i \in 1 .. Len(s) : s[i] = id}
<1>2. IndexOf(s, id) = IF places # {} THEN Min(places) ELSE 0
  BY DEF IndexOf, SelectInSeq
<1>3. CASE places # {}
  <2>1. PICK least \in places : \A i \in places : least <= i
    <3>1. places \in SUBSET Nat
      BY <1>1
    <3>. QED BY <1>3, <3>1, LeastNumber
  <2>2. Min(places) \in places
    BY <2>1 DEF Min
  <2>. QED BY <1>1, <1>2, <1>3, <2>2 DEF At
<1>4. CASE places = {}
  <2>1. id = None
    BY <1>1, <1>4 DEF Range
  <2>2. IndexOf(s, id) = 0 /\ 0 \notin 1 .. Len(s) /\ 0 \in 0 .. Len(s)
    BY <1>1, <1>2, <1>4
  <2>. QED BY <1>1, <2>1, <2>2 DEF At
<1>. QED BY <1>3, <1>4

\* A function on row numbers is a sequence of rows.
LEMMA RowsByNumber ==
  ASSUME NEW T, NEW n \in Nat, NEW f, f = [i \in 1 .. n |-> f[i]], \A i \in 1 .. n : f[i] \in T
  PROVE  f \in Seq(T) /\ Len(f) = n
<1>1. f \in [1 .. n -> T]
  OBVIOUS
<1>. QED BY <1>1
-----------------------------------------------------------------------------
(* The invariant *)

Mapping   == [column : 0 .. MaxColumn, columnRole : ColumnRoles, of : ColumnIds \cup {None}]
CellShown == (RowIds \cup {None, "outdated"}) \X (ColumnIds \cup {None}) \X (ColumnRoles \cup {None})
RowShown  == [DataRoles -> CellShown]

TableTypes ==
  /\ hasSource \in BOOLEAN
  /\ columns \in Seq(ColumnIds) /\ IsInjective(columns)
  /\ rows \in Seq(RowIds) /\ IsInjective(rows)

MappingTypes == DOMAIN m_roleMappings \subseteq DataRoles /\ m_roleMappings \in [DOMAIN m_roleMappings -> Mapping]

\* What has been announced is what the source is about to do.
Inserting ==
  \E new \in Distinct(RowIds \ Range(rows)), at \in 1 .. Len(rows) + 1 :
    /\ change.rows = WithRowsAt(rows, at, new)
    /\ begun = [kind |-> "insert", first |-> at, last |-> at + Len(new) - 1, to |-> 0]
Removing ==
  \E first \in 1 .. Len(rows) : \E last \in first .. Len(rows) :
    /\ change.rows = WithoutRows(rows, first, last)
    /\ begun = [kind |-> "remove", first |-> first, last |-> last, to |-> 0]
Moving ==
  \E first \in 1 .. Len(rows) : \E last \in first .. Len(rows) : \E to \in MoveTargets(Len(rows), first, last) :
    /\ change.rows = WithRowsMoved(rows, first, last, to)
    /\ begun = [kind |-> "move", first |-> first, last |-> last, to |-> to]

RowOps == {"rowsInserted", "rowsRemoved", "rowsMoved"}
Announced ==
  /\ change.op \in RowOps \cup {"none", "reset", "layout", "verticalSort", "horizontalSort"}
  /\ change.op = "none" => Idle
  /\ change.op \notin RowOps => begun = NotBegun
  /\ change.op = "rowsInserted" => Inserting
  /\ change.op = "rowsRemoved" => Removing
  /\ change.op = "rowsMoved" =>
       /\ change.fromRoot \in BOOLEAN /\ change.toRoot \in BOOLEAN
       /\ ~change.fromRoot => change.toRoot /\ Inserting
       /\ change.fromRoot /\ ~change.toRoot => Removing
       /\ change.fromRoot /\ change.toRoot => Moving

\* What is saved before a layout change is there until it is over.
Saved ==
  /\ change.op = "reset" \/ (change.op = "layout" /\ HasChildren) => resetting
  /\ change.op = "verticalSort" => change.saved = IF HasChildren /\ pin # None THEN At(rows, pin.row) ELSE None
  /\ change.op = "horizontalSort" =>
       change.saved = IF HasChildren THEN [r \in DOMAIN m_roleMappings |-> At(columns, m_roleMappings[r].column)] ELSE <<>>

\* A view has as many rows as the proxy.
FollowerTypes ==
  /\ resetting \in BOOLEAN
  /\ ~resetting => view \in Seq(RowShown) /\ Len(view) = Len(rows)
  /\ pin # None => pin \in [row : Nat, of : RowIds]

TableInv == TableTypes /\ MappingTypes /\ Announced /\ Saved /\ FollowerTypes

\* Every role shows its column after a step if it did before or is mapped anew.
RolesKept ==
  \A r \in DOMAIN m_roleMappings' :
    (Mapped(r) => ShowsItsColumn(r)) => At(columns', m_roleMappings'[r].column) = m_roleMappings'[r].of

\* A step does nothing wrong but what it is known for.
StepRight ==
  /\ \A r \in DOMAIN m_roleMappings' :
       (Mapped(r) => ShowsItsColumn(r))
         => \/ At(columns', m_roleMappings'[r].column) = m_roleMappings'[r].of
            \/ Unhinted \/ Overlooked \/ (Mapped(r) /\ MovedLeft(r))
  /\ ViewRight => ViewRight' \/ Overlooked \/ \E r \in DOMAIN m_roleMappings : MovedLeft(r)
  /\ PinRight => PinRight' \/ Overlooked
-----------------------------------------------------------------------------
(* What the proxy shows *)

\* A source cannot have more columns than there are.
LEMMA ColumnNumbers ==
  ASSUME TableTypes
  PROVE  Len(columns) \in Nat /\ Len(columns) <= MaxColumn /\ DOMAIN columns = 1 .. Len(columns)
<1>1. /\ Len(columns) \in Nat /\ DOMAIN columns = 1 .. Len(columns) /\ columns \in [1 .. Len(columns) -> ColumnIds]
      /\ IsInjective(columns)
  BY LenProperties DEF TableTypes
<1>2. columns \in Injection(1 .. Len(columns), ColumnIds)
  BY <1>1 DEF Injection
<1>3. IsFiniteSet(ColumnIds) /\ MaxColumn \in Nat /\ Cardinality(ColumnIds) <= MaxColumn
  BY TableToListAssumption
<1>4. Cardinality(1 .. Len(columns)) <= Cardinality(ColumnIds)
  BY <1>2, <1>3, FS_Injection
<1>5. Cardinality(1 .. Len(columns)) = Len(columns) /\ Cardinality(ColumnIds) \in Nat
  <2>1. Cardinality(1 .. Len(columns)) = IF 1 > Len(columns) THEN 0 ELSE Len(columns) - 1 + 1
    BY <1>1, FS_Interval
  <2>2. Cardinality(ColumnIds) \in Nat
    BY <1>3, FS_CardinalityType
  <2>. QED BY <1>1, <2>1, <2>2
<1>. QED BY <1>1, <1>3, <1>4, <1>5

\* The columns of mappings are numbers.
LEMMA MappingRight ==
  ASSUME MappingTypes, NEW r \in DOMAIN m_roleMappings
  PROVE  /\ m_roleMappings[r] \in Mapping /\ m_roleMappings[r].column \in Nat
         /\ m_roleMappings[r].column \in 0 .. MaxColumn /\ m_roleMappings[r].columnRole \in ColumnRoles
         /\ m_roleMappings[r].of \in ColumnIds \cup {None} /\ r \in DataRoles
BY TableToListAssumption DEF MappingTypes, Mapping

\* data() shows the column that a mapping is at.
DataOfMappings ==
  \A p, r : Data(p, r) = IF r \in DOMAIN m_roleMappings /\ At(columns, m_roleMappings[r].column) # None
                         THEN <<rows[p], At(columns, m_roleMappings[r].column), m_roleMappings[r].columnRole>>
                         ELSE <<None, None, None>>
\* It is so whatever the mappings are.
LEMMA DataRight == TableTypes /\ MappingTypes => DataOfMappings
<1> SUFFICES ASSUME TableTypes, MappingTypes PROVE DataOfMappings
  OBVIOUS
<1>1. DOMAIN columns = 1 .. Len(columns) /\ \A i \in 1 .. Len(columns) : columns[i] \in ColumnIds
  BY LenProperties, ElementOfSeq DEF TableTypes
<1>2. \A i \in DOMAIN columns : columns[i] # None
  BY <1>1, TableToListAssumption
<1>. QED BY <1>2 DEF Data, Mapped, At, DataOfMappings

\* All that data() shows.
AllDataShown ==
  /\ AllData \in Seq(RowShown) /\ Len(AllData) = Len(rows) /\ Len(rows) \in Nat
  /\ \A p \in 1 .. Len(rows) : AllData[p] = [r \in DataRoles |-> Data(p, r)]
  /\ \A p \in 1 .. Len(rows), r \in DataRoles : AllData[p][r] = Data(p, r)
\* It has a row for each row of the source, and each row a cell for each role.
LEMMA AllDataRight == TableTypes /\ MappingTypes => AllDataShown
<1> SUFFICES ASSUME TableTypes, MappingTypes PROVE AllDataShown
  OBVIOUS
<1>1. Len(rows) \in Nat /\ DOMAIN rows = 1 .. Len(rows) /\ \A p \in 1 .. Len(rows) : rows[p] \in RowIds
  BY LenProperties, ElementOfSeq DEF TableTypes
<1>2. ASSUME NEW r \in DOMAIN m_roleMappings PROVE At(columns, m_roleMappings[r].column) \in ColumnIds \cup {None}
  <2>1. DOMAIN columns = 1 .. Len(columns) /\ \A i \in 1 .. Len(columns) : columns[i] \in ColumnIds
    BY LenProperties, ElementOfSeq DEF TableTypes
  <2>. QED BY <2>1 DEF At
<1>3. ASSUME NEW p \in 1 .. Len(rows), NEW r \in DataRoles PROVE Data(p, r) \in CellShown
  <2>1. CASE r \in DOMAIN m_roleMappings /\ At(columns, m_roleMappings[r].column) # None
    <3>1. Data(p, r) = <<rows[p], At(columns, m_roleMappings[r].column), m_roleMappings[r].columnRole>>
      BY <2>1, DataRight DEF DataOfMappings
    <3>2. m_roleMappings[r].columnRole \in ColumnRoles
      BY <2>1, MappingRight
    <3>. QED BY <1>1, <1>2, <2>1, <3>1, <3>2 DEF CellShown
  <2>2. CASE ~(r \in DOMAIN m_roleMappings /\ At(columns, m_roleMappings[r].column) # None)
    <3>1. Data(p, r) = <<None, None, None>>
      BY <2>2, DataRight DEF DataOfMappings
    <3>. QED BY <3>1 DEF CellShown
  <2>. QED BY <2>1, <2>2
<1>4. AllData = [p \in 1 .. Len(rows) |-> [r \in DataRoles |-> Data(p, r)]]
  BY <1>1 DEF AllData
<1>5. \A p \in 1 .. Len(rows) : [r \in DataRoles |-> Data(p, r)] \in RowShown
  BY <1>3 DEF RowShown
<1>6. AllData \in Seq(RowShown) /\ Len(AllData) = Len(rows)
  BY <1>1, <1>4, <1>5
<1>. QED BY <1>1, <1>4, <1>6 DEF AllDataShown

\* A view that has read everything again has what the proxy shows.
LEMMA ResetRight ==
  ASSUME TableTypes', MappingTypes', EndReset, change' = NoChange, begun' = NotBegun
  PROVE  Announced' /\ Saved' /\ FollowerTypes' /\ ViewRight' /\ PinRight'
<1>1. resetting' = FALSE /\ view' = AllData' /\ pin' = None
  BY DEF EndReset
<1>2. AllDataShown'
  BY AllDataRight, PTL
<1>3. FollowerTypes'
  BY <1>1, <1>2 DEF FollowerTypes, AllDataShown
<1>4. Announced' /\ Saved'
  BY DEF Announced, Saved, NoChange, Idle, RowOps
<1>5. ViewRight' /\ PinRight'
  BY <1>1 DEF ViewRight, PinRight
<1>. QED BY <1>3, <1>4, <1>5
-----------------------------------------------------------------------------
(* Steps after which a view reads everything again *)

\* A model without a source shows nothing.
LEMMA TableInvInit == Init => TableInv
<1> SUFFICES ASSUME Init PROVE TableInv
  OBVIOUS
<1>1. \A T : <<>> \in Seq(T) /\ Len(<<>>) = 0
  BY EmptySeq
<1>2. DOMAIN <<>> = {}
  BY <1>1, LenProperties
<1>3. TableTypes
  BY <1>1, <1>2 DEF Init, TableTypes, IsInjective
<1>4. MappingTypes
  BY <1>2 DEF Init, MappingTypes
<1>5. Announced /\ Saved
  BY DEF Init, Announced, Saved, NoChange, Idle, RowOps
<1>6. FollowerTypes
  BY <1>1 DEF Init, FollowerTypes
<1>. QED BY <1>3, <1>4, <1>5, <1>6 DEF TableInv

\* A table that a source has.
LEMMA TableRight ==
  ASSUME NEW t \in Tables
  PROVE  t.columns \in Seq(ColumnIds) /\ IsInjective(t.columns) /\ t.rows \in Seq(RowIds) /\ IsInjective(t.rows)
<1>1. t.columns \in Distinct(ColumnIds) /\ t.rows \in Distinct(RowIds) /\ IsFiniteSet(ColumnIds) /\ IsFiniteSet(RowIds)
  BY TableToListAssumption
<1>. QED BY <1>1, DistinctRight

\* Mappings that stand for the columns they are at.
LEMMA RemappedRight ==
  ASSUME MappingTypes, TableTypes', m_roleMappings' = Remapped
  PROVE  MappingTypes' /\ RolesKept
<1>1. \A i : At(columns', i) \in ColumnIds \cup {None}
  <2>1. DOMAIN columns' = 1 .. Len(columns') /\ \A i \in 1 .. Len(columns') : columns'[i] \in ColumnIds
    BY LenProperties, ElementOfSeq DEF TableTypes
  <2>. QED BY <2>1 DEF At
<1>2. DOMAIN m_roleMappings' = DOMAIN m_roleMappings
  BY DEF Remapped
<1>3. ASSUME NEW r \in DOMAIN m_roleMappings
      PROVE  m_roleMappings'[r] = [column |-> m_roleMappings[r].column, columnRole |-> m_roleMappings[r].columnRole,
                                   of |-> At(columns', m_roleMappings[r].column)]
             /\ m_roleMappings'[r] \in Mapping
  <2>1. m_roleMappings[r] \in Mapping
    BY MappingRight
  <2>2. m_roleMappings'[r] = [m_roleMappings[r] EXCEPT !.of = At(columns', m_roleMappings[r].column)]
    BY DEF Remapped
  <2>3. m_roleMappings'[r] = [column |-> m_roleMappings[r].column, columnRole |-> m_roleMappings[r].columnRole,
                              of |-> At(columns', m_roleMappings[r].column)]
    BY <2>1, <2>2 DEF Mapping
  <2>. QED BY <1>1, <2>1, <2>3 DEF Mapping
<1>4. m_roleMappings' = [r \in DOMAIN m_roleMappings' |-> m_roleMappings'[r]]
  BY DEF Remapped
<1>5. MappingTypes'
  BY <1>2, <1>3, <1>4 DEF MappingTypes
<1>6. RolesKept
  BY <1>2, <1>3 DEF RolesKept
<1>. QED BY <1>5, <1>6

\* Tables and columns with a new meaning.
LEMMA NewMeaningStep ==
  ASSUME TableInv, TableTypes', m_roleMappings' = Remapped, EndReset, change' = NoChange, begun' = NotBegun
  PROVE  TableInv' /\ StepRight
<1>1. MappingTypes' /\ RolesKept
  BY RemappedRight DEF TableInv
<1>2. Announced' /\ Saved' /\ FollowerTypes' /\ ViewRight' /\ PinRight'
  BY <1>1, ResetRight
<1>. QED BY <1>1, <1>2 DEF TableInv, StepRight, RolesKept

\* setSourceModel()
LEMMA SetSourceModelStep ==
  ASSUME TableInv, NEW has \in BOOLEAN, NEW t \in Tables \cup {NoTable}, SetSourceModel(has, t)
  PROVE  TableInv' /\ StepRight
<1>1. t.columns \in Seq(ColumnIds) /\ IsInjective(t.columns) /\ t.rows \in Seq(RowIds) /\ IsInjective(t.rows)
  <2>1. CASE t \in Tables
    BY <2>1, TableRight
  <2>2. CASE t = NoTable
    <3>1. t.columns = <<>> /\ t.rows = <<>>
      BY <2>2 DEF NoTable
    <3>2. \A T : <<>> \in Seq(T) /\ Len(<<>>) = 0
      BY EmptySeq
    <3>3. DOMAIN <<>> = {}
      BY <3>2, LenProperties
    <3>. QED BY <3>1, <3>2, <3>3 DEF IsInjective
  <2>. QED BY <2>1, <2>2
<1>2. /\ hasSource' = has /\ columns' = t.columns /\ rows' = t.rows /\ m_roleMappings' = Remapped /\ EndReset
      /\ change' = NoChange /\ begun' = begun /\ change = NoChange
  BY DEF SetSourceModel, Idle
<1>3. TableTypes'
  BY <1>1, <1>2 DEF TableTypes
<1>4. begun = NotBegun
  BY <1>2 DEF TableInv, Announced, NoChange, RowOps
<1>. QED BY <1>2, <1>3, <1>4, NewMeaningStep

\* setRoleMapping()
LEMMA SetRoleMappingStep == TableInv /\ SetRoleMapping => TableInv' /\ StepRight
<1> SUFFICES ASSUME TableInv, SetRoleMapping PROVE TableInv' /\ StepRight
  OBVIOUS
<1>1. /\ UNCHANGED <<hasSource, columns, rows>> /\ change' = NoChange /\ begun' = NotBegun /\ EndReset
  BY DEF SetRoleMapping, table, Idle, TableInv, Announced, NoChange, RowOps
<1>2. TableTypes'
  BY <1>1 DEF TableInv, TableTypes
<1>3. PICK role \in DataRoles, column \in DOMAIN columns, columnRole \in ColumnRoles :
        m_roleMappings' = [r \in DOMAIN m_roleMappings \cup {role} |->
          IF r = role THEN [column |-> column, columnRole |-> columnRole, of |-> columns[column]] ELSE m_roleMappings[r]]
  BY DEF SetRoleMapping
<1>4. column \in 0 .. MaxColumn /\ columns[column] \in ColumnIds
  <2>1. TableTypes
    BY DEF TableInv
  <2>2. column \in 1 .. Len(columns) /\ Len(columns) \in Nat /\ Len(columns) <= MaxColumn
    BY <2>1, ColumnNumbers
  <2>. QED BY <2>1, <2>2, ElementOfSeq, TableToListAssumption DEF TableTypes
<1>5. MappingTypes'
  <2>1. ASSUME NEW r \in DOMAIN m_roleMappings PROVE m_roleMappings[r] \in Mapping /\ r \in DataRoles
    BY MappingRight DEF TableInv
  <2>2. [column |-> column, columnRole |-> columnRole, of |-> columns[column]] \in Mapping
    BY <1>4 DEF Mapping
  <2>. QED BY <1>3, <2>1, <2>2 DEF MappingTypes
<1>6. RolesKept
  <2> SUFFICES ASSUME NEW r \in DOMAIN m_roleMappings', Mapped(r) => ShowsItsColumn(r)
               PROVE  At(columns, m_roleMappings'[r].column) = m_roleMappings'[r].of
    BY <1>1 DEF RolesKept
  <2>1. CASE r = role
    BY <1>3, <2>1 DEF At
  <2>2. CASE r # role
    <3>1. r \in DOMAIN m_roleMappings /\ m_roleMappings'[r] = m_roleMappings[r]
      BY <1>3, <2>2
    <3>. QED BY <3>1 DEF Mapped, ShowsItsColumn
  <2>. QED BY <2>1, <2>2
<1>7. Announced' /\ Saved' /\ FollowerTypes' /\ ViewRight' /\ PinRight'
  BY <1>1, <1>2, <1>5, ResetRight
<1>. QED BY <1>2, <1>5, <1>6, <1>7 DEF TableInv, StepRight, RolesKept

\* unsetRoleMapping()
LEMMA UnsetRoleMappingStep == TableInv /\ UnsetRoleMapping => TableInv' /\ StepRight
<1> SUFFICES ASSUME TableInv, UnsetRoleMapping PROVE TableInv' /\ StepRight
  OBVIOUS
<1>1. /\ UNCHANGED <<hasSource, columns, rows>> /\ change' = NoChange /\ begun' = NotBegun /\ EndReset
  BY DEF UnsetRoleMapping, table, Idle, TableInv, Announced, NoChange, RowOps
<1>2. TableTypes'
  BY <1>1 DEF TableInv, TableTypes
<1>3. PICK role : m_roleMappings' = [r \in DOMAIN m_roleMappings \ {role} |-> m_roleMappings[r]]
  BY DEF UnsetRoleMapping, Restrict
<1>4. MappingTypes'
  BY <1>3 DEF TableInv, MappingTypes
<1>5. RolesKept
  BY <1>1, <1>3 DEF RolesKept, Mapped, ShowsItsColumn
<1>6. Announced' /\ Saved' /\ FollowerTypes' /\ ViewRight' /\ PinRight'
  BY <1>1, <1>2, <1>4, ResetRight
<1>. QED BY <1>2, <1>4, <1>5, <1>6 DEF TableInv, StepRight, RolesKept

\* A reset of the source begins, ...
LEMMA ModelAboutToBeResetStep == TableInv /\ ModelAboutToBeReset => TableInv' /\ StepRight
<1> SUFFICES ASSUME TableInv, ModelAboutToBeReset PROVE TableInv' /\ StepRight
  OBVIOUS
<1>1. /\ UNCHANGED <<hasSource, columns, rows, m_roleMappings, begun>> /\ change = NoChange /\ change' = [op |-> "reset"]
      /\ resetting' = TRUE /\ pin' = None
  BY DEF ModelAboutToBeReset, table, Idle, BeginReset
<1>2. TableTypes' /\ MappingTypes'
  BY <1>1 DEF TableInv, TableTypes, MappingTypes
<1>3. Announced'
  BY <1>1 DEF TableInv, Announced, NoChange, RowOps
<1>4. Saved' /\ FollowerTypes'
  BY <1>1 DEF Saved, FollowerTypes
<1>5. StepRight
  BY <1>1 DEF StepRight, Mapped, ShowsItsColumn, ViewRight, PinRight
<1>. QED BY <1>2, <1>3, <1>4, <1>5 DEF TableInv

\* ... and ends.
LEMMA ModelResetStep == TableInv /\ ModelReset => TableInv' /\ StepRight
<1> SUFFICES ASSUME TableInv, ModelReset PROVE TableInv' /\ StepRight
  OBVIOUS
<1>1. PICK t \in Tables : columns' = t.columns /\ rows' = t.rows
  BY DEF ModelReset
<1>2. /\ hasSource' = hasSource /\ change' = NoChange /\ m_roleMappings' = Remapped /\ EndReset
      /\ begun' = begun /\ change.op = "reset"
  BY DEF ModelReset
<1>3. TableTypes'
  BY <1>1, <1>2, TableRight DEF TableInv, TableTypes
<1>4. begun = NotBegun
  BY <1>2 DEF TableInv, Announced, RowOps
<1>. QED BY <1>2, <1>3, <1>4, NewMeaningStep
-----------------------------------------------------------------------------
(* Layout changes *)

\* Mappings that have gone with their columns.
Carried ==
  /\ rows' = rows
  /\ \A r \in DOMAIN m_roleMappings' :
       /\ r \in DOMAIN m_roleMappings
       /\ At(columns', m_roleMappings'[r].column) = At(columns, m_roleMappings[r].column)
       /\ m_roleMappings'[r].columnRole = m_roleMappings[r].columnRole
       /\ m_roleMappings'[r].of = m_roleMappings[r].of

\* They show what they have shown before.
LEMMA CarriedRight ==
  ASSUME TableTypes, MappingTypes, TableTypes', MappingTypes', Carried
  PROVE  /\ RolesKept
         /\ \A p, r : r \in DOMAIN m_roleMappings' \/ r \notin DOMAIN m_roleMappings => Data(p, r)' = Data(p, r)
         /\ DOMAIN m_roleMappings' = DOMAIN m_roleMappings => AllData' = AllData
<1>1. DataOfMappings /\ DataOfMappings'
  BY DataRight, PTL
<1>2. RolesKept
  BY DEF RolesKept, Mapped, ShowsItsColumn, Carried
<1>3. ASSUME NEW p, NEW r, r \in DOMAIN m_roleMappings' \/ r \notin DOMAIN m_roleMappings PROVE Data(p, r)' = Data(p, r)
  <2>1. r \in DOMAIN m_roleMappings' <=> r \in DOMAIN m_roleMappings
    BY <1>3 DEF Carried
  <2>2. CASE r \in DOMAIN m_roleMappings
    <3>1. /\ At(columns', m_roleMappings'[r].column) = At(columns, m_roleMappings[r].column) /\ rows' = rows
          /\ m_roleMappings'[r].columnRole = m_roleMappings[r].columnRole
      BY <2>1, <2>2 DEF Carried
    <3>. QED BY <1>1, <2>1, <2>2, <3>1 DEF DataOfMappings
  <2>3. CASE r \notin DOMAIN m_roleMappings
    BY <1>1, <2>1, <2>3 DEF DataOfMappings
  <2>. QED BY <2>2, <2>3
<1>4. ASSUME DOMAIN m_roleMappings' = DOMAIN m_roleMappings PROVE AllData' = AllData
  <2>1. \A p, r : Data(p, r)' = Data(p, r)
    BY <1>3, <1>4
  <2>. QED BY <2>1 DEF AllData, Carried
<1>. QED BY <1>2, <1>3, <1>4

\* A layout change begins.
LEMMA LayoutAboutToBeChangedStep == TableInv /\ LayoutAboutToBeChanged => TableInv' /\ StepRight
<1> SUFFICES ASSUME TableInv, LayoutAboutToBeChanged PROVE TableInv' /\ StepRight
  OBVIOUS
<1>1. /\ UNCHANGED <<hasSource, columns, rows, m_roleMappings, begun>> /\ change = NoChange /\ begun = NotBegun
  BY DEF LayoutAboutToBeChanged, table, Idle, TableInv, Announced, NoChange, RowOps
<1>2. TableTypes' /\ MappingTypes' /\ HasChildren' = HasChildren
  BY <1>1 DEF TableInv, TableTypes, MappingTypes, HasChildren
<1>3. PICK row, cols : /\ row = IF HasChildren /\ pin # None THEN At(rows, pin.row) ELSE None
                       /\ cols = IF HasChildren THEN [r \in DOMAIN m_roleMappings |-> At(columns, m_roleMappings[r].column)]
                                 ELSE <<>>
  OBVIOUS
<1>4. \/ change' = [op |-> "layout"] /\ IF HasChildren THEN BeginReset ELSE UNCHANGED <<resetting, view, pin>>
      \/ change' = [op |-> "verticalSort", saved |-> row] /\ UNCHANGED <<resetting, view, pin>>
      \/ change' = [op |-> "horizontalSort", saved |-> cols] /\ UNCHANGED <<resetting, view, pin>>
  BY <1>3 DEF LayoutAboutToBeChanged
<1>5. Announced'
  BY <1>1, <1>4 DEF Announced, RowOps
<1>6. Saved' /\ ((resetting' = TRUE /\ pin' = None) \/ UNCHANGED <<resetting, view, pin>>)
  <2>1. CASE change' = [op |-> "layout"] /\ IF HasChildren THEN BeginReset ELSE UNCHANGED <<resetting, view, pin>>
    BY <1>2, <2>1 DEF Saved, BeginReset
  <2>2. CASE change' = [op |-> "verticalSort", saved |-> row] /\ UNCHANGED <<resetting, view, pin>>
    <3>1. row = IF HasChildren' /\ pin' # None THEN At(rows', pin'.row) ELSE None
      BY <1>1, <1>2, <1>3, <2>2
    <3>. QED BY <2>2, <3>1 DEF Saved
  <2>3. CASE change' = [op |-> "horizontalSort", saved |-> cols] /\ UNCHANGED <<resetting, view, pin>>
    <3>1. cols = IF HasChildren' THEN [r \in DOMAIN m_roleMappings' |-> At(columns', m_roleMappings'[r].column)] ELSE <<>>
      BY <1>1, <1>2, <1>3
    <3>. QED BY <2>3, <3>1 DEF Saved
  <2>. QED BY <1>4, <2>1, <2>2, <2>3
<1>7. FollowerTypes'
  <2>1. CASE resetting' = TRUE /\ pin' = None
    BY <2>1 DEF FollowerTypes
  <2>2. CASE UNCHANGED <<resetting, view, pin>>
    BY <1>1, <2>2 DEF TableInv, FollowerTypes
  <2>. QED BY <1>6, <2>1, <2>2
<1>8. AllData' = AllData
  BY <1>1 DEF AllData, Data, Mapped
<1>9. StepRight
  BY <1>1, <1>6, <1>8 DEF StepRight, Mapped, ShowsItsColumn, ViewRight, PinRight
<1>. QED BY <1>2, <1>5, <1>6, <1>7, <1>9 DEF TableInv

\* A layout change of which nothing is known ends.
LEMMA LayoutChangedStep == TableInv /\ LayoutChanged => TableInv' /\ StepRight
<1> SUFFICES ASSUME TableInv, LayoutChanged PROVE TableInv' /\ StepRight
  OBVIOUS
<1>1. PICK t \in Tables : columns' = t.columns /\ rows' = t.rows
  BY DEF LayoutChanged
<1>2. /\ change.op = "layout" /\ hasSource' = hasSource /\ change' = NoChange /\ m_roleMappings' = m_roleMappings
      /\ begun' = begun /\ (~HasChildren /\ ~HasChildren' => Len(rows') = Len(rows))
      /\ IF HasChildren' THEN EndReset ELSE UNCHANGED <<resetting, view, pin>>
  BY DEF LayoutChanged
<1>3. TableTypes' /\ MappingTypes'
  BY <1>1, <1>2, TableRight DEF TableInv, TableTypes, MappingTypes
<1>4. begun' = NotBegun /\ Unhinted
  BY <1>2 DEF TableInv, Announced, RowOps, Unhinted
<1>5. CASE HasChildren'
  <2>1. Announced' /\ Saved' /\ FollowerTypes' /\ ViewRight' /\ PinRight'
    BY <1>2, <1>3, <1>4, <1>5, ResetRight
  <2>. QED BY <1>3, <1>4, <2>1 DEF TableInv, StepRight
<1>6. CASE ~HasChildren'
  <2>1. UNCHANGED <<resetting, view, pin>>
    BY <1>2, <1>6
  <2>2. HasChildren => resetting
    BY <1>2 DEF TableInv, Saved
  <2>3. ~HasChildren => Overlooked /\ Len(rows') = Len(rows)
    BY <1>2, <1>6 DEF Overlooked
  <2>4. Announced' /\ Saved'
    BY <1>2, <1>4 DEF Announced, Saved, NoChange, Idle, RowOps
  <2>5. FollowerTypes'
    BY <2>1, <2>2, <2>3 DEF TableInv, FollowerTypes
  <2>6. StepRight
    BY <1>4, <2>1, <2>2, <2>3 DEF StepRight, ViewRight, PinRight
  <2>. QED BY <1>3, <2>4, <2>5, <2>6 DEF TableInv
<1>. QED BY <1>5, <1>6

\* The source has sorted its rows.
LEMMA RowsSortedStep == TableInv /\ RowsSorted => TableInv' /\ StepRight
<1> SUFFICES ASSUME TableInv, RowsSorted PROVE TableInv' /\ StepRight
  OBVIOUS
<1>1. /\ change.op = "verticalSort" /\ UNCHANGED <<hasSource, columns, m_roleMappings, begun, resetting>>
      /\ change' = NoChange /\ rows' \in SetToSeqs(Range(rows))
      /\ view' = IF HasChildren /\ ~resetting THEN AllData' ELSE view
      /\ pin' = IF change.saved # None THEN [pin EXCEPT !.row = IndexOf(rows', change.saved)] ELSE pin
      /\ change.saved = IF HasChildren /\ pin # None THEN At(rows, pin.row) ELSE None
  BY DEF RowsSorted, TableInv, Saved
<1>2. rows \in Seq(RowIds) /\ IsInjective(rows) /\ None \notin RowIds /\ IsFiniteSet(RowIds)
  BY TableToListAssumption DEF TableInv, TableTypes
<1>3. rows' \in Seq(RowIds) /\ Len(rows') = Len(rows) /\ IsInjective(rows') /\ Range(rows') = Range(rows)
  BY <1>1, <1>2, SortedRight
<1>4. TableTypes' /\ MappingTypes'
  BY <1>1, <1>3 DEF TableInv, TableTypes, MappingTypes
<1>5. HasChildren' <=> HasChildren
  <2>1. rows = <<>> <=> Len(rows) = 0
    BY <1>2, EmptySeq
  <2>2. rows' = <<>> <=> Len(rows') = 0
    BY <1>3, EmptySeq
  <2>. QED BY <1>1, <1>3, <2>1, <2>2 DEF HasChildren
<1>6. begun' = NotBegun
  BY <1>1 DEF TableInv, Announced, RowOps
<1>7. Announced' /\ Saved'
  BY <1>1, <1>6 DEF Announced, Saved, NoChange, Idle, RowOps
<1>8. AllDataShown'
  BY <1>4, AllDataRight, PTL
<1>9. /\ change.saved # None => /\ pin \in [row : Nat, of : RowIds]
                                 /\ pin' = [row |-> IndexOf(rows', change.saved), of |-> pin.of]
                                 /\ IndexOf(rows', change.saved) \in Nat
                                 /\ At(rows', IndexOf(rows', change.saved)) = change.saved
      /\ change.saved = None => pin' = pin
  <2>1. CASE change.saved # None
    <3>1. pin # None /\ HasChildren /\ change.saved = At(rows, pin.row)
      BY <1>1, <2>1
    <3>2. pin \in [row : Nat, of : RowIds]
      BY <3>1 DEF TableInv, FollowerTypes
    <3>3. change.saved \in Range(rows')
      BY <1>3, <2>1, <3>1 DEF At, Range
    <3>4. IndexOf(rows', change.saved) \in 0 .. Len(rows') /\ At(rows', IndexOf(rows', change.saved)) = change.saved
      BY <1>2, <1>3, <3>3, IndexOfRight
    <3>5. Len(rows') \in Nat
      BY <1>3, LenProperties
    <3>. QED BY <1>1, <2>1, <3>2, <3>4, <3>5
  <2>2. CASE change.saved = None
    BY <1>1, <2>2
  <2>. QED BY <2>1, <2>2
<1>10. FollowerTypes'
  <2>1. pin' # None => pin' \in [row : Nat, of : RowIds]
    BY <1>9 DEF TableInv, FollowerTypes
  <2>2. ~resetting' => view' \in Seq(RowShown) /\ Len(view') = Len(rows')
    BY <1>1, <1>3, <1>8 DEF TableInv, FollowerTypes, AllDataShown
  <2>. QED BY <1>1, <2>1, <2>2 DEF TableInv, FollowerTypes
<1>11. RolesKept
  BY <1>1 DEF RolesKept, Mapped, ShowsItsColumn
<1>12. ~HasChildren => Overlooked
  BY <1>1, <1>5 DEF Overlooked
<1>13. HasChildren => ViewRight'
  BY <1>1 DEF ViewRight, TableInv, FollowerTypes
<1>14. ASSUME HasChildren, PinRight PROVE PinRight'
  <2>1. CASE pin = None \/ resetting
    BY <1>1, <2>1 DEF PinRight
  <2>2. CASE pin # None /\ ~resetting
    <3>1. pin \in [row : Nat, of : RowIds] /\ At(rows, pin.row) = pin.of
      BY <1>14, <2>2 DEF TableInv, FollowerTypes, PinRight
    <3>2. change.saved = pin.of /\ change.saved # None
      BY <1>1, <1>2, <1>14, <2>2, <3>1
    <3>. QED BY <1>9, <3>2 DEF PinRight
  <2>. QED BY <2>1, <2>2
<1>15. StepRight
  BY <1>11, <1>12, <1>13, <1>14 DEF StepRight, RolesKept
<1>. QED BY <1>4, <1>7, <1>10, <1>15 DEF TableInv

\* The source has sorted its columns.
LEMMA ColumnsSortedStep == TableInv /\ ColumnsSorted => TableInv' /\ StepRight
<1> SUFFICES ASSUME TableInv, ColumnsSorted PROVE TableInv' /\ StepRight
  OBVIOUS
<1>1. /\ change.op = "horizontalSort" /\ change' = NoChange /\ columns' \in SetToSeqs(Range(columns))
      /\ UNCHANGED <<hasSource, rows, begun, resetting, view, pin>>
      /\ change.saved = IF HasChildren THEN [r \in DOMAIN m_roleMappings |-> At(columns, m_roleMappings[r].column)] ELSE <<>>
  BY DEF ColumnsSorted, TableInv, Saved
<1>2. columns \in Seq(ColumnIds) /\ IsInjective(columns) /\ None \notin ColumnIds /\ IsFiniteSet(ColumnIds)
  BY TableToListAssumption DEF TableInv, TableTypes
<1>3. columns' \in Seq(ColumnIds) /\ Len(columns') = Len(columns) /\ IsInjective(columns') /\ Range(columns') = Range(columns)
  BY <1>1, <1>2, SortedRight
<1>4. TableTypes'
  BY <1>1, <1>3 DEF TableInv, TableTypes
<1>5. begun' = NotBegun
  BY <1>1 DEF TableInv, Announced, RowOps
<1>6. Announced' /\ Saved'
  BY <1>1, <1>5 DEF Announced, Saved, NoChange, Idle, RowOps
<1>7. FollowerTypes'
  BY <1>1 DEF TableInv, FollowerTypes
<1>8. PinRight => PinRight'
  BY <1>1 DEF PinRight
<1>9. CASE HasChildren
  <2>1. m_roleMappings' = [r \in DOMAIN m_roleMappings |->
          [m_roleMappings[r] EXCEPT !.column = IndexOf(columns', At(columns, m_roleMappings[r].column))]]
    BY <1>1, <1>9 DEF ColumnsSorted
  <2>2. ASSUME NEW r \in DOMAIN m_roleMappings
        PROVE  /\ IndexOf(columns', At(columns, m_roleMappings[r].column)) \in 0 .. MaxColumn
               /\ At(columns', IndexOf(columns', At(columns, m_roleMappings[r].column))) = At(columns, m_roleMappings[r].column)
    <3>1. At(columns, m_roleMappings[r].column) \in Range(columns) \/ At(columns, m_roleMappings[r].column) = None
      BY DEF At, Range
    <3>2. PICK id : id = At(columns, m_roleMappings[r].column)
      OBVIOUS
    <3>3. IndexOf(columns', id) \in 0 .. Len(columns') /\ At(columns', IndexOf(columns', id)) = id
      BY <1>2, <1>3, <3>1, <3>2, IndexOfRight
    <3>4. Len(columns') \in Nat /\ Len(columns') <= MaxColumn
      BY <1>3, ColumnNumbers DEF TableInv
    <3>. QED BY <3>2, <3>3, <3>4, TableToListAssumption
  <2>3. ASSUME NEW r \in DOMAIN m_roleMappings
        PROVE  /\ m_roleMappings'[r] = [column |-> IndexOf(columns', At(columns, m_roleMappings[r].column)),
                                        columnRole |-> m_roleMappings[r].columnRole, of |-> m_roleMappings[r].of]
               /\ m_roleMappings'[r] \in Mapping /\ r \in DataRoles
    <3>1. m_roleMappings[r] \in Mapping /\ r \in DataRoles
      BY MappingRight DEF TableInv
    <3>2. PICK id : id = IndexOf(columns', At(columns, m_roleMappings[r].column))
      OBVIOUS
    <3>3. m_roleMappings'[r] = [m_roleMappings[r] EXCEPT !.column = id]
      BY <2>1, <3>2
    <3>4. m_roleMappings'[r] = [column |-> id, columnRole |-> m_roleMappings[r].columnRole, of |-> m_roleMappings[r].of]
      BY <3>1, <3>3 DEF Mapping
    <3>. QED BY <2>2, <3>1, <3>2, <3>4 DEF Mapping
  <2>4. DOMAIN m_roleMappings' = DOMAIN m_roleMappings /\ m_roleMappings' = [r \in DOMAIN m_roleMappings' |-> m_roleMappings'[r]]
    BY <2>1
  <2>5. MappingTypes'
    BY <2>3, <2>4 DEF MappingTypes
  <2>6. Carried
    BY <1>1, <2>2, <2>3, <2>4 DEF Carried
  <2>7. RolesKept /\ AllData' = AllData
    BY <1>4, <2>4, <2>5, <2>6, CarriedRight DEF TableInv
  <2>8. StepRight
    BY <1>1, <1>8, <2>7 DEF StepRight, RolesKept, ViewRight
  <2>. QED BY <1>4, <1>6, <1>7, <2>5, <2>8 DEF TableInv
<1>10. CASE ~HasChildren
  <2>1. m_roleMappings' = m_roleMappings
    BY <1>10 DEF ColumnsSorted
  <2>2. MappingTypes'
    BY <2>1 DEF TableInv, MappingTypes
  <2>3. columns' = <<>> <=> columns = <<>>
    <3>1. columns = <<>> <=> Len(columns) = 0
      BY <1>2, EmptySeq
    <3>2. columns' = <<>> <=> Len(columns') = 0
      BY <1>3, EmptySeq
    <3>. QED BY <1>3, <3>1, <3>2
  <2>4. Overlooked
    BY <1>1, <1>10, <2>3 DEF Overlooked, HasChildren
  <2>. QED BY <1>4, <1>6, <1>7, <2>2, <2>4 DEF TableInv, StepRight, RolesKept
<1>. QED BY <1>9, <1>10
-----------------------------------------------------------------------------
(* Columns *)

\* What SetColumns() makes of the mappings.
LEMMA SetColumnsRight ==
  ASSUME MappingTypes, NEW to, \A r \in DOMAIN m_roleMappings : to[m_roleMappings[r].column] \in 0 .. MaxColumn,
         m_roleMappings' = [r \in DOMAIN m_roleMappings |-> [m_roleMappings[r] EXCEPT !.column = to[m_roleMappings[r].column]]]
  PROVE  /\ MappingTypes' /\ DOMAIN m_roleMappings' = DOMAIN m_roleMappings
         /\ \A r \in DOMAIN m_roleMappings :
              m_roleMappings'[r] = [column |-> to[m_roleMappings[r].column],
                                    columnRole |-> m_roleMappings[r].columnRole, of |-> m_roleMappings[r].of]
<1>1. DOMAIN m_roleMappings' = DOMAIN m_roleMappings /\ m_roleMappings' = [r \in DOMAIN m_roleMappings' |-> m_roleMappings'[r]]
  OBVIOUS
<1>2. ASSUME NEW r \in DOMAIN m_roleMappings
      PROVE  /\ m_roleMappings'[r] = [column |-> to[m_roleMappings[r].column],
                                      columnRole |-> m_roleMappings[r].columnRole, of |-> m_roleMappings[r].of]
             /\ m_roleMappings'[r] \in Mapping /\ r \in DataRoles
  <2>1. m_roleMappings[r] \in Mapping /\ r \in DataRoles
    BY MappingRight
  <2>2. PICK c : c = to[m_roleMappings[r].column]
    OBVIOUS
  <2>3. m_roleMappings'[r] = [m_roleMappings[r] EXCEPT !.column = c]
    BY <2>2
  <2>4. m_roleMappings'[r] = [column |-> c, columnRole |-> m_roleMappings[r].columnRole, of |-> m_roleMappings[r].of]
    BY <2>1, <2>3 DEF Mapping
  <2>. QED BY <2>1, <2>2, <2>4 DEF Mapping
<1>3. MappingTypes'
  BY <1>1, <1>2 DEF MappingTypes
<1>. QED BY <1>1, <1>2, <1>3

\* Columns that come and go leave everything else as it is.
ColumnFrame == Idle /\ UNCHANGED <<hasSource, rows, change, begun, resetting, pin>>
\* What has been announced and saved still holds after it, and so does a persistent index.
LEMMA ColumnFrameRight ==
  ASSUME TableInv, ColumnFrame
  PROVE  /\ Announced' /\ Saved' /\ (PinRight => PinRight') /\ resetting' \in BOOLEAN
         /\ (pin' # None => pin' \in [row : Nat, of : RowIds])
         /\ (view' = view => FollowerTypes')
<1>1. change = NoChange /\ change' = NoChange /\ UNCHANGED <<rows, begun, resetting, pin>>
  BY DEF ColumnFrame, Idle
<1>2. Announced' /\ Saved'
  BY <1>1 DEF TableInv, Announced, Saved, NoChange, Idle, RowOps
<1>. QED BY <1>1, <1>2 DEF PinRight, TableInv, FollowerTypes

\* A step that takes the mappings to where their columns are.
LEMMA CarriedStep ==
  ASSUME TableInv, ColumnFrame, TableTypes', MappingTypes', Carried, DOMAIN m_roleMappings' = DOMAIN m_roleMappings, view' = view
  PROVE  TableInv' /\ StepRight
<1>1. RolesKept /\ AllData' = AllData
  BY CarriedRight DEF TableInv
<1>2. /\ Announced' /\ Saved' /\ (PinRight => PinRight') /\ FollowerTypes'
  BY ColumnFrameRight
<1>3. ViewRight => ViewRight'
  BY <1>1 DEF ColumnFrame, ViewRight
<1>. QED BY <1>1, <1>2, <1>3 DEF TableInv, StepRight, RolesKept

\* Columns that are inserted.
LEMMA InsertedColumnsStep ==
  ASSUME TableInv, ColumnFrame, NEW at \in 1 .. Len(columns) + 1, NEW new \in NewColumns,
         columns' = WithRowsAt(columns, at, new), NEW last, last = at + Len(new) - 1, InsertedColumns(at, last)
  PROVE  TableInv' /\ StepRight
<1>1. columns \in Seq(ColumnIds) /\ IsInjective(columns) /\ Len(columns) \in Nat /\ None \notin ColumnIds /\ MaxColumn \in Nat
  BY LenProperties, TableToListAssumption DEF TableInv, TableTypes
<1>2. /\ new \in Seq(ColumnIds) /\ Len(new) \in Nat /\ IsInjective(new) /\ Range(new) \cap Range(columns) = {}
      /\ \A r \in DOMAIN m_roleMappings : m_roleMappings[r].column + Len(new) <= MaxColumn
  <2>1. new \in Distinct(ColumnIds \ Range(columns)) /\ \A r \in DOMAIN m_roleMappings : m_roleMappings[r].column + Len(new) <= MaxColumn
    BY DEF NewColumns
  <2>2. IsFiniteSet(ColumnIds \ Range(columns))
    BY TableToListAssumption, FS_Difference
  <2>3. new \in Seq(ColumnIds \ Range(columns)) /\ Len(new) \in Nat /\ DOMAIN new = 1 .. Len(new) /\ IsInjective(new)
    BY <2>1, <2>2, DistinctRight
  <2>4. new \in Seq(ColumnIds)
    BY <2>3, SeqMonotonic
  <2>5. \A i \in 1 .. Len(new) : new[i] \in ColumnIds \ Range(columns)
    BY <2>3, ElementOfSeq
  <2>. QED BY <2>1, <2>3, <2>4, <2>5 DEF Range
<1>3. TableTypes'
  <2>1. columns' \in Seq(ColumnIds)
    BY <1>1, <1>2, RowsInsertedRight
  <2>2. IsInjective(columns')
    BY <1>1, <1>2, InsertedInjective
  <2>. QED BY <2>1, <2>2 DEF TableInv, TableTypes, ColumnFrame
<1>4. PICK to : to = [c \in 0 .. MaxColumn |-> AfterInsert(c, at, last)]
  OBVIOUS
<1>5. /\ m_roleMappings' = [r \in DOMAIN m_roleMappings |-> [m_roleMappings[r] EXCEPT !.column = to[m_roleMappings[r].column]]]
      /\ view' = view
  BY <1>4 DEF InsertedColumns, SetColumns
<1>6. ASSUME NEW r \in DOMAIN m_roleMappings
      PROVE  /\ to[m_roleMappings[r].column] \in 0 .. MaxColumn
             /\ At(columns', to[m_roleMappings[r].column]) = At(columns, m_roleMappings[r].column)
  <2>1. PICK c : c = m_roleMappings[r].column
    OBVIOUS
  <2>2. c \in Nat /\ c \in 0 .. MaxColumn /\ c + Len(new) <= MaxColumn
    BY <1>2, <2>1, MappingRight DEF TableInv
  <2>3. to[c] = IF c >= at THEN c + Len(new) ELSE c
    <3>1. to[c] = IF c >= at THEN c + last - at + 1 ELSE c
      BY <1>4, <2>2 DEF AfterInsert
    <3>2. c + last - at + 1 = c + Len(new)
      BY <1>1, <1>2, <2>2
    <3>. QED BY <3>1, <3>2
  <2>4. to[c] \in 0 .. MaxColumn
    BY <1>1, <1>2, <2>2, <2>3
  <2>5. At(WithRowsAt(columns, at, new), IF c >= at THEN c + Len(new) ELSE c) = At(columns, c)
    <3>1. columns \in Seq(ColumnIds) /\ new \in Seq(ColumnIds) /\ None \notin ColumnIds /\ c \in Nat
      BY <1>1, <1>2, <2>2
    <3>2. at \in 1 .. Len(columns) + 1
      OBVIOUS
    <3>. QED BY ONLY <3>1, <3>2, AtInserted
  <2>. QED BY <2>1, <2>3, <2>4, <2>5
<1>7. /\ MappingTypes' /\ DOMAIN m_roleMappings' = DOMAIN m_roleMappings
      /\ \A r \in DOMAIN m_roleMappings :
           m_roleMappings'[r] = [column |-> to[m_roleMappings[r].column],
                                 columnRole |-> m_roleMappings[r].columnRole, of |-> m_roleMappings[r].of]
  BY <1>5, <1>6, SetColumnsRight DEF TableInv
<1>8. Carried
  BY <1>6, <1>7 DEF Carried, ColumnFrame
<1>. QED BY <1>3, <1>5, <1>7, <1>8, CarriedStep

\* Columns that are removed.
LEMMA RemovedColumnsStep ==
  ASSUME TableInv, ColumnFrame, NEW first \in 1 .. Len(columns), NEW last \in first .. Len(columns),
         columns' = WithoutRows(columns, first, last), RemovedColumns(first, last)
  PROVE  TableInv' /\ StepRight
<1>1. columns \in Seq(ColumnIds) /\ IsInjective(columns) /\ Len(columns) \in Nat /\ MaxColumn \in Nat
  BY LenProperties, TableToListAssumption DEF TableInv, TableTypes
<1>2. TableTypes'
  <2>1. columns' \in Seq(ColumnIds)
    BY <1>1, RowsRemovedRight
  <2>2. IsInjective(columns')
    BY <1>1, RemovedInjective
  <2>. QED BY <2>1, <2>2 DEF TableInv, TableTypes, ColumnFrame
<1>3. PICK lost : lost = {r \in DOMAIN m_roleMappings : m_roleMappings[r].column \in first .. last}
  OBVIOUS
<1>4. /\ m_roleMappings' = [r \in DOMAIN m_roleMappings \ lost |->
                              [m_roleMappings[r] EXCEPT !.column = AfterRemove(m_roleMappings[r].column, first, last)]]
      /\ IF lost = {} THEN view' = view ELSE EmitDataChanged(1, Len(rows), lost)
  BY <1>3 DEF RemovedColumns
<1>5. ASSUME NEW r \in DOMAIN m_roleMappings \ lost
      PROVE  /\ m_roleMappings'[r] \in Mapping /\ r \in DataRoles
             /\ m_roleMappings'[r].columnRole = m_roleMappings[r].columnRole /\ m_roleMappings'[r].of = m_roleMappings[r].of
             /\ At(columns', m_roleMappings'[r].column) = At(columns, m_roleMappings[r].column)
  <2>1. PICK c, to : c = m_roleMappings[r].column /\ to = AfterRemove(c, first, last)
    OBVIOUS
  <2>2. m_roleMappings[r] \in Mapping /\ r \in DataRoles /\ c \in Nat /\ c \in 0 .. MaxColumn
    BY <2>1, MappingRight DEF TableInv
  <2>3. c \notin first .. last
    BY <1>3, <2>1
  <2>4. to = IF c > last THEN c - (last - first + 1) ELSE c
    BY <2>1 DEF AfterRemove
  <2>5. to \in 0 .. MaxColumn
    BY <1>1, <2>2, <2>4
  <2>6. At(columns', to) = At(columns, c)
    BY <1>1, <2>2, <2>3, <2>4, AtRemoved
  <2>7. m_roleMappings'[r] = [m_roleMappings[r] EXCEPT !.column = to]
    BY <1>4, <2>1
  <2>8. m_roleMappings'[r] = [column |-> to, columnRole |-> m_roleMappings[r].columnRole, of |-> m_roleMappings[r].of]
    BY <2>2, <2>7 DEF Mapping
  <2>. QED BY <2>1, <2>2, <2>5, <2>6, <2>8 DEF Mapping
<1>6. DOMAIN m_roleMappings' = DOMAIN m_roleMappings \ lost /\ m_roleMappings' = [r \in DOMAIN m_roleMappings' |-> m_roleMappings'[r]]
  BY <1>4
<1>7. MappingTypes'
  BY <1>5, <1>6 DEF MappingTypes
<1>8. Carried
  BY <1>5, <1>6 DEF Carried, ColumnFrame
<1>9. /\ RolesKept
      /\ \A p, r : r \in DOMAIN m_roleMappings' \/ r \notin DOMAIN m_roleMappings => Data(p, r)' = Data(p, r)
      /\ DOMAIN m_roleMappings' = DOMAIN m_roleMappings => AllData' = AllData
  BY <1>2, <1>7, <1>8, CarriedRight DEF TableInv
<1>10. CASE lost = {}
  BY <1>2, <1>4, <1>6, <1>7, <1>8, <1>10, CarriedStep
<1>11. CASE lost # {}
  <2>1. /\ Announced' /\ Saved' /\ (PinRight => PinRight') /\ resetting' \in BOOLEAN
        /\ (pin' # None => pin' \in [row : Nat, of : RowIds]) /\ (view' = view => FollowerTypes')
    BY ColumnFrameRight
  <2>2. CASE resetting
    BY <1>2, <1>4, <1>7, <1>9, <1>11, <2>1, <2>2 DEF EmitDataChanged, TableInv, StepRight, RolesKept, ViewRight, ColumnFrame
  <2>3. CASE ~resetting
    <3>1. view' = [p \in DOMAIN view |->
                     IF p \in 1 .. Len(rows)
                     THEN [r \in DataRoles |-> IF r \in lost THEN AllData'[p][r] ELSE view[p][r]] ELSE view[p]]
      BY <1>4, <1>11, <2>3 DEF EmitDataChanged
    <3>2. /\ view \in Seq(RowShown) /\ Len(view) = Len(rows) /\ Len(rows) \in Nat /\ DOMAIN view = 1 .. Len(rows)
          /\ rows' = rows /\ resetting' = resetting
      BY <2>3, LenProperties DEF TableInv, FollowerTypes, TableTypes, ColumnFrame
    <3>3. AllDataShown' /\ AllDataShown
      BY <1>2, <1>7, AllDataRight, PTL DEF TableInv
    <3>4. view' = [p \in 1 .. Len(rows) |-> [r \in DataRoles |-> IF r \in lost THEN AllData'[p][r] ELSE view[p][r]]]
      BY <3>1, <3>2
    <3>5. ASSUME NEW p \in 1 .. Len(rows), NEW r \in DataRoles PROVE AllData'[p][r] \in CellShown /\ view[p][r] \in CellShown
      <4>1. AllData'[p] \in RowShown /\ view[p] \in RowShown
        BY <3>2, <3>3, ElementOfSeq DEF AllDataShown
      <4>. QED BY <4>1 DEF RowShown
    <3>6. view' \in Seq(RowShown) /\ Len(view') = Len(rows)
      <4>1. \A p \in 1 .. Len(rows) : view'[p] \in RowShown
        BY <3>4, <3>5 DEF RowShown
      <4>2. view' = [p \in 1 .. Len(rows) |-> view'[p]]
        BY <3>4
      <4>. QED BY <3>2, <4>1, <4>2, RowsByNumber
    <3>7. FollowerTypes'
      BY <2>1, <3>2, <3>6 DEF FollowerTypes
    <3>8. ASSUME ViewRight PROVE ViewRight'
      <4>1. view = AllData
        BY <2>3, <3>8 DEF ViewRight
      <4>2. ASSUME NEW p \in 1 .. Len(rows), NEW r \in DataRoles
            PROVE  (IF r \in lost THEN AllData'[p][r] ELSE view[p][r]) = Data(p, r)'
        <5>0. AllData'[p][r] = Data(p, r)'
          BY <3>2, <3>3 DEF AllDataShown
        <5>1. AllData'[p][r] = Data(p, r)' /\ view[p][r] = Data(p, r)
          BY <3>2, <3>3, <4>1, <5>0 DEF AllDataShown
        <5>2. CASE r \in lost
          BY <5>1, <5>2
        <5>3. CASE r \notin lost
          BY <1>6, <1>9, <5>1, <5>3
        <5>. QED BY <5>2, <5>3
      <4>3. ASSUME NEW p \in 1 .. Len(rows)
            PROVE  [r \in DataRoles |-> IF r \in lost THEN AllData'[p][r] ELSE view[p][r]] = AllData'[p]
        BY <3>2, <3>3, <4>2 DEF AllDataShown
      <4>4. \A p \in 1 .. Len(rows) : view'[p] = AllData'[p]
        BY <3>4, <4>3
      <4>5. view' = AllData'
        BY <3>2, <3>3, <3>6, <4>4, SeqEqual DEF AllDataShown
      <4>. QED BY <4>5 DEF ViewRight
    <3>. QED BY <1>2, <1>7, <1>9, <2>1, <3>7, <3>8 DEF TableInv, StepRight, RolesKept
  <2>. QED BY <2>2, <2>3
<1>. QED BY <1>10, <1>11

\* Where a mapping goes when columns are moved to the right, ...
LEMMA AfterMoveRight ==
  ASSUME NEW c \in Nat, NEW start \in Nat, NEW end \in Nat, NEW column \in Nat, start <= end, column > end + 1
  PROVE  AfterMove(c, start, end, column) =
           IF c \in start .. end THEN c + column - end - 1
           ELSE IF c \in end + 1 .. column - 1 THEN c - (end - start + 1) ELSE c
<1>1. start < column
  OBVIOUS
<1>2. CASE c < start
  <2>1. c \notin start .. end /\ c \notin end + 1 .. column - 1 /\ ~(c >= column)
    BY <1>2
  <2>. QED BY <1>1, <1>2, <2>1, Zenon DEF AfterMove
<1>3. CASE c \in start .. end
  <2>1. ~(c < start) /\ c \notin end + 1 .. column - 1 /\ ~(c >= column)
    BY <1>3
  <2>. QED BY <1>1, <1>3, <2>1, Zenon DEF AfterMove
<1>4. CASE c \in end + 1 .. column - 1
  <2>1. ~(c < start) /\ c \notin start .. end /\ ~(c >= column)
    BY <1>4
  <2>. QED BY <1>1, <1>4, <2>1, Zenon DEF AfterMove
<1>5. CASE c >= column
  <2>1. ~(c < start) /\ c \notin start .. end /\ c \notin end + 1 .. column - 1
    BY <1>5
  <2>. QED BY <1>1, <1>5, <2>1, Zenon DEF AfterMove
<1>. QED BY <1>2, <1>3, <1>4, <1>5

\* ... and to the left.
LEMMA AfterMoveLeft ==
  ASSUME NEW c \in Nat, NEW start \in Nat, NEW end \in Nat, NEW column \in Nat, start <= end, column < start
  PROVE  AfterMove(c, start, end, column) = IF c \in column .. start - 1 THEN c + end - start + 1 ELSE c
<1>1. ~(start < column)
  OBVIOUS
<1>2. CASE c < column
  <2>1. c \notin column .. start - 1 /\ ~(c >= start)
    BY <1>2
  <2>. QED BY <1>1, <1>2, <2>1, Zenon DEF AfterMove
<1>3. CASE c \in column .. start - 1
  <2>1. ~(c < column) /\ ~(c >= start)
    BY <1>3
  <2>. QED BY <1>1, <1>3, <2>1, Zenon DEF AfterMove
<1>4. CASE c >= start
  <2>1. ~(c < column) /\ c \notin column .. start - 1
    BY <1>4
  <2>. QED BY <1>1, <1>4, <2>1, Zenon DEF AfterMove
<1>. QED BY <1>2, <1>3, <1>4

\* Columns that are moved: to the right, the mappings go with them.
LEMMA MovedColumnsStep ==
  ASSUME TableInv, ColumnFrame, NEW start \in 1 .. Len(columns), NEW end \in start .. Len(columns),
         NEW column \in MoveTargets(Len(columns), start, end), ColumnsMovedBelowRoot(start, end, column)
  PROVE  TableInv' /\ StepRight
<1>1. /\ columns \in Seq(ColumnIds) /\ IsInjective(columns) /\ DOMAIN columns = 1 .. Len(columns)
      /\ Len(columns) \in Nat /\ Len(columns) <= MaxColumn /\ MaxColumn \in Nat
  BY ColumnNumbers, TableToListAssumption DEF TableInv, TableTypes
<1>2. /\ start \in Nat /\ end \in Nat /\ column \in Nat /\ start <= end /\ column \in 1 .. Len(columns) + 1
      /\ column > end + 1 \/ column < start
  BY <1>1 DEF MoveTargets
<1>3. PICK to : to = [c \in 0 .. MaxColumn |-> AfterMove(c, start, end, column)]
  OBVIOUS
<1>4. /\ columns' = WithRowsMoved(columns, start, end, column) /\ view' = view
      /\ m_roleMappings' = [r \in DOMAIN m_roleMappings |-> [m_roleMappings[r] EXCEPT !.column = to[m_roleMappings[r].column]]]
  BY <1>3 DEF ColumnsMovedBelowRoot, SetColumns
<1>5. TableTypes'
  <2>1. columns' \in Seq(ColumnIds)
    BY <1>1, <1>4, RowsMovedRight
  <2>2. IsInjective(columns')
    BY <1>1, <1>4, MovedInjective
  <2>. QED BY <2>1, <2>2 DEF TableInv, TableTypes, ColumnFrame
<1>6. ASSUME NEW r \in DOMAIN m_roleMappings
      PROVE  /\ to[m_roleMappings[r].column] \in 0 .. MaxColumn
             /\ column > end + 1 \/ m_roleMappings[r].column \notin start .. end
                  => At(columns', to[m_roleMappings[r].column]) = At(columns, m_roleMappings[r].column)
  <2>1. PICK c : c = m_roleMappings[r].column
    OBVIOUS
  <2>2. c \in Nat /\ c \in 0 .. MaxColumn
    BY <2>1, MappingRight DEF TableInv
  <2>3. to[c] = AfterMove(c, start, end, column)
    BY <1>3, <2>2
  <2>4. CASE column > end + 1
    <3>1. to[c] = IF c \in start .. end THEN c + column - end - 1
                  ELSE IF c \in end + 1 .. column - 1 THEN c - (end - start + 1) ELSE c
      BY <1>2, <2>2, <2>3, <2>4, AfterMoveRight
    <3>2. to[c] \in 0 .. MaxColumn
      BY <1>1, <1>2, <2>2, <2>4, <3>1
    <3>3. column > end
      BY <1>2, <2>4
    <3>4. At(columns', to[c]) = At(columns, c)
      BY <1>1, <1>4, <2>2, <3>1, <3>3, AtMoved
    <3>. QED BY <2>1, <3>2, <3>4
  <2>5. CASE column < start
    <3>1. to[c] = IF c \in column .. start - 1 THEN c + end - start + 1 ELSE c
      BY <1>2, <2>2, <2>3, <2>5, AfterMoveLeft
    <3>2. to[c] \in 0 .. MaxColumn
      BY <1>1, <1>2, <2>2, <2>5, <3>1
    <3>3. ~(column > end + 1)
      BY <1>2, <2>5
    <3>4. c \notin start .. end => to[c] = IF c \in start .. end THEN c - (start - column)
                                           ELSE IF c \in column .. start - 1 THEN c + (end - start + 1) ELSE c
      BY <1>2, <2>2, <3>1
    <3>5. c \notin start .. end => At(columns', to[c]) = At(columns, c)
      BY <1>1, <1>4, <2>2, <2>5, <3>4, AtMoved
    <3>. QED BY <2>1, <3>2, <3>3, <3>5
  <2>. QED BY <1>2, <2>4, <2>5
<1>7. /\ MappingTypes' /\ DOMAIN m_roleMappings' = DOMAIN m_roleMappings
      /\ \A r \in DOMAIN m_roleMappings :
           m_roleMappings'[r] = [column |-> to[m_roleMappings[r].column],
                                 columnRole |-> m_roleMappings[r].columnRole, of |-> m_roleMappings[r].of]
  BY <1>4, <1>6, SetColumnsRight DEF TableInv
<1>8. CASE column > end + 1
  <2>1. Carried
    BY <1>6, <1>7, <1>8 DEF Carried, ColumnFrame
  <2>. QED BY <1>4, <1>5, <1>7, <2>1, CarriedStep
<1>9. ASSUME column < start, NEW r \in DOMAIN m_roleMappings, m_roleMappings[r].column \in start .. end PROVE MovedLeft(r)
  <2>1. column \in 1 .. start - 1 /\ start \in DOMAIN columns /\ end \in DOMAIN columns
    BY <1>1, <1>2, <1>9
  <2>. QED BY <1>2, <1>9, <2>1 DEF MovedLeft
<1>10. CASE column < start /\ \E r \in DOMAIN m_roleMappings : m_roleMappings[r].column \in start .. end
  <2>1. Announced' /\ Saved' /\ (PinRight => PinRight') /\ FollowerTypes'
    BY <1>4, ColumnFrameRight
  <2>2. ASSUME NEW r \in DOMAIN m_roleMappings', Mapped(r) => ShowsItsColumn(r), ~MovedLeft(r)
        PROVE  At(columns', m_roleMappings'[r].column) = m_roleMappings'[r].of
    <3>1. r \in DOMAIN m_roleMappings /\ m_roleMappings[r].column \notin start .. end /\ ShowsItsColumn(r)
      BY <1>7, <1>9, <1>10, <2>2 DEF Mapped
    <3>2. /\ At(columns', to[m_roleMappings[r].column]) = At(columns, m_roleMappings[r].column)
          /\ m_roleMappings'[r].column = to[m_roleMappings[r].column] /\ m_roleMappings'[r].of = m_roleMappings[r].of
      BY <1>6, <1>7, <3>1
    <3>. QED BY <3>1, <3>2 DEF ShowsItsColumn
  <2>3. \A r \in DOMAIN m_roleMappings' : Mapped(r)
    BY <1>7 DEF Mapped
  <2>4. \E r \in DOMAIN m_roleMappings : MovedLeft(r)
    BY <1>9, <1>10
  <2>. QED BY <1>5, <1>7, <2>1, <2>2, <2>3, <2>4 DEF TableInv, StepRight
<1>11. CASE column < start /\ ~\E r \in DOMAIN m_roleMappings : m_roleMappings[r].column \in start .. end
  <2>1. Carried
    BY <1>6, <1>7, <1>11 DEF Carried, ColumnFrame
  <2>. QED BY <1>4, <1>5, <1>7, <2>1, CarriedStep
<1>. QED BY <1>2, <1>8, <1>10, <1>11

\* columnsInsertedInSourceModel(), columnsRemovedInSourceModel(), columnsMovedInSourceModel()
LEMMA ColumnStepRight == TableInv /\ ColumnStep => TableInv' /\ StepRight
<1> SUFFICES ASSUME TableInv, ColumnStep PROVE TableInv' /\ StepRight
  OBVIOUS
<1>1. ColumnFrame
  BY DEF ColumnStep, ColumnsInserted, ColumnsRemoved, ColumnsMoved, ColumnFrame
<1>2. DOMAIN columns = 1 .. Len(columns) /\ Len(columns) \in Nat
  BY ColumnNumbers DEF TableInv
<1>3. ASSUME NEW first \in DOMAIN columns, NEW last \in DOMAIN columns, first <= last,
             columns' = WithoutRows(columns, first, last), RemovedColumns(first, last)
      PROVE  TableInv' /\ StepRight
  <2>1. first \in 1 .. Len(columns) /\ last \in first .. Len(columns)
    BY <1>2, <1>3
  <2>. QED BY <1>1, <1>3, <2>1, RemovedColumnsStep
<1>4. CASE ColumnsInserted
  BY <1>1, <1>4, InsertedColumnsStep DEF ColumnsInserted
<1>5. CASE ColumnsRemoved
  BY <1>3, <1>5 DEF ColumnsRemoved
<1>6. CASE \E new \in NewColumns, column \in 1 .. Len(columns) + 1 : ColumnsMovedFrom(1, Len(new), column, new)
  <2>1. PICK new \in NewColumns, column \in 1 .. Len(columns) + 1 : ColumnsMovedFrom(1, Len(new), column, new)
    BY <1>6
  <2>2. new \in Distinct(ColumnIds \ Range(columns)) /\ IsFiniteSet(ColumnIds \ Range(columns))
    BY TableToListAssumption, FS_Difference DEF NewColumns
  <2>3. Len(new) \in Nat
    BY <2>2, DistinctRight
  <2>4. PICK last : last = column + Len(new) - 1
    OBVIOUS
  <2>5. columns' = WithRowsAt(columns, column, new) /\ InsertedColumns(column, last)
    <3>1. column + Len(new) - 1 = last
      BY <2>4
    <3>. QED BY <2>1, <3>1 DEF ColumnsMovedFrom
  <2>. QED BY <1>1, <2>4, <2>5, InsertedColumnsStep
<1>7. CASE \E start, end \in DOMAIN columns : start <= end /\ ColumnsMovedAway(start, end)
  BY <1>3, <1>7 DEF ColumnsMovedAway
<1>8. CASE \E start, end \in DOMAIN columns : \E column \in MoveTargets(Len(columns), start, end) :
             start <= end /\ ColumnsMovedBelowRoot(start, end, column)
  <2>1. PICK start \in DOMAIN columns, end \in DOMAIN columns :
          \E column \in MoveTargets(Len(columns), start, end) : start <= end /\ ColumnsMovedBelowRoot(start, end, column)
    BY <1>8
  <2>2. PICK column \in MoveTargets(Len(columns), start, end) : start <= end /\ ColumnsMovedBelowRoot(start, end, column)
    BY <2>1
  <2>3. start \in 1 .. Len(columns) /\ end \in start .. Len(columns)
    BY <1>2, <2>2
  <2>. QED BY <1>1, <2>2, <2>3, MovedColumnsStep
<1>. QED BY <1>4, <1>5, <1>6, <1>7, <1>8 DEF ColumnStep, ColumnsMoved
-----------------------------------------------------------------------------
(* Views and data *)

\* A view keeps a persistent index of a row it shows.
LEMMA PinStep == TableInv /\ Pin => TableInv' /\ StepRight
<1> SUFFICES ASSUME TableInv, Pin PROVE TableInv' /\ StepRight
  OBVIOUS
<1>1. /\ UNCHANGED <<hasSource, columns, rows, m_roleMappings, change, begun, resetting, view>>
      /\ change = NoChange /\ ~resetting
  BY DEF Pin, table, Idle
<1>2. PICK p \in DOMAIN view : pin' = [row |-> p, of |-> rows[p]]
  BY DEF Pin
<1>3. p \in Nat /\ p \in DOMAIN rows /\ rows[p] \in RowIds
  <2>1. DOMAIN view = 1 .. Len(rows) /\ DOMAIN rows = 1 .. Len(rows) /\ Len(rows) \in Nat
    BY <1>1, LenProperties DEF TableInv, TableTypes, FollowerTypes
  <2>. QED BY <2>1, ElementOfSeq DEF TableInv, TableTypes
<1>4. TableTypes' /\ MappingTypes' /\ Announced'
  BY <1>1 DEF TableInv, TableTypes, MappingTypes, Announced, NoChange, Idle, RowOps
<1>5. Saved'
  BY <1>1 DEF Saved, NoChange
<1>6. FollowerTypes'
  BY <1>1, <1>2, <1>3 DEF TableInv, FollowerTypes
<1>7. AllData' = AllData
  BY <1>1 DEF AllData, Data, Mapped
<1>8. PinRight'
  BY <1>1, <1>2, <1>3 DEF PinRight, At
<1>9. StepRight
  BY <1>1, <1>7, <1>8 DEF StepRight, Mapped, ShowsItsColumn, ViewRight
<1>. QED BY <1>4, <1>5, <1>6, <1>9 DEF TableInv

\* dataChangedInSourceModel(): a view reads all cells again that show what has changed.
LEMMA DataChangedStep == TableInv /\ DataChanged => TableInv' /\ StepRight
<1> SUFFICES ASSUME TableInv, DataChanged PROVE TableInv' /\ StepRight
  OBVIOUS
<1>1. /\ UNCHANGED <<hasSource, columns, rows, m_roleMappings, change, begun, resetting, pin>>
      /\ change = NoChange /\ ~resetting
  BY DEF DataChanged, table, Idle
<1>2. PICK first \in DOMAIN rows, last \in DOMAIN rows, firstColumn \in DOMAIN columns, lastColumn \in DOMAIN columns,
           roles \in SUBSET ColumnRoles : CellsChanged(first, last, firstColumn, lastColumn, roles)
  BY DEF DataChanged
<1> DEFINE Shows(r) == r \in MappedRolesChanged(firstColumn, lastColumn, roles)
           Hit(p, r) == /\ view[p][r][1] \in {rows[q] : q \in first .. last}
                        /\ view[p][r][2] \in {columns[c] : c \in firstColumn .. lastColumn}
                        /\ roles = {} \/ view[p][r][3] \in roles
<1>3. /\ DOMAIN view = 1 .. Len(rows) /\ DOMAIN rows = 1 .. Len(rows) /\ DOMAIN columns = 1 .. Len(columns)
      /\ Len(rows) \in Nat /\ Len(columns) \in Nat /\ view \in Seq(RowShown)
      /\ \A i \in 1 .. Len(rows) : rows[i] \in RowIds
      /\ \A i \in 1 .. Len(columns) : columns[i] \in ColumnIds
  BY <1>1, LenProperties, ElementOfSeq DEF TableInv, TableTypes, FollowerTypes
<1>4. view' = [p \in 1 .. Len(rows) |-> [r \in DataRoles |->
                 IF p \in first .. last /\ Shows(r) THEN Data(p, r)
                 ELSE IF Hit(p, r) THEN <<"outdated", None, None>> ELSE view[p][r]]]
  BY <1>2, <1>3 DEF CellsChanged
<1>5. TableTypes' /\ MappingTypes' /\ Announced'
  BY <1>1 DEF TableInv, TableTypes, MappingTypes, Announced, NoChange, Idle, RowOps
<1>6. Saved'
  BY <1>1 DEF Saved, NoChange
<1>7. AllData' = AllData
  BY <1>1 DEF AllData, Data, Mapped
<1>8. AllDataShown
  BY AllDataRight DEF TableInv
<1>9. ASSUME NEW p \in 1 .. Len(rows), NEW r \in DataRoles PROVE view[p][r] \in CellShown /\ Data(p, r) \in CellShown
  <2>1. view[p] \in RowShown
    BY <1>3, ElementOfSeq
  <2>2. AllData[p] \in RowShown
    BY <1>8, ElementOfSeq DEF AllDataShown
  <2>3. AllData[p][r] = Data(p, r)
    BY <1>8 DEF AllDataShown
  <2>. QED BY <2>1, <2>2, <2>3 DEF RowShown
<1>10. <<"outdated", None, None>> \in CellShown
  BY DEF CellShown
<1> HIDE DEF Hit, Shows
<1>11. view' \in Seq(RowShown) /\ Len(view') = Len(rows)
  <2>1. view' = [p \in 1 .. Len(rows) |-> view'[p]]
    BY <1>4
  <2>2. \A p \in 1 .. Len(rows) : view'[p] \in RowShown
    BY <1>4, <1>9, <1>10 DEF RowShown
  <2>. QED BY <1>3, <2>1, <2>2, RowsByNumber
<1>12. FollowerTypes'
  BY <1>1, <1>11 DEF TableInv, FollowerTypes
<1>13. ASSUME view = AllData, NEW p \in 1 .. Len(rows), NEW r \in DataRoles, Hit(p, r) PROVE p \in first .. last /\ Shows(r)
  <2>1. view[p][r] = Data(p, r)
    BY <1>8, <1>13 DEF AllDataShown
  <2>2. PICK q \in first .. last, c \in firstColumn .. lastColumn :
          view[p][r][1] = rows[q] /\ view[p][r][2] = columns[c] /\ (roles = {} \/ view[p][r][3] \in roles)
    BY <1>13 DEF Hit
  <2>3. q \in 1 .. Len(rows) /\ c \in 1 .. Len(columns) /\ rows[q] # None
    BY <1>3, TableToListAssumption
  <2>4. /\ r \in DOMAIN m_roleMappings /\ m_roleMappings[r].column \in DOMAIN columns
        /\ view[p][r] = <<rows[p], columns[m_roleMappings[r].column], m_roleMappings[r].columnRole>>
    BY <2>1, <2>2, <2>3 DEF Data, Mapped
  <2>5. rows[p] = rows[q] /\ columns[m_roleMappings[r].column] = columns[c] /\ (roles = {} \/ m_roleMappings[r].columnRole \in roles)
    BY <2>2, <2>4
  <2>6. p = q /\ m_roleMappings[r].column = c
    BY <1>3, <2>3, <2>4, <2>5 DEF TableInv, TableTypes, IsInjective
  <2>. QED BY <2>4, <2>5, <2>6 DEF Shows, MappedRolesChanged
<1>14. ASSUME view = AllData PROVE view' = AllData
  <2>1. ASSUME NEW p \in 1 .. Len(rows) PROVE view'[p] = AllData[p]
    <3>1. ASSUME NEW r \in DataRoles PROVE view'[p][r] = AllData[p][r]
      <4>1. AllData[p][r] = Data(p, r)
        BY <1>8 DEF AllDataShown
      <4>. QED BY <1>4, <1>13, <1>14, <4>1
    <3>2. view'[p] \in RowShown /\ AllData[p] \in RowShown
      BY <1>8, <1>11, ElementOfSeq DEF AllDataShown
    <3>. QED BY <3>1, <3>2 DEF RowShown
  <2>. QED BY <1>8, <1>11, <2>1, SeqEqual DEF AllDataShown
<1>15. StepRight
  BY <1>1, <1>7, <1>14 DEF StepRight, Mapped, ShowsItsColumn, ViewRight, PinRight
<1>. QED BY <1>5, <1>6, <1>12, <1>15 DEF TableInv
-----------------------------------------------------------------------------
(* Rows *)

\* A change of rows begins.
LEMMA ChangeBegins ==
  ASSUME TableInv, Idle, UNCHANGED <<table, m_roleMappings, resetting, view, pin>>, change'.op \in RowOps, Announced'
  PROVE  TableInv' /\ StepRight
<1>1. UNCHANGED <<hasSource, columns, rows, m_roleMappings, resetting, view, pin>>
  BY DEF table
<1>2. TableTypes' /\ MappingTypes' /\ FollowerTypes'
  BY <1>1 DEF TableInv, TableTypes, MappingTypes, FollowerTypes
<1>3. Saved'
  BY DEF Saved, RowOps
<1>4. AllData' = AllData
  BY <1>1 DEF AllData, Data, Mapped
<1>5. StepRight
  BY <1>1, <1>4 DEF StepRight, Mapped, ShowsItsColumn, ViewRight, PinRight
<1>. QED BY <1>2, <1>3, <1>5 DEF TableInv

\* rowsAboutToBeInsertedInSourceModel()
LEMMA RowsAboutToBeInsertedStep == TableInv /\ RowsAboutToBeInserted => TableInv' /\ StepRight
<1> SUFFICES ASSUME TableInv, RowsAboutToBeInserted PROVE TableInv' /\ StepRight
  OBVIOUS
<1>1. PICK new \in Distinct(RowIds \ Range(rows)), at \in 1 .. Len(rows) + 1 :
        /\ change' = [op |-> "rowsInserted", rows |-> WithRowsAt(rows, at, new)]
        /\ begun' = [kind |-> "insert", first |-> at, last |-> at + Len(new) - 1, to |-> 0]
  BY DEF RowsAboutToBeInserted, Begin
<1>2. Idle /\ UNCHANGED <<table, m_roleMappings, resetting, view, pin>> /\ rows' = rows
  BY DEF RowsAboutToBeInserted, Begin, table
<1>3. change'.rows = WithRowsAt(rows', at, new) /\ change'.op = "rowsInserted"
  BY <1>1, <1>2
<1>4. Inserting'
  BY <1>1, <1>2, <1>3 DEF Inserting
<1>5. Announced'
  BY <1>3, <1>4 DEF Announced, RowOps
<1>. QED BY <1>2, <1>3, <1>5, ChangeBegins DEF RowOps

\* rowsAboutToBeRemovedInSourceModel()
LEMMA RowsAboutToBeRemovedStep == TableInv /\ RowsAboutToBeRemoved => TableInv' /\ StepRight
<1> SUFFICES ASSUME TableInv, RowsAboutToBeRemoved PROVE TableInv' /\ StepRight
  OBVIOUS
<1>1. PICK first \in DOMAIN rows, last \in DOMAIN rows :
        /\ first <= last
        /\ change' = [op |-> "rowsRemoved", rows |-> WithoutRows(rows, first, last)]
        /\ begun' = [kind |-> "remove", first |-> first, last |-> last, to |-> 0]
  BY DEF RowsAboutToBeRemoved, Begin
<1>2. Idle /\ UNCHANGED <<table, m_roleMappings, resetting, view, pin>> /\ rows' = rows
  BY DEF RowsAboutToBeRemoved, Begin, table
<1>3. change'.rows = WithoutRows(rows', first, last) /\ change'.op = "rowsRemoved"
  BY <1>1, <1>2
<1>4. first \in 1 .. Len(rows') /\ last \in first .. Len(rows')
  BY <1>1, <1>2, LenProperties DEF TableInv, TableTypes
<1>5. Removing'
  BY <1>1, <1>3, <1>4 DEF Removing
<1>6. Announced'
  BY <1>3, <1>5 DEF Announced, RowOps
<1>. QED BY <1>2, <1>3, <1>6, ChangeBegins DEF RowOps

\* rowsAboutToBeMovedInSourceModel()
LEMMA RowsAboutToBeMovedStep == TableInv /\ RowsAboutToBeMoved => TableInv' /\ StepRight
<1> SUFFICES ASSUME TableInv, RowsAboutToBeMoved PROVE TableInv' /\ StepRight
  OBVIOUS
<1>1. Idle /\ UNCHANGED <<table, m_roleMappings, resetting, view, pin>> /\ rows' = rows
  BY DEF RowsAboutToBeMoved, Begin, table
<1>2. DOMAIN rows = 1 .. Len(rows) /\ Len(rows) \in Nat
  BY LenProperties DEF TableInv, TableTypes
<1>3. CASE \E new \in Distinct(RowIds \ Range(rows)) \ {<<>>}, to \in 1 .. Len(rows) + 1 :
             /\ change' = [op |-> "rowsMoved", rows |-> WithRowsAt(rows, to, new), fromRoot |-> FALSE, toRoot |-> TRUE]
             /\ Begin("insert", to, to + Len(new) - 1, 0)
  <2>1. PICK new \in Distinct(RowIds \ Range(rows)), to \in 1 .. Len(rows) + 1 :
             /\ change' = [op |-> "rowsMoved", rows |-> WithRowsAt(rows, to, new), fromRoot |-> FALSE, toRoot |-> TRUE]
             /\ begun' = [kind |-> "insert", first |-> to, last |-> to + Len(new) - 1, to |-> 0]
    BY <1>3 DEF Begin
  <2>2. change'.rows = WithRowsAt(rows', to, new) /\ change'.op = "rowsMoved" /\ change'.fromRoot = FALSE /\ change'.toRoot = TRUE
    BY <1>1, <2>1
  <2>3. Inserting'
    BY <1>1, <2>1, <2>2 DEF Inserting
  <2>4. Announced'
    BY <2>2, <2>3 DEF Announced, RowOps
  <2>. QED BY <1>1, <2>2, <2>4, ChangeBegins DEF RowOps
<1>4. CASE \E first, last \in DOMAIN rows :
             /\ first <= last
             /\ change' = [op |-> "rowsMoved", rows |-> WithoutRows(rows, first, last), fromRoot |-> TRUE, toRoot |-> FALSE]
             /\ Begin("remove", first, last, 0)
  <2>1. PICK first \in DOMAIN rows, last \in DOMAIN rows :
             /\ first <= last
             /\ change' = [op |-> "rowsMoved", rows |-> WithoutRows(rows, first, last), fromRoot |-> TRUE, toRoot |-> FALSE]
             /\ begun' = [kind |-> "remove", first |-> first, last |-> last, to |-> 0]
    BY <1>4 DEF Begin
  <2>2. change'.rows = WithoutRows(rows', first, last) /\ change'.op = "rowsMoved" /\ change'.fromRoot = TRUE /\ change'.toRoot = FALSE
    BY <1>1, <2>1
  <2>3. first \in 1 .. Len(rows') /\ last \in first .. Len(rows')
    BY <1>1, <1>2, <2>1
  <2>4. Removing'
    BY <2>1, <2>2, <2>3 DEF Removing
  <2>5. Announced'
    BY <2>2, <2>4 DEF Announced, RowOps
  <2>. QED BY <1>1, <2>2, <2>5, ChangeBegins DEF RowOps
<1>5. CASE \E first, last \in DOMAIN rows : \E to \in MoveTargets(Len(rows), first, last) :
             /\ first <= last
             /\ change' = [op |-> "rowsMoved", rows |-> WithRowsMoved(rows, first, last, to), fromRoot |-> TRUE, toRoot |-> TRUE]
             /\ Begin("move", first, last, to)
  <2>1. PICK first \in DOMAIN rows, last \in DOMAIN rows : \E to \in MoveTargets(Len(rows), first, last) :
             /\ first <= last
             /\ change' = [op |-> "rowsMoved", rows |-> WithRowsMoved(rows, first, last, to), fromRoot |-> TRUE, toRoot |-> TRUE]
             /\ begun' = [kind |-> "move", first |-> first, last |-> last, to |-> to]
    BY <1>5 DEF Begin
  <2>2. PICK to \in MoveTargets(Len(rows), first, last) :
             /\ first <= last
             /\ change' = [op |-> "rowsMoved", rows |-> WithRowsMoved(rows, first, last, to), fromRoot |-> TRUE, toRoot |-> TRUE]
             /\ begun' = [kind |-> "move", first |-> first, last |-> last, to |-> to]
    BY <2>1
  <2>3. /\ change'.rows = WithRowsMoved(rows', first, last, to) /\ change'.op = "rowsMoved"
        /\ change'.fromRoot = TRUE /\ change'.toRoot = TRUE
    BY <1>1, <2>2
  <2>4. first \in 1 .. Len(rows') /\ last \in first .. Len(rows') /\ to \in MoveTargets(Len(rows'), first, last)
    BY <1>1, <1>2, <2>2
  <2>5. Moving'
    BY <2>2, <2>3, <2>4 DEF Moving
  <2>6. Announced'
    BY <2>3, <2>5 DEF Announced, RowOps
  <2>. QED BY <1>1, <2>3, <2>6, ChangeBegins DEF RowOps
<1>. QED BY <1>3, <1>4, <1>5 DEF RowsAboutToBeMoved

\* The same row shows the same, wherever it is.
LEMMA SameRowShown ==
  ASSUME AllDataShown, AllDataShown', columns' = columns, m_roleMappings' = m_roleMappings,
         NEW i \in 1 .. Len(rows'), NEW j \in 1 .. Len(rows), rows'[i] = rows[j]
  PROVE  AllData'[i] = AllData[j]
<1>1. AllData'[i] \in RowShown /\ AllData[j] \in RowShown
  BY ElementOfSeq DEF AllDataShown
<1>2. ASSUME NEW r \in DataRoles PROVE AllData'[i][r] = AllData[j][r]
  <2>1. AllData'[i][r] = Data(i, r)'
    BY DEF AllDataShown
  <2>2. AllData[j][r] = Data(j, r)
    BY DEF AllDataShown
  <2>3. Data(i, r)' = Data(j, r)
    BY DEF Data, Mapped
  <2>. QED BY <2>1, <2>2, <2>3
<1>. QED BY <1>1, <1>2 DEF RowShown

\* A change of rows ends.
ChangeEnds ==
  /\ change.op \in RowOps /\ change' = NoChange /\ begun' = NotBegun
  /\ UNCHANGED <<hasSource, columns, m_roleMappings, resetting>>
  /\ pin' = IF pin = None \/ RowAfter(pin.row) = 0 THEN None ELSE [pin EXCEPT !.row = RowAfter(pin.row)]
RowsFollowed == \A p \in Nat : RowAfter(p) \in Nat /\ (RowAfter(p) # 0 => At(rows', RowAfter(p)) = At(rows, p))

\* A view and a persistent index are as good as they have been.
LEMMA ChangeEndsRight ==
  ASSUME TableInv, ChangeEnds, RowsFollowed, TableTypes', MappingTypes',
         ~resetting => view' \in Seq(RowShown) /\ Len(view') = Len(rows') /\ (view = AllData => view' = AllData')
  PROVE  TableInv' /\ StepRight
<1>1. Announced' /\ Saved'
  BY DEF ChangeEnds, Announced, Saved, NoChange, Idle, RowOps
<1>2. ASSUME pin' # None
      PROVE  /\ pin # None /\ pin \in [row : Nat, of : RowIds] /\ pin'.row \in Nat /\ pin'.of = pin.of
             /\ pin' \in [row : Nat, of : RowIds] /\ At(rows', pin'.row) = At(rows, pin.row)
  <2>1. pin # None /\ RowAfter(pin.row) # 0
    BY <1>2 DEF ChangeEnds
  <2>2. pin \in [row : Nat, of : RowIds]
    BY <2>1 DEF TableInv, FollowerTypes
  <2>3. PICK row : row = RowAfter(pin.row)
    OBVIOUS
  <2>4. row \in Nat /\ At(rows', row) = At(rows, pin.row)
    BY <2>1, <2>2, <2>3 DEF RowsFollowed
  <2>5. pin' = [pin EXCEPT !.row = row]
    BY <2>1, <2>3 DEF ChangeEnds
  <2>. QED BY <2>1, <2>2, <2>4, <2>5
<1>3. FollowerTypes'
  BY <1>2 DEF TableInv, FollowerTypes, ChangeEnds
<1>4. PinRight => PinRight'
  BY <1>2 DEF PinRight, ChangeEnds
<1>5. ViewRight => ViewRight'
  BY DEF ViewRight, ChangeEnds
<1>6. RolesKept
  BY DEF RolesKept, Mapped, ShowsItsColumn, ChangeEnds
<1>. QED BY <1>1, <1>3, <1>4, <1>5, <1>6 DEF TableInv, StepRight, RolesKept

\* Where rows are after an insertion, ...
LEMMA RowAfterInsert ==
  ASSUME NEW first \in Nat, NEW last \in Int, begun = [kind |-> "insert", first |-> first, last |-> last, to |-> 0], NEW p \in Nat
  PROVE  RowAfter(p) = IF p >= first THEN p + (last - first + 1) ELSE p
<1>1. begun.kind = "insert" /\ begun.kind # "remove" /\ begun.kind # "move" /\ begun.first = first /\ begun.last = last
  OBVIOUS
<1>. QED BY <1>1, Zenon DEF RowAfter

\* ... after a removal, ...
LEMMA RowAfterRemove ==
  ASSUME NEW first \in Nat, NEW last \in Nat, begun = [kind |-> "remove", first |-> first, last |-> last, to |-> 0], NEW p \in Nat
  PROVE  RowAfter(p) = IF p \in first .. last THEN 0 ELSE IF p > last THEN p - (last - first + 1) ELSE p
<1>1. begun.kind = "remove" /\ begun.kind # "insert" /\ begun.kind # "move" /\ begun.first = first /\ begun.last = last
  OBVIOUS
<1>. QED BY <1>1, Zenon DEF RowAfter

\* ... and after a move down or up.
LEMMA RowAfterMove ==
  ASSUME NEW first \in Nat, NEW last \in Nat, NEW to \in Nat, first <= last,
         begun = [kind |-> "move", first |-> first, last |-> last, to |-> to], NEW p \in Nat
  PROVE  /\ to > last => RowAfter(p) = IF p \in first .. last THEN p + to - last - 1
                                       ELSE IF p \in last + 1 .. to - 1 THEN p - (last - first + 1) ELSE p
         /\ to < first => RowAfter(p) = IF p \in first .. last THEN p - (first - to)
                                        ELSE IF p \in to .. first - 1 THEN p + (last - first + 1) ELSE p
<1>1. /\ begun.kind = "move" /\ begun.kind # "insert" /\ begun.kind # "remove"
      /\ begun.first = first /\ begun.last = last /\ begun.to = to
  OBVIOUS
<1>2. (to > last => ~(to < first)) /\ (to < first => ~(to > last))
  OBVIOUS
<1>3. CASE to > last
  <2>1. ~(to < first)
    BY <1>2, <1>3
  <2>. QED BY <1>1, <1>3, <2>1, Zenon DEF RowAfter
<1>4. CASE to < first
  <2>1. ~(to > last)
    BY <1>2, <1>4
  <2>. QED BY <1>1, <1>4, <2>1, Zenon DEF RowAfter
<1>. QED BY <1>3, <1>4

\* endInsertRows()
LEMMA InsertEnds ==
  ASSUME TableInv, Inserting, change.op \in RowOps, rows' = change.rows, change' = NoChange,
         UNCHANGED <<hasSource, columns, m_roleMappings>>, End("insert")
  PROVE  TableInv' /\ StepRight
<1>0. PICK new \in Distinct(RowIds \ Range(rows)), at \in 1 .. Len(rows) + 1 :
        /\ rows' = WithRowsAt(rows, at, new)
        /\ begun = [kind |-> "insert", first |-> at, last |-> at + Len(new) - 1, to |-> 0]
  BY DEF Inserting
<1>1. PICK last :
        /\ new \in Distinct(RowIds \ Range(rows)) /\ at \in 1 .. Len(rows) + 1
        /\ last = at + Len(new) - 1
        /\ rows' = WithRowsAt(rows, at, new)
        /\ begun = [kind |-> "insert", first |-> at, last |-> last, to |-> 0]
  BY <1>0
<1>2. /\ rows \in Seq(RowIds) /\ IsInjective(rows) /\ Len(rows) \in Nat /\ DOMAIN rows = 1 .. Len(rows)
      /\ None \notin RowIds /\ at \in Nat
  BY LenProperties, TableToListAssumption DEF TableInv, TableTypes
<1>3. new \in Seq(RowIds) /\ Len(new) \in Nat /\ IsInjective(new) /\ Range(new) \cap Range(rows) = {} /\ last \in Int
  <2>1. IsFiniteSet(RowIds \ Range(rows))
    BY TableToListAssumption, FS_Difference
  <2>2. new \in Seq(RowIds \ Range(rows)) /\ Len(new) \in Nat /\ DOMAIN new = 1 .. Len(new) /\ IsInjective(new)
    BY <2>1, DistinctRight
  <2>3. new \in Seq(RowIds)
    BY <2>2, SeqMonotonic
  <2>4. \A i \in 1 .. Len(new) : new[i] \in RowIds \ Range(rows)
    BY <2>2, ElementOfSeq
  <2>. QED BY <1>1, <1>2, <2>2, <2>3, <2>4 DEF Range
<1>4. PICK n : n = Len(new)
  OBVIOUS
<1>5. /\ n \in Nat /\ last = at + n - 1 /\ last - at + 1 = n
  BY <1>1, <1>2, <1>3, <1>4
<1>6. /\ rows' \in Seq(RowIds) /\ Len(rows') = Len(rows) + n
      /\ \A i \in 1 .. Len(rows) + n : rows'[i] = IF i < at THEN rows[i] ELSE IF i < at + n THEN new[i - at + 1] ELSE rows[i - n]
  <2>1. rows' = WithRowsAt(rows, at, new) /\ rows \in Seq(RowIds) /\ new \in Seq(RowIds) /\ at \in 1 .. Len(rows) + 1
    BY <1>1, <1>2, <1>3
  <2>2. /\ rows' \in Seq(RowIds) /\ Len(rows') = Len(rows) + Len(new)
        /\ \A i \in 1 .. Len(rows) + Len(new) :
             rows'[i] = IF i < at THEN rows[i] ELSE IF i < at + Len(new) THEN new[i - at + 1] ELSE rows[i - Len(new)]
    BY ONLY <2>1, RowsInsertedRight
  <2>. QED BY <1>4, <2>2
<1>7. TableTypes' /\ MappingTypes'
  <2>1. IsInjective(rows')
    BY <1>1, <1>2, <1>3, InsertedInjective
  <2>. QED BY <1>6, <2>1 DEF TableInv, TableTypes, MappingTypes
<1>8. AllDataShown /\ AllDataShown'
  BY <1>7, AllDataRight, PTL DEF TableInv
<1>9. RowsFollowed
  <2> SUFFICES ASSUME NEW p \in Nat
               PROVE  RowAfter(p) \in Nat /\ (RowAfter(p) # 0 => At(rows', RowAfter(p)) = At(rows, p))
    BY DEF RowsFollowed
  <2>1. RowAfter(p) = IF p >= at THEN p + Len(new) ELSE p
    BY <1>1, <1>2, <1>3, <1>4, <1>5, RowAfterInsert
  <2>2. At(WithRowsAt(rows, at, new), IF p >= at THEN p + Len(new) ELSE p) = At(rows, p)
    <3>1. rows \in Seq(RowIds) /\ new \in Seq(RowIds) /\ None \notin RowIds /\ p \in Nat /\ at \in 1 .. Len(rows) + 1
      BY <1>1, <1>2, <1>3
    <3>. QED BY ONLY <3>1, AtInserted
  <2>. QED BY <1>1, <1>3, <2>1, <2>2
<1>10. begun.kind = "insert" /\ begun.kind # "remove" /\ begun.kind # "move" /\ begun.first = at /\ begun.last = last
  BY <1>1
<1>11. ChangeEnds
  BY <1>10 DEF End, ChangeEnds
<1>12. ASSUME ~resetting
       PROVE  view' \in Seq(RowShown) /\ Len(view') = Len(rows') /\ (view = AllData => view' = AllData')
  <2>1. view' = WithRowsAt(view, at, SubSeq(AllData', at, last))
    BY <1>10, <1>12, Zenon DEF End
  <2>2. PICK shown : shown = SubSeq(AllData', at, last)
    OBVIOUS
  <2>3. AllData' \in Seq(RowShown) /\ Len(AllData') = Len(rows) + n
    BY <1>6, <1>8 DEF AllDataShown
  <2>4. shown \in Seq(RowShown) /\ Len(shown) = n /\ \A i \in 1 .. n : shown[i] = AllData'[at + i - 1]
    <3>1. at \in 1 .. Len(AllData') + 1 /\ last \in at - 1 .. Len(AllData')
      BY <1>2, <1>5, <2>3
    <3>. QED BY <1>2, <1>5, <2>2, <2>3, <3>1, SubSeqProperties
  <2>5. view \in Seq(RowShown) /\ Len(view) = Len(rows)
    BY <1>12 DEF TableInv, FollowerTypes
  <2>6. /\ view' \in Seq(RowShown) /\ Len(view') = Len(rows) + n
        /\ \A i \in 1 .. Len(rows) + n : view'[i] = IF i < at THEN view[i] ELSE IF i < at + n THEN shown[i - at + 1] ELSE view[i - n]
    <3>1. view' = WithRowsAt(view, at, shown) /\ at \in 1 .. Len(view) + 1
      BY <2>1, <2>2, <2>5
    <3>2. shown \in Seq(RowShown) /\ view \in Seq(RowShown)
      BY <2>4, <2>5
    <3>3. /\ view' \in Seq(RowShown) /\ Len(view') = Len(view) + Len(shown)
          /\ \A i \in 1 .. Len(view) + Len(shown) :
               view'[i] = IF i < at THEN view[i] ELSE IF i < at + Len(shown) THEN shown[i - at + 1] ELSE view[i - Len(shown)]
      BY ONLY <3>1, <3>2, RowsInsertedRight
    <3>. QED BY <2>4, <2>5, <3>3
  <2>7. ASSUME view = AllData, NEW i \in 1 .. Len(rows) + n PROVE view'[i] = AllData'[i]
    <3>1. CASE i < at
      <4>1. i \in 1 .. Len(rows) /\ i \in 1 .. Len(rows') /\ rows'[i] = rows[i]
        BY <1>2, <1>5, <1>6, <3>1
      <4>. QED BY <1>8, <2>6, <2>7, <3>1, <4>1, SameRowShown
    <3>2. CASE ~(i < at) /\ i < at + n
      <4>1. i - at + 1 \in 1 .. n /\ at + (i - at + 1) - 1 = i
        BY <1>2, <1>5, <3>2
      <4>. QED BY <2>4, <2>6, <3>2, <4>1
    <3>3. CASE ~(i < at) /\ ~(i < at + n)
      <4>1. i - n \in 1 .. Len(rows) /\ i \in 1 .. Len(rows') /\ rows'[i] = rows[i - n]
        BY <1>2, <1>5, <1>6, <3>3
      <4>2. AllData'[i] = AllData[i - n]
        BY <1>8, <4>1, SameRowShown
      <4>. QED BY <2>6, <2>7, <3>3, <4>2
    <3>. QED BY <3>1, <3>2, <3>3
  <2>8. view = AllData => view' = AllData'
    BY <2>3, <2>6, <2>7, SeqEqual
  <2>. QED BY <1>6, <2>6, <2>8
<1>. QED BY <1>7, <1>9, <1>11, <1>12, ChangeEndsRight

\* endRemoveRows()
LEMMA RemoveEnds ==
  ASSUME TableInv, Removing, change.op \in RowOps, rows' = change.rows, change' = NoChange,
         UNCHANGED <<hasSource, columns, m_roleMappings>>, End("remove")
  PROVE  TableInv' /\ StepRight
<1>1. PICK first \in 1 .. Len(rows) : \E last \in first .. Len(rows) :
        /\ rows' = WithoutRows(rows, first, last)
        /\ begun = [kind |-> "remove", first |-> first, last |-> last, to |-> 0]
  BY DEF Removing
<1>2. PICK last \in first .. Len(rows) :
        /\ rows' = WithoutRows(rows, first, last)
        /\ begun = [kind |-> "remove", first |-> first, last |-> last, to |-> 0]
  BY <1>1
<1>3. /\ rows \in Seq(RowIds) /\ IsInjective(rows) /\ Len(rows) \in Nat /\ DOMAIN rows = 1 .. Len(rows)
      /\ first \in Nat /\ last \in Nat /\ first >= 1
  BY LenProperties DEF TableInv, TableTypes
<1>4. PICK n : n = last - first + 1
  OBVIOUS
<1>5. n \in Nat /\ n <= Len(rows)
  BY <1>3, <1>4
<1>6. /\ rows' \in Seq(RowIds) /\ Len(rows') = Len(rows) - n
      /\ \A i \in 1 .. Len(rows) - n : rows'[i] = IF i < first THEN rows[i] ELSE rows[i + last - first + 1]
  BY ONLY <1>2, <1>3, <1>4, first \in 1 .. Len(rows), last \in first .. Len(rows), RowsRemovedRight
<1>7. TableTypes' /\ MappingTypes'
  <2>1. IsInjective(rows')
    BY <1>2, <1>3, RemovedInjective
  <2>. QED BY <1>6, <2>1 DEF TableInv, TableTypes, MappingTypes
<1>8. AllDataShown /\ AllDataShown'
  BY <1>7, AllDataRight, PTL DEF TableInv
<1>9. RowsFollowed
  <2> SUFFICES ASSUME NEW p \in Nat
               PROVE  RowAfter(p) \in Nat /\ (RowAfter(p) # 0 => At(rows', RowAfter(p)) = At(rows, p))
    BY DEF RowsFollowed
  <2>1. RowAfter(p) = IF p \in first .. last THEN 0 ELSE IF p > last THEN p - (last - first + 1) ELSE p
    BY <1>2, <1>3, RowAfterRemove
  <2>2. CASE p \in first .. last
    BY <2>1, <2>2
  <2>3. CASE p \notin first .. last
    <3>1. At(WithoutRows(rows, first, last), IF p > last THEN p - (last - first + 1) ELSE p) = At(rows, p)
      BY <1>3, <2>3, AtRemoved
    <3>2. RowAfter(p) = IF p > last THEN p - (last - first + 1) ELSE p
      BY <2>1, <2>3
    <3>3. RowAfter(p) \in Nat
      BY <1>3, <3>2
    <3>. QED BY <1>2, <3>1, <3>2, <3>3
  <2>. QED BY <2>2, <2>3
<1>10. begun.kind = "remove" /\ begun.kind # "insert" /\ begun.kind # "move" /\ begun.first = first /\ begun.last = last
  BY <1>2
<1>11. ChangeEnds
  BY <1>10 DEF End, ChangeEnds
<1>12. ASSUME ~resetting
       PROVE  view' \in Seq(RowShown) /\ Len(view') = Len(rows') /\ (view = AllData => view' = AllData')
  <2>1. view' = WithoutRows(view, first, last)
    BY <1>10, <1>12, Zenon DEF End
  <2>2. AllData' \in Seq(RowShown) /\ Len(AllData') = Len(rows) - n
    BY <1>6, <1>8 DEF AllDataShown
  <2>3. view \in Seq(RowShown) /\ Len(view) = Len(rows) /\ first \in 1 .. Len(view) /\ last \in first .. Len(view)
    BY <1>12 DEF TableInv, FollowerTypes
  <2>4. /\ view' \in Seq(RowShown) /\ Len(view') = Len(rows) - n
        /\ \A i \in 1 .. Len(rows) - n : view'[i] = IF i < first THEN view[i] ELSE view[i + last - first + 1]
    <3>1. Len(view') = Len(view) - (last - first + 1) /\ view' \in Seq(RowShown)
      BY ONLY <2>1, <2>3, RowsRemovedRight
    <3>2. \A i \in 1 .. Len(view) - (last - first + 1) : view'[i] = IF i < first THEN view[i] ELSE view[i + last - first + 1]
      BY ONLY <2>1, <2>3, RowsRemovedRight
    <3>. QED BY <1>4, <2>3, <3>1, <3>2
  <2>5. ASSUME view = AllData, NEW i \in 1 .. Len(rows) - n PROVE view'[i] = AllData'[i]
    <3>1. CASE i < first
      <4>1. i \in 1 .. Len(rows) /\ i \in 1 .. Len(rows')
        <5>1. Len(rows) \in Nat /\ n \in Nat /\ i \in 1 .. Len(rows) - n
          BY <1>3, <1>5
        <5>2. i \in 1 .. Len(rows)
          BY ONLY <5>1
        <5>. QED BY <1>6, <5>1, <5>2
      <4>2. rows'[i] = rows[i]
        BY <1>6, <3>1
      <4>. QED BY <1>8, <2>4, <2>5, <3>1, <4>1, <4>2, SameRowShown
    <3>2. CASE ~(i < first)
      <4>1. PICK j : j = i + last - first + 1
        OBVIOUS
      <4>2. j \in 1 .. Len(rows) /\ i \in 1 .. Len(rows') /\ rows'[i] = rows[j] /\ view'[i] = view[j]
        BY <1>3, <1>4, <1>5, <1>6, <2>4, <3>2, <4>1
      <4>3. AllData'[i] = AllData[j]
        BY <1>8, <4>2, SameRowShown
      <4>. QED BY <2>5, <4>2, <4>3
    <3>. QED BY <3>1, <3>2
  <2>6. view = AllData => view' = AllData'
    BY <2>2, <2>4, <2>5, SeqEqual
  <2>. QED BY <1>6, <2>4, <2>6
<1>. QED BY <1>7, <1>9, <1>11, <1>12, ChangeEndsRight

\* endMoveRows()
LEMMA MoveEnds ==
  ASSUME TableInv, Moving, change.op \in RowOps, rows' = change.rows, change' = NoChange,
         UNCHANGED <<hasSource, columns, m_roleMappings>>, End("move")
  PROVE  TableInv' /\ StepRight
<1>1. PICK first \in 1 .. Len(rows) : \E last \in first .. Len(rows) : \E to \in MoveTargets(Len(rows), first, last) :
        /\ rows' = WithRowsMoved(rows, first, last, to)
        /\ begun = [kind |-> "move", first |-> first, last |-> last, to |-> to]
  BY DEF Moving
<1>2. PICK last \in first .. Len(rows) : \E to \in MoveTargets(Len(rows), first, last) :
        /\ rows' = WithRowsMoved(rows, first, last, to)
        /\ begun = [kind |-> "move", first |-> first, last |-> last, to |-> to]
  BY <1>1
<1>3. PICK to \in MoveTargets(Len(rows), first, last) :
        /\ rows' = WithRowsMoved(rows, first, last, to)
        /\ begun = [kind |-> "move", first |-> first, last |-> last, to |-> to]
  BY <1>2
<1>4. /\ rows \in Seq(RowIds) /\ IsInjective(rows) /\ Len(rows) \in Nat /\ DOMAIN rows = 1 .. Len(rows)
  BY LenProperties DEF TableInv, TableTypes
<1>5. /\ first \in Nat /\ last \in Nat /\ to \in Nat /\ first <= last /\ first >= 1 /\ last <= Len(rows)
      /\ to >= 1 /\ to <= Len(rows) + 1 /\ (to > last \/ to < first)
  BY <1>4 DEF MoveTargets
<1>6. rows' \in Seq(RowIds) /\ Len(rows') = Len(rows) /\ MovedAs(rows', rows, first, last, to)
  <2>1. rows' \in Seq(RowIds) /\ MovedAs(rows', rows, first, last, to)
    BY <1>3, <1>4, MovedAsRight
  <2>. QED BY <2>1 DEF MovedAs
<1>7. TableTypes' /\ MappingTypes'
  <2>1. IsInjective(rows')
    BY <1>3, <1>4, MovedInjective
  <2>. QED BY <1>6, <2>1 DEF TableInv, TableTypes, MappingTypes
<1>8. AllDataShown /\ AllDataShown'
  BY <1>7, AllDataRight, PTL DEF TableInv
<1>9. RowsFollowed
  <2> SUFFICES ASSUME NEW p \in Nat PROVE RowAfter(p) \in Nat /\ At(rows', RowAfter(p)) = At(rows, p)
    BY DEF RowsFollowed
  <2>1. CASE to > last
    <3>1. RowAfter(p) = IF p \in first .. last THEN p + to - last - 1
                        ELSE IF p \in last + 1 .. to - 1 THEN p - (last - first + 1) ELSE p
      BY <1>3, <1>5, <2>1, RowAfterMove
    <3>2. RowAfter(p) \in Nat
      BY <1>5, <2>1, <3>1
    <3>3. At(rows', RowAfter(p)) = At(rows, p)
      BY <1>3, <1>4, <2>1, <3>1, AtMoved
    <3>. QED BY <3>2, <3>3
  <2>2. CASE to < first
    <3>1. RowAfter(p) = IF p \in first .. last THEN p - (first - to)
                        ELSE IF p \in to .. first - 1 THEN p + (last - first + 1) ELSE p
      BY <1>3, <1>5, <2>2, RowAfterMove
    <3>2. RowAfter(p) \in Nat
      BY <1>5, <2>2, <3>1
    <3>3. At(rows', RowAfter(p)) = At(rows, p)
      BY <1>3, <1>4, <2>2, <3>1, AtMoved
    <3>. QED BY <3>2, <3>3
  <2>. QED BY <1>5, <2>1, <2>2
<1>10. /\ begun.kind = "move" /\ begun.kind # "insert" /\ begun.kind # "remove"
       /\ begun.first = first /\ begun.last = last /\ begun.to = to
  BY <1>3
<1>11. ChangeEnds
  BY <1>10 DEF End, ChangeEnds
<1>12. ASSUME ~resetting
       PROVE  view' \in Seq(RowShown) /\ Len(view') = Len(rows') /\ (view = AllData => view' = AllData')
  <2>1. view' = WithRowsMoved(view, first, last, to)
    BY <1>10, <1>12, Zenon DEF End
  <2>2. AllData' \in Seq(RowShown) /\ Len(AllData') = Len(rows)
    BY <1>6, <1>8 DEF AllDataShown
  <2>3. /\ view \in Seq(RowShown) /\ Len(view) = Len(rows)
        /\ first \in 1 .. Len(view) /\ last \in first .. Len(view) /\ to \in MoveTargets(Len(view), first, last)
    BY <1>12 DEF TableInv, FollowerTypes
  <2>4. view' \in Seq(RowShown) /\ Len(view') = Len(rows) /\ MovedAs(view', view, first, last, to)
    BY <2>1, <2>3, MovedAsRight DEF MovedAs
  <2>5. ASSUME view = AllData, NEW i \in 1 .. Len(rows) PROVE view'[i] = AllData'[i]
    <3>1. ASSUME NEW j \in 1 .. Len(rows), rows'[i] = rows[j], view'[i] = view[j] PROVE view'[i] = AllData'[i]
      BY <1>6, <1>8, <2>5, <3>1, SameRowShown
    <3>2. CASE to > last
      <4>1. /\ rows'[i] = IF i < first \/ i >= to THEN rows[i]
                          ELSE IF i < first + (to - 1 - last) THEN rows[i + (last - first + 1)] ELSE rows[i - (to - 1 - last)]
            /\ view'[i] = IF i < first \/ i >= to THEN view[i]
                          ELSE IF i < first + (to - 1 - last) THEN view[i + (last - first + 1)] ELSE view[i - (to - 1 - last)]
        BY <1>6, <2>3, <2>4, <3>2 DEF MovedAs
      <4>2. CASE i < first \/ i >= to
        BY <3>1, <4>1, <4>2
      <4>3. CASE ~(i < first \/ i >= to) /\ i < first + (to - 1 - last)
        <5>1. i + (last - first + 1) \in 1 .. Len(rows)
          BY <1>4, <1>5, <3>2, <4>3
        <5>. QED BY <3>1, <4>1, <4>3, <5>1
      <4>4. CASE ~(i < first \/ i >= to) /\ ~(i < first + (to - 1 - last))
        <5>1. i - (to - 1 - last) \in 1 .. Len(rows)
          BY <1>4, <1>5, <3>2, <4>4
        <5>. QED BY <3>1, <4>1, <4>4, <5>1
      <4>. QED BY <4>2, <4>3, <4>4
    <3>3. CASE ~(to > last)
      <4>1. /\ rows'[i] = IF i < to \/ i > last THEN rows[i]
                          ELSE IF i < to + (last - first + 1) THEN rows[i + (first - to)] ELSE rows[i - (last - first + 1)]
            /\ view'[i] = IF i < to \/ i > last THEN view[i]
                          ELSE IF i < to + (last - first + 1) THEN view[i + (first - to)] ELSE view[i - (last - first + 1)]
        BY <1>6, <2>3, <2>4, <3>3 DEF MovedAs
      <4>2. CASE i < to \/ i > last
        BY <3>1, <4>1, <4>2
      <4>3. CASE ~(i < to \/ i > last) /\ i < to + (last - first + 1)
        <5>1. i + (first - to) \in 1 .. Len(rows)
          BY <1>4, <1>5, <3>3, <4>3
        <5>. QED BY <3>1, <4>1, <4>3, <5>1
      <4>4. CASE ~(i < to \/ i > last) /\ ~(i < to + (last - first + 1))
        <5>1. i - (last - first + 1) \in 1 .. Len(rows)
          BY <1>4, <1>5, <3>3, <4>4
        <5>. QED BY <3>1, <4>1, <4>4, <5>1
      <4>. QED BY <4>2, <4>3, <4>4
    <3>. QED BY <3>2, <3>3
  <2>6. view = AllData => view' = AllData'
    BY <2>2, <2>4, <2>5, SeqEqual
  <2>. QED BY <1>6, <2>4, <2>6
<1>. QED BY <1>7, <1>9, <1>11, <1>12, ChangeEndsRight

\* rowsInsertedInSourceModel(), rowsRemovedInSourceModel(), rowsMovedInSourceModel() and what precedes them
LEMMA RowStepRight == TableInv /\ RowStep => TableInv' /\ StepRight
<1> SUFFICES ASSUME TableInv, RowStep PROVE TableInv' /\ StepRight
  OBVIOUS
<1>1. CASE RowsAboutToBeInserted \/ RowsAboutToBeRemoved \/ RowsAboutToBeMoved
  BY <1>1, RowsAboutToBeInsertedStep, RowsAboutToBeRemovedStep, RowsAboutToBeMovedStep
<1>2. CASE RowsInserted
  <2>1. Inserting /\ change.op \in RowOps
    BY <1>2 DEF RowsInserted, TableInv, Announced, RowOps
  <2>. QED BY <1>2, <2>1, InsertEnds DEF RowsInserted
<1>3. CASE RowsRemoved
  <2>1. Removing /\ change.op \in RowOps
    BY <1>3 DEF RowsRemoved, TableInv, Announced, RowOps
  <2>. QED BY <1>3, <2>1, RemoveEnds DEF RowsRemoved
<1>4. CASE RowsMoved
  <2>1. /\ change.op = "rowsMoved" /\ change.op \in RowOps /\ rows' = change.rows /\ change' = NoChange
        /\ UNCHANGED <<hasSource, columns, m_roleMappings>> /\ End(MoveEndsAs)
    BY <1>4 DEF RowsMoved, RowOps
  <2>2. /\ change.fromRoot \in BOOLEAN /\ change.toRoot \in BOOLEAN
        /\ ~change.fromRoot => change.toRoot /\ Inserting
        /\ change.fromRoot /\ ~change.toRoot => Removing
        /\ change.fromRoot /\ change.toRoot => Moving
    BY <2>1 DEF TableInv, Announced, RowOps
  <2>3. CASE ~change.fromRoot
    <3>1. MoveEndsAs = "insert"
      BY <2>3, Zenon DEF MoveEndsAs
    <3>. QED BY <2>1, <2>2, <2>3, <3>1, InsertEnds
  <2>4. CASE change.fromRoot /\ ~change.toRoot
    <3>1. MoveEndsAs = "remove"
      BY <2>4, Zenon DEF MoveEndsAs
    <3>. QED BY <2>1, <2>2, <2>4, <3>1, RemoveEnds
  <2>5. CASE change.fromRoot /\ change.toRoot
    <3>1. MoveEndsAs = "move"
      BY <2>5, Zenon DEF MoveEndsAs
    <3>. QED BY <2>1, <2>2, <2>5, <3>1, MoveEnds
  <2>. QED BY <2>2, <2>3, <2>4, <2>5
<1>. QED BY <1>1, <1>2, <1>3, <1>4 DEF RowStep
-----------------------------------------------------------------------------
(* The theorems *)

\* Every step keeps the invariant and goes wrong only in the three known ways.
LEMMA TableStep == TableInv /\ Next => TableInv' /\ StepRight
<1> SUFFICES ASSUME TableInv, Next PROVE TableInv' /\ StepRight
  OBVIOUS
<1>1. CASE \E t \in Tables : SetSourceModel(TRUE, t)
  BY <1>1, SetSourceModelStep
<1>2. CASE SourceModelDestroyed
  BY <1>2, SetSourceModelStep DEF SourceModelDestroyed
<1>3. CASE SetRoleMapping \/ UnsetRoleMapping \/ Pin \/ DataChanged
  BY <1>3, SetRoleMappingStep, UnsetRoleMappingStep, PinStep, DataChangedStep
<1>4. CASE RowStep \/ ColumnStep
  BY <1>4, RowStepRight, ColumnStepRight
<1>5. CASE LayoutStep
  BY <1>5, ModelAboutToBeResetStep, ModelResetStep, LayoutAboutToBeChangedStep, LayoutChangedStep,
     RowsSortedStep, ColumnsSortedStep DEF LayoutStep
<1>. QED BY <1>1, <1>2, <1>3, <1>4, <1>5 DEF Next

\* When nothing happens, nothing changes.
LEMMA TableStutters == TableInv /\ UNCHANGED vars => TableInv'
<1> SUFFICES ASSUME TableInv, UNCHANGED vars PROVE TableInv'
  OBVIOUS
<1>1. UNCHANGED <<hasSource, columns, rows, m_roleMappings, change, begun, resetting, view, pin>>
  BY DEF vars, table
<1>2. TableTypes' /\ MappingTypes'
  BY <1>1 DEF TableInv, TableTypes, MappingTypes
<1>3. Announced'
  BY <1>1 DEF TableInv, Announced, Idle, Inserting, Removing, Moving
<1>4. Saved'
  BY <1>1 DEF TableInv, Saved, HasChildren
<1>5. FollowerTypes'
  BY <1>1 DEF TableInv, FollowerTypes
<1>. QED BY <1>2, <1>3, <1>4, <1>5 DEF TableInv

\* The types of the state hold, what the source has announced is what it does
\* next, what is saved before a layout change is still there after it, and a
\* view has as many rows as the list.
THEOREM TableToListTypeCorrect == Spec => []TableInv
<1>1. TableInv /\ [Next]_vars => TableInv'
  BY TableStep, TableStutters
<1>. QED BY <1>1, TableInvInit, PTL DEF Spec

\* Every beginInsertRows(), beginRemoveRows() and beginMoveRows() is followed
\* by its own end.
THEOREM TableToListChangesPaired == Spec => []ChangesPaired
<1>1. TableInv => ChangesPaired
  <2> SUFFICES ASSUME TableInv PROVE ChangesPaired
    OBVIOUS
  <2>1. Idle => begun = NotBegun
    BY DEF TableInv, Announced, Idle, NoChange, RowOps
  <2>2. begun.kind # "mismatched"
    <3>1. begun = NotBegun \/ Inserting \/ Removing \/ Moving
      BY DEF TableInv, Announced, RowOps
    <3>. QED BY <3>1 DEF NotBegun, Inserting, Removing, Moving
  <2>. QED BY <2>1, <2>2 DEF ChangesPaired
<1>. QED BY <1>1, TableToListTypeCorrect, PTL

\* A role shows the column it was mapped to after every change of the source
\* but moves of its column to the left, layout changes without a hint and
\* layout changes that are ignored, whatever has become of the other roles.
THEOREM TableToListRolesKeepColumns == Spec => RolesKeepColumnsElse
<1>1. TableInv /\ [Next]_vars =>
        [\A r \in DOMAIN m_roleMappings' :
           (Mapped(r) => ShowsItsColumn(r))
             => ShowsItsColumn(r)' \/ Unhinted \/ Overlooked \/ (Mapped(r) /\ MovedLeft(r))]_vars
  BY TableStep DEF StepRight, ShowsItsColumn
<1>. QED BY <1>1, TableToListTypeCorrect, PTL DEF Spec, RolesKeepColumnsElse

\* Apart from moves of a mapped column to the left and ignored changes, a view
\* that follows the signals keeps showing what data() returns, and a persistent
\* index keeps pointing to its row.
THEOREM TableToListFollowersStayRight == Spec => FollowersStayRight
<1>1. TableInv /\ [Next]_vars =>
        [/\ ViewRight => ViewRight' \/ Overlooked \/ \E r \in DOMAIN m_roleMappings : MovedLeft(r)
         /\ PinRight => PinRight' \/ Overlooked]_vars
  BY TableStep DEF StepRight
<1>. QED BY <1>1, TableToListTypeCorrect, PTL DEF Spec, FollowersStayRight
=============================================================================
