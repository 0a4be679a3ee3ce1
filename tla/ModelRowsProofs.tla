--------------------------- MODULE ModelRowsProofs ---------------------------
(***************************************************************************)
(* Row by row, what the block changes of module ModelRows do to a sequence *)
(* of any length, and what is picked from one.                             *)
(***************************************************************************)
EXTENDS ModelRows, Lists, SequencesExt, SequenceTheorems, FiniteSetTheorems, TLAPS

\* A set of numbers has a least one.
LEMMA LeastNumber ==
  ASSUME NEW N \in SUBSET Nat, N # {}
  PROVE  \E n \in N : \A m \in N : n <= m
<1> DEFINE UpTo(n) == {m \in N : m <= n}
           Parts   == {UpTo(n) : n \in N}
<1>1. ASSUME NEW n \in N PROVE UpTo(n) \in FiniteSubsetsOf(N)
  <2>1. UpTo(n) \in SUBSET Nat /\ n \in Nat /\ \A m \in UpTo(n) : m <= n
    OBVIOUS
  <2>2. IsFiniteSet(UpTo(n))
    BY ONLY <2>1, FS_BoundedSetOfNaturals
  <2>. QED BY <2>2 DEF FiniteSubsetsOf
<1>2. Parts \subseteq FiniteSubsetsOf(N) /\ Parts # {}
  BY <1>1
<1>3. IsWellFoundedOn(StrictSubsetOrdering(N), FiniteSubsetsOf(N))
  BY FS_StrictSubsetOrderingWellFounded
<1>4. PICK least \in Parts : \A part \in Parts : ~(<<part, least>> \in StrictSubsetOrdering(N))
  <2> HIDE DEF Parts
  <2>1. Parts \subseteq FiniteSubsetsOf(N) /\ Parts # {}
    BY <1>2
  <2>. QED BY ONLY <1>3, <2>1, WFMin
<1>5. PICK n \in N : least = UpTo(n)
  BY <1>4
<1>6. ASSUME NEW m \in N, m < n PROVE FALSE
  <2>1. \A x \in N : x \in Nat
    OBVIOUS
  <2>2. m \in Nat /\ n \in Nat /\ n \notin UpTo(m) /\ n \in UpTo(n)
    BY <1>6, <2>1
  <2>3. ASSUME NEW x \in UpTo(m) PROVE x \in UpTo(n)
    BY <1>6, <2>1
  <2>4. UpTo(m) \subseteq N /\ UpTo(n) \subseteq N /\ UpTo(m) \subseteq UpTo(n) /\ n \in UpTo(n) /\ n \notin UpTo(m)
    BY <2>2, <2>3
  <2>5. <<UpTo(m), UpTo(n)>> \in StrictSubsetOrdering(N)
    <3>1. PICK p, q : p = UpTo(m) /\ q = UpTo(n)
      OBVIOUS
    <3>2. p \subseteq N /\ q \subseteq N /\ p \subseteq q /\ p # q
      BY <2>4, <3>1
    <3>3. <<p, q>> \in StrictSubsetOrdering(N)
      BY ONLY <3>2 DEF StrictSubsetOrdering
    <3>. QED BY <3>1, <3>3
  <2>. QED BY <1>4, <1>5, <2>5
<1>. QED BY <1>6

\* The minimum of a set is its least number, ...
LEMMA MinRight ==
  ASSUME NEW S \in SUBSET Nat, S # {}
  PROVE  Min(S) \in S /\ \A i \in S : Min(S) <= i
BY LeastNumber DEF Min

\* ... and the maximum the greatest, if the set has a bound, ...
LEMMA MaxRight ==
  ASSUME NEW S \in SUBSET Nat, S # {}, NEW b \in Nat, \A i \in S : i <= b
  PROVE  Max(S) \in S /\ \A i \in S : i <= Max(S)
<1> DEFINE below == {b - i : i \in S}
<1>1. below \in SUBSET Nat /\ below # {}
  <2>1. \A i \in S : b - i \in Nat
    OBVIOUS
  <2>2. PICK i : i \in S
    OBVIOUS
  <2>. QED BY <2>1, <2>2
<1>2. PICK j \in below : \A k \in below : j <= k
  BY <1>1, LeastNumber
<1>3. PICK m \in S : j = b - m
  OBVIOUS
<1>4. ASSUME NEW i \in S PROVE m >= i
  <2>1. b - m <= b - i
    BY <1>2, <1>3
  <2>. QED BY <2>1
<1>5. \A x \in S : (\A i \in S : x >= i) => x >= m
  OBVIOUS
<1>. QED BY <1>4 DEF Max

\* ... which a finite one has.
LEMMA FiniteSetIsBounded ==
  ASSUME NEW S \in SUBSET Nat, IsFiniteSet(S)
  PROVE  \E b \in Nat : \A i \in S : i <= b
<1> DEFINE From(n) == {m \in S : m >= n}
           counts  == {Cardinality(From(n)) : n \in S}
<1>1. CASE S = {}
  BY <1>1
<1>2. CASE S # {}
  <2>1. ASSUME NEW n \in S PROVE IsFiniteSet(From(n)) /\ Cardinality(From(n)) \in Nat
    <3>1. From(n) \in SUBSET S
      OBVIOUS
    <3>2. IsFiniteSet(From(n))
      <4> HIDE DEF From
      <4>. QED BY <3>1, FS_Subset
    <3>. QED BY <3>2, FS_CardinalityType
  <2>2. counts \in SUBSET Nat /\ counts # {}
    BY <1>2, <2>1
  <2>3. PICK k \in counts : \A c \in counts : k <= c
    BY <2>2, LeastNumber
  <2>4. PICK n \in S : k = Cardinality(From(n))
    OBVIOUS
  <2>5. ASSUME NEW m \in S, ~(m <= n) PROVE FALSE
    <3>1. From(m) \in SUBSET From(n) /\ n \in From(n) /\ n \notin From(m)
      <4>1. m \in Nat /\ n \in Nat
        OBVIOUS
      <4>2. \A i \in Nat : i >= m => i >= n
        BY <2>5, <4>1
      <4>3. ASSUME NEW i \in From(m) PROVE i \in From(n)
        BY <4>2
      <4>4. n \in From(n) /\ n \notin From(m)
        BY <2>5, <4>1
      <4>. QED BY <4>3, <4>4
    <3>2. Cardinality(From(m)) <= Cardinality(From(n)) /\ (Cardinality(From(n)) = Cardinality(From(m)) => From(n) = From(m))
      <4>1. PICK p, q : p = From(m) /\ q = From(n)
        OBVIOUS
      <4>2. p \in SUBSET q /\ IsFiniteSet(q)
        BY <2>1, <3>1, <4>1
      <4>. QED BY ONLY <4>1, <4>2, FS_Subset
    <3>3. k <= Cardinality(From(m))
      BY <2>3
    <3>4. Cardinality(From(m)) = Cardinality(From(n))
      <4>1. PICK a, b : a = Cardinality(From(m)) /\ b = Cardinality(From(n))
        OBVIOUS
      <4>2. a \in Nat /\ b \in Nat /\ a <= b /\ b <= a
        BY <2>1, <2>4, <3>2, <3>3, <4>1
      <4>. QED BY ONLY <4>1, <4>2
    <3>. QED BY <3>1, <3>2, <3>4
  <2>. QED BY <2>5
<1>. QED BY <1>1, <1>2

\* A function on the numbers from 1 to n is a sequence.
LEMMA FunctionIsSeq ==
  ASSUME NEW T, NEW n \in Nat, NEW f \in [1 .. n -> T]
  PROVE  f \in Seq(T) /\ Len(f) = n
OBVIOUS

\* A part of a sequence.
LEMMA PartOfRows ==
  ASSUME NEW T, NEW s \in Seq(T), NEW a \in 1 .. Len(s) + 1, NEW b \in a - 1 .. Len(s)
  PROVE  /\ SubSeq(s, a, b) \in Seq(T)
         /\ Len(SubSeq(s, a, b)) = b - a + 1
         /\ \A i \in 1 .. b - a + 1 : SubSeq(s, a, b)[i] = s[a + i - 1]
<1>1. Len(s) \in Nat /\ \A i \in 1 .. Len(s) : s[i] \in T
  BY LenProperties, ElementOfSeq
<1>2. \A i \in a .. b : s[i] \in T
  BY <1>1
<1>. QED BY <1>1, <1>2, SubSeqProperties

\* The rows that are inserted come between those in front of them and the others.
LEMMA RowsInsertedRight ==
  ASSUME NEW T, NEW s \in Seq(T), NEW t \in Seq(T), NEW pos \in 1 .. Len(s) + 1
  PROVE  /\ WithRowsAt(s, pos, t) \in Seq(T)
         /\ Len(WithRowsAt(s, pos, t)) = Len(s) + Len(t)
         /\ \A i \in 1 .. Len(s) + Len(t) :
              WithRowsAt(s, pos, t)[i] =
                IF i < pos THEN s[i] ELSE IF i < pos + Len(t) THEN t[i - pos + 1] ELSE s[i - Len(t)]
<1> DEFINE before == SubSeq(s, 1, pos - 1)
           behind == SubSeq(s, pos, Len(s))
           start  == before \o t
<1>1. Len(s) \in Nat /\ Len(t) \in Nat
  BY LenProperties
<1>2. /\ before \in Seq(T) /\ Len(before) = pos - 1
      /\ \A i \in 1 .. pos - 1 : before[i] = s[i]
  BY <1>1, PartOfRows
<1>3. /\ behind \in Seq(T) /\ Len(behind) = Len(s) - pos + 1
      /\ \A i \in 1 .. Len(s) - pos + 1 : behind[i] = s[pos + i - 1]
  BY <1>1, PartOfRows
<1>4. /\ start \in Seq(T) /\ Len(start) = pos - 1 + Len(t)
      /\ \A i \in 1 .. pos - 1 + Len(t) : start[i] = IF i < pos THEN s[i] ELSE t[i - pos + 1]
  <2>1. \A i \in 1 .. pos - 1 + Len(t) : start[i] = IF i <= Len(before) THEN before[i] ELSE t[i - Len(before)]
    BY <1>2, ConcatProperties
  <2>2. ASSUME NEW i \in 1 .. pos - 1 + Len(t) PROVE start[i] = IF i < pos THEN s[i] ELSE t[i - pos + 1]
    <3>1. CASE i < pos
      BY <1>1, <1>2, <2>1, <3>1
    <3>2. CASE ~(i < pos)
      <4>1. i - Len(before) = i - pos + 1 /\ ~(i <= Len(before))
        BY <1>2, <3>2
      <4>. QED BY <2>1, <3>2, <4>1
    <3>. QED BY <3>1, <3>2
  <2>. QED BY <1>2, <2>2, ConcatProperties
<1> HIDE DEF before, behind, start
<1>5. /\ start \o behind \in Seq(T) /\ Len(start \o behind) = Len(s) + Len(t)
      /\ \A i \in 1 .. Len(s) + Len(t) :
           (start \o behind)[i] = IF i <= Len(start) THEN start[i] ELSE behind[i - Len(start)]
  <2>1. Len(start) + Len(behind) = Len(s) + Len(t)
    BY <1>1, <1>3, <1>4
  <2>2. /\ start \o behind \in Seq(T) /\ Len(start \o behind) = Len(start) + Len(behind)
        /\ \A i \in 1 .. Len(start) + Len(behind) :
             (start \o behind)[i] = IF i <= Len(start) THEN start[i] ELSE behind[i - Len(start)]
    <3>1. start \in Seq(T) /\ behind \in Seq(T)
      BY <1>3, <1>4
    <3>. QED BY ONLY <3>1, ConcatProperties
  <2>. QED BY <2>1, <2>2
<1>6. ASSUME NEW i \in 1 .. Len(s) + Len(t)
      PROVE  (start \o behind)[i] =
               IF i < pos THEN s[i] ELSE IF i < pos + Len(t) THEN t[i - pos + 1] ELSE s[i - Len(t)]
  <2>1. CASE i < pos + Len(t)
    BY <1>1, <1>4, <1>5, <2>1
  <2>2. CASE ~(i < pos + Len(t))
    <3>1. i - Len(start) \in 1 .. Len(s) - pos + 1 /\ pos + (i - Len(start)) - 1 = i - Len(t)
          /\ ~(i <= Len(start))
      BY <1>1, <1>4, <2>2
    <3>2. ~(i < pos)
      BY <1>1, <2>2
    <3>. QED BY <1>3, <1>5, <2>2, <3>1, <3>2
  <2>. QED BY <2>1, <2>2
<1>. QED BY <1>5, <1>6 DEF WithRowsAt, start, before, behind

\* The rows behind those that are removed close up.
LEMMA RowsRemovedRight ==
  ASSUME NEW T, NEW s \in Seq(T), NEW first \in 1 .. Len(s), NEW last \in first .. Len(s)
  PROVE  /\ WithoutRows(s, first, last) \in Seq(T)
         /\ Len(WithoutRows(s, first, last)) = Len(s) - (last - first + 1)
         /\ \A i \in 1 .. Len(s) - (last - first + 1) :
              WithoutRows(s, first, last)[i] = IF i < first THEN s[i] ELSE s[i + last - first + 1]
<1> DEFINE before == SubSeq(s, 1, first - 1)
           behind == SubSeq(s, last + 1, Len(s))
<1>1. Len(s) \in Nat
  BY LenProperties
<1>2. /\ before \in Seq(T) /\ Len(before) = first - 1
      /\ \A i \in 1 .. first - 1 : before[i] = s[i]
  BY <1>1, PartOfRows
<1>3. /\ behind \in Seq(T) /\ Len(behind) = Len(s) - last
      /\ \A i \in 1 .. Len(s) - last : behind[i] = s[last + i]
  <2>1. /\ behind \in Seq(T) /\ Len(behind) = Len(s) - (last + 1) + 1
        /\ \A i \in 1 .. Len(s) - (last + 1) + 1 : behind[i] = s[last + 1 + i - 1]
    BY <1>1, PartOfRows
  <2>2. Len(s) - (last + 1) + 1 = Len(s) - last /\ \A i \in 1 .. Len(s) - last : last + 1 + i - 1 = last + i
    BY <1>1
  <2>. QED BY <2>1, <2>2
<1> HIDE DEF before, behind
<1>4. /\ before \o behind \in Seq(T) /\ Len(before \o behind) = Len(s) - (last - first + 1)
      /\ \A i \in 1 .. Len(s) - (last - first + 1) :
           (before \o behind)[i] = IF i <= Len(before) THEN before[i] ELSE behind[i - Len(before)]
  <2>1. Len(before) + Len(behind) = Len(s) - (last - first + 1)
    BY <1>1, <1>2, <1>3
  <2>2. /\ before \o behind \in Seq(T) /\ Len(before \o behind) = Len(before) + Len(behind)
        /\ \A i \in 1 .. Len(before) + Len(behind) :
             (before \o behind)[i] = IF i <= Len(before) THEN before[i] ELSE behind[i - Len(before)]
    BY <1>2, <1>3, ConcatProperties
  <2>. QED BY <2>1, <2>2
<1>5. ASSUME NEW i \in 1 .. Len(s) - (last - first + 1)
      PROVE  (before \o behind)[i] = IF i < first THEN s[i] ELSE s[i + last - first + 1]
  <2>1. CASE i < first
    BY <1>1, <1>2, <1>4, <2>1
  <2>2. CASE ~(i < first)
    <3>1. i - Len(before) \in 1 .. Len(s) - last /\ last + (i - Len(before)) = i + last - first + 1
          /\ ~(i <= Len(before))
      BY <1>1, <1>2, <2>2
    <3>. QED BY <1>3, <1>4, <2>2, <3>1
  <2>. QED BY <2>1, <2>2
<1>. QED BY <1>4, <1>5 DEF WithoutRows, before, behind

\* Four sequences in a row.
LEMMA FourParts ==
  ASSUME NEW T, NEW p \in Seq(T), NEW q \in Seq(T), NEW r \in Seq(T), NEW t \in Seq(T)
  PROVE  /\ p \o q \o r \o t \in Seq(T) /\ Len(p \o q \o r \o t) = Len(p) + Len(q) + Len(r) + Len(t)
         /\ \A i \in 1 .. Len(p) + Len(q) + Len(r) + Len(t) :
              (p \o q \o r \o t)[i] =
                IF i <= Len(p) THEN p[i]
                ELSE IF i <= Len(p) + Len(q) THEN q[i - Len(p)]
                ELSE IF i <= Len(p) + Len(q) + Len(r) THEN r[i - Len(p) - Len(q)]
                ELSE t[i - Len(p) - Len(q) - Len(r)]
<1>1. Len(p) \in Nat /\ Len(q) \in Nat /\ Len(r) \in Nat /\ Len(t) \in Nat
  BY LenProperties
<1>2. PICK pq, pqr : pq = p \o q /\ pqr = pq \o r
  OBVIOUS
<1>3. PICK k, m, n : k = Len(p) /\ m = Len(p) + Len(q) /\ n = Len(p) + Len(q) + Len(r)
  OBVIOUS
<1>4. pq \in Seq(T) /\ Len(pq) = m /\ \A i \in 1 .. m : pq[i] = IF i <= k THEN p[i] ELSE q[i - k]
  BY ONLY <1>2, <1>3, p \in Seq(T), q \in Seq(T), ConcatProperties
<1>5. pqr \in Seq(T) /\ Len(pqr) = n /\ \A i \in 1 .. n : pqr[i] = IF i <= m THEN pq[i] ELSE r[i - m]
  BY ONLY <1>2, <1>3, <1>4, r \in Seq(T), ConcatProperties
<1>6. /\ pqr \o t \in Seq(T) /\ Len(pqr \o t) = n + Len(t)
      /\ \A i \in 1 .. n + Len(t) : (pqr \o t)[i] = IF i <= n THEN pqr[i] ELSE t[i - n]
  BY ONLY <1>5, t \in Seq(T), ConcatProperties
<1>7. PICK all : all = pqr \o t
  OBVIOUS
<1>8. ASSUME NEW i \in 1 .. n + Len(t)
      PROVE  all[i] = IF i <= k THEN p[i] ELSE IF i <= m THEN q[i - k] ELSE IF i <= n THEN r[i - m] ELSE t[i - n]
  <2>1. k \in Nat /\ m \in Nat /\ n \in Nat /\ k <= m /\ m <= n /\ i \in Nat
    BY <1>1, <1>3
  <2>2. CASE i > n
    BY <1>6, <1>7, <2>1, <2>2
  <2>3. CASE ~(i > n)
    <3>1. i \in 1 .. n /\ all[i] = pqr[i]
      BY <1>6, <1>7, <2>1, <2>3
    <3>2. CASE i > m
      BY <1>5, <2>1, <3>1, <3>2
    <3>3. CASE ~(i > m)
      <4>1. i \in 1 .. m /\ all[i] = pq[i]
        BY <1>5, <2>1, <3>1, <3>3
      <4>. QED BY <1>4, <2>1, <3>3, <4>1
    <3>. QED BY <3>2, <3>3
  <2>. QED BY <2>2, <2>3
<1>9. /\ n + Len(t) = Len(p) + Len(q) + Len(r) + Len(t)
      /\ \A i \in 1 .. n + Len(t) : i - m = i - Len(p) - Len(q) /\ i - n = i - Len(p) - Len(q) - Len(r)
  BY <1>1, <1>3
<1>10. all = p \o q \o r \o t
  BY ONLY <1>2, <1>7
<1>. QED BY ONLY <1>3, <1>6, <1>7, <1>8, <1>9, <1>10

\* Rows that are moved change places with those that they are moved over.
LEMMA RowsMovedRight ==
  ASSUME NEW T, NEW s \in Seq(T), NEW first \in 1 .. Len(s), NEW last \in first .. Len(s),
         NEW to \in MoveTargets(Len(s), first, last)
  PROVE  /\ WithRowsMoved(s, first, last, to) \in Seq(T) /\ Len(WithRowsMoved(s, first, last, to)) = Len(s)
         /\ to > last => \A i \in 1 .. Len(s) :
              WithRowsMoved(s, first, last, to)[i] =
                IF i < first \/ i >= to THEN s[i]
                ELSE IF i < first + (to - 1 - last) THEN s[i + (last - first + 1)] ELSE s[i - (to - 1 - last)]
         /\ ~(to > last) => to < first /\ \A i \in 1 .. Len(s) :
              WithRowsMoved(s, first, last, to)[i] =
                IF i < to \/ i > last THEN s[i]
                ELSE IF i < to + (last - first + 1) THEN s[i + (first - to)] ELSE s[i - (last - first + 1)]
<1>1. /\ Len(s) \in Nat /\ first \in Nat /\ last \in Nat /\ to \in Nat /\ 1 <= first /\ first <= last /\ last <= Len(s)
      /\ 1 <= to /\ to <= Len(s) + 1 /\ (to < first \/ to > last + 1)
  <2>1. Len(s) \in Nat /\ to \in 1 .. Len(s) + 1 /\ to \notin first .. last + 1
    BY LenProperties DEF MoveTargets
  <2>. QED BY <2>1
<1>2. PICK moved : moved = WithRowsMoved(s, first, last, to)
  OBVIOUS
<1>3. CASE to > last
  <2>1. PICK p, q, r, t : /\ p = SubSeq(s, 1, first - 1) /\ q = SubSeq(s, last + 1, to - 1)
                          /\ r = SubSeq(s, first, last) /\ t = SubSeq(s, to, Len(s))
    OBVIOUS
  <2>2. p \in Seq(T) /\ Len(p) = first - 1 /\ \A i \in 1 .. first - 1 : p[i] = s[i]
    <3>1. /\ 1 \in 1 .. Len(s) + 1 /\ first - 1 \in 1 - 1 .. Len(s) /\ first - 1 - 1 + 1 = first - 1
          /\ \A i \in 1 .. first - 1 : 1 + i - 1 = i
      BY <1>1
    <3>2. p \in Seq(T) /\ Len(p) = first - 1 - 1 + 1 /\ \A i \in 1 .. first - 1 - 1 + 1 : p[i] = s[1 + i - 1]
      BY ONLY <2>1, <3>1, s \in Seq(T), PartOfRows
    <3>. QED BY <3>1, <3>2
  <2>3. q \in Seq(T) /\ Len(q) = to - 1 - last /\ \A i \in 1 .. to - 1 - last : q[i] = s[last + i]
    <3>1. /\ last + 1 \in 1 .. Len(s) + 1 /\ to - 1 \in (last + 1) - 1 .. Len(s) /\ to - 1 - (last + 1) + 1 = to - 1 - last
          /\ \A i \in 1 .. to - 1 - last : last + 1 + i - 1 = last + i
      BY <1>1, <1>3
    <3>2. q \in Seq(T) /\ Len(q) = to - 1 - (last + 1) + 1 /\ \A i \in 1 .. to - 1 - (last + 1) + 1 : q[i] = s[last + 1 + i - 1]
      BY ONLY <2>1, <3>1, s \in Seq(T), PartOfRows
    <3>. QED BY <3>1, <3>2
  <2>4. r \in Seq(T) /\ Len(r) = last - first + 1 /\ \A i \in 1 .. last - first + 1 : r[i] = s[first + i - 1]
    BY <1>1, <2>1, PartOfRows, SMTT(20)
  <2>5. t \in Seq(T) /\ Len(t) = Len(s) - to + 1 /\ \A i \in 1 .. Len(s) - to + 1 : t[i] = s[to + i - 1]
    <3>1. to \in 1 .. Len(s) + 1 /\ Len(s) \in to - 1 .. Len(s)
      BY <1>1
    <3>. QED BY ONLY <2>1, <3>1, s \in Seq(T), PartOfRows
  <2>6. moved = p \o q \o r \o t
    BY ONLY <1>2, <1>3, <2>1 DEF WithRowsMoved
  <2>7. /\ moved \in Seq(T) /\ Len(moved) = Len(p) + Len(q) + Len(r) + Len(t)
        /\ \A i \in 1 .. Len(p) + Len(q) + Len(r) + Len(t) :
             moved[i] = IF i <= Len(p) THEN p[i]
                        ELSE IF i <= Len(p) + Len(q) THEN q[i - Len(p)]
                        ELSE IF i <= Len(p) + Len(q) + Len(r) THEN r[i - Len(p) - Len(q)]
                        ELSE t[i - Len(p) - Len(q) - Len(r)]
    <3>1. p \in Seq(T) /\ q \in Seq(T) /\ r \in Seq(T) /\ t \in Seq(T)
      BY <2>2, <2>3, <2>4, <2>5
    <3>. QED BY ONLY <2>6, <3>1, FourParts, SMTT(20)
  <2>8. /\ Len(p) + Len(q) + Len(r) + Len(t) = Len(s) /\ Len(p) + Len(q) = first + (to - 1 - last) - 1
        /\ Len(p) + Len(q) + Len(r) = to - 1
    BY <1>1, <2>2, <2>3, <2>4, <2>5
  <2>9. ASSUME NEW i \in 1 .. Len(s)
        PROVE  moved[i] = IF i < first \/ i >= to THEN s[i]
                          ELSE IF i < first + (to - 1 - last) THEN s[i + (last - first + 1)] ELSE s[i - (to - 1 - last)]
    <3>1. CASE i < first
      <4>1. i \in 1 .. first - 1 /\ i <= Len(p) /\ i \in 1 .. Len(p) + Len(q) + Len(r) + Len(t)
        BY <1>1, <2>2, <2>8, <3>1
      <4>2. moved[i] = p[i]
        BY <2>7, <4>1
      <4>. QED BY <2>2, <3>1, <4>1, <4>2
    <3>2. CASE i >= first /\ i < first + (to - 1 - last)
      <4>1. /\ i - Len(p) \in 1 .. to - 1 - last /\ last + (i - Len(p)) = i + (last - first + 1)
            /\ ~(i <= Len(p)) /\ i <= Len(p) + Len(q) /\ ~(i < first \/ i >= to)
        BY <1>1, <1>3, <2>2, <2>8, <3>2
      <4>2. moved[i] = q[i - Len(p)]
        BY <2>7, <2>8, <4>1
      <4>. QED BY <2>3, <3>2, <4>1, <4>2
    <3>3. CASE i >= first + (to - 1 - last) /\ i < to
      <4>1. /\ i - Len(p) - Len(q) \in 1 .. last - first + 1 /\ first + (i - Len(p) - Len(q)) - 1 = i - (to - 1 - last)
            /\ ~(i <= Len(p)) /\ ~(i <= Len(p) + Len(q)) /\ i <= Len(p) + Len(q) + Len(r)
            /\ ~(i < first \/ i >= to) /\ ~(i < first + (to - 1 - last))
        BY <1>1, <1>3, <2>2, <2>3, <2>8, <3>3
      <4>2. moved[i] = r[i - Len(p) - Len(q)]
        BY <2>7, <2>8, <4>1
      <4>. QED BY <2>4, <4>1, <4>2
    <3>4. CASE i >= to
      <4>1. /\ i - Len(p) - Len(q) - Len(r) \in 1 .. Len(s) - to + 1 /\ to + (i - Len(p) - Len(q) - Len(r)) - 1 = i
            /\ ~(i <= Len(p)) /\ ~(i <= Len(p) + Len(q)) /\ ~(i <= Len(p) + Len(q) + Len(r))
        BY <1>1, <1>3, <2>2, <2>3, <2>4, <2>8, <3>4
      <4>2. moved[i] = t[i - Len(p) - Len(q) - Len(r)]
        BY <2>7, <2>8, <4>1
      <4>. QED BY <2>5, <3>4, <4>1, <4>2
    <3>. QED BY <1>1, <3>1, <3>2, <3>3, <3>4
  <2>. QED BY <1>2, <1>3, <2>7, <2>8, <2>9
<1>4. CASE ~(to > last)
  <2>1. PICK p, q, r, t : /\ p = SubSeq(s, 1, to - 1) /\ q = SubSeq(s, first, last)
                          /\ r = SubSeq(s, to, first - 1) /\ t = SubSeq(s, last + 1, Len(s))
    OBVIOUS
  <2>2. p \in Seq(T) /\ Len(p) = to - 1 /\ \A i \in 1 .. to - 1 : p[i] = s[i]
    BY <1>1, <1>4, <2>1, PartOfRows
  <2>3. q \in Seq(T) /\ Len(q) = last - first + 1 /\ \A i \in 1 .. last - first + 1 : q[i] = s[first + i - 1]
    <3>1. first \in 1 .. Len(s) + 1 /\ last \in first - 1 .. Len(s)
      BY <1>1
    <3>. QED BY ONLY <2>1, <3>1, s \in Seq(T), PartOfRows
  <2>4. r \in Seq(T) /\ Len(r) = first - to /\ \A i \in 1 .. first - to : r[i] = s[to + i - 1]
    <3>1. /\ to \in 1 .. Len(s) + 1 /\ first - 1 \in to - 1 .. Len(s) /\ first - 1 - to + 1 = first - to
      BY <1>1, <1>4
    <3>2. r \in Seq(T) /\ Len(r) = first - 1 - to + 1 /\ \A i \in 1 .. first - 1 - to + 1 : r[i] = s[to + i - 1]
      BY <2>1, <3>1, PartOfRows
    <3>. QED BY <3>1, <3>2
  <2>5. t \in Seq(T) /\ Len(t) = Len(s) - last /\ \A i \in 1 .. Len(s) - last : t[i] = s[last + i]
    <3>1. /\ last + 1 \in 1 .. Len(s) + 1 /\ Len(s) \in (last + 1) - 1 .. Len(s) /\ Len(s) - (last + 1) + 1 = Len(s) - last
          /\ \A i \in 1 .. Len(s) - last : last + 1 + i - 1 = last + i
      BY <1>1
    <3>2. PICK a : a = last + 1
      OBVIOUS
    <3>3. t = SubSeq(s, a, Len(s)) /\ a \in 1 .. Len(s) + 1 /\ Len(s) \in a - 1 .. Len(s)
      BY <2>1, <3>1, <3>2
    <3>4. t \in Seq(T) /\ Len(t) = Len(s) - a + 1 /\ \A i \in 1 .. Len(s) - a + 1 : t[i] = s[a + i - 1]
      BY ONLY <3>3, s \in Seq(T), PartOfRows
    <3>. QED BY <3>1, <3>2, <3>4
  <2>6. moved = p \o q \o r \o t
    BY ONLY <1>2, <1>4, <2>1 DEF WithRowsMoved
  <2>7. /\ moved \in Seq(T) /\ Len(moved) = Len(p) + Len(q) + Len(r) + Len(t)
        /\ \A i \in 1 .. Len(p) + Len(q) + Len(r) + Len(t) :
             moved[i] = IF i <= Len(p) THEN p[i]
                        ELSE IF i <= Len(p) + Len(q) THEN q[i - Len(p)]
                        ELSE IF i <= Len(p) + Len(q) + Len(r) THEN r[i - Len(p) - Len(q)]
                        ELSE t[i - Len(p) - Len(q) - Len(r)]
    <3>1. p \in Seq(T) /\ q \in Seq(T) /\ r \in Seq(T) /\ t \in Seq(T)
      BY <2>2, <2>3, <2>4, <2>5
    <3>. QED BY ONLY <2>6, <3>1, FourParts, SMTT(20)
  <2>8. /\ Len(p) + Len(q) + Len(r) + Len(t) = Len(s) /\ Len(p) + Len(q) = to + (last - first + 1) - 1
        /\ Len(p) + Len(q) + Len(r) = last
    BY <1>1, <2>2, <2>3, <2>4, <2>5
  <2>9. ASSUME NEW i \in 1 .. Len(s)
        PROVE  moved[i] = IF i < to \/ i > last THEN s[i]
                          ELSE IF i < to + (last - first + 1) THEN s[i + (first - to)] ELSE s[i - (last - first + 1)]
    <3>1. CASE i < to
      <4>1. i \in 1 .. to - 1 /\ i <= Len(p) /\ i \in 1 .. Len(p) + Len(q) + Len(r) + Len(t)
        BY <1>1, <2>2, <2>8, <3>1
      <4>2. moved[i] = p[i]
        BY <2>7, <4>1
      <4>. QED BY <2>2, <3>1, <4>1, <4>2
    <3>2. CASE i >= to /\ i < to + (last - first + 1)
      <4>1. /\ i - Len(p) \in 1 .. last - first + 1 /\ first + (i - Len(p)) - 1 = i + (first - to)
            /\ ~(i <= Len(p)) /\ i <= Len(p) + Len(q) /\ ~(i < to \/ i > last)
        BY <1>1, <1>4, <2>2, <2>8, <3>2
      <4>2. moved[i] = q[i - Len(p)]
        BY <2>7, <2>8, <4>1
      <4>. QED BY <2>3, <3>2, <4>1, <4>2
    <3>3. CASE i >= to + (last - first + 1) /\ i <= last
      <4>1. /\ i - Len(p) - Len(q) \in 1 .. first - to /\ to + (i - Len(p) - Len(q)) - 1 = i - (last - first + 1)
            /\ ~(i <= Len(p)) /\ ~(i <= Len(p) + Len(q)) /\ i <= Len(p) + Len(q) + Len(r)
            /\ ~(i < to \/ i > last) /\ ~(i < to + (last - first + 1))
        BY <1>1, <1>4, <2>2, <2>3, <2>8, <3>3
      <4>2. moved[i] = r[i - Len(p) - Len(q)]
        BY <2>7, <2>8, <4>1
      <4>. QED BY <2>4, <4>1, <4>2
    <3>4. CASE i > last
      <4>1. /\ i - Len(p) - Len(q) - Len(r) \in 1 .. Len(s) - last /\ last + (i - Len(p) - Len(q) - Len(r)) = i
            /\ ~(i <= Len(p)) /\ ~(i <= Len(p) + Len(q)) /\ ~(i <= Len(p) + Len(q) + Len(r))
        <5>1. Len(p) \in Nat /\ Len(q) \in Nat /\ Len(r) \in Nat /\ last \in Nat /\ Len(s) \in Nat /\ i \in Nat
          BY <1>1, <2>2, <2>3, <2>4, LenProperties
        <5>2. Len(p) + Len(q) + Len(r) = last /\ i > last /\ i <= Len(s)
          BY <1>1, <2>8, <3>4
        <5>. QED BY ONLY <5>1, <5>2
      <4>2. moved[i] = t[i - Len(p) - Len(q) - Len(r)]
        BY <2>7, <2>8, <4>1
      <4>. QED BY <2>5, <3>4, <4>1, <4>2
    <3>. QED BY <1>1, <3>1, <3>2, <3>3, <3>4
  <2>10. to < first
    BY <1>1, <1>4
  <2>. QED BY <1>2, <1>4, <2>7, <2>8, <2>9, <2>10
<1>. QED BY <1>3, <1>4

\* A sequence with one more element.
LEMMA AppendRight ==
  ASSUME NEW S, NEW s \in Seq(S), NEW e \in S
  PROVE  Append(s, e) \in Seq(S) /\ Range(Append(s, e)) = Range(s) \cup {e}
<1>1. PICK l : l = Len(s)
  OBVIOUS
<1>2. PICK new : new = Append(s, e)
  OBVIOUS
<1>3. /\ l \in Nat /\ DOMAIN s = 1 .. l /\ new \in Seq(S) /\ DOMAIN new = 1 .. l + 1
      /\ (\A i \in 1 .. l : new[i] = s[i]) /\ new[l + 1] = e
  BY <1>1, <1>2, AppendProperties, LenProperties
<1>4. \A i \in 1 .. l + 1 : i \in 1 .. l \/ i = l + 1
  BY <1>3
<1>5. l + 1 \in 1 .. l + 1 /\ \A i \in 1 .. l : i \in 1 .. l + 1
  BY <1>3
<1>. QED BY ONLY <1>2, <1>3, <1>4, <1>5 DEF Range

\* The recursion that picks elements has a solution.
LEMMA PartsExist ==
  ASSUME NEW s, Len(s) \in Nat, NEW T
  PROVE  \E part : part = [n \in 0 .. Len(s) |->
           IF n = 0 THEN <<>> ELSE IF s[n] \in T THEN Append(part[n - 1], s[n]) ELSE part[n - 1]]
<1> DEFINE Parts(f, k) == f = [n \in 0 .. k |->
             IF n = 0 THEN <<>> ELSE IF s[n] \in T THEN Append(f[n - 1], s[n]) ELSE f[n - 1]]
           missing == {k \in Nat : ~\E f : Parts(f, k)}
<1>1. ASSUME missing # {} PROVE FALSE
  <2>1. PICK k \in missing : \A m \in missing : k <= m
    <3>1. missing \in SUBSET Nat
      OBVIOUS
    <3> HIDE DEF missing
    <3>. QED BY ONLY <1>1, <3>1, LeastNumber
  <2>2. k \in Nat
    OBVIOUS
  <2>3. CASE k = 0
    <3>1. PICK f : f = [n \in 0 .. 0 |-> <<>>]
      OBVIOUS
    <3>2. Parts(f, k)
      BY <2>3, <3>1
    <3>. QED BY <3>2
  <2>4. CASE k # 0
    <3>1. k - 1 \in Nat /\ ~(k <= k - 1)
      BY <2>2, <2>4
    <3>2. PICK f : Parts(f, k - 1)
      BY <2>1, <3>1
    <3>3. PICK g : g = [n \in 0 .. k |-> IF n = k THEN IF s[k] \in T THEN Append(f[k - 1], s[k]) ELSE f[k - 1] ELSE f[n]]
      OBVIOUS
    <3>4. ASSUME NEW n \in 0 .. k
          PROVE  g[n] = IF n = 0 THEN <<>> ELSE IF s[n] \in T THEN Append(g[n - 1], s[n]) ELSE g[n - 1]
      <4>1. CASE n = k
        <5>1. n - 1 \in 0 .. k /\ n - 1 # k /\ n # 0
          BY <2>2, <2>4, <4>1
        <5>2. g[n - 1] = f[n - 1]
          BY <3>3, <5>1
        <5>. QED BY <3>3, <4>1, <5>1, <5>2
      <4>2. CASE n # k
        <5>1. n \in 0 .. k - 1
          BY <2>2, <4>2
        <5>2. g[n] = f[n]
          BY <3>3, <4>2
        <5>3. f[n] = IF n = 0 THEN <<>> ELSE IF s[n] \in T THEN Append(f[n - 1], s[n]) ELSE f[n - 1]
          BY <3>2, <5>1
        <5>4. n # 0 => g[n - 1] = f[n - 1]
          <6> SUFFICES ASSUME n # 0 PROVE g[n - 1] = f[n - 1]
            OBVIOUS
          <6>1. n - 1 \in 0 .. k /\ n - 1 # k
            BY <2>2, <5>1
          <6>. QED BY <3>3, <6>1
        <5>. QED BY <5>2, <5>3, <5>4
      <4>. QED BY <4>1, <4>2
    <3>5. Parts(g, k)
      BY <3>3, <3>4
    <3>. QED BY <3>5
  <2>. QED BY <2>3, <2>4
<1>. QED BY <1>1

\* What has been picked after so many elements.
LEMMA AmongParts ==
  ASSUME NEW S, NEW s \in Seq(S), NEW T
  PROVE  \E part : /\ Among(s, T) = part[Len(s)] /\ part[0] = <<>>
                   /\ \A n \in 1 .. Len(s) : part[n] = IF s[n] \in T THEN Append(part[n - 1], s[n]) ELSE part[n - 1]
<1> DEFINE Parts(f) == f = [n \in 0 .. Len(s) |->
             IF n = 0 THEN <<>> ELSE IF s[n] \in T THEN Append(f[n - 1], s[n]) ELSE f[n - 1]]
<1>1. Len(s) \in Nat
  BY LenProperties
<1>2. PICK part : part = CHOOSE f : Parts(f)
  OBVIOUS
<1>3. Parts(part)
  <2>1. \E f : Parts(f)
    BY ONLY <1>1, PartsExist, Zenon
  <2> HIDE DEF Parts
  <2>. QED BY ONLY <1>2, <2>1, Zenon
<1>4. Among(s, T) = part[Len(s)]
  BY <1>2, Zenon DEF Among
<1>5. /\ part[0] = <<>>
      /\ \A n \in 1 .. Len(s) : part[n] = IF s[n] \in T THEN Append(part[n - 1], s[n]) ELSE part[n - 1]
  <2>1. \A n \in 0 .. Len(s) : part[n] = IF n = 0 THEN <<>> ELSE IF s[n] \in T THEN Append(part[n - 1], s[n]) ELSE part[n - 1]
    BY ONLY <1>3, Zenon
  <2>2. 0 \in 0 .. Len(s) /\ \A n \in 1 .. Len(s) : n \in 0 .. Len(s) /\ n # 0
    BY ONLY <1>1
  <2>. QED BY ONLY <2>1, <2>2
<1>. QED BY ONLY <1>4, <1>5

\* What is picked is in the list and in the set, once if it was once in the list.
LEMMA AmongRight ==
  ASSUME NEW S, NEW s \in Seq(S), NEW T
  PROVE  /\ Among(s, T) \in Seq(S) /\ Range(Among(s, T)) = Range(s) \cap T
         /\ IsInjective(s) => IsInjective(Among(s, T))
<1>1. Len(s) \in Nat /\ DOMAIN s = 1 .. Len(s) /\ \A i \in 1 .. Len(s) : s[i] \in S
  BY LenProperties, ElementOfSeq
<1>2. PICK part : /\ Among(s, T) = part[Len(s)] /\ part[0] = <<>>
                  /\ \A n \in 1 .. Len(s) : part[n] = IF s[n] \in T THEN Append(part[n - 1], s[n]) ELSE part[n - 1]
  BY AmongParts
<1>3. Among(s, T) = part[Len(s)]
  BY <1>2
<1>4. /\ part[0] = <<>>
      /\ \A n \in 1 .. Len(s) : part[n] = IF s[n] \in T THEN Append(part[n - 1], s[n]) ELSE part[n - 1]
  BY <1>2
<1> DEFINE Before(n) == {s[i] : i \in 1 .. n} \cap T
           Right(n)  == /\ part[n] \in Seq(S) /\ Range(part[n]) = Before(n)
                        /\ IsInjective(s) => IsInjective(part[n])
           wrong     == {n \in 0 .. Len(s) : ~Right(n)}
<1>5. ASSUME wrong # {} PROVE FALSE
  <2>1. PICK n \in wrong : \A m \in wrong : n <= m
    <3>1. wrong \in SUBSET Nat
      BY <1>1
    <3> HIDE DEF wrong
    <3>. QED BY ONLY <1>5, <3>1, LeastNumber
  <2>2. n \in 0 .. Len(s) /\ ~Right(n)
    OBVIOUS
  <2>3. CASE n = 0
    <3>1. part[0] \in Seq(S) /\ Range(part[0]) = {} /\ IsInjective(part[0])
      BY <1>4 DEF Range, IsInjective
    <3>2. Before(0) = {}
      OBVIOUS
    <3>. QED BY <2>2, <2>3, <3>1, <3>2
  <2>4. CASE n # 0
    <3>1. n \in 1 .. Len(s) /\ n - 1 \in 0 .. Len(s) /\ n - 1 \in Nat /\ n \in Nat /\ ~(n <= n - 1)
      BY ONLY <1>1, <2>2, <2>4
    <3>2. Right(n - 1)
      BY <2>1, <3>1
    <3>3. PICK old, e : old = part[n - 1] /\ e = s[n]
      OBVIOUS
    <3>4. old \in Seq(S) /\ Range(old) = Before(n - 1) /\ (IsInjective(s) => IsInjective(old)) /\ e \in S
      BY <1>1, <3>1, <3>2, <3>3
    <3>5. Before(n) = Before(n - 1) \cup ({e} \cap T)
      <4>1. \A i \in Int : i \in 1 .. n <=> i \in 1 .. n - 1 \/ i = n
        BY ONLY <3>1
      <4>. QED BY <3>3, <4>1
    <3>6. CASE e \notin T
      BY <1>4, <2>2, <3>1, <3>3, <3>4, <3>5, <3>6
    <3>7. CASE e \in T
      <4>1. part[n] = Append(old, e)
        BY <1>4, <3>1, <3>3, <3>7
      <4>2. PICK new : new = Append(old, e)
        OBVIOUS
      <4>3. /\ new \in Seq(S) /\ Len(old) \in Nat /\ DOMAIN old = 1 .. Len(old) /\ DOMAIN new = 1 .. Len(old) + 1
            /\ \A i \in 1 .. Len(old) : new[i] = old[i]
            /\ new[Len(old) + 1] = e
        BY ONLY <3>4, <4>2, AppendProperties, LenProperties
      <4>4. Range(new) = Range(old) \cup {e}
        BY ONLY <4>3 DEF Range
      <4>5. ASSUME IsInjective(s) PROVE IsInjective(new)
        <5>1. \A i \in 1 .. n - 1 : s[i] # e
          BY <1>1, <3>1, <3>3, <4>5 DEF IsInjective
        <5>2. e \notin Range(old)
          BY <3>4, <5>1
        <5>3. \A i \in 1 .. Len(old) : old[i] # e
          BY <4>3, <5>2 DEF Range
        <5>4. \A i, j \in 1 .. Len(old) : old[i] = old[j] => i = j
          BY <3>4, <4>3, <4>5 DEF IsInjective
        <5>5. ASSUME NEW i \in 1 .. Len(old) + 1, NEW j \in 1 .. Len(old) + 1, new[i] = new[j] PROVE i = j
          <6>1. (i \in 1 .. Len(old) \/ i = Len(old) + 1) /\ (j \in 1 .. Len(old) \/ j = Len(old) + 1)
            BY <4>3
          <6>. QED BY ONLY <4>3, <5>3, <5>4, <5>5, <6>1
        <5>. QED BY ONLY <4>3, <5>5 DEF IsInjective
      <4>. QED BY <2>2, <3>4, <3>5, <3>7, <4>1, <4>2, <4>3, <4>4, <4>5
    <3>. QED BY <3>6, <3>7
  <2>. QED BY <2>3, <2>4
<1>6. Right(Len(s))
  <2> HIDE DEF Right
  <2>1. Len(s) \in 0 .. Len(s)
    BY ONLY <1>1
  <2>. QED BY <1>5, <2>1, Zenon
<1>7. Before(Len(s)) = Range(s) \cap T
  BY <1>1 DEF Range
<1>. QED BY <1>3, <1>6, <1>7

\* The recursion that joins lists has a solution.
LEMMA JoinsExist ==
  ASSUME NEW s, NEW l \in Nat
  PROVE  \E joined : joined = [n \in 1 .. l |-> IF n = 1 THEN s[n] ELSE joined[n - 1] \o s[n]]
<1> DEFINE Joins(f, k) == f = [n \in 1 .. k |-> IF n = 1 THEN s[n] ELSE f[n - 1] \o s[n]]
           missing == {k \in Nat : ~\E f : Joins(f, k)}
<1>1. ASSUME missing # {} PROVE FALSE
  <2>1. PICK k \in missing : \A m \in missing : k <= m
    <3>1. missing \in SUBSET Nat
      OBVIOUS
    <3> HIDE DEF missing
    <3>. QED BY ONLY <1>1, <3>1, LeastNumber
  <2>2. k \in Nat
    OBVIOUS
  <2>3. CASE k = 0
    <3>1. PICK f : f = [n \in 1 .. 0 |-> s[n]]
      OBVIOUS
    <3>2. Joins(f, 0)
      BY <3>1
    <3>. QED BY <2>3, <3>2
  <2>4. CASE k # 0
    <3>1. k - 1 \in Nat /\ ~(k <= k - 1)
      BY <2>2, <2>4
    <3>2. PICK f : Joins(f, k - 1)
      BY <2>1, <3>1
    <3>3. PICK g : g = [n \in 1 .. k |-> IF n = k THEN IF k = 1 THEN s[k] ELSE f[k - 1] \o s[k] ELSE f[n]]
      OBVIOUS
    <3>4. ASSUME NEW n \in 1 .. k
          PROVE  g[n] = IF n = 1 THEN s[n] ELSE g[n - 1] \o s[n]
      <4>1. CASE n = k
        <5>1. n # 1 => n - 1 \in 1 .. k /\ n - 1 # k
          BY <2>2, <4>1
        <5>2. n # 1 => g[n - 1] = f[n - 1]
          BY <3>3, <5>1
        <5>. QED BY <3>3, <4>1, <5>2
      <4>2. CASE n # k
        <5>1. n \in 1 .. k - 1
          BY <2>2, <4>2
        <5>2. g[n] = f[n]
          BY <3>3, <4>2
        <5>3. f[n] = IF n = 1 THEN s[n] ELSE f[n - 1] \o s[n]
          BY <3>2, <5>1
        <5>4. ASSUME n # 1 PROVE g[n - 1] = f[n - 1]
          <6>1. n - 1 \in 1 .. k /\ n - 1 # k
            BY <2>2, <5>1, <5>4
          <6>. QED BY <3>3, <6>1
        <5>. QED BY <5>2, <5>3, <5>4
      <4>. QED BY <4>1, <4>2
    <3>5. Joins(g, k)
      BY <3>3, <3>4
    <3>. QED BY <3>5
  <2>. QED BY <2>3, <2>4
<1>. QED BY <1>1

\* Lists joined are a list.
LEMMA JoinedRight ==
  ASSUME NEW S, NEW l \in Nat, NEW s \in [1 .. l -> Seq(S)]
  PROVE  FlattenSeq(s) \in Seq(S)
<1> DEFINE Joins(f) == f = [n \in 1 .. l |-> IF n = 1 THEN s[n] ELSE f[n - 1] \o s[n]]
<1>1. Len(s) = l /\ s \in Seq(Seq(S)) /\ \A n \in 1 .. l : s[n] \in Seq(S)
  <2>1. PICK T : T = Seq(S)
    OBVIOUS
  <2>2. s \in [1 .. l -> T]
    BY <2>1
  <2>. QED BY ONLY <2>1, <2>2, l \in Nat, FunctionIsSeq
<1>2. CASE l = 0
  <2>1. s = <<>>
    BY <1>1, <1>2, EmptySeq
  <2>2. FlattenSeq(s) = s
    BY <1>1, <1>2 DEF FlattenSeq
  <2>3. <<>> \in Seq(S)
    OBVIOUS
  <2>. QED BY ONLY <2>1, <2>2, <2>3
<1>3. CASE l # 0
  <2>1. PICK joined : joined = CHOOSE f : Joins(f)
    OBVIOUS
  <2>2. Joins(joined)
    <3>1. \E f : Joins(f)
      BY ONLY l \in Nat, JoinsExist, Zenon
    <3> HIDE DEF Joins
    <3>. QED BY ONLY <2>1, <3>1, Zenon
  <2>3. FlattenSeq(s) = joined[l]
    <3>1. FlattenSeq(s) = LET flatten == CHOOSE f : f = [n \in 1 .. Len(s) |-> IF n = 1 THEN s[n] ELSE f[n - 1] \o s[n]]
                          IN flatten[Len(s)]
      BY <1>1, <1>3, Zenon DEF FlattenSeq
    <3>. QED BY ONLY <1>1, <2>1, <3>1
  <2> DEFINE bad == {n \in 1 .. l : joined[n] \notin Seq(S)}
  <2>4. ASSUME bad # {} PROVE FALSE
    <3>1. PICK n \in bad : \A m \in bad : n <= m
      <4>1. bad \in SUBSET Nat
        OBVIOUS
      <4> HIDE DEF bad
      <4>. QED BY ONLY <2>4, <4>1, LeastNumber
    <3>2. n \in 1 .. l /\ joined[n] \notin Seq(S)
      OBVIOUS
    <3>3. joined[n] = IF n = 1 THEN s[n] ELSE joined[n - 1] \o s[n]
      BY <2>2, <3>2
    <3>4. n # 1
      BY <1>1, <3>2, <3>3
    <3>5. n - 1 \in 1 .. l /\ ~(n <= n - 1)
      BY <3>2, <3>4
    <3>6. joined[n - 1] \in Seq(S)
      BY <3>1, <3>5
    <3>7. joined[n - 1] \o s[n] \in Seq(S)
      BY <1>1, <3>2, <3>6, ConcatProperties
    <3>. QED BY <3>2, <3>3, <3>4, <3>7
  <2>. QED BY <2>3, <2>4, <1>3
<1>. QED BY <1>2, <1>3

\* The first element of a list and the others.
LEMMA HeadAndTail ==
  ASSUME NEW T, NEW s \in Seq(T), s # <<>>
  PROVE  /\ Head(s) \in ToSet(s) /\ Head(s) \in T /\ Tail(s) \in Seq(T) /\ ToSet(Tail(s)) \subseteq ToSet(s)
         /\ \A x \in ToSet(s) : x = Head(s) \/ x \in ToSet(Tail(s))
         /\ IsInjective(s) => IsInjective(Tail(s)) /\ Head(s) \notin ToSet(Tail(s))
<1>1. PICK l, tail : l = Len(s) /\ tail = Tail(s)
  OBVIOUS
<1>2. l \in Nat /\ l >= 1 /\ DOMAIN s = 1 .. l /\ \A i \in 1 .. l : s[i] \in T
  BY <1>1, LenProperties, EmptySeq, ElementOfSeq
<1>3. Head(s) = s[1] /\ tail \in Seq(T) /\ DOMAIN tail = 1 .. l - 1 /\ \A i \in 1 .. l - 1 : tail[i] = s[i + 1]
  BY <1>1, HeadTailProperties, LenProperties
<1>4. \A i \in 1 .. l : i = 1 \/ (i - 1 \in 1 .. l - 1 /\ s[i] = tail[i - 1])
  BY ONLY <1>2, <1>3
<1>5. 1 \in 1 .. l /\ \A i \in 1 .. l - 1 : i + 1 \in 1 .. l /\ i + 1 # 1
  BY ONLY <1>2
<1>6. ToSet(s) = {s[i] : i \in 1 .. l} /\ ToSet(tail) = {tail[i] : i \in 1 .. l - 1}
  BY ONLY <1>2, <1>3 DEF ToSet
<1>7. Head(s) \in ToSet(s) /\ Head(s) \in T
  BY ONLY <1>2, <1>3, <1>5, <1>6
<1>8. ToSet(tail) \subseteq ToSet(s)
  BY ONLY <1>3, <1>5, <1>6
<1>9. \A x \in ToSet(s) : x = Head(s) \/ x \in ToSet(tail)
  BY ONLY <1>3, <1>4, <1>6
<1>10. ASSUME IsInjective(s) PROVE IsInjective(tail) /\ Head(s) \notin ToSet(tail)
  <2>1. \A i, j \in 1 .. l : s[i] = s[j] => i = j
    BY ONLY <1>2, <1>10 DEF IsInjective
  <2>2. \A i, j \in 1 .. l - 1 : tail[i] = tail[j] => i + 1 = j + 1
    BY ONLY <1>3, <1>5, <2>1
  <2>3. \A i, j \in 1 .. l - 1 : tail[i] = tail[j] => i = j
    BY ONLY <2>2
  <2>4. \A i \in 1 .. l - 1 : tail[i] # s[1]
    BY ONLY <1>3, <1>5, <2>1
  <2>. QED BY ONLY <1>3, <1>6, <2>3, <2>4 DEF IsInjective
<1>. QED BY ONLY <1>1, <1>3, <1>7, <1>8, <1>9, <1>10

\* How many elements are not picked.
LEMMA AmongCount ==
  ASSUME NEW S, NEW s \in Seq(S), NEW T
  PROVE  Cardinality({i \in DOMAIN s : s[i] \notin T}) = Len(s) - Len(Among(s, T))
<1>1. PICK l : l = Len(s)
  OBVIOUS
<1>2. l \in Nat /\ DOMAIN s = 1 .. l /\ \A i \in 1 .. l : s[i] \in S
  BY <1>1, LenProperties, ElementOfSeq
<1>3. PICK part : /\ Among(s, T) = part[l] /\ part[0] = <<>>
                  /\ \A n \in 1 .. l : part[n] = IF s[n] \in T THEN Append(part[n - 1], s[n]) ELSE part[n - 1]
  <2>1. \E part : /\ Among(s, T) = part[Len(s)] /\ part[0] = <<>>
                  /\ \A n \in 1 .. Len(s) : part[n] = IF s[n] \in T THEN Append(part[n - 1], s[n]) ELSE part[n - 1]
    BY AmongParts
  <2>. QED BY ONLY <1>1, <2>1
<1> DEFINE Others(n) == {i \in 1 .. n : s[i] \notin T}
           Right(n)  == /\ part[n] \in Seq(S) /\ IsFiniteSet(Others(n))
                        /\ Cardinality(Others(n)) = n - Len(part[n])
           bad       == {n \in 0 .. l : ~Right(n)}
<1>4. ASSUME bad # {} PROVE FALSE
  <2>1. PICK n \in bad : \A m \in bad : n <= m
    <3>1. bad \in SUBSET Nat
      BY <1>2
    <3> HIDE DEF bad
    <3>. QED BY ONLY <1>4, <3>1, LeastNumber
  <2>2. n \in 0 .. l /\ ~Right(n)
    OBVIOUS
  <2>3. n # 0
    <3>1. Others(0) = {} /\ part[0] \in Seq(S) /\ Len(part[0]) = 0
      BY <1>3
    <3>2. IsFiniteSet(Others(0)) /\ Cardinality(Others(0)) = 0
      BY ONLY <3>1, FS_EmptySet
    <3>3. Right(0)
      BY <3>1, <3>2
    <3>. QED BY <2>2, <3>3
  <2>4. n \in 1 .. l /\ n - 1 \in 0 .. l /\ n \in Nat /\ ~(n <= n - 1)
    BY ONLY <1>2, <2>2, <2>3
  <2>5. PICK old, e, others, k : old = part[n - 1] /\ e = s[n] /\ others = Others(n - 1) /\ k = Len(old)
    OBVIOUS
  <2>6. old \in Seq(S) /\ IsFiniteSet(others) /\ Cardinality(others) = n - 1 - k /\ e \in S /\ k \in Nat
    BY <1>2, <2>1, <2>4, <2>5, LenProperties
  <2>7. n \notin others
    BY <2>4, <2>5
  <2>8. \A i \in Int : i \in 1 .. n <=> i \in 1 .. n - 1 \/ i = n
    BY ONLY <2>4
  <2>9. CASE e \in T
    <3>1. part[n] = Append(old, e)
      BY <1>3, <2>4, <2>5, <2>9
    <3>2. Append(old, e) \in Seq(S) /\ Len(Append(old, e)) = k + 1
      BY ONLY <2>5, <2>6, AppendProperties
    <3>3. Others(n) = others
      BY <2>5, <2>8, <2>9
    <3>4. n - 1 - k = n - (k + 1)
      BY <2>4, <2>6
    <3>. QED BY <2>2, <2>6, <3>1, <3>2, <3>3, <3>4
  <2>10. CASE e \notin T
    <3>1. part[n] = old
      BY <1>3, <2>4, <2>5, <2>10
    <3>2. Others(n) = others \cup {n}
      BY <2>4, <2>5, <2>8, <2>10
    <3>3. IsFiniteSet(others \cup {n}) /\ Cardinality(others \cup {n}) = Cardinality(others) + 1
      BY ONLY <2>6, <2>7, FS_AddElement
    <3>4. n - 1 - k + 1 = n - k
      BY <2>4, <2>6
    <3>. QED BY <2>2, <2>5, <2>6, <3>1, <3>2, <3>3, <3>4
  <2>. QED BY <2>9, <2>10
<1>5. Right(l)
  <2> HIDE DEF Right
  <2>1. l \in 0 .. l
    BY ONLY <1>2
  <2>. QED BY <1>4, <2>1, Zenon
<1>. QED BY <1>1, <1>2, <1>3, <1>5

\* Lists of one length with the same elements.
LEMMA SameList ==
  ASSUME NEW S, NEW s \in Seq(S), NEW U, NEW t \in Seq(U), NEW l, Len(s) = l, Len(t) = l, \A i \in 1 .. l : s[i] = t[i]
  PROVE  s = t
<1>1. l \in Nat /\ s \in [1 .. l -> S] /\ t \in [1 .. l -> U]
  <2>1. DOMAIN s = 1 .. l /\ DOMAIN t = 1 .. l /\ l \in Nat /\ s = [i \in 1 .. l |-> s[i]] /\ t = [i \in 1 .. l |-> t[i]]
    BY LenProperties
  <2>. QED BY <2>1, ElementOfSeq
<1>. QED BY <1>1

\* The one element that none is less than, ...
LEMMA LeastIs ==
  ASSUME NEW S \in SUBSET Int, NEW m \in S, \A i \in S : m <= i
  PROVE  Min(S) = m
<1>1. \A i, j \in S : i <= j /\ j <= i => i = j
  OBVIOUS
<1>2. PICK c : c = CHOOSE x \in S : \A y \in S : x <= y
  OBVIOUS
<1>3. c \in S /\ \A y \in S : c <= y
  BY <1>2
<1>4. c = m
  BY <1>1, <1>3
<1>. QED BY <1>2, <1>4 DEF Min

\* ... or greater than.
LEMMA GreatestIs ==
  ASSUME NEW S \in SUBSET Int, NEW m \in S, \A i \in S : i <= m
  PROVE  Max(S) = m
<1>1. \A i, j \in S : i >= j /\ j >= i => i = j
  OBVIOUS
<1>2. PICK c : c = CHOOSE x \in S : \A y \in S : x >= y
  OBVIOUS
<1>3. \A y \in S : m >= y
  OBVIOUS
<1>4. c \in S /\ \A y \in S : c >= y
  BY <1>2, <1>3
<1>5. c = m
  BY <1>1, <1>3, <1>4
<1>. QED BY <1>2, <1>5 DEF Max
=============================================================================
