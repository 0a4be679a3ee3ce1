--------------------------- MODULE StringTokenizer ---------------------------
(***************************************************************************)
(* KDToolBox's QStringTokenizer: splits a string at a separator as its     *)
(* iterator goes, without a list of the parts.                             *)
(***************************************************************************)
EXTENDS Integers, Sequences, SequencesExt, FiniteSetsExt

CONSTANTS
  Haystacks, \* the strings to split, sequences of characters
  Needles,   \* the separators
  Fold       \* each character without its case

ASSUME TokenizerAssumption ==
  /\ \A h \in Haystacks : h \in Seq(DOMAIN Fold)
  /\ \A n \in Needles : n \in Seq(DOMAIN Fold)

VARIABLES
  haystack, needle, \* m_haystack and m_needle
  skipEmpty,        \* whether m_sb is SkipEmptyParts
  caseSensitive,    \* m_cs
  state,            \* of the iterator: start, end and extra
  ok,               \* whether it is at a token
  tokens            \* history: the tokens that it has been at

tokenizerVars == <<haystack, needle, skipEmpty, caseSensitive, state, ok, tokens>>

Same(s, t) == Len(s) = Len(t)
  /\ \A i \in DOMAIN s : IF caseSensitive THEN s[i] = t[i] ELSE Fold[s[i]] = Fold[t[i]]

\* indexOf() and mid() of the strings, which count from 0.
FindNeedle(from) ==
  LET found == {i \in from..Len(haystack) - Len(needle) : Same(SubSeq(haystack, i + 1, i + Len(needle)), needle)}
  IN IF found = {} THEN -1 ELSE Min(found)
Middle(start, n) == SubSeq(haystack, start + 1, start + n)

\* One turn of the loop of next(): the token, whether it is one, and the state.
Turn(s) ==
  LET end == FindNeedle(s.start + s.extra) IN
  IF s.end < 0 THEN [value |-> <<>>, ok |-> FALSE, state |-> s]
  ELSE IF end >= 0
  THEN [value |-> Middle(s.start, end - s.start), ok |-> TRUE,
        state |-> [start |-> end + Len(needle), end |-> end, extra |-> IF needle = <<>> THEN 1 ELSE 0]]
  ELSE [value |-> Middle(s.start, Len(haystack) - s.start), ok |-> TRUE, state |-> [s EXCEPT !.end = -1]]

\* Mistake: the end is not looked at again when the last part is skipped.
SkipOnce(s) == LET t == Turn(s) IN IF skipEmpty /\ t.ok /\ t.value = <<>> THEN Turn(t.state) ELSE t

\* next(), which skips as many empty parts as there are.
Skips(s) ==
  LET turn[n \in 0..Len(haystack) + 2] ==
        IF n = 0 THEN Turn(s) ELSE Turn(turn[n - 1].state)
      empty(n) == skipEmpty /\ turn[n].ok /\ turn[n].value = <<>>
      n == CHOOSE k \in DOMAIN turn : ~empty(k) /\ \A j \in 0..k - 1 : empty(j)
  IN turn[n]

To(next) ==
  /\ state' = next.state /\ ok' = next.ok
  /\ tokens' = IF next.ok THEN Append(tokens, next.value) ELSE tokens
  /\ UNCHANGED <<haystack, needle, skipEmpty, caseSensitive>>

Zero == [start |-> 0, end |-> 0, extra |-> 0]

TokenizerInit ==
  /\ haystack \in Haystacks /\ needle \in Needles /\ skipEmpty \in BOOLEAN /\ caseSensitive \in BOOLEAN
  /\ state = Zero /\ ok = FALSE /\ tokens = <<>>

\* begin(), and operator++ of its iterator
FirstToken == state = Zero /\ To(Skips(Zero))
NextToken  == ok /\ To(Skips(state))

\* The iterator equals end().
AtEnd == state # Zero /\ ~ok

TokenizerNext == FirstToken \/ NextToken
TokenizerSpec == TokenizerInit /\ [][TokenizerNext]_tokenizerVars
-----------------------------------------------------------------------------
\* What is documented is what QString::split() returns: the parts between the
\* separators that are found from left to right.
OnePart(s) == IF skipEmpty /\ s = <<>> THEN <<>> ELSE <<s>>

Split[from \in 1..Len(haystack) + 1] ==
  LET at == {i \in from..Len(haystack) - Len(needle) + 1 : Same(SubSeq(haystack, i, i + Len(needle) - 1), needle)}
  IN IF at = {} THEN OnePart(SubSeq(haystack, from, Len(haystack)))
     ELSE OnePart(SubSeq(haystack, from, Min(at) - 1)) \o Split[Min(at) + Len(needle)]

Parts ==
  IF needle = <<>> THEN OnePart(<<>>) \o [i \in DOMAIN haystack |-> <<haystack[i]>>] \o OnePart(<<>>)
  ELSE Split[1]

\* The tokens come as the parts do, and the iterator is at its end only after the
\* last one of them.
TokensRight ==
  /\ IsPrefix(tokens, Parts)
  /\ AtEnd => tokens = Parts
=============================================================================
