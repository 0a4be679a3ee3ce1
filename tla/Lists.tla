-------------------------------- MODULE Lists --------------------------------
(***************************************************************************)
(* Some elements of a list, in their order: the connections that a signal  *)
(* calls, and the tests that a thread takes.                               *)
(***************************************************************************)
EXTENDS Integers, Sequences

\* The elements of s that are in T, in the order they have in s.
Among(s, T) ==
  LET part[n \in 0 .. Len(s)] ==
        IF n = 0 THEN <<>> ELSE IF s[n] \in T THEN Append(part[n - 1], s[n]) ELSE part[n - 1]
  IN part[Len(s)]
=============================================================================
