--------------------------- MODULE MCSquishRunner ---------------------------
(* Three tests of two suites; the second needs a screen, and the third is *)
(* expected to fail.                                                     *)
EXTENDS SquishRunner
MCSuite == [x \in 1..Tests |-> IF x = 1 THEN "a" ELSE "b"]
MCCommands ==
  {c \in [jobs : {1, 2}, maxFlakyRuns : {1, 2}, abortOnFail : BOOLEAN, native : BOOLEAN, linux : BOOLEAN,
          tests : {<<>>, <<1>>, <<3>>}, suites : {<<>>, <<"b">>}] :
     c.native => c.jobs = 1 /\ ~c.linux}
=============================================================================
