---------------------------- MODULE SquishRunner ----------------------------
(***************************************************************************)
(* kdrunsquish.py: runs Squish tests in several threads, each of which     *)
(* takes the tests of its share one after the other.  A test is a pair of  *)
(* processes, squishserver and squishrunner, and may be repeated until it  *)
(* succeeds.  What calls sys.exit() in a thread ends that thread only.     *)
(*                                                                         *)
(* A test is named by its place in tests.json.                             *)
(***************************************************************************)
EXTENDS Lists, SequencesExt, FiniteSets

CONSTANTS
  Threads,          \* the greatest number of jobs, from 0
  Tests,            \* the enabled tests of tests.json, from 1
  Suites,           \* the test suites
  suite,            \* of each test
  supportsOffscreen,\* the tests that can do without a screen
  failureExpected,  \* the tests that are expected to fail
  Commands,         \* what the command line may say: see below
  Nobody            \* no thread

ASSUME SquishRunnerAssumption ==
  /\ Threads \in Nat \ {0} /\ Tests \in Nat \ {0}
  /\ suite \in [1..Tests -> Suites]
  /\ supportsOffscreen \subseteq 1..Tests /\ failureExpected \subseteq 1..Tests
  /\ \A c \in Commands :
       /\ c.jobs \in 1..Threads /\ c.maxFlakyRuns \in Nat \ {0}
       /\ {c.abortOnFail, c.native, c.linux} \subseteq BOOLEAN
       /\ c.tests \in Seq(1..Tests) /\ c.suites \in Seq(Suites)
       /\ c.native => c.jobs = 1

VARIABLES
  args,         \* the command line, and whether the system is Linux
  main,         \* the main thread: "starting", "joining", "interrupted", "exited"
  exitCode,
  testsAborted, \* a test has failed and the others shall not be run
  pc,           \* each thread: "idle", "next", "preparing", "looping", "checking",
                \* "running", "waiting", "returning", "ended", or "died" by an exception
  todo,         \* the tests that a thread has still to run, the present one first
  success,      \* what the present test returned, "unassigned" before
  numRuns, wasSkipped,
  failed, succeeded, \* whether numFailures and numSuccesses of a test are positive
  serverProc,   \* whose process a test remembers as its squishserver
  servers       \* the squishserver processes that run: of a test, started by a thread

counts   == <<numRuns, wasSkipped, failed, succeeded>>
threads  == <<pc, todo, success>>
process  == <<serverProc, servers>>
vars     == <<args, main, exitCode, testsAborted, threads, counts, process>>

Jobs == 0 .. args.jobs - 1

\* The tests asked for by name, then those of each suite asked for; else all of them.
TestsBySuite(s) == Among([x \in 1..Tests |-> x], {x \in 1..Tests : suite[x] = s})
Requested ==
  IF args.tests = <<>> /\ args.suites = <<>> THEN [x \in 1..Tests |-> x]
  ELSE args.tests \o FlattenSeq([i \in DOMAIN args.suites |-> TestsBySuite(args.suites[i])])
Once == IsInjective(Requested)

\* chunks(): deals out the tests, the first of them to the second thread.
ChunkShort(j) ==
  Among([i \in DOMAIN Requested |-> i], {i \in 1..Len(Requested) - 1 : i % args.jobs = j})
Chunk(j) ==
  Among([i \in DOMAIN Requested |-> i], {i \in DOMAIN Requested : i % args.jobs = j})

Init ==
  /\ args \in Commands
  /\ main = "starting" /\ exitCode = 0 /\ testsAborted = FALSE
  /\ pc = [j \in Jobs |-> "idle"] /\ success = [j \in Jobs |-> "unassigned"]
  /\ todo = [j \in Jobs |-> <<>>]
  /\ numRuns = [x \in 1..Tests |-> 0]
  /\ wasSkipped = {} /\ failed = {} /\ succeeded = {}
  /\ serverProc = [x \in 1..Tests |-> Nobody] /\ servers = {}
-----------------------------------------------------------------------------
(* The main thread *)

\* runInParallell(): configures Squish, which may fail, and starts the threads.
RunInParallel ==
  /\ main = "starting"
  /\ \/ /\ main' = "joining" /\ UNCHANGED exitCode
        /\ todo' = [j \in Jobs |-> [i \in DOMAIN Chunk(j) |-> Requested[Chunk(j)[i]]]]
        /\ pc' = [j \in Jobs |-> IF Chunk(j) = <<>> THEN "ended" ELSE "next"]
     \/ main' = "exited" /\ exitCode' = 1 /\ UNCHANGED <<pc, todo>>
  /\ UNCHANGED <<args, testsAborted, success, counts, process>>

Finished == \A j \in Jobs : pc[j] \in {"ended", "died"}

\* Statistics: a test with both results is flaky, and that is no failure.
Failures      == {x \in ToSet(Requested) : x \notin wasSkipped /\ numRuns[x] > 0 /\ x \in failed \ succeeded}
WasSuccessful == Failures = {}

\* Mistake: killing the squishservers of the tests that have failed only.
ServersOfFailed == {<<x, serverProc[x]>> : x \in failed}
ChildProcesses  == {<<x, serverProc[x]>> : x \in 1..Tests}

Exit ==
  /\ main = "joining" /\ Finished
  /\ main' = "exited" /\ exitCode' = IF WasSuccessful THEN 0 ELSE 1
  /\ servers' = servers \ ChildProcesses
  /\ UNCHANGED <<args, testsAborted, threads, counts, serverProc>>

\* Ctrl-C.  The threads go on, and the interpreter waits for them.
Interrupt ==
  /\ main = "joining"
  /\ main' = "interrupted" /\ exitCode' = 1
  /\ servers' = servers \ ChildProcesses
  /\ UNCHANGED <<args, testsAborted, threads, counts, serverProc>>
ExitInterrupted ==
  /\ main = "interrupted" /\ Finished /\ main' = "exited"
  /\ UNCHANGED <<args, exitCode, testsAborted, threads, counts, process>>
-----------------------------------------------------------------------------
(* runInSequence(), in thread j *)

Goto(j, where) == pc' = [pc EXCEPT ![j] = where]
Test(j)        == Head(todo[j])
RemainingRuns(x) == args.maxFlakyRuns - numRuns[x]

NeedsXvfb(x) == ~args.native /\ x \notin supportsOffscreen
Skips(x)     == NeedsXvfb(x) /\ ~args.linux

End(j) ==
  /\ pc[j] = "next" /\ (todo[j] # <<>> => testsAborted)
  /\ Goto(j, "ended")
  /\ UNCHANGED <<args, main, exitCode, testsAborted, todo, success, counts, process>>

Skip(j) ==
  /\ pc[j] = "next" /\ todo[j] # <<>> /\ ~testsAborted /\ Skips(Test(j))
  /\ wasSkipped' = wasSkipped \cup {Test(j)} /\ todo' = [todo EXCEPT ![j] = Tail(@)]
  /\ UNCHANGED <<args, main, exitCode, testsAborted, pc, success, numRuns, failed, succeeded, process>>

\* Of the platforms only Xvfb has something to prepare: programs that may be missing.
Prepare(j) ==
  /\ pc[j] = "next" /\ todo[j] # <<>> /\ ~testsAborted /\ ~Skips(Test(j))
  /\ success' = [success EXCEPT ![j] = "unassigned"]
  /\ \E where \in IF NeedsXvfb(Test(j)) THEN {"preparing", "died"} ELSE {"looping"} : Goto(j, where)
  /\ UNCHANGED <<args, main, exitCode, testsAborted, todo, counts, process>>

\* The with statement around Popen() waits for the end of the X server.
XvfbEnds(j) ==
  /\ pc[j] = "preparing" /\ Goto(j, "looping")
  /\ UNCHANGED <<args, main, exitCode, testsAborted, todo, success, counts, process>>

\* runSingleTest(): once more, or what the last run returned if there was one.
RunAgain(j) ==
  /\ pc[j] = "looping" /\ success[j] # "yes" /\ RemainingRuns(Test(j)) > 0
  /\ Goto(j, "checking")
  /\ UNCHANGED <<args, main, exitCode, testsAborted, todo, success, counts, process>>
RunEnough(j) ==
  /\ pc[j] = "looping" /\ (success[j] # "yes" => RemainingRuns(Test(j)) <= 0)
  /\ Goto(j, IF success[j] = "unassigned" THEN "died" ELSE "returning")
  /\ UNCHANGED <<args, main, exitCode, testsAborted, todo, success, counts, process>>

\* killProcessByPort(): a squishserver that has been left on the port of the test is
\* killed, if the ports can be listed.
KilledByPort(x) == {servers, {s \in servers : s[1] # x}}

\* run()
Check(j) ==
  /\ pc[j] = "checking"
  /\ servers' \in KilledByPort(Test(j))
  /\ Goto(j, IF RemainingRuns(Test(j)) <= 0 THEN "died" ELSE "running")
  /\ UNCHANGED <<args, main, exitCode, testsAborted, todo, success, counts, serverProc>>

\* _runAsync(): counts the run and starts the two programs, if they are there.
Launch(j) ==
  /\ pc[j] = "running"
  /\ numRuns' = [numRuns EXCEPT ![Test(j)] = @ + 1]
  /\ \/ /\ servers' = servers \cup {<<Test(j), j>>} /\ serverProc' = [serverProc EXCEPT ![Test(j)] = j]
        /\ \E where \in {"waiting", "died"} : Goto(j, where)
     \/ Goto(j, "died") /\ UNCHANGED process
  /\ UNCHANGED <<args, main, exitCode, testsAborted, todo, success, wasSkipped, failed, succeeded>>

\* squishrunner returns, and squishserver is told to stop.
Stop(j) ==
  /\ pc[j] = "waiting"
  /\ servers' = servers \ {<<Test(j), j>>}
  /\ \E passed \in BOOLEAN :
       IF passed # (Test(j) \in failureExpected)
       THEN succeeded' = succeeded \cup {Test(j)} /\ success' = [success EXCEPT ![j] = "yes"] /\ UNCHANGED failed
       ELSE failed' = failed \cup {Test(j)} /\ success' = [success EXCEPT ![j] = "no"] /\ UNCHANGED succeeded
  /\ Goto(j, "looping")
  /\ UNCHANGED <<args, main, exitCode, testsAborted, todo, numRuns, wasSkipped, serverProc>>
StopFails(j) ==
  /\ pc[j] = "waiting" /\ Goto(j, "died")
  /\ UNCHANGED <<args, main, exitCode, testsAborted, todo, success, counts, process>>

Return(j) ==
  /\ pc[j] = "returning"
  /\ testsAborted' = (testsAborted \/ (args.abortOnFail /\ success[j] # "yes"))
  /\ todo' = [todo EXCEPT ![j] = Tail(@)] /\ Goto(j, "next")
  /\ UNCHANGED <<args, main, exitCode, success, counts, process>>
-----------------------------------------------------------------------------
Run(j) ==
  \/ End(j) \/ Skip(j) \/ Prepare(j) \/ RunAgain(j) \/ RunEnough(j)
  \/ Check(j) \/ Launch(j) \/ Stop(j) \/ StopFails(j) \/ Return(j)

Exited == main = "exited" /\ UNCHANGED vars

Next ==
  \/ RunInParallel \/ Exit \/ Interrupt \/ ExitInterrupted
  \/ \E j \in Jobs : Run(j) \/ XvfbEnds(j)
  \/ Exited

\* The threads run, and the programs of a test come to their end.  An X server
\* does not end by itself.
Fairness ==
  /\ WF_vars(RunInParallel) /\ WF_vars(Exit) /\ WF_vars(ExitInterrupted)
  /\ \A j \in 0 .. Threads - 1 : WF_vars(j \in Jobs /\ Run(j))
Spec == Init /\ [][Next]_vars /\ Fairness
-----------------------------------------------------------------------------
\* With exit code 0 every test that was asked for has succeeded or been skipped:
\* none gets lost among the threads, the repetitions or after an abort.  A thread
\* that dies takes along what it had still to run, its present test first, and the
\* exit code does not tell; what it had run before, and what the other threads ran,
\* is told right.  No test was asked for twice.
Lost       == UNION {ToSet(todo[j]) : j \in {i \in Jobs : pc[i] = "died"}}
Successful ==
  main = "exited" /\ exitCode = 0 /\ Once
    => ToSet(Requested) \subseteq succeeded \cup wasSkipped \cup Lost

\* No squishserver is left behind, also by a thread that died, unless the script
\* was interrupted or a test was asked for twice.
ServersEnd == [][Exit /\ Once => servers' = {}]_vars

\* The script ends unless it waits for an X server.
RunEnds == <>(main = "exited") \/ \E j \in 0 .. Threads - 1 : <>[](j \in Jobs /\ pc[j] = "preparing")

\* It ends, and cleanly.
EndsCleanly == ServersEnd /\ RunEnds
=============================================================================
