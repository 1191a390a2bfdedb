----------------------------- MODULE TestRunner -----------------------------
(***************************************************************************)
(* The test runner of test.c: run_all_tests() forks one process per test,  *)
(* each with its standard error redirected into a pipe, and then waits for *)
(* them one by one, in order, reading the pipe of a test that failed.      *)
(*                                                                         *)
(* Process 0 is the runner, process i runs test i.  Bytes are counted in   *)
(* units: Capacity of them fit into a pipe (pipe(7)) and ReadSize is what  *)
(* one read() of read_all_and_dump_to_stderr asks for.  What a test does   *)
(* is write to its standard error, then exit with some status; test        *)
(* functions that never return are left out.  EINTR, a retry of the same   *)
(* read(), is left out too.                                                *)
(***************************************************************************)
EXTENDS Naturals, FiniteSets

CONSTANTS
  NumTests,        \* tests registered with test_add()
  MaxOutput,       \* bound: units a test writes
  Capacity,        \* units a pipe holds
  ReadSize,        \* units one read() asks for
  Limits,          \* how many pipe ends a process may have open
  Failures         \* system calls that may fail, of "fork" and "read"

ASSUME SizesAssumption ==
  /\ {NumTests, MaxOutput} \subseteq Nat /\ Limits \subseteq Nat
  /\ {Capacity, ReadSize} \subseteq Nat \ {0}
  /\ Failures \subseteq {"fork", "read"}

Tests     == 1 .. NumTests
Runner    == 0
Processes == 0 .. NumTests

VARIABLES
  should_fail,  \* TESTS: which tests are TEST_FAIL,
  output,       \*   and how much each test function writes
  limit,        \* pipe ends the runner may have open
  pc,           \* where the runner is
  i,            \* its loop variable
  num_success, num_fail,
  shown,        \* units of each test's output the runner has printed
  child,        \* life of each test process
  status,       \* its exit status: 0, or 1 for any other
  written,      \* units each test has written
  pipe,         \* units in each pipe
  readers,      \* processes that hold the read end of each pipe open
  writers       \* and the write end

runner   == <<pc, i, num_success, num_fail, shown>>
children == <<child, status, written>>
ends     == <<readers, writers>>
tests    == <<should_fail, output, limit>>
vars     == <<tests, runner, children, pipe, ends>>

TypeOK ==
  /\ should_fail \in [Tests -> BOOLEAN]
  /\ output \in [Tests -> 0 .. MaxOutput]
  /\ limit \in Limits
  /\ pc \in {"main", "debug", "fork", "wait", "read", "close", "finished", "aborted"}
  /\ i \in 1 .. NumTests + 1
  /\ num_success \in Nat /\ num_fail \in Nat
  /\ shown \in [Tests -> 0 .. MaxOutput]
  /\ child \in [Tests -> {"unborn", "forked", "running", "exited"}]
  /\ status \in [Tests -> {0, 1}]
  /\ written \in [Tests -> 0 .. MaxOutput]
  /\ pipe \in [Tests -> 0 .. Capacity]
  /\ readers \in [Tests -> SUBSET Processes]
  /\ writers \in [Tests -> SUBSET Processes]

\* A process that ends closes everything it has open.
Drop(p, holders) == [t \in Tests |-> holders[t] \ {p}]

Init ==
  /\ should_fail \in [Tests -> BOOLEAN]
  /\ output \in [Tests -> 0 .. MaxOutput]
  /\ limit \in Limits
  /\ pc = "main" /\ i = 1 /\ num_success = 0 /\ num_fail = 0
  /\ shown = [t \in Tests |-> 0]
  /\ child = [t \in Tests |-> "unborn"]
  /\ status = [t \in Tests |-> 0]
  /\ written = [t \in Tests |-> 0]
  /\ pipe = [t \in Tests |-> 0]
  /\ readers = [t \in Tests |-> {}]
  /\ writers = [t \in Tests |-> {}]

(***************************************************************************)
(* The runner.                                                             *)
(***************************************************************************)

\* main() without "-d"; with it, see DebugTest.
main ==
  /\ pc = "main"
  /\ pc' = "fork"
  /\ UNCHANGED <<tests, i, num_success, num_fail, shown, children, pipe, ends>>

\* exit(1) of the runner.
Abort ==
  /\ pc' = "aborted"
  /\ readers' = Drop(Runner, readers)
  /\ writers' = Drop(Runner, writers)
  /\ UNCHANGED <<tests, i, num_success, num_fail, shown, children, pipe>>

\* Pipe ends the runner holds between two iterations.
Open == Cardinality({t \in Tests : Runner \in readers[t]})
          + Cardinality({t \in Tests : Runner \in writers[t]})

\* Mutant: the runner does not close the write end after the fork.
AfterFork_write_end_kept == {Runner, i}

\* Who holds the write end once the runner has closed its own.
AfterFork == {i}

\* run_test(): pipe(), fork(), close(fds[1]).  The child inherits the read ends
\* of its own pipe and of all that the runner still has open.
run_test ==
  /\ pc = "fork" /\ i <= NumTests
  /\ Open + 2 <= limit
  /\ child' = [child EXCEPT ![i] = "forked"]
  /\ readers' = [t \in Tests |->
                   IF t = i THEN {Runner, i}
                   ELSE IF Runner \in readers[t] THEN readers[t] \cup {i}
                   ELSE readers[t]]
  /\ writers' = [writers EXCEPT ![i] = AfterFork]
  /\ i' = i + 1
  /\ UNCHANGED <<tests, pc, num_success, num_fail, shown, status,
                 written, pipe>>

pipe_fails ==
  /\ pc = "fork" /\ i <= NumTests
  /\ Open + 2 > limit
  /\ Abort

fork_fails ==
  /\ pc = "fork" /\ i <= NumTests
  /\ "fork" \in Failures
  /\ Abort

all_forked ==
  /\ pc = "fork" /\ i > NumTests
  /\ pc' = "wait" /\ i' = 1
  /\ UNCHANGED <<tests, num_success, num_fail, shown, children, pipe, ends>>

\* Mutant: waitpid() does not block, as with WNOHANG.
Reaped_no_hang(t) == TRUE

\* What waitpid(test->pid, &status, 0) waits for.
Reaped(t) == child[t] = "exited"

AsExpected(t) == (status[t] # 0) <=> should_fail[t]

\* waitpid() and the verdict.
wait_for_test ==
  /\ pc = "wait" /\ i <= NumTests
  /\ Reaped(i)
  /\ \/ /\ AsExpected(i)
        /\ num_success' = num_success + 1 /\ pc' = "close"
        /\ UNCHANGED num_fail
     \/ /\ ~AsExpected(i)
        /\ num_fail' = num_fail + 1 /\ pc' = "read"
        /\ UNCHANGED num_success
  /\ UNCHANGED <<tests, i, shown, children, pipe, ends>>

\* Mutant: one read() and no loop.
DumpIsOver_one_read(count) == TRUE

\* Mutant: a read that returns nothing is tried again, like an interrupted one.
DumpIsOver_nothing_is_retried(count) == count > 0 /\ count < ReadSize

\* Whether the loop of read_all_and_dump_to_stderr ends after a read of count.
DumpIsOver(count) == count < ReadSize

\* Mutant: the whole buffer, however much of it the read filled.
ReadCount_whole_buffer(available) == ReadSize

\* What read() returns for a pipe that holds so many units.
ReadCount(available) == IF available < ReadSize THEN available ELSE ReadSize

\* One read() and the fwrite() of what it returned.  On an empty pipe it blocks
\* while some process could still write.
read_all_and_dump_to_stderr ==
  /\ pc = "read"
  /\ pipe[i] > 0 \/ writers[i] = {}
  /\ LET count == ReadCount(pipe[i])
     IN  /\ pipe' = [pipe EXCEPT ![i] = @ - count]
         /\ shown' = [shown EXCEPT ![i] = @ + count]
         /\ pc' = IF DumpIsOver(count) THEN "close" ELSE "read"
  /\ UNCHANGED <<tests, i, num_success, num_fail, children, ends>>

read_fails == pc = "read" /\ "read" \in Failures /\ Abort

\* close(test->stderr_fd) and on to the next test.
close_stderr ==
  /\ pc = "close"
  /\ readers' = [readers EXCEPT ![i] = @ \ {Runner}]
  /\ pc' = "wait" /\ i' = i + 1
  /\ UNCHANGED <<tests, num_success, num_fail, shown, children, pipe, writers>>

\* The summary, clean_up() and the end of main().
finish ==
  /\ pc = "wait" /\ i > NumTests
  /\ pc' = "finished"
  /\ readers' = Drop(Runner, readers)
  /\ writers' = Drop(Runner, writers)
  /\ UNCHANGED <<tests, i, num_success, num_fail, shown, children, pipe>>

RunnerStep ==
  \/ main \/ run_test \/ pipe_fails \/ all_forked \/ wait_for_test
  \/ read_all_and_dump_to_stderr \/ close_stderr \/ finish

(***************************************************************************)
(* A test process.                                                         *)
(***************************************************************************)

\* Mutant: the child does not close the read end it inherited.
Start_read_end_kept(t) == readers[t]

\* close(fds[0])
Start(t) == readers[t] \ {t}

start_test(t) ==
  /\ child[t] = "forked"
  /\ child' = [child EXCEPT ![t] = "running"]
  /\ readers' = [readers EXCEPT ![t] = Start(t)]
  /\ UNCHANGED <<tests, runner, status, written, pipe, writers>>

\* The test writes to its standard error; it blocks while the pipe is full.
write_stderr(t) ==
  /\ child[t] = "running" /\ written[t] < output[t]
  /\ readers[t] # {} /\ pipe[t] < Capacity
  /\ pipe' = [pipe EXCEPT ![t] = @ + 1]
  /\ written' = [written EXCEPT ![t] = @ + 1]
  /\ UNCHANGED <<tests, runner, child, status, ends>>

Exits(t, s) ==
  /\ child' = [child EXCEPT ![t] = "exited"]
  /\ status' = [status EXCEPT ![t] = s]
  /\ readers' = Drop(t, readers)
  /\ writers' = Drop(t, writers)
  /\ UNCHANGED <<tests, runner, written, pipe>>

\* The test function returns (exit(0)), fails an ASSERT or crashes.
exit_test(t) ==
  /\ child[t] = "running" /\ written[t] = output[t]
  /\ \E s \in {0, 1} : Exits(t, s)

\* SIGPIPE: a write to a pipe that no process can read.
broken_pipe(t) ==
  /\ child[t] = "running" /\ written[t] < output[t] /\ readers[t] = {}
  /\ Exits(t, 1)

TestStep(t) ==
  start_test(t) \/ write_stderr(t) \/ exit_test(t) \/ broken_pipe(t)

\* Nothing left to do, so that a runner that waits for ever is a deadlock.
AllEnded ==
  /\ pc \in {"finished", "aborted"}
  /\ \A t \in Tests : child[t] \in {"unborn", "exited"}
  /\ UNCHANGED vars

Next == RunnerStep \/ fork_fails \/ read_fails \/ (\E t \in Tests : TestStep(t)) \/ AllEnded

Spec == Init /\ [][Next]_vars

\* The kernel schedules every process: the runner, and each test on its own.
\* That fork() or read() ever fails is not to be relied on.
FairSpec ==
  Spec /\ WF_vars(RunnerStep) /\ \A t \in Tests : WF_vars(TestStep(t))

(***************************************************************************)
(* Properties.                                                             *)
(***************************************************************************)

\* The summary is right: when the runner has finished, every test process has
\* ended and each was counted once, as a success exactly when it met its
\* declaration.  (waitpid and the counters of run_all_tests.)
SummaryIsRight ==
  pc = "finished" =>
    /\ \A t \in Tests : child[t] = "exited"
    /\ num_success = Cardinality({t \in Tests : AsExpected(t)})
    /\ num_fail = Cardinality({t \in Tests : ~AsExpected(t)})

\* The output of a test that was judged a failure is shown in full, however
\* many reads it takes, and that of other tests not at all.
FailuresAreShown ==
  pc = "finished" =>
    \A t \in Tests : shown[t] = IF AsExpected(t) THEN 0 ELSE output[t]

\* While tests are being started the runner holds one descriptor for each that
\* is, so one more than there are tests is enough for pipe() never to fail.
DescriptorsSuffice ==
  pc = "fork" /\ i <= NumTests => Open + 2 <= NumTests + 1

\* The runner comes to its end, judging every test unless a system call fails:
\* it gets past each waitpid() and each read().
RunnerEnds ==
  pc = "fork" ~> (\/ pc = "finished" /\ num_success + num_fail = NumTests
                  \/ pc = "aborted")

\* It does so whenever no test writes more than its pipe holds.
RunnerEndsIfPipesSuffice == (\A t \in Tests : output[t] <= Capacity) => RunnerEnds

\* Tests left behind by a runner that gave up (exit(1) of run_test or of
\* read_all_and_dump_to_stderr) end as well, even those blocked on a full pipe.
OrphansEnd ==
  pc = "aborted" ~> \A t \in Tests : child[t] \in {"unborn", "exited"}
=============================================================================
