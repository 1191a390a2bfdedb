------------------------------ MODULE DebugTest ------------------------------
(***************************************************************************)
(* main() of the test executable: "tests" runs all tests (TestRunner),     *)
(* "tests -d name" one of them under a debugger, which is this module:     *)
(* the test stops itself with SIGSTOP until the debugger continues it, and *)
(* the parent waits for both.                                              *)
(*                                                                         *)
(* The debugger is not part of the program.  Once it has started it may    *)
(* attach, continue the test and quit whenever it likes.                   *)
(***************************************************************************)
EXTENDS TestRunner

CONSTANT Names  \* the name of each test

ASSUME NamesAssumption == DOMAIN Names = Tests

VARIABLES
  argument,   \* what follows "-d", or "" if there is no such argument
  parent,     \* where debug_this_test() is
  test,       \* life of the test process
  debugger    \* life of the debugger process

dvars == <<argument, parent, test, debugger>>
all == <<vars, dvars>>

\* What the tests print has no part in debugging one.
DebugInit ==
  /\ Init
  /\ argument \in {"", "unknown"} \cup {Names[t] : t \in Tests}
  /\ argument # "" => /\ output = [t \in Tests |-> 0]
                      /\ should_fail = [t \in Tests |-> FALSE]
  /\ parent = "idle" /\ test = "unborn" /\ debugger = "unborn"

(***************************************************************************)
(* The parent.                                                             *)
(***************************************************************************)
Parent(from, to) == parent = from /\ parent' = to /\ UNCHANGED <<vars, argument>>

\* main() and the search of debug_this_test() for the test of that name.
debug_this_test ==
  /\ pc = "main" /\ argument # ""
  /\ pc' = "debug"
  /\ parent' = IF \E t \in Tests : Names[t] = argument THEN "fork test" ELSE "not found"
  /\ UNCHANGED <<tests, i, num_success, num_fail, shown, children, pipe, ends,
                 argument, test, debugger>>

fork_test ==
  \/ Parent("fork test", "fork debugger") /\ test' = "forked" /\ UNCHANGED debugger
  \/ Parent("fork test", "aborted") /\ "fork" \in Failures /\ UNCHANGED <<test, debugger>>

fork_debugger ==
  \/ Parent("fork debugger", "wait debugger") /\ debugger' = "forked" /\ UNCHANGED test
  \/ Parent("fork debugger", "continue") /\ "fork" \in Failures /\ UNCHANGED <<test, debugger>>

\* kill(test_pid, SIGCONT): lost on a process that has not stopped itself yet.
continue_test ==
  /\ Parent("continue", "wait lone test")
  /\ test' = IF test = "stopped" THEN "running" ELSE test
  /\ UNCHANGED debugger

\* Mutant: waiting for a stop, as with WSTOPPED, and not for the end.
Over_stopped(process) == process = "stopped"

\* What waitpid() without options waits for.
Over(process) == process = "ended"

wait_children ==
  /\ \/ Parent("wait lone test", "aborted") /\ Over(test)
     \/ Parent("wait debugger", "wait test") /\ Over(debugger)
     \/ Parent("wait test", "finished") /\ Over(test)
  /\ UNCHANGED <<test, debugger>>

ParentStep == debug_this_test \/ fork_test \/ fork_debugger \/ continue_test \/ wait_children

(***************************************************************************)
(* The children.                                                           *)
(***************************************************************************)
Child(test_now, debugger_now) ==
  test' = test_now /\ debugger' = debugger_now /\ UNCHANGED <<vars, argument, parent>>

\* kill(getpid(), SIGSTOP)
stop_test == test = "forked" /\ Child("stopped", debugger)

\* The test function runs to its end.
end_test == test = "running" /\ Child("ended", debugger)

\* run_debugger(): execlp() succeeds, or fails and the process exits.
run_debugger ==
  /\ debugger = "forked"
  /\ \E outcome \in {"attached", "ended"} : Child(test, outcome)

\* The debugger continues the test, or quits.
debugger_continues == debugger = "attached" /\ test = "stopped" /\ Child("running", debugger)
debugger_quits == debugger = "attached" /\ Child(test, "ended")

ChildStep == stop_test \/ end_test \/ run_debugger

DebugNext ==
  \/ Next /\ argument = "" /\ UNCHANGED dvars
  \/ ParentStep \/ ChildStep
  \/ debugger_continues \/ debugger_quits

\* As FairSpec; and every process of the debugging runs, but nothing makes a
\* debugger continue the test or quit.
DebugSpec ==
  /\ DebugInit /\ [][DebugNext]_all
  /\ WF_all(RunnerStep /\ argument = "" /\ UNCHANGED dvars)
  /\ \A t \in Tests : WF_all(TestStep(t) /\ UNCHANGED dvars)
  /\ WF_all(ParentStep)
  /\ WF_all(stop_test \/ end_test) /\ WF_all(run_debugger)

(***************************************************************************)
(* Properties.                                                             *)
(***************************************************************************)

\* "tests -d" ends, with no process left behind, once the debugger is over and
\* the test has been continued, by the debugger or, if there is none, by the
\* parent.  It does not if nobody continues the test: when the debugger cannot be
\* started (run_debugger) or quits early, or when the parent's SIGCONT comes
\* before the SIGSTOP it is meant for.
DebuggingEnds ==
  test \in {"running", "ended"} /\ debugger \in {"unborn", "ended"} ~>
    /\ parent \in {"finished", "aborted"}
    /\ test = "ended" /\ debugger \in {"unborn", "ended"}

=============================================================================
