-------------------------- MODULE TestRunnerProofs --------------------------
(***************************************************************************)
(* Proofs about the test runner of TestRunner.tla, for any number of tests *)
(* and any sizes of outputs, pipes and reads.                              *)
(***************************************************************************)
EXTENDS TestRunner, FiniteSetTheorems, TLAPS

\* From the first waitpid() on.
Waiting == {"wait", "read", "close", "finished"}

\* What the runner has to show of a test.
Due(t) == IF AsExpected(t) THEN 0 ELSE output[t]

\* Tests that were judged, and those whose pipe was closed again.
Judged == 1 .. (IF pc \in {"read", "close"} THEN i ELSE i - 1)

\* What was written is in the pipe or was shown.
Accounted ==
  \A t \in Tests : shown[t] + pipe[t] = written[t] /\ written[t] <= output[t]

\* The loop variable, and what nobody has touched before the first waitpid().
Control ==
  /\ pc # "debug"
  /\ pc = "main" => i = 1
  /\ pc \in {"main", "fork"} =>
       num_success = 0 /\ num_fail = 0 /\ \A t \in Tests : shown[t] = 0
  /\ pc \in {"read", "close"} => i \in Tests
  /\ pc = "finished" => i = NumTests + 1

\* The runner can read the pipe of each test it has started and not closed.
Holding ==
  /\ pc \in {"main", "fork"} =>
       \A t \in Tests : /\ child[t] = "unborn" <=> t >= i
                        /\ Runner \in readers[t] <=> t < i
                        /\ Runner \notin writers[t]
  /\ pc \in Waiting => \A t \in Tests : t >= i => Runner \in readers[t]

\* So no test is killed for writing to a pipe that nobody can read.
NotKilled ==
  pc # "aborted" => \A t \in Tests : child[t] = "exited" => written[t] = output[t]

\* The counters.
Counting ==
  pc \in Waiting =>
    /\ \A t \in Judged : child[t] = "exited"
    /\ num_success = Cardinality({t \in Judged : AsExpected(t)})
    /\ num_fail = Cardinality({t \in Judged : ~AsExpected(t)})

\* What was shown.
Showing ==
  /\ pc \in Waiting => \A t \in Tests : /\ t < i => shown[t] = Due(t)
                                        /\ t > i => shown[t] = 0
  /\ pc \in {"wait", "finished"} => \A t \in Tests : t = i => shown[t] = 0
  /\ pc = "read" => ~AsExpected(i)
  /\ pc = "close" => shown[i] = Due(i)

RunnerInv ==
  TypeOK /\ Accounted /\ Control /\ Holding /\ NotKilled /\ Counting /\ Showing

-----------------------------------------------------------------------------
(***************************************************************************)
(* Facts used in several places.                                           *)
(***************************************************************************)

\* The arithmetic of the constants.
LEMMA Sizes ==
  /\ NumTests \in Nat /\ MaxOutput \in Nat
  /\ Capacity \in Nat \ {0} /\ ReadSize \in Nat \ {0}
BY SizesAssumption

\* One more judged test is counted on one side.
LEMMA CountOne ==
  ASSUME NEW n \in Nat, NEW P, P \subseteq 1..n
  PROVE  /\ Cardinality(P) \in Nat
         /\ Cardinality(P \cup {n + 1}) = Cardinality(P) + 1
<1>1. IsFiniteSet(P)
  <2>1. IsFiniteSet(1..n) /\ P \in SUBSET (1..n)
    BY FS_Interval
  <2> QED BY <2>1, FS_Subset, Zenon
<1>2. n + 1 \notin P
  OBVIOUS
<1> QED
  BY <1>1, <1>2, FS_AddElement, FS_CardinalityType

\* Of a range of descriptors.
LEMMA CountRange == ASSUME NEW n \in Nat PROVE Cardinality(1..n) = n
BY FS_Interval

\* A process that ends holds nothing, and others keep what they hold.
LEMMA DropType ==
  ASSUME NEW p, NEW holders \in [Tests -> SUBSET Processes]
  PROVE  /\ Drop(p, holders) \in [Tests -> SUBSET Processes]
         /\ \A t \in Tests : \A q : q \in Drop(p, holders)[t] <=> q \in holders[t] /\ q # p
BY DEF Drop

(***************************************************************************)
(* The runner.                                                             *)
(***************************************************************************)

\* The invariant holds before anything was started.
LEMMA InitRunner == Init => RunnerInv
<1> SUFFICES ASSUME Init PROVE RunnerInv
  OBVIOUS
<1>1. NumTests \in Nat /\ MaxOutput \in Nat
  BY Sizes
<1>2. TypeOK
  <2>1. 0 \in 0 .. MaxOutput /\ 0 \in 0 .. Capacity /\ 1 \in 1 .. NumTests + 1 /\ {} \in SUBSET Processes
    BY <1>1, Sizes
  <2> QED BY <2>1 DEF Init, TypeOK
<1>3. Accounted
  BY <1>1 DEF Init, Accounted
<1>4. Control /\ Counting /\ Showing /\ NotKilled
  BY DEF Init, Control, Counting, Showing, NotKilled, Waiting
<1>5. Holding
  BY DEF Init, Holding, Waiting, Tests
<1> QED
  BY <1>2, <1>3, <1>4, <1>5 DEF RunnerInv

\* A runner that gives up promises nothing any more.
LEMMA AbortKeeps == RunnerInv /\ Abort => RunnerInv'
<1> SUFFICES ASSUME RunnerInv, Abort PROVE RunnerInv'
  OBVIOUS
<1> USE DEF RunnerInv
<1>1. TypeOK'
  BY DropType DEF TypeOK, Abort, tests, children
<1>2. Accounted'
  BY DEF Accounted, Abort, tests, children
<1>3. Control' /\ Holding' /\ NotKilled' /\ Counting' /\ Showing'
  BY DEF Abort, Control, Holding, NotKilled, Counting, Showing, Waiting
<1> QED
  BY <1>1, <1>2, <1>3

\* main() has touched none of the tests.
LEMMA MainKeeps == RunnerInv /\ main => RunnerInv'
<1> SUFFICES ASSUME RunnerInv, main PROVE RunnerInv'
  OBVIOUS
<1> USE DEF RunnerInv, tests, children, ends
<1>1. TypeOK'
  BY DEF TypeOK, main
<1>2. Accounted' /\ NotKilled'
  BY DEF Accounted, NotKilled, main
<1>3. Control' /\ Holding'
  BY DEF main, Control, Holding, Waiting
<1>4. Counting' /\ Showing'
  BY DEF main, Counting, Showing, Waiting
<1> QED
  BY <1>1, <1>2, <1>3, <1>4

\* The new child holds its own pipe and no write end of another.
LEMMA RunTestKeeps == RunnerInv /\ run_test => RunnerInv'
<1> SUFFICES ASSUME RunnerInv, run_test PROVE RunnerInv'
  OBVIOUS
<1> USE DEF RunnerInv, tests
<1>1. i \in Tests /\ pc = "fork" /\ pc' = "fork" /\ i' = i + 1
  BY Sizes DEF run_test, TypeOK, Tests
<1>2. \A t \in Tests : child'[t] = IF t = i THEN "forked" ELSE child[t]
  BY DEF run_test, TypeOK
<1>3. \A t \in Tests : /\ Runner \in readers'[t] <=> t = i \/ Runner \in readers[t]
                       /\ writers'[t] = IF t = i THEN {i} ELSE writers[t]
  BY DEF run_test, TypeOK, AfterFork, Tests, Runner
<1>4. TypeOK'
  <2>1. i \in Processes /\ Runner \in Processes
    BY <1>1, Sizes DEF Processes, Runner, Tests
  <2>2. readers' \in [Tests -> SUBSET Processes] /\ writers' \in [Tests -> SUBSET Processes]
    BY <2>1 DEF run_test, TypeOK, AfterFork
  <2>3. child' \in [Tests -> {"unborn", "forked", "running", "exited"}]
    BY DEF run_test, TypeOK
  <2>4. i' \in 1 .. NumTests + 1
    BY <1>1, Sizes DEF Tests
  <2> QED BY <1>1, <2>2, <2>3, <2>4 DEF run_test, TypeOK
<1>5. Accounted' /\ NotKilled'
  BY <1>1, <1>2 DEF Accounted, NotKilled, run_test
<1>6. Control'
  BY <1>1 DEF run_test, Control
<1>7. Holding'
  <2> SUFFICES ASSUME NEW t \in Tests
               PROVE  /\ child'[t] = "unborn" <=> t >= i'
                      /\ Runner \in readers'[t] <=> t < i'
                      /\ Runner \notin writers'[t]
    BY <1>1 DEF Holding, Waiting
  <2>1. t \in Nat /\ i \in Nat /\ i # Runner
    BY <1>1 DEF Tests, Runner
  <2> QED BY <1>1, <1>2, <1>3, <2>1 DEF Holding
<1>8. Counting' /\ Showing'
  BY <1>1 DEF Counting, Showing, Waiting
<1> QED
  BY <1>4, <1>5, <1>6, <1>7, <1>8

\* When all are started, none is judged and nothing is shown.
LEMMA AllForkedKeeps == RunnerInv /\ all_forked => RunnerInv'
<1> SUFFICES ASSUME RunnerInv, all_forked PROVE RunnerInv'
  OBVIOUS
<1> USE DEF RunnerInv, tests, children, ends
<1>1. pc = "fork" /\ pc' = "wait" /\ i' = 1 /\ i = NumTests + 1
  BY Sizes DEF all_forked, TypeOK
<1>2. TypeOK'
  BY <1>1, Sizes DEF all_forked, TypeOK
<1>3. Accounted' /\ NotKilled'
  BY <1>1 DEF Accounted, NotKilled, all_forked
<1>4. Control'
  BY <1>1 DEF all_forked, Control
<1>5. Holding'
  BY <1>1, Sizes DEF all_forked, Holding, Waiting, Tests
<1>6. Counting'
  <2>1. Judged' = {}
    BY <1>1 DEF Judged
  <2>2. Cardinality({}) = 0
    BY FS_EmptySet
  <2>3. num_success' = 0 /\ num_fail' = 0
    BY <1>1 DEF all_forked, Control
  <2> QED BY <2>1, <2>2, <2>3 DEF Counting
<1>7. Showing'
  BY <1>1, Sizes DEF all_forked, Control, Showing, Waiting, Tests
<1> QED
  BY <1>2, <1>3, <1>4, <1>5, <1>6, <1>7

\* The verdict on test i, which has ended, is counted.
LEMMA WaitKeeps == RunnerInv /\ wait_for_test => RunnerInv'
<1> SUFFICES ASSUME RunnerInv, wait_for_test PROVE RunnerInv'
  OBVIOUS
<1> USE DEF RunnerInv, tests, children, ends
<1>1. /\ pc = "wait" /\ pc' \in {"close", "read"} /\ i' = i /\ i \in Tests
      /\ child[i] = "exited" /\ child' = child /\ shown' = shown /\ readers' = readers
  BY Sizes DEF wait_for_test, Reaped, TypeOK, Tests
<1>2. \A t : AsExpected(t)' <=> AsExpected(t)
  BY DEF wait_for_test, AsExpected
<1>3. TypeOK'
  BY DEF wait_for_test, TypeOK
<1>4. Accounted' /\ NotKilled'
  BY <1>1 DEF Accounted, NotKilled, wait_for_test
<1>5. Control'
  BY <1>1 DEF Control
<1>6. Holding'
  BY <1>1 DEF Holding, Waiting
<1>7. Counting'
  <2> DEFINE S == {t \in 1 .. i - 1 : AsExpected(t)}
             F == {t \in 1 .. i - 1 : ~AsExpected(t)}
  <2>1. /\ i - 1 \in Nat /\ (i - 1) + 1 = i /\ 1 .. i = (1 .. i - 1) \cup {i}
        /\ Judged = 1 .. i - 1 /\ Judged' = 1 .. i
    BY <1>1 DEF Judged, Tests
  <2>2. \A t \in Judged' : child'[t] = "exited"
    BY <1>1, <2>1 DEF Counting, Waiting
  <2>3. num_success = Cardinality(S) /\ num_fail = Cardinality(F)
    BY <1>1, <2>1 DEF Counting, Waiting
  <2>4. S \subseteq 1 .. i - 1 /\ F \subseteq 1 .. i - 1
    OBVIOUS
  <2>5. Cardinality(S \cup {i}) = Cardinality(S) + 1 /\ Cardinality(F \cup {i}) = Cardinality(F) + 1
    <3> HIDE DEF S, F
    <3> QED BY <2>1, <2>4, CountOne
  <2>6. CASE AsExpected(i)
    <3>1. {t \in 1 .. i : AsExpected(t)} = S \cup {i} /\ {t \in 1 .. i : ~AsExpected(t)} = F
      BY <2>1, <2>6
    <3>2. num_success' = num_success + 1 /\ num_fail' = num_fail
      BY <2>6 DEF wait_for_test
    <3> QED BY <1>2, <2>1, <2>2, <2>3, <2>5, <3>1, <3>2 DEF Counting
  <2>7. CASE ~AsExpected(i)
    <3>1. {t \in 1 .. i : AsExpected(t)} = S /\ {t \in 1 .. i : ~AsExpected(t)} = F \cup {i}
      BY <2>1, <2>7
    <3>2. num_success' = num_success /\ num_fail' = num_fail + 1
      BY <2>7 DEF wait_for_test
    <3> QED BY <1>2, <2>1, <2>2, <2>3, <2>5, <3>1, <3>2 DEF Counting
  <2> QED BY <2>6, <2>7
<1>8. Showing'
  <2>1. \A t : Due(t)' = Due(t)
    BY <1>2 DEF Due, wait_for_test
  <2>2. shown[i] = 0
    BY <1>1 DEF Showing
  <2>3. pc' = "read" => ~AsExpected(i)
    BY DEF wait_for_test
  <2>4. pc' = "close" => AsExpected(i)
    BY DEF wait_for_test
  <2>5. \A t \in Tests : (t < i => shown[t] = Due(t)) /\ (t > i => shown[t] = 0)
    BY <1>1 DEF Showing, Waiting
  <2>6. pc' = "close" => shown[i] = Due(i)
    BY <2>2, <2>4 DEF Due
  <2> QED BY <1>1, <1>2, <2>1, <2>3, <2>5, <2>6 DEF Showing
<1> QED
  BY <1>3, <1>4, <1>5, <1>6, <1>7, <1>8

\* A read takes from the pipe what it shows, and one that ends the dump empties
\* the pipe of a test that has written all it ever will.
LEMMA ReadKeeps == RunnerInv /\ read_all_and_dump_to_stderr => RunnerInv'
<1> SUFFICES ASSUME RunnerInv, read_all_and_dump_to_stderr PROVE RunnerInv'
  OBVIOUS
<1> USE DEF RunnerInv, tests, children, ends
<1> DEFINE count == ReadCount(pipe[i])
<1>1. /\ pc = "read" /\ pc' \in {"close", "read"} /\ i' = i /\ i \in Tests
      /\ child' = child /\ status' = status /\ should_fail' = should_fail
      /\ readers' = readers /\ written' = written /\ output' = output
      /\ num_success' = num_success /\ num_fail' = num_fail
  BY DEF read_all_and_dump_to_stderr, Control
<1>2. /\ pipe' = [pipe EXCEPT ![i] = @ - count]
      /\ shown' = [shown EXCEPT ![i] = @ + count]
      /\ pc' = IF count < ReadSize THEN "close" ELSE "read"
  BY DEF read_all_and_dump_to_stderr, DumpIsOver
<1>3. /\ pipe[i] \in Nat /\ shown[i] \in Nat /\ written[i] \in Nat /\ output[i] \in Nat
      /\ output[i] <= MaxOutput /\ pipe[i] <= Capacity
      /\ shown[i] + pipe[i] = written[i] /\ written[i] <= output[i]
  BY <1>1, Sizes DEF TypeOK, Accounted
<1>4. count \in Nat /\ count <= pipe[i] /\ (count < ReadSize => count = pipe[i])
  BY <1>3, Sizes DEF ReadCount
<1> HIDE DEF count
<1>5. /\ pipe'[i] = pipe[i] - count /\ shown'[i] = shown[i] + count
      /\ \A t \in Tests : t # i => pipe'[t] = pipe[t] /\ shown'[t] = shown[t]
  BY <1>1, <1>2 DEF TypeOK
<1>6. pipe'[i] \in 0 .. Capacity /\ shown'[i] \in 0 .. MaxOutput /\ shown'[i] + pipe'[i] = written[i]
  BY <1>3, <1>4, <1>5, Sizes
<1>7. TypeOK'
  <2>1. pipe' \in [Tests -> 0 .. Capacity] /\ shown' \in [Tests -> 0 .. MaxOutput]
    BY <1>2, <1>5, <1>6 DEF TypeOK
  <2> QED BY <1>1, <2>1 DEF TypeOK, read_all_and_dump_to_stderr
<1>8. Accounted'
  BY <1>1, <1>5, <1>6 DEF Accounted
<1>9. Control' /\ NotKilled'
  BY <1>1 DEF Control, NotKilled
<1>10. Holding'
  BY <1>1 DEF Holding, Waiting
<1>11. \A t : AsExpected(t)' <=> AsExpected(t)
  BY <1>1 DEF AsExpected
<1>12. Counting'
  <2>1. Judged' = Judged
    BY <1>1 DEF Judged
  <2> QED BY <1>1, <1>11, <2>1 DEF Counting, Waiting
<1>13. Showing'
  <2>1. \A t : Due(t)' = Due(t)
    BY <1>1, <1>11 DEF Due
  <2>2. child[i] = "exited"
    BY <1>1 DEF Counting, Waiting, Judged, Tests
  <2>3. written[i] = output[i] /\ ~AsExpected(i)
    BY <1>1, <2>2 DEF NotKilled, Showing
  <2>4. pc' = "close" => shown'[i] = Due(i)
    BY <1>2, <1>3, <1>4, <1>5, <2>3 DEF Due
  <2>5. \A t \in Tests : (t < i => shown[t] = Due(t)) /\ (t > i => shown[t] = 0)
    BY <1>1 DEF Showing, Waiting
  <2>6. \A t \in Tests : (t < i => shown'[t] = Due(t)) /\ (t > i => shown'[t] = 0)
    BY <1>1, <1>5, <2>5 DEF Tests
  <2> QED BY <1>1, <1>11, <2>1, <2>3, <2>4, <2>6 DEF Showing
<1> QED
  BY <1>7, <1>8, <1>9, <1>10, <1>12, <1>13

\* The pipe that is closed is that of a test that has ended.
LEMMA CloseKeeps == RunnerInv /\ close_stderr => RunnerInv'
<1> SUFFICES ASSUME RunnerInv, close_stderr PROVE RunnerInv'
  OBVIOUS
<1> USE DEF RunnerInv, tests, children
<1>1. /\ pc = "close" /\ pc' = "wait" /\ i' = i + 1 /\ i \in Tests /\ i \in Nat
      /\ child' = child /\ status' = status /\ should_fail' = should_fail
      /\ shown' = shown /\ written' = written /\ output' = output
      /\ num_success' = num_success /\ num_fail' = num_fail
  BY DEF close_stderr, Control, Tests
<1>2. \A t \in Tests : t # i => readers'[t] = readers[t]
  BY DEF close_stderr, TypeOK
<1>3. TypeOK'
  <2>1. readers' \in [Tests -> SUBSET Processes]
    BY DEF close_stderr, TypeOK
  <2>2. i' \in 1 .. NumTests + 1
    BY <1>1, Sizes DEF Tests
  <2> QED BY <1>1, <2>1, <2>2 DEF TypeOK, close_stderr
<1>4. Accounted' /\ NotKilled'
  BY <1>1 DEF Accounted, NotKilled, close_stderr
<1>5. Control'
  BY <1>1 DEF Control
<1>6. Holding'
  <2>1. \A t \in Tests : t >= i' => t # i /\ t >= i
    BY <1>1 DEF Tests
  <2> QED BY <1>1, <1>2, <2>1 DEF Holding, Waiting
<1>7. \A t : (AsExpected(t)' <=> AsExpected(t)) /\ Due(t)' = Due(t)
  BY <1>1 DEF AsExpected, Due
<1>8. Counting'
  <2>1. Judged' = Judged
    BY <1>1 DEF Judged
  <2> QED BY <1>1, <1>7, <2>1 DEF Counting, Waiting
<1>9. Showing'
  <2>1. \A t \in Tests : (t < i => shown[t] = Due(t)) /\ (t > i => shown[t] = 0)
    BY <1>1 DEF Showing, Waiting
  <2>2. shown[i] = Due(i)
    BY <1>1 DEF Showing
  <2>3. \A t \in Tests : (t < i' => shown[t] = Due(t)) /\ (t >= i' => shown[t] = 0)
    BY <1>1, <2>1, <2>2 DEF Tests
  <2>4. \A t \in Tests : /\ t < i' => shown'[t] = Due(t)'
                         /\ t > i' => shown'[t] = 0
                         /\ t = i' => shown'[t] = 0
    BY <1>1, <1>7, <2>3 DEF Tests
  <2> QED BY <1>1, <2>4 DEF Showing
<1> QED
  BY <1>3, <1>4, <1>5, <1>6, <1>8, <1>9

\* At the end every test is behind the loop variable.
LEMMA FinishKeeps == RunnerInv /\ finish => RunnerInv'
<1> SUFFICES ASSUME RunnerInv, finish PROVE RunnerInv'
  OBVIOUS
<1> USE DEF RunnerInv, tests, children
<1>1. /\ pc = "wait" /\ pc' = "finished" /\ i' = i /\ i = NumTests + 1
      /\ child' = child /\ status' = status /\ should_fail' = should_fail
      /\ shown' = shown /\ written' = written /\ output' = output
      /\ num_success' = num_success /\ num_fail' = num_fail
  BY Sizes DEF finish, TypeOK
<1>2. TypeOK'
  BY <1>1, DropType DEF TypeOK, finish
<1>3. Accounted' /\ NotKilled'
  BY <1>1 DEF Accounted, NotKilled, finish
<1>4. Control'
  BY <1>1 DEF Control
<1>5. Holding'
  BY <1>1, Sizes DEF Holding, Waiting, Tests
<1>6. \A t : (AsExpected(t)' <=> AsExpected(t)) /\ Due(t)' = Due(t)
  BY <1>1 DEF AsExpected, Due
<1>7. Counting'
  <2>1. Judged' = Judged
    BY <1>1 DEF Judged
  <2> QED BY <1>1, <1>6, <2>1 DEF Counting, Waiting
<1>8. Showing'
  BY <1>1, <1>6 DEF Showing, Waiting
<1> QED
  BY <1>2, <1>3, <1>4, <1>5, <1>7, <1>8

(***************************************************************************)
(* The test processes.                                                     *)
(***************************************************************************)

\* A step of a test that runs changes nothing the runner has judged, and takes
\* nothing from what the runner holds.
LEMMA TestKeeps ==
  ASSUME NEW t \in Tests, RunnerInv, TypeOK', Accounted', UNCHANGED <<tests, runner>>,
         child[t] \in {"forked", "running"}, child'[t] \in {"running", "exited"},
         \A u \in Tests \ {t} : /\ child'[u] = child[u] /\ status'[u] = status[u]
                                /\ written'[u] = written[u],
         \A u \in Tests : /\ Runner \in readers'[u] <=> Runner \in readers[u]
                          /\ Runner \in writers'[u] <=> Runner \in writers[u],
         child'[t] = "exited" => pc = "aborted" \/ written'[t] = output[t]
  PROVE  RunnerInv'
<1> USE DEF RunnerInv, tests, runner
<1>1. Control'
  BY DEF Control
<1>2. Holding'
  <2>1. \A u \in Tests : child'[u] = "unborn" <=> child[u] = "unborn"
    OBVIOUS
  <2> QED BY <2>1 DEF Holding
<1>3. NotKilled'
  <2> SUFFICES ASSUME pc # "aborted", NEW u \in Tests, child'[u] = "exited"
               PROVE  written'[u] = output[u]
    BY DEF NotKilled
  <2> QED BY DEF NotKilled
<1>4. pc \in Waiting => t \notin Judged
  BY DEF Counting
<1>5. Judged \subseteq Tests /\ \A u \in Tests : u < i => u \in Judged
  <2>1. i \in 1 .. NumTests + 1 /\ (pc \in {"read", "close"} => i \in Tests)
    BY DEF TypeOK, Control
  <2>2. CASE pc \in {"read", "close"}
    <3>1. Judged = 1 .. i
      BY <2>2 DEF Judged
    <3> QED BY <2>1, <2>2, <3>1, Sizes DEF Tests
  <2>3. CASE pc \notin {"read", "close"}
    <3>1. Judged = 1 .. i - 1
      BY <2>3 DEF Judged
    <3> HIDE DEF RunnerInv
    <3> QED BY <2>1, <3>1, Sizes DEF Tests
  <2> QED BY <2>2, <2>3
<1>6. \A u \in Tests \ {t} : (AsExpected(u)' <=> AsExpected(u)) /\ Due(u)' = Due(u)
  BY DEF AsExpected, Due
<1>7. Judged' = Judged
  BY DEF Judged
<1>8. Counting'
  <2>1. ASSUME pc \in Waiting
        PROVE  /\ {u \in Judged : AsExpected(u)'} = {u \in Judged : AsExpected(u)}
               /\ {u \in Judged : ~AsExpected(u)'} = {u \in Judged : ~AsExpected(u)}
               /\ \A u \in Judged : child'[u] = "exited"
    BY <2>1, <1>4, <1>5, <1>6 DEF Counting
  <2> QED BY <2>1, <1>7 DEF Counting
<1>9. Showing'
  <2>1. pc \in {"read", "close"} => i \in Judged /\ i \in Tests
    BY DEF Control, Judged, Tests
  <2>2. pc \in {"read", "close"} => i # t
    BY <2>1, <1>4 DEF Waiting
  <2>3. ASSUME pc \in Waiting, NEW u \in Tests, u < i PROVE shown[u] = Due(u)'
    BY <2>3, <1>4, <1>5, <1>6 DEF Showing
  <2>4. (pc = "read" => ~AsExpected(i)') /\ (pc = "close" => shown[i] = Due(i)')
    BY <2>1, <2>2, <1>6 DEF Showing
  <2> QED BY <2>3, <2>4 DEF Showing
<1> QED
  BY <1>1, <1>2, <1>3, <1>8, <1>9

\* While it can still be killed by SIGPIPE, a test has outlived the runner.
LEMMA PipesAreRead ==
  ASSUME NEW t \in Tests, RunnerInv, child[t] \in {"forked", "running"}, readers[t] = {}
  PROVE  pc = "aborted"
<1> USE DEF RunnerInv
<1>1. pc \notin {"main", "fork"}
  BY DEF Holding, TypeOK, Tests
<1>2. pc \in Waiting => t \notin Judged
  BY DEF Counting
<1>3. pc \in Waiting => t >= i
  BY <1>2 DEF Judged, Tests, TypeOK
<1>4. pc \notin Waiting
  BY <1>3 DEF Holding
<1> QED
  BY <1>1, <1>4 DEF TypeOK, Control, Waiting

\* A test that ends.
LEMMA ExitKeeps ==
  ASSUME NEW t \in Tests, NEW s \in {0, 1}, RunnerInv, child[t] = "running", Exits(t, s),
         pc = "aborted" \/ written[t] = output[t]
  PROVE  RunnerInv'
<1> USE DEF RunnerInv, tests, runner
<1>1. t # Runner /\ t \in Processes
  BY Sizes DEF Tests, Runner, Processes
<1>2. /\ readers \in [Tests -> SUBSET Processes] /\ writers \in [Tests -> SUBSET Processes]
      /\ readers' = Drop(t, readers) /\ writers' = Drop(t, writers)
  BY DEF TypeOK, Exits
<1>3. /\ readers' \in [Tests -> SUBSET Processes] /\ writers' \in [Tests -> SUBSET Processes]
      /\ \A u \in Tests : /\ Runner \in readers'[u] <=> Runner \in readers[u]
                          /\ Runner \in writers'[u] <=> Runner \in writers[u]
  BY <1>1, <1>2, DropType
<1>4. /\ child'[t] = "exited"
      /\ \A u \in Tests \ {t} : child'[u] = child[u] /\ status'[u] = status[u]
      /\ child' \in [Tests -> {"unborn", "forked", "running", "exited"}]
      /\ status' \in [Tests -> {0, 1}]
  BY DEF TypeOK, Exits
<1>5. UNCHANGED <<tests, runner, written, pipe>>
  BY DEF Exits
<1>6. TypeOK'
  BY <1>3, <1>4, <1>5 DEF TypeOK
<1>7. Accounted'
  BY <1>5 DEF Accounted
<1> QED
  BY <1>3, <1>4, <1>5, <1>6, <1>7, TestKeeps

\* Each step of a test.
LEMMA TestStepKeeps ==
  ASSUME NEW t \in Tests, RunnerInv, TestStep(t) PROVE RunnerInv'
<1> USE DEF RunnerInv, tests, runner, ends
<1>0. t # Runner /\ t \in Processes
  BY Sizes DEF Tests, Runner, Processes
<1>1. CASE start_test(t)
  <2>1. /\ child[t] = "forked" /\ child'[t] = "running"
        /\ \A u \in Tests \ {t} : child'[u] = child[u]
        /\ child' \in [Tests -> {"unborn", "forked", "running", "exited"}]
    BY <1>1 DEF start_test, TypeOK
  <2>2. /\ readers' \in [Tests -> SUBSET Processes] /\ writers' = writers
        /\ \A u \in Tests : Runner \in readers'[u] <=> Runner \in readers[u]
    BY <1>0, <1>1 DEF start_test, TypeOK, Start
  <2>3. UNCHANGED <<tests, runner, status, written, pipe>>
    BY <1>1 DEF start_test
  <2>4. TypeOK' /\ Accounted'
    BY <2>1, <2>2, <2>3 DEF TypeOK, Accounted
  <2> QED BY <2>1, <2>2, <2>3, <2>4, TestKeeps
<1>2. CASE write_stderr(t)
  <2>1. /\ child[t] = "running" /\ UNCHANGED <<tests, runner, child, status, ends>>
        /\ pipe' = [pipe EXCEPT ![t] = @ + 1] /\ written' = [written EXCEPT ![t] = @ + 1]
        /\ written[t] < output[t] /\ pipe[t] < Capacity
    BY <1>2 DEF write_stderr
  <2>2. /\ pipe'[t] = pipe[t] + 1 /\ written'[t] = written[t] + 1
        /\ \A u \in Tests \ {t} : pipe'[u] = pipe[u] /\ written'[u] = written[u]
    BY <2>1 DEF TypeOK
  <2>3. /\ pipe[t] \in Nat /\ written[t] \in Nat /\ shown[t] \in Nat
        /\ output[t] \in Nat /\ output[t] <= MaxOutput
    BY Sizes DEF TypeOK
  <2>4. pipe[t] + 1 \in 0 .. Capacity /\ written[t] + 1 \in 0 .. MaxOutput
    BY <2>1, <2>3, Sizes
  <2>5. pipe' \in [Tests -> 0 .. Capacity] /\ written' \in [Tests -> 0 .. MaxOutput]
    BY <2>1, <2>4 DEF TypeOK
  <2>6. TypeOK'
    BY <2>1, <2>5 DEF TypeOK
  <2>7. Accounted'
    <3> SUFFICES ASSUME NEW u \in Tests
                 PROVE  shown[u] + pipe'[u] = written'[u] /\ written'[u] <= output[u]
      BY <2>1 DEF Accounted
    <3>1. shown[u] + pipe[u] = written[u] /\ written[u] <= output[u]
      BY DEF Accounted
    <3>2. CASE u = t
      BY <2>1, <2>2, <2>3, <3>1, <3>2
    <3> QED BY <2>2, <3>1, <3>2
  <2> QED BY <2>1, <2>2, <2>6, <2>7, TestKeeps
<1>3. CASE exit_test(t)
  BY <1>3, ExitKeeps DEF exit_test
<1>4. CASE broken_pipe(t)
  BY <1>4, ExitKeeps, PipesAreRead DEF broken_pipe
<1> QED
  BY <1>1, <1>2, <1>3, <1>4 DEF TestStep

(***************************************************************************)
(* The results.                                                            *)
(***************************************************************************)

\* Nothing the runner or a test does breaks the invariant.
LEMMA StepRunner == RunnerInv /\ [Next]_vars => RunnerInv'
<1> SUFFICES ASSUME RunnerInv, [Next]_vars PROVE RunnerInv'
  OBVIOUS
<1>1. CASE RunnerStep
  BY <1>1, MainKeeps, RunTestKeeps, AbortKeeps, AllForkedKeeps, WaitKeeps, ReadKeeps,
     CloseKeeps, FinishKeeps DEF RunnerStep, pipe_fails
<1>2. CASE fork_fails \/ read_fails
  BY <1>2, AbortKeeps DEF fork_fails, read_fails
<1>3. CASE \E t \in Tests : TestStep(t)
  BY <1>3, TestStepKeeps
<1>4. CASE UNCHANGED vars
  BY <1>4 DEF vars, tests, runner, children, ends, RunnerInv, TypeOK, Accounted, Control,
     Holding, NotKilled, Counting, Showing, Judged, Due, AsExpected
<1> QED
  BY <1>1, <1>2, <1>3, <1>4 DEF Next, AllEnded

\* The invariant holds in every state the test runner reaches.
LEMMA RunnerInvariant == Spec => []RunnerInv
BY InitRunner, StepRunner, PTL DEF Spec

\* The state of the runner and its tests is of its type.
THEOREM TypeCorrect == Spec => []TypeOK
<1>1. RunnerInv => TypeOK
  BY DEF RunnerInv
<1> QED BY <1>1, RunnerInvariant, PTL

\* run_all_tests() ends with a summary that counts every test once, by the exit
\* status of its own process, however the processes interleave.
THEOREM SummaryCorrect == Spec => []SummaryIsRight
<1>1. RunnerInv => SummaryIsRight
  <2> SUFFICES ASSUME RunnerInv, pc = "finished"
               PROVE  /\ \A t \in Tests : child[t] = "exited"
                      /\ num_success = Cardinality({t \in Tests : AsExpected(t)})
                      /\ num_fail = Cardinality({t \in Tests : ~AsExpected(t)})
    BY DEF SummaryIsRight
  <2>1. Judged = Tests
    BY Sizes DEF RunnerInv, Control, Judged, Tests
  <2> QED BY <2>1 DEF RunnerInv, Counting, Waiting
<1> QED BY <1>1, RunnerInvariant, PTL

\* Whatever a test wrote before it failed is printed, for any size of the pipe
\* and of one read(), and nothing of a test that met its declaration.
THEOREM FailuresShownCorrect == Spec => []FailuresAreShown
<1>1. RunnerInv => FailuresAreShown
  <2> SUFFICES ASSUME RunnerInv, pc = "finished", NEW t \in Tests
               PROVE  shown[t] = IF AsExpected(t) THEN 0 ELSE output[t]
    BY DEF FailuresAreShown
  <2>1. t < i
    BY Sizes DEF RunnerInv, Control, Tests
  <2> QED BY <2>1 DEF RunnerInv, Showing, Waiting, Due
<1> QED BY <1>1, RunnerInvariant, PTL

\* The runner needs one descriptor for each test it has started and one more.
THEOREM DescriptorsCorrect == Spec => []DescriptorsSuffice
<1>1. RunnerInv => DescriptorsSuffice
  <2> SUFFICES ASSUME RunnerInv, pc = "fork", i <= NumTests PROVE Open + 2 <= NumTests + 1
    BY DEF DescriptorsSuffice
  <2>1. i \in Nat /\ i >= 1
    BY DEF RunnerInv, TypeOK
  <2>2. {t \in Tests : Runner \in readers[t]} = 1 .. (i - 1)
    BY <2>1, Sizes DEF RunnerInv, Holding, Tests
  <2>3. {t \in Tests : Runner \in writers[t]} = {}
    BY DEF RunnerInv, Holding
  <2>4. Cardinality(1 .. (i - 1)) = i - 1 /\ Cardinality({}) = 0
    BY <2>1, CountRange, FS_EmptySet
  <2>5. Open = (i - 1) + 0
    BY <2>2, <2>3, <2>4, Zenon DEF Open
  <2> QED BY <2>1, <2>5, Sizes
<1> QED BY <1>1, RunnerInvariant, PTL
=============================================================================
