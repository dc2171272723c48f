-------------------------------- MODULE PoolTest --------------------------------
(***************************************************************************)
(* The tests of src/pool/pool-test.cc on the pool: the main thread runs    *)
(* the calls of a test function in their order, the workers run the Run()  *)
(* of the kinds of tasks the tests are made of, and main and the barrier   *)
(* tasks meet at a barrier.  The pool is ThreadPool itself, here with one  *)
(* client, main, which makes no other calls than those of its test.        *)
(*                                                                         *)
(* A task is its label and its number, which are also its name (T(label,   *)
(* i)): "barrier", "inc", "incr", "first" and "second" count, "wait" waits *)
(* for the "empty" of its number, "submit" submits the "incr" of its       *)
(* number.  Each name is used once.                                        *)
(***************************************************************************)
EXTENDS ThreadPool, SequencesExt

CONSTANTS
  main,     \* the main thread
  Tests     \* the calls of test functions that are made, see Script

VARIABLES
  test,       \* the test that is run
  at,         \* how many calls of the script main has made
  body,       \* how far the Run() is that a worker is in
  barrier,    \* who has arrived at the barrier
  counter,    \* the atomic counter of the counting tasks
  results,    \* what each counting task was given, their record_value_
  passed,     \* the barrier tasks that have counted themselves (check_count)
  waited      \* the wait tasks that have set their done flag

testVars == <<test, at, body, barrier, counter, results, passed, waited>>
allVars == <<vars, testVars>>

thread_count == Cardinality(Workers)

Label(k) == k[1]
Number(k) == k[2]
Labelled(label, count) == {<<label, i>> : i \in 0 .. count - 1}
Counts(k) == Label(k) \in {"inc", "incr", "first", "second"}

\* What the SubmitTaskTasks submit, and the WaitForTaskTasks wait for.
Submitted == [k \in Tasks |->
  IF Label(k) = "submit" THEN {<<"incr", Number(k)>>} ELSE {}]
Awaited == [k \in Tasks |->
  IF Label(k) = "wait" THEN {<<"empty", Number(k)>>} ELSE {}]

ASSUME TestAssumption ==
  /\ Clients = {main}
  /\ Names = Tasks /\ \A k \in Tasks : NameOf[k] = k
  /\ TaskSubmits = Submitted /\ TaskWaits = Awaited

-----------------------------------------------------------------------------
(* The test functions as the calls they make *)

Call(op, k) == <<[op |-> op, task |-> k]>>
Calls(op, label, count) ==
  [n \in 1 .. count |-> [op |-> op, task |-> <<label, n - 1>>]]
Barrier == Call("barrier", NoTask)
Stopping == Call("stop", NoTask)

submit_barrier_set == Calls("submit", "barrier", thread_count)
cleanup_barrier_set == Calls("wait", "barrier", thread_count)
When(condition, calls) == IF condition THEN calls ELSE <<>>

test_run_in_order(count, submit_first, wait_reverse) ==
  LET waits == Calls("wait", "inc", count)
  IN  When(submit_first, submit_barrier_set)
      \o Calls("submit", "inc", count)
      \o When(submit_first, Barrier)
      \o (IF wait_reverse THEN Reverse(waits) ELSE waits)
      \o When(submit_first, cleanup_barrier_set)
      \o Stopping

\* The wait tasks are one less than the workers; in a variant, as many.
AllWorkers == thread_count
Waiters == thread_count - 1

test_wait_for_from_future_tasks ==
  submit_barrier_set
  \o Calls("submit", "wait", Waiters) \o Calls("submit", "empty", Waiters)
  \o Barrier
  \o Calls("wait", "wait", Waiters)
  \o cleanup_barrier_set
  \o Stopping

\* Each submitting task is waited for, and then the one it has submitted.
WaitsForBoth(count) ==
  [n \in 1 .. 2 * count |->
     [op |-> "wait",
      task |-> <<IF n % 2 = 1 THEN "submit" ELSE "incr", count - (n + 1) \div 2>>]]

test_submit_many(count) ==
  submit_barrier_set
  \o Calls("submit", "submit", count)
  \o Barrier
  \o WaitsForBoth(count)
  \o cleanup_barrier_set
  \o Stopping

test_submit_then_wait_then_submit(count) ==
  Calls("submit", "first", count) \o Calls("wait", "first", count)
  \o Calls("submit", "second", count) \o Calls("wait", "second", count)
  \o Stopping

ScriptOf(t) ==
  CASE t.name = "run in order" ->
         test_run_in_order(t.count, t.submit_first, t.wait_reverse)
    [] t.name = "wait for future" -> test_wait_for_from_future_tasks
    [] t.name = "submit many" -> test_submit_many(t.count)
    [] t.name = "submit again" -> test_submit_then_wait_then_submit(t.count)

Script == ScriptOf(test)

\* main() calls every test with at least one thread and one task.
ASSUME TestsAssumption ==
  /\ Workers # {}
  /\ Tests \subseteq
       [name : {"run in order", "wait for future", "submit many", "submit again"},
        count : Nat \ {0}, submit_first : BOOLEAN, wait_reverse : BOOLEAN]
  /\ \A t \in Tests : \A n \in DOMAIN ScriptOf(t) :
       ScriptOf(t)[n].op \in {"submit", "wait"} => ScriptOf(t)[n].task \in Tasks

\* The tasks main submits, and the counting ones of them and that they submit.
Used == {Script[n].task : n \in {m \in DOMAIN Script : Script[m].op = "submit"}}
Counting ==
  {k \in Tasks : Counts(k) /\ (k \in Used \/ \E j \in Used : k \in Submitted[j])}

TestTypeOK ==
  /\ TypeOK
  /\ test \in Tests
  /\ at \in 0 .. Len(Script)
  /\ body \in [Workers -> {"start", "met", "end"}]
  /\ barrier \subseteq Threads
  /\ counter \in 0 .. Cardinality(Counting)
  /\ results \in [Tasks -> -1 .. Cardinality(Counting) - 1]
  /\ passed \subseteq Tasks /\ waited \subseteq Tasks

TestInit ==
  /\ Init
  /\ test \in Tests
  /\ at = 0
  /\ body = [w \in Workers |-> "start"]
  /\ barrier = {}
  /\ counter = 0
  /\ results = [k \in Tasks |-> -1]
  /\ passed = {} /\ waited = {}

\* pthread_barrier_init(&barrier, NULL, thread_count + 1), and a variant that
\* forgets main.
TooFew == thread_count
BarrierCount == thread_count + 1
Opened == Cardinality(barrier) >= BarrierCount

-----------------------------------------------------------------------------
(* The main thread *)

Now == Script[at + 1]

\* main makes its next call into the pool, or meets the others.  A wait for a
\* name that is not in the map returns at once.
MainCalls ==
  /\ pc[main] = "idle" /\ at < Len(Script)
  /\ \/ Now.op = "submit" /\ SubmitTask(main, Now.task)
     \/ Now.op = "wait" /\ WaitForTask(main, Now.task)
     \/ /\ Now.op = "wait" /\ mutex = NoThread /\ taskMap[Now.task] = NoTask
        /\ UNCHANGED vars
     \/ Now.op = "barrier" /\ Opened /\ UNCHANGED vars
     \/ Now.op = "stop" /\ Stop(main)
  /\ at' = at + 1
  /\ UNCHANGED <<test, body, barrier, counter, results, passed, waited>>

MainArrives ==
  /\ pc[main] = "idle" /\ at < Len(Script) /\ Now.op = "barrier"
  /\ main \notin barrier
  /\ barrier' = barrier \cup {main}
  /\ UNCHANGED <<vars, test, at, body, counter, results, passed, waited>>

-----------------------------------------------------------------------------
(* The Run() of each kind of task *)

Running(w, kinds) == pc[w] = "run" /\ Label(myTask[w]) \in kinds

\* BarrierTask: pthread_barrier_wait, then fetch_add on the check count.
WorkerArrives(w) ==
  /\ Running(w, {"barrier"}) /\ body[w] = "start"
  /\ barrier' = barrier \cup {w}
  /\ body' = [body EXCEPT ![w] = "met"]
  /\ UNCHANGED <<vars, test, at, counter, results, passed, waited>>
WorkerMeets(w) ==
  /\ Running(w, {"barrier"}) /\ body[w] = "met" /\ Opened
  /\ passed' = passed \cup {myTask[w]}
  /\ body' = [body EXCEPT ![w] = "end"]
  /\ UNCHANGED <<vars, test, at, barrier, counter, results, waited>>

\* RecordIncrementTask: *record_value_ = counter_->fetch_add(1), and a variant
\* that records the value after the increment.
RecordIncremented(w) ==
  /\ Running(w, {"inc", "incr", "first", "second"}) /\ body[w] = "start"
  /\ results' = [results EXCEPT ![myTask[w]] = counter + 1]
  /\ counter' = counter + 1
  /\ body' = [body EXCEPT ![w] = "end"]
  /\ UNCHANGED <<vars, test, at, barrier, passed, waited>>
RecordIncrement(w) ==
  /\ Running(w, {"inc", "incr", "first", "second"}) /\ body[w] = "start"
  /\ results' = [results EXCEPT ![myTask[w]] = counter]
  /\ counter' = counter + 1
  /\ body' = [body EXCEPT ![w] = "end"]
  /\ UNCHANGED <<vars, test, at, barrier, passed, waited>>

\* SubmitTaskTask and WaitForTaskTask call the pool that runs them.
TaskCalls(w) ==
  /\ body[w] = "start"
  /\ \/ /\ Running(w, {"submit"})
        /\ \E k \in TaskSubmits[myTask[w]] : SubmitTask(w, k)
     \/ /\ Running(w, {"wait"})
        /\ \E n \in TaskWaits[myTask[w]] :
             \/ WaitForTask(w, n)
             \/ mutex = NoThread /\ taskMap[n] = NoTask /\ UNCHANGED vars
  /\ body' = [body EXCEPT ![w] = "end"]
  /\ UNCHANGED <<test, at, barrier, counter, results, passed, waited>>

\* EmptyTask and CheckDestructionTask.
RunEmpty(w) ==
  /\ Running(w, {"empty"}) /\ body[w] = "start"
  /\ body' = [body EXCEPT ![w] = "end"]
  /\ UNCHANGED <<vars, test, at, barrier, counter, results, passed, waited>>

\* The Run() returns; a WaitForTaskTask sets its flag before.
RunReturns(w) ==
  /\ pc[w] = "run" /\ body[w] = "end"
  /\ FinishRun(w)
  /\ body' = [body EXCEPT ![w] = "start"]
  /\ waited' = IF Label(myTask[w]) = "wait" THEN waited \cup {myTask[w]}
                                            ELSE waited
  /\ UNCHANGED <<test, at, barrier, counter, results, passed>>

RunStep(w) == \/ WorkerArrives(w) \/ WorkerMeets(w) \/ RecordIncrement(w)
              \/ TaskCalls(w) \/ RunEmpty(w) \/ RunReturns(w)

\* The steps of the pool that are no business of the test.
PoolStep(t) == (CallStep(t) \/ SpuriousWakeup(t)) /\ UNCHANGED testVars
PoolWorker(w) == (TakeTask(w) \/ SignalDone(w)) /\ UNCHANGED testVars

TestNext ==
  /\ alive
  /\ \/ MainCalls \/ MainArrives
     \/ JoinAll(main) /\ UNCHANGED testVars
     \/ \E w \in Workers : RunStep(w) \/ PoolWorker(w)
     \/ \E t \in Threads : PoolStep(t)

\* The fairness of ThreadPool; main and the Run() of a task go on, and get
\* the mutex in the end when they call the pool.
TestFairness ==
  /\ \A w \in Workers :
       /\ SF_allVars(alive /\ TakeTask(w) /\ UNCHANGED testVars)
       /\ WF_allVars(alive /\ SignalDone(w) /\ UNCHANGED testVars)
       /\ SF_allVars(alive /\ RunStep(w))
  /\ \A t \in Threads : SF_allVars(alive /\ CallStep(t) /\ UNCHANGED testVars)
  /\ SF_allVars(alive /\ (MainCalls \/ MainArrives))
  /\ WF_allVars(alive /\ JoinAll(main) /\ UNCHANGED testVars)

TestSpec == TestInit /\ [][TestNext]_allVars /\ TestFairness

-----------------------------------------------------------------------------
(* Properties *)

\* main is about to call Stop, or has.
AllWaited == alive /\ at >= Len(Script) - 1 /\ pc[main] \in {"idle", "stopped"}

\* The CHECKs of the tests: when every wait has returned, every counting task
\* has run once and they were given the numbers from 0 on, one of the first
\* thread_count of them 0 (pool-test.cc:221-239), by a single thread in the order
\* of submission (pool-test.cc:226-230), every barrier task has run, every wait
\* task has waited, and every task is deleted.
ChecksPass ==
  AllWaited =>
    /\ counter = Cardinality(Counting)
    /\ {results[k] : k \in Counting} = 0 .. Cardinality(Counting) - 1
    /\ test.name = "run in order" =>
         \E k \in Counting : Number(k) < thread_count /\ results[k] = 0
    /\ test.name = "run in order" /\ thread_count = 1 =>
         \A k \in Counting : results[k] = Number(k)
    /\ \A k \in Used :
         /\ Label(k) = "barrier" => k \in passed
         /\ Label(k) = "wait" => k \in waited
         /\ heap[k] = "deleted"

\* The barrier does what pool-test.cc:168 says it is for: the tasks after the
\* barrier tasks only start when main has submitted all of them.
BarrierHoldsWorkers ==
  \A k \in Used :
    (\E j \in Used : Label(j) = "barrier") /\ Label(k) # "barrier" =>
      (finished[k] \/ (\E w \in Workers : myTask[w] = k)
         => \A j \in Used : heap[j] # "fresh")

\* The waiter has missed its signal: the task has finished, and nobody is left
\* to signal it.
Overlooked(t) ==
  /\ pc[t] = "doneWait" /\ finished[waitTask[t]]
  /\ \A w \in Workers : pc[w] = "signalDone" => myTask[w] # waitTask[t]

\* Every test ends with the pool stopped, unless undefined behaviour ends the
\* process or a wake-up is lost for good: the wait tasks leave a worker for
\* what they wait for, and the barrier opens.
TestEnds ==
  <>(pc[main] = "stopped" \/ ~alive \/ [](\E t \in Threads : Overlooked(t)))
=============================================================================
