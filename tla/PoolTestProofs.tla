----------------------------- MODULE PoolTestProofs -----------------------------
(***************************************************************************)
(* Theorems about PoolTest, for every number of threads and tasks: its     *)
(* types, the barrier, the CHECKs of the four tests, and that the test     *)
(* program is a client of the pool of ThreadPool, so that what is proved   *)
(* there holds here.  The parts of the invariant rest on what a script     *)
(* must satisfy (GoodScript); that each of the four tests does is proved   *)
(* from the layout of its calls.                                           *)
(***************************************************************************)
EXTENDS PoolTest, ThreadPoolProofs, SequenceTheorems

-----------------------------------------------------------------------------
(* The test program as a user of the pool *)

LEMMA TestThreads == /\ main \in Threads /\ main \in Clients /\ main \notin Workers
                     /\ Threads = Workers \cup {main}
BY PoolAssumption, TestAssumption DEF Threads

\* The calls of a script.
Labels ==
  {"barrier", "inc", "incr", "first", "second", "wait", "empty", "submit"}
AnyCall == [op : {"submit", "wait", "barrier", "stop"},
            task : (Labels \X Int) \cup {NoTask}]

LEMMA ScriptTasks ==
  ASSUME test \in Tests, NEW n \in DOMAIN Script,
         Script[n].op \in {"submit", "wait"}
  PROVE  Script[n].task \in Tasks
BY TestsAssumption DEF Script

\* A worker that runs has a task, which was submitted, is live and unfinished.
LEMMA RunnersAreOwners ==
  ASSUME OwnershipInv, NEW w \in Workers, pc[w] = "run"
  PROVE  /\ myTask[w] \in Tasks /\ Busy(w)
         /\ heap[myTask[w]] = "live" /\ ~finished[myTask[w]]
<1>1. "run" \in Holding
  BY DEF Holding
<1>2. Busy(w)
  BY <1>1 DEF OwnershipInv, WorkersHoldTasks, Busy
<1> QED
  BY <1>2 DEF OwnershipInv, RunningTaskIsOwned, Busy, TypeOK

\* main is between two calls and the next one is number at + 1.
LEMMA NextCall ==
  ASSUME test \in Tests, at \in Nat, Script \in Seq(AnyCall), at < Len(Script)
  PROVE  /\ at + 1 \in DOMAIN Script
         /\ Now.op \in {"submit", "wait"} => Now.task \in Tasks
         /\ Now.op = "submit" => Now.task \in Used
<1>1. at + 1 \in DOMAIN Script
  BY LenProperties
<1>2. Now.op \in {"submit", "wait"} => Now.task \in Tasks
  BY <1>1, ScriptTasks DEF Now
<1>3. Now.op = "submit" => Now.task \in Used
  BY <1>1 DEF Now, Used
<1> QED
  BY <1>1, <1>2, <1>3

\* Every step of the test program is a step of the pool's, or none.
LEMMA TestStepsAreSteps ==
  ASSUME OwnershipInv, test \in Tests, at \in Nat, Script \in Seq(AnyCall),
         [TestNext]_allVars
  PROVE  [Next]_vars
<1>1. CASE UNCHANGED allVars
  BY <1>1 DEF allVars
<1>2. ASSUME alive, MainCalls PROVE [Next]_vars
  <2>1. at < Len(Script)
    BY <1>2 DEF MainCalls
  <2>2. CASE Now.op = "submit" /\ SubmitTask(main, Now.task)
    BY <1>2, <2>1, <2>2, NextCall, TestThreads DEF Next
  <2>3. CASE Now.op = "wait" /\ WaitForTask(main, Now.task)
    BY <1>2, <2>1, <2>3, NextCall, TestThreads, TestAssumption DEF Next
  <2>4. CASE UNCHANGED vars
    BY <2>4
  <2>5. CASE Stop(main)
    BY <1>2, <2>5, TestThreads DEF Next
  <2> QED
    BY <1>2, <2>2, <2>3, <2>4, <2>5 DEF MainCalls
<1>3. CASE UNCHANGED vars
  BY <1>3
<1>4. CASE alive /\ JoinAll(main)
  BY <1>4, TestThreads DEF Next
<1>5. ASSUME alive, NEW w \in Workers, TaskCalls(w) PROVE [Next]_vars
  <2>0. w \in Threads
    BY DEF Threads
  <2>1. ASSUME Running(w, {"submit"}), NEW k \in TaskSubmits[myTask[w]],
               SubmitTask(w, k)
        PROVE  [Next]_vars
    <3>1. myTask[w] \in Tasks
      BY <2>1, RunnersAreOwners DEF Running
    <3>2. k \in Tasks
      BY <3>1, PoolAssumption
    <3> QED
      BY <1>5, <2>0, <2>1, <3>2 DEF Next
  <2>2. ASSUME Running(w, {"wait"}), NEW n \in TaskWaits[myTask[w]],
               WaitForTask(w, n)
        PROVE  [Next]_vars
    <3>1. myTask[w] \in Tasks
      BY <2>2, RunnersAreOwners DEF Running
    <3>2. n \in Names
      BY <3>1, PoolAssumption
    <3> QED
      BY <1>5, <2>0, <2>2, <3>2 DEF Next
  <2> QED
    BY <1>3, <1>5, <2>1, <2>2 DEF TaskCalls
<1>6. ASSUME alive, NEW w \in Workers, FinishRun(w) \/ TakeTask(w) \/ SignalDone(w)
      PROVE  [Next]_vars
  BY <1>6 DEF Next, WorkerStep
<1>7. ASSUME alive, NEW t \in Threads, CallStep(t) \/ SpuriousWakeup(t)
      PROVE  [Next]_vars
  BY <1>7 DEF Next
<1>8. ASSUME alive, NEW w \in Workers, RunStep(w) \/ PoolWorker(w) PROVE [Next]_vars
  <2>1. WorkerArrives(w) \/ WorkerMeets(w) \/ RecordIncrement(w) \/ RunEmpty(w)
        => UNCHANGED vars
    BY DEF WorkerArrives, WorkerMeets, RecordIncrement, RunEmpty
  <2> QED
    BY <1>3, <1>5, <1>6, <1>8, <2>1 DEF RunStep, PoolWorker, RunReturns
<1>9. MainArrives => UNCHANGED vars
  BY DEF MainArrives
<1> QED
  BY <1>1, <1>2, <1>3, <1>4, <1>7, <1>8, <1>9 DEF TestNext, PoolStep

-----------------------------------------------------------------------------
(* What the steps of the pool leave to a worker that runs a task *)

\* The steps a thread makes inside the pool, all but the end of a Run(), and
\* the calls into the pool.
PoolMove(t) ==
  \/ CallStep(t) \/ SpuriousWakeup(t)
  \/ t \in Workers /\ (TakeTask(t) \/ SignalDone(t))
  \/ t \in Clients /\ JoinAll(t)
PoolCall(t) ==
  \/ \E k \in Tasks : SubmitTask(t, k)
  \/ \E n \in Names : WaitForTask(t, n)
  \/ t \in Clients /\ Stop(t)

StaysBusy(w) == Busy(w) => Busy(w)' /\ myTask'[w] = myTask[w]

LEMMA NobodyInterrupts ==
  ASSUME OwnershipInv, WaitersHoldPointers, NEW t \in Threads,
         PoolCall(t) \/ PoolMove(t)
  PROVE  finished' = finished /\ \A w \in Workers : StaysBusy(w)
<1> USE PoolAssumption DEF Threads
<1>0. /\ pc \in [Threads -> Locations] /\ myTask \in [Workers -> Tasks \cup {NoTask}]
      /\ Home(t) # "signalDone"
  BY DEF OwnershipInv, TypeOK, Home
<1>1. ASSUME finished' = finished, myTask' = myTask,
             \A w \in Workers : pc'[w] = "signalDone" => pc[w] = "signalDone"
      PROVE  finished' = finished /\ \A w \in Workers : StaysBusy(w)
  BY <1>1 DEF StaysBusy, Busy
<1>2. ASSUME NEW k, TestFinished(t, k)
      PROVE  finished' = finished /\ \A w \in Workers : StaysBusy(w)
  BY <1>0, <1>1, <1>2 DEF TestFinished
<1>3. ASSUME NEW k \in Tasks, SubmitTask(t, k)
      PROVE  finished' = finished /\ \A w \in Workers : StaysBusy(w)
  BY <1>0, <1>1, <1>3 DEF SubmitTask
<1>4. ASSUME NEW n \in Names, WaitForTask(t, n)
      PROVE  finished' = finished /\ \A w \in Workers : StaysBusy(w)
  BY <1>2, <1>4 DEF WaitForTask
<1>5. ASSUME Crash
      PROVE  finished' = finished /\ \A w \in Workers : StaysBusy(w)
  BY <1>1, <1>5 DEF Crash
<1>6. ASSUME CallStep(t)
      PROVE  finished' = finished /\ \A w \in Workers : StaysBusy(w)
  <2>1. CASE SubmitSignal(t)
    BY <1>0, <1>1, <2>1 DEF SubmitSignal, Sleepers
  <2>2. CASE EnterDoneWait(t)
    BY <1>0, <1>1, <2>2 DEF EnterDoneWait
  <2>3. CASE ReturnFromDoneWait(t)
    BY <1>0, <1>1, <1>2, <1>5, <2>3 DEF ReturnFromDoneWait
  <2> QED
    BY <1>6, <2>1, <2>2, <2>3 DEF CallStep
<1>7. ASSUME SpuriousWakeup(t)
      PROVE  finished' = finished /\ \A w \in Workers : StaysBusy(w)
  BY <1>0, <1>1, <1>7 DEF SpuriousWakeup
<1>8. ASSUME t \in Workers, TakeTask(t)
      PROVE  finished' = finished /\ \A w \in Workers : StaysBusy(w)
  <2>1. ~Busy(t)
    BY <1>8 DEF TakeTask, OwnershipInv, WorkersHoldTasks, Busy, Holding
  <2>2. ASSUME finished' = finished, pc'[t] = "run",
               \A w \in Workers \ {t} : pc'[w] = pc[w] /\ myTask'[w] = myTask[w]
        PROVE  \A w \in Workers : StaysBusy(w)
    BY <2>1, <2>2 DEF StaysBusy, Busy
  <2> QED
    BY <1>0, <1>1, <1>5, <1>8, <2>2 DEF TakeTask
<1>9. ASSUME t \in Workers, SignalDone(t)
      PROVE  finished' = finished /\ \A w \in Workers : StaysBusy(w)
  <2>1. ~Busy(t)
    BY <1>9 DEF SignalDone, Busy
  <2>2. ASSUME \A w \in Workers \ {t} : /\ myTask'[w] = myTask[w]
                                        /\ pc'[w] = pc[w] \/ pc'[w] = "rewait"
        PROVE  \A w \in Workers : StaysBusy(w)
    BY <2>1, <2>2 DEF StaysBusy, Busy
  <2> QED
    BY <1>0, <1>5, <1>9, <2>2 DEF SignalDone, DoneSleepers
<1>10. ASSUME Stop(t)
       PROVE  finished' = finished /\ \A w \in Workers : StaysBusy(w)
  BY <1>0, <1>1, <1>10 DEF Stop
<1>11. ASSUME JoinAll(t)
       PROVE  finished' = finished /\ \A w \in Workers : StaysBusy(w)
  BY <1>0, <1>1, <1>5, <1>11 DEF JoinAll
<1> QED
  BY <1>3, <1>4, <1>6, <1>7, <1>8, <1>9, <1>10, <1>11
     DEF PoolCall, PoolMove

\* A run ends with the flag set, as the object of a running task is live.
LEMMA RunsEndFinished ==
  ASSUME OwnershipInv, NEW w \in Workers, FinishRun(w)
  PROVE  /\ myTask[w] \in Tasks /\ Busy(w)
         /\ finished' = [finished EXCEPT ![myTask[w]] = TRUE]
         /\ pc' = [pc EXCEPT ![w] = "signalDone"]
         /\ UNCHANGED <<taskQueue, taskMap, stopCalled, mutex, myTask, waitTask,
                        heap, alive>>
<1>1. pc[w] = "run"
  BY DEF FinishRun
<1>2. myTask[w] \in Tasks /\ Busy(w) /\ heap[myTask[w]] = "live"
  BY <1>1, RunnersAreOwners
<1> QED
  BY <1>2 DEF FinishRun

\* The steps of the test program, sorted by what they do to a Run().
TestSteps ==
  \/ /\ MainCalls
     /\ PoolCall(main) \/ UNCHANGED vars
  \/ MainArrives
  \/ \E w \in Workers : \/ WorkerArrives(w) \/ WorkerMeets(w)
                        \/ RecordIncrement(w) \/ RunEmpty(w) \/ RunReturns(w)
                        \/ TaskCalls(w) /\ (PoolCall(w) \/ UNCHANGED vars)
  \/ \E t \in Threads : PoolMove(t) /\ UNCHANGED testVars
  \/ UNCHANGED allVars

LEMMA StepsAreTestSteps ==
  ASSUME OwnershipInv, test \in Tests, at \in Nat, Script \in Seq(AnyCall),
         [TestNext]_allVars
  PROVE  TestSteps
<1>1. ASSUME MainCalls PROVE TestSteps
  <2>1. at < Len(Script)
    BY <1>1 DEF MainCalls
  <2>2. Now.op \in {"submit", "wait"} => Now.task \in Tasks
    BY <2>1, NextCall
  <2>3. PoolCall(main) \/ UNCHANGED vars
    BY <1>1, <2>2, TestThreads, TestAssumption DEF MainCalls, PoolCall
  <2> QED
    BY <1>1, <2>3 DEF TestSteps
<1>2. ASSUME NEW w \in Workers, TaskCalls(w) PROVE TestSteps
  <2>1. myTask[w] \in Tasks
    BY <1>2, RunnersAreOwners DEF TaskCalls, Running
  <2>2. TaskSubmits[myTask[w]] \subseteq Tasks /\ TaskWaits[myTask[w]] \subseteq Names
    BY <2>1, PoolAssumption
  <2>3. PoolCall(w) \/ UNCHANGED vars
    BY <1>2, <2>2 DEF TaskCalls, PoolCall
  <2> QED
    BY <1>2, <2>3 DEF TestSteps
<1>3. ASSUME NEW w \in Workers, RunStep(w) PROVE TestSteps
  BY <1>2, <1>3 DEF RunStep, TestSteps
<1>4. ASSUME NEW w \in Workers, PoolWorker(w) PROVE TestSteps
  BY <1>4 DEF PoolWorker, TestSteps, PoolMove, Threads
<1>5. ASSUME JoinAll(main), UNCHANGED testVars PROVE TestSteps
  BY <1>5, TestThreads DEF TestSteps, PoolMove
<1>6. ASSUME NEW t \in Threads, PoolStep(t) PROVE TestSteps
  BY <1>6 DEF PoolStep, TestSteps, PoolMove
<1> QED
  BY <1>1, <1>3, <1>4, <1>5, <1>6 DEF TestNext, TestSteps

-----------------------------------------------------------------------------
(* The Run() of a task is gone through once *)

TestTypes ==
  /\ test \in Tests /\ at \in 0 .. Len(Script)
  /\ body \in [Workers -> {"start", "met", "end"}]
  /\ barrier \subseteq Threads
  /\ counter \in Nat /\ results \in [Tasks -> Int]
  /\ passed \subseteq Tasks /\ waited \subseteq Tasks

\* A worker that is under way in a Run() still has its task.
BodyInv == \A w \in Workers : body[w] # "start" => Busy(w)

\* The Run() of k has done what it is for.
Ran(k) == finished[k] \/ \E w \in Workers : myTask[w] = k /\ body[w] = "end"

\* The steps that do it.
Does(w) == \/ WorkerMeets(w) \/ RecordIncrement(w) \/ TaskCalls(w) \/ RunEmpty(w)

PoolInv == OwnershipInv /\ WaitersHoldPointers
RunInv == PoolInv /\ TestTypes /\ BodyInv

LEMMA TestTypesStep ==
  ASSUME PoolInv, TestTypes, Script \in Seq(AnyCall), [TestNext]_allVars
  PROVE  TestTypes'
<1> USE DEF TestTypes
<1>1. Script' = Script /\ test' = test /\ Len(Script) \in Nat
  <2>1. test' = test
    BY DEF TestNext, MainCalls, MainArrives, RunStep, WorkerArrives, WorkerMeets,
           RecordIncrement, TaskCalls, RunEmpty, RunReturns, PoolWorker,
           PoolStep, testVars, allVars
  <2> QED
    BY <2>1, LenProperties DEF Script
<1>2. at' \in 0 .. Len(Script)
  <2>1. CASE at' = at
    BY <2>1
  <2>2. CASE at < Len(Script) /\ at' = at + 1
    BY <1>1, <2>2
  <2> QED
    BY <2>1, <2>2
       DEF TestNext, MainCalls, MainArrives, RunStep, WorkerArrives, WorkerMeets,
           RecordIncrement, TaskCalls, RunEmpty, RunReturns, PoolWorker,
           PoolStep, testVars, allVars
<1>3. body' \in [Workers -> {"start", "met", "end"}]
  BY DEF TestNext, MainCalls, MainArrives, RunStep, WorkerArrives, WorkerMeets,
         RecordIncrement, TaskCalls, RunEmpty, RunReturns, PoolWorker,
         PoolStep, testVars, allVars
<1>4. barrier' \subseteq Threads
  BY TestThreads
     DEF TestNext, MainCalls, MainArrives, RunStep, WorkerArrives, WorkerMeets,
         RecordIncrement, TaskCalls, RunEmpty, RunReturns, PoolWorker,
         PoolStep, testVars, allVars
<1>5. counter' \in Nat /\ results' \in [Tasks -> Int]
  BY DEF TestNext, MainCalls, MainArrives, RunStep, WorkerArrives, WorkerMeets,
         RecordIncrement, TaskCalls, RunEmpty, RunReturns, PoolWorker,
         PoolStep, testVars, allVars
<1>6. passed' \subseteq Tasks /\ waited' \subseteq Tasks
  <2>1. \A w \in Workers : pc[w] = "run" => myTask[w] \in Tasks
    BY RunnersAreOwners DEF PoolInv
  <2>2. \A w \in Workers : FinishRun(w) => myTask[w] \in Tasks
    BY <2>1 DEF FinishRun
  <2> QED
    BY <2>1, <2>2
       DEF TestNext, MainCalls, MainArrives, RunStep, WorkerArrives, WorkerMeets,
           RecordIncrement, TaskCalls, RunEmpty, RunReturns, PoolWorker,
           PoolStep, testVars, allVars, Running
<1> QED
  BY <1>1, <1>2, <1>3, <1>4, <1>5, <1>6

LEMMA BodyStep ==
  ASSUME RunInv, TestSteps
  PROVE  BodyInv'
<1> USE DEF RunInv, PoolInv, BodyInv
<1>t. body \in [Workers -> {"start", "met", "end"}]
  BY DEF TestTypes
<1>1. ASSUME body' = body, \A w \in Workers : StaysBusy(w) PROVE BodyInv'
  BY <1>1 DEF StaysBusy
<1>2. ASSUME UNCHANGED vars PROVE \A w \in Workers : StaysBusy(w)
  BY <1>2 DEF StaysBusy, Busy, vars
<1>3. ASSUME NEW w \in Workers, Busy(w), NEW s, body' = [body EXCEPT ![w] = s],
             \A v \in Workers : StaysBusy(v)
      PROVE  BodyInv'
  BY <1>t, <1>3 DEF StaysBusy
<1>4. ASSUME NEW t \in Threads, PoolMove(t), UNCHANGED testVars PROVE BodyInv'
  BY <1>1, <1>4, NobodyInterrupts DEF testVars
<1>5. ASSUME MainCalls, PoolCall(main) \/ UNCHANGED vars PROVE BodyInv'
  BY <1>1, <1>2, <1>5, NobodyInterrupts, TestThreads DEF MainCalls
<1>6. ASSUME MainArrives \/ UNCHANGED allVars PROVE BodyInv'
  BY <1>1, <1>2, <1>6 DEF MainArrives, allVars, testVars
<1>7. ASSUME NEW w \in Workers,
             WorkerArrives(w) \/ WorkerMeets(w) \/ RecordIncrement(w) \/ RunEmpty(w)
      PROVE  BodyInv'
  BY <1>2, <1>3, <1>7, RunnersAreOwners
     DEF WorkerArrives, WorkerMeets, RecordIncrement, RunEmpty, Running
<1>8. ASSUME NEW w \in Workers, TaskCalls(w), PoolCall(w) \/ UNCHANGED vars
      PROVE  BodyInv'
  BY <1>2, <1>3, <1>8, RunnersAreOwners, NobodyInterrupts
     DEF TaskCalls, Running, Threads
<1>9. ASSUME NEW w \in Workers, RunReturns(w) PROVE BodyInv'
  <2>1. pc' = [pc EXCEPT ![w] = "signalDone"] /\ myTask' = myTask
    BY <1>9, RunsEndFinished DEF RunReturns
  <2> QED
    BY <1>t, <1>9, <2>1 DEF RunReturns, Busy, OwnershipInv, TypeOK
<1> QED
  BY <1>4, <1>5, <1>6, <1>7, <1>8, <1>9 DEF TestSteps

\* A step that does what a Run() is for is the first for its task; it and no
\* other step changes who has run.
LEMMA RunsOnce ==
  ASSUME RunInv, NEW w \in Workers, Does(w)
  PROVE  myTask[w] \in Tasks /\ Busy(w) /\ ~Ran(myTask[w])
<1> USE DEF RunInv, PoolInv
<1>1. pc[w] = "run" /\ body[w] # "end"
  BY DEF Does, WorkerMeets, RecordIncrement, TaskCalls, RunEmpty, Running
<1>2. myTask[w] \in Tasks /\ Busy(w) /\ ~finished[myTask[w]]
  BY <1>1, RunnersAreOwners
<1>3. \A v \in Workers \ {w} : myTask[v] # myTask[w]
  BY <1>2 DEF OwnershipInv, RunningTaskIsOwned
<1> QED
  BY <1>1, <1>2, <1>3 DEF Ran

LEMMA OneRuns ==
  ASSUME TestTypes, NEW w \in Workers, Does(w), NEW v \in Workers, Does(v)
  PROVE  v = w
<1>1. /\ body[w] # "end" /\ body' = [body EXCEPT ![w] = "end"]
      /\ body[v] # "end" /\ body' = [body EXCEPT ![v] = "end"]
  BY DEF Does, WorkerMeets, RecordIncrement, TaskCalls, RunEmpty
<1> QED
  BY <1>1 DEF TestTypes

LEMMA WhoHasRun ==
  ASSUME RunInv, TestSteps, NEW k \in Tasks
  PROVE  Ran(k)' <=> Ran(k) \/ \E w \in Workers : Does(w) /\ myTask[w] = k
<1> USE DEF RunInv, PoolInv
<1> DEFINE Goal == Ran(k)' <=> Ran(k) \/ \E w \in Workers : Does(w) /\ myTask[w] = k
<1>t. body \in [Workers -> {"start", "met", "end"}]
  BY DEF TestTypes
<1>1. ASSUME finished' = finished, \A w \in Workers : StaysBusy(w),
             \A w \in Workers : body'[w] = "end" <=> body[w] = "end"
      PROVE  Ran(k)' <=> Ran(k)
  BY <1>1 DEF Ran, BodyInv, StaysBusy
<1>2. ASSUME UNCHANGED vars
      PROVE  finished' = finished /\ \A w \in Workers : StaysBusy(w)
  BY <1>2 DEF StaysBusy, Busy, vars
<1>3. ASSUME NEW w \in Workers, Busy(w), body' = [body EXCEPT ![w] = "end"],
             finished' = finished, \A v \in Workers : StaysBusy(v)
      PROVE  Ran(k)' <=> Ran(k) \/ myTask[w] = k
  BY <1>t, <1>3 DEF Ran, BodyInv, StaysBusy
<1>4. ASSUME body' = body PROVE \A w \in Workers : ~Does(w)
  <2> SUFFICES ASSUME NEW w \in Workers, Does(w) PROVE FALSE
    OBVIOUS
  <2>1. body[w] # "end" /\ body' = [body EXCEPT ![w] = "end"]
    BY DEF Does, WorkerMeets, RecordIncrement, TaskCalls, RunEmpty
  <2> QED
    BY <1>t, <1>4, <2>1
<1>6. ASSUME NEW t \in Threads, PoolMove(t), UNCHANGED testVars PROVE Goal
  BY <1>1, <1>4, <1>6, NobodyInterrupts DEF testVars
<1>7. ASSUME MainCalls, PoolCall(main) \/ UNCHANGED vars PROVE Goal
  BY <1>1, <1>2, <1>4, <1>7, NobodyInterrupts, TestThreads DEF MainCalls
<1>8. ASSUME MainArrives \/ UNCHANGED allVars PROVE Goal
  BY <1>1, <1>2, <1>4, <1>8 DEF MainArrives, allVars, testVars
<1>9. ASSUME NEW w \in Workers, WorkerArrives(w) PROVE Goal
  <2>1. body[w] = "start" /\ body' = [body EXCEPT ![w] = "met"]
    BY <1>9 DEF WorkerArrives
  <2>2. \A v \in Workers : body'[v] = "end" <=> body[v] = "end"
    BY <1>t, <2>1
  <2>3. Ran(k)' <=> Ran(k)
    BY <1>1, <1>2, <1>9, <2>2 DEF WorkerArrives
  <2>4. \A v \in Workers : ~Does(v)
    <3> SUFFICES ASSUME NEW v \in Workers, Does(v) PROVE FALSE
      OBVIOUS
    <3>1. body[v] # "end" /\ body' = [body EXCEPT ![v] = "end"]
      BY DEF Does, WorkerMeets, RecordIncrement, TaskCalls, RunEmpty
    <3> QED
      BY <1>t, <2>1, <3>1
  <2> QED
    BY <2>3, <2>4
<1>10. ASSUME NEW w \in Workers, Does(w), PoolCall(w) \/ UNCHANGED vars PROVE Goal
  <2>1. Busy(w) /\ body' = [body EXCEPT ![w] = "end"]
    BY <1>10, RunsOnce
       DEF Does, WorkerMeets, RecordIncrement, TaskCalls, RunEmpty
  <2>2. Ran(k)' <=> Ran(k) \/ myTask[w] = k
    BY <1>2, <1>3, <1>10, <2>1, NobodyInterrupts DEF Threads
  <2> QED
    BY <1>10, <2>2, OneRuns
<1>11. ASSUME NEW w \in Workers,
              WorkerMeets(w) \/ RecordIncrement(w) \/ RunEmpty(w)
       PROVE  Goal
  BY <1>10, <1>11 DEF Does, WorkerMeets, RecordIncrement, RunEmpty
<1>12. ASSUME NEW w \in Workers, RunReturns(w) PROVE Goal
  <2>1. /\ body[w] = "end" /\ body' = [body EXCEPT ![w] = "start"]
        /\ finished' = [finished EXCEPT ![myTask[w]] = TRUE] /\ myTask' = myTask
        /\ myTask[w] \in Tasks
    BY <1>12, RunsEndFinished DEF RunReturns
  <2>2. Ran(k)' <=> Ran(k)
    <3>1. CASE k = myTask[w]
      BY <2>1, <3>1 DEF Ran, OwnershipInv, TypeOK
    <3>2. CASE k # myTask[w]
      BY <1>t, <2>1, <3>2 DEF Ran, OwnershipInv, TypeOK
    <3> QED
      BY <3>1, <3>2
  <2>3. \A v \in Workers : ~Does(v)
    <3> SUFFICES ASSUME NEW v \in Workers, Does(v) PROVE FALSE
      OBVIOUS
    <3>1. body[v] # "end" /\ body' = [body EXCEPT ![v] = "end"]
      BY DEF Does, WorkerMeets, RecordIncrement, TaskCalls, RunEmpty
    <3> QED
      BY <1>t, <2>1, <3>1
  <2> QED
    BY <2>2, <2>3
<1> HIDE DEF Goal
<1>13. ASSUME NEW w \in Workers, TaskCalls(w), PoolCall(w) \/ UNCHANGED vars
       PROVE  Goal
  BY <1>10, <1>13 DEF Does
<1>14. Goal
  BY <1>6, <1>7, <1>8, <1>9, <1>11, <1>12, <1>13 DEF TestSteps
<1> QED
  BY <1>14 DEF Goal

-----------------------------------------------------------------------------
(* What the steps do to the objects *)

\* Without a submission an object stays as it is, or is deleted when it has
\* finished.
LEMMA ObjectsAreKept ==
  ASSUME PoolInv, NEW t \in Threads, NEW k \in Tasks,
         \/ PoolMove(t) \/ Stop(t)
         \/ \E n \in Names : WaitForTask(t, n)
         \/ UNCHANGED vars
  PROVE  heap'[k] = heap[k] \/ (heap[k] = "live" /\ heap'[k] = "deleted" /\ finished[k])
<1> USE PoolAssumption DEF Threads, PoolInv
<1> DEFINE Goal == heap'[k] = heap[k]
                   \/ (heap[k] = "live" /\ heap'[k] = "deleted" /\ finished[k])
<1>t. heap \in [Tasks -> {"fresh", "live", "deleted"}]
  BY DEF OwnershipInv, TypeOK
<1>1. ASSUME NEW u, NEW j \in Tasks, heap[j] = "live", TestFinished(u, j) PROVE Goal
  BY <1>t, <1>1 DEF TestFinished, getFinished
<1>2. ASSUME NEW n \in Names, WaitForTask(t, n) PROVE Goal
  <2>1. taskMap[n] \in Tasks /\ heap[taskMap[n]] = "live"
    BY <1>2 DEF WaitForTask, OwnershipInv, MapMatchesHeap, TypeOK
  <2> QED
    BY <1>1, <1>2, <2>1 DEF WaitForTask
<1>3. CASE ReturnFromDoneWait(t)
  <2>1. waitTask[t] \in Tasks
    BY <1>3 DEF ReturnFromDoneWait, WaitersHoldPointers, OwnershipInv, TypeOK
  <2> QED
    BY <1>1, <1>3, <2>1 DEF ReturnFromDoneWait, Crash
<1>4. CASE \/ SubmitSignal(t) \/ EnterDoneWait(t) \/ SpuriousWakeup(t)
           \/ Stop(t) \/ JoinAll(t)
  BY <1>4 DEF SubmitSignal, EnterDoneWait, SpuriousWakeup, Stop, JoinAll, Crash
<1>5. CASE TakeTask(t) \/ SignalDone(t)
  BY <1>5 DEF TakeTask, SignalDone, Crash
<1>6. CASE UNCHANGED vars
  BY <1>6 DEF vars
<1> QED
  BY <1>2, <1>3, <1>4, <1>5, <1>6 DEF PoolMove, CallStep

\* The objects a step of the test program submits.
Submits(t, k) ==
  /\ SubmitTask(t, k)
  /\ \/ t = main /\ MainCalls /\ Now.op = "submit" /\ k = Now.task
     \/ /\ t \in Workers /\ TaskCalls(t) /\ Running(t, {"submit"})
        /\ k \in TaskSubmits[myTask[t]]

LEMMA WhatSubmits ==
  ASSUME PoolInv, TestTypes, Script \in Seq(AnyCall), NEW t \in Threads,
         NEW k \in Tasks, Submits(t, k)
  PROVE  /\ heap[k] = "fresh" /\ heap' = [heap EXCEPT ![k] = "live"]
         /\ finished' = finished /\ ~finished[k]
         /\ t = main => k \in Used
<1>1. heap[k] = "fresh" /\ heap' = [heap EXCEPT ![k] = "live"] /\ finished' = finished
  BY DEF Submits, SubmitTask, MaySubmit
<1>2. ~finished[k]
  BY <1>1 DEF PoolInv, OwnershipInv, MapMatchesHeap
<1>3. ASSUME t = main PROVE k \in Used
  <2>1. MainCalls /\ Now.op = "submit" /\ k = Now.task
    BY <1>3, TestThreads DEF Submits
  <2>2. at \in Nat /\ at < Len(Script) /\ test \in Tests
    BY <2>1, LenProperties DEF MainCalls, TestTypes
  <2> QED
    BY <2>1, <2>2, NextCall
<1> QED
  BY <1>1, <1>2, <1>3

LEMMA ObjectsStep ==
  ASSUME PoolInv, TestTypes, Script \in Seq(AnyCall), TestSteps, NEW k \in Tasks
  PROVE  \/ \E t \in Threads : Submits(t, k)
         \/ heap'[k] = heap[k]
         \/ heap[k] = "live" /\ heap'[k] = "deleted" /\ finished[k]
<1> USE DEF PoolInv
<1> DEFINE Goal == \/ \E t \in Threads : Submits(t, k)
                   \/ heap'[k] = heap[k]
                   \/ heap[k] = "live" /\ heap'[k] = "deleted" /\ finished[k]
<1>t. heap \in [Tasks -> {"fresh", "live", "deleted"}]
  BY DEF OwnershipInv, TypeOK
<1>1. ASSUME NEW t \in Threads, NEW j \in Tasks, Submits(t, j) PROVE Goal
  BY <1>t, <1>1, WhatSubmits
<1>2. ASSUME UNCHANGED vars PROVE Goal
  BY <1>2 DEF vars
<1>3. ASSUME MainCalls PROVE Goal
  <2>1. at \in Nat /\ at < Len(Script) /\ test \in Tests
    BY <1>3, LenProperties DEF MainCalls, TestTypes
  <2>2. Now.op \in {"submit", "wait"} => Now.task \in Tasks
    BY <2>1, NextCall
  <2>3. CASE Now.op = "submit" /\ SubmitTask(main, Now.task)
    BY <1>1, <1>3, <2>2, <2>3, TestThreads DEF Submits
  <2>4. CASE Now.op = "wait" /\ WaitForTask(main, Now.task)
    BY <2>2, <2>4, TestThreads, TestAssumption, ObjectsAreKept
  <2>5. CASE Stop(main)
    BY <2>5, TestThreads, ObjectsAreKept
  <2> QED
    BY <1>2, <1>3, <2>3, <2>4, <2>5 DEF MainCalls
<1>4. ASSUME NEW w \in Workers, TaskCalls(w) PROVE Goal
  <2>1. myTask[w] \in Tasks
    BY <1>4, RunnersAreOwners DEF TaskCalls, Running
  <2>2. TaskSubmits[myTask[w]] \subseteq Tasks /\ TaskWaits[myTask[w]] \subseteq Names
    BY <2>1, PoolAssumption
  <2>3. ASSUME Running(w, {"submit"}), NEW j \in TaskSubmits[myTask[w]], SubmitTask(w, j)
        PROVE  Goal
    <3>1. Submits(w, j)
      BY <1>4, <2>3 DEF Submits
    <3> QED
      BY <1>1, <2>2, <3>1 DEF Threads
  <2>4. ASSUME NEW n \in TaskWaits[myTask[w]], WaitForTask(w, n) PROVE Goal
    BY <2>2, <2>4, ObjectsAreKept DEF Threads
  <2> QED
    BY <1>2, <1>4, <2>3, <2>4 DEF TaskCalls
<1>5. ASSUME NEW w \in Workers, RunReturns(w) PROVE Goal
  BY <1>5, RunsEndFinished DEF RunReturns
<1>6. ASSUME NEW t \in Threads, PoolMove(t) PROVE Goal
  BY <1>6, ObjectsAreKept
<1>7. MainArrives => UNCHANGED vars
  BY DEF MainArrives
<1>8. \A w \in Workers : WorkerArrives(w) \/ WorkerMeets(w) \/ RecordIncrement(w)
                         \/ RunEmpty(w) => UNCHANGED vars
  BY DEF WorkerArrives, WorkerMeets, RecordIncrement, RunEmpty
<1>9. UNCHANGED allVars => UNCHANGED vars
  BY DEF allVars
<1> HIDE DEF Goal
<1>10. Goal
  BY <1>2, <1>3, <1>4, <1>5, <1>6, <1>7, <1>8, <1>9 DEF TestSteps
<1> QED
  BY <1>10 DEF Goal

\* No step clears a flag.
LEMMA FlagsStay ==
  ASSUME PoolInv, TestSteps, NEW k \in Tasks, finished[k]
  PROVE  finished'[k]
<1> USE DEF PoolInv
<1>1. ASSUME finished' = finished PROVE finished'[k]
  BY <1>1
<1>2. UNCHANGED vars => finished' = finished
  BY DEF vars
<1>3. ASSUME NEW w \in Workers, RunReturns(w) PROVE finished'[k]
  <2>1. finished' = [finished EXCEPT ![myTask[w]] = TRUE]
    BY <1>3, RunsEndFinished DEF RunReturns
  <2> QED
    BY <2>1 DEF OwnershipInv, TypeOK
<1>4. ASSUME NEW t \in Threads, PoolCall(t) \/ PoolMove(t) PROVE finished' = finished
  BY <1>4, NobodyInterrupts
<1>5. \A w \in Workers : WorkerArrives(w) \/ WorkerMeets(w) \/ RecordIncrement(w)
                         \/ RunEmpty(w) => UNCHANGED vars
  BY DEF WorkerArrives, WorkerMeets, RecordIncrement, RunEmpty
<1>6. (MainArrives => UNCHANGED vars) /\ (UNCHANGED allVars => UNCHANGED vars)
  BY DEF MainArrives, allVars
<1> QED
  BY <1>1, <1>2, <1>3, <1>4, <1>5, <1>6, TestThreads DEF TestSteps, Threads

-----------------------------------------------------------------------------
(* Who is submitted, and what a Run() leaves behind *)

LEMMA UsedTasks == ASSUME test \in Tests PROVE Used \subseteq Tasks
BY ScriptTasks DEF Used

LEMMA WhoIsSubmitted ==
  ASSUME NEW j \in Tasks, NEW k \in Submitted[j]
  PROVE  /\ k \in Tasks /\ k = <<"incr", Number(j)>>
         /\ Label(j) = "submit" /\ Label(k) = "incr"
         /\ TaskSubmits[j] = {k}
<1>1. Submitted[j] = IF Label(j) = "submit" THEN {<<"incr", Number(j)>>} ELSE {}
  BY DEF Submitted
<1>2. k = <<"incr", Number(j)>> /\ Label(j) = "submit" /\ Submitted[j] = {k}
  BY <1>1
<1>3. Label(k) = "incr"
  BY <1>2 DEF Label
<1>4. TaskSubmits[j] = Submitted[j] /\ k \in Tasks
  BY PoolAssumption, TestAssumption
<1> QED
  BY <1>2, <1>3, <1>4

\* Only tasks of the test are submitted, an "incr" after the "submit" task that
\* submits it, and only finished objects are deleted.
KnownInv ==
  \A k \in Tasks :
    /\ heap[k] # "fresh" =>
         \/ k \in Used
         \/ \E j \in Used : k \in Submitted[j] /\ heap[j] # "fresh"
    /\ heap[k] = "deleted" => finished[k]

LEMMA KnownStep ==
  ASSUME PoolInv, PoolInv', TestTypes, TestTypes', Script \in Seq(AnyCall),
         KnownInv, TestSteps, Used' = Used
  PROVE  KnownInv'
<1> SUFFICES ASSUME NEW k \in Tasks
             PROVE  /\ heap'[k] # "fresh" =>
                         \/ k \in Used
                         \/ \E j \in Used : k \in Submitted[j] /\ heap'[j] # "fresh"
                    /\ heap'[k] = "deleted" => finished'[k]
  BY DEF KnownInv, Submitted
<1>t. heap \in [Tasks -> {"fresh", "live", "deleted"}] /\ Used \subseteq Tasks
  BY UsedTasks DEF PoolInv, OwnershipInv, TypeOK, TestTypes
<1>1. \A j \in Tasks : heap[j] # "fresh" => heap'[j] # "fresh"
  <2> SUFFICES ASSUME NEW j \in Tasks, heap[j] # "fresh" PROVE heap'[j] # "fresh"
    OBVIOUS
  <2>1. ASSUME NEW t \in Threads, Submits(t, j) PROVE FALSE
    BY <2>1, WhatSubmits
  <2> QED
    BY <2>1, ObjectsStep
<1>2. ASSUME NEW t \in Threads, Submits(t, k)
      PROVE  /\ \/ k \in Used
                \/ \E j \in Used : k \in Submitted[j] /\ heap'[j] # "fresh"
             /\ heap'[k] = "live"
  <2>1. heap'[k] = "live" /\ (t = main => k \in Used)
    BY <1>t, <1>2, WhatSubmits
  <2>2. CASE t = main
    BY <2>1, <2>2
  <2>3. CASE t # main
    <3> DEFINE j == myTask[t]
    <3>1. t \in Workers /\ Running(t, {"submit"}) /\ k \in TaskSubmits[j]
      BY <1>2, <2>3 DEF Submits
    <3>2. j \in Tasks /\ heap[j] = "live"
      BY <3>1, RunnersAreOwners DEF Running, PoolInv
    <3>3. k \in Submitted[j]
      BY <3>1, TestAssumption
    <3>4. j \in Used
      BY <1>t, <3>2, <3>3, WhoIsSubmitted DEF KnownInv
    <3> QED
      BY <1>1, <2>1, <3>2, <3>3, <3>4
  <2> QED
    BY <2>2, <2>3
<1>3. CASE heap'[k] = heap[k]
  BY <1>t, <1>1, <1>3, FlagsStay DEF KnownInv
<1>4. CASE heap[k] = "live" /\ heap'[k] = "deleted" /\ finished[k]
  BY <1>t, <1>1, <1>4, FlagsStay DEF KnownInv
<1> QED
  BY <1>2, <1>3, <1>4, ObjectsStep

\* Who sets a flag.
LEMMA WhoFinishes ==
  ASSUME RunInv, TestSteps, NEW k \in Tasks, finished'[k], ~finished[k]
  PROVE  \E w \in Workers : /\ RunReturns(w) /\ myTask[w] = k
                            /\ pc[w] = "run" /\ body[w] = "end" /\ heap' = heap
<1> USE DEF RunInv, PoolInv
<1>1. finished' # finished
  OBVIOUS
<1>2. \A t \in Threads : ~PoolCall(t) /\ ~PoolMove(t)
  BY <1>1, NobodyInterrupts
<1>3. ~UNCHANGED vars
  BY <1>1 DEF vars
<1>4. PICK w \in Workers : RunReturns(w)
  BY <1>2, <1>3, TestThreads
     DEF TestSteps, MainArrives, WorkerArrives, WorkerMeets, RecordIncrement,
         RunEmpty, allVars, Threads
<1>5. /\ finished' = [finished EXCEPT ![myTask[w]] = TRUE]
      /\ heap' = heap /\ pc[w] = "run" /\ body[w] = "end"
  BY <1>4, RunsEndFinished DEF RunReturns, FinishRun
<1>6. myTask[w] = k
  BY <1>5 DEF OwnershipInv, TypeOK
<1> QED
  BY <1>4, <1>5, <1>6

\* What the Run() of each kind of task does is done when it has run.
EffectsInv ==
  \A k \in Tasks :
    /\ results[k] # -1 <=> Counts(k) /\ Ran(k)
    /\ Label(k) = "barrier" => (k \in passed <=> Ran(k))
    /\ Label(k) = "wait" /\ finished[k] => k \in waited
    /\ Label(k) = "submit" /\ Ran(k) => \A j \in Submitted[k] : heap[j] # "fresh"

\* Which step that is.
LEMMA WhatDoes ==
  ASSUME NEW w \in Workers, Does(w)
  PROVE  /\ Counts(myTask[w]) <=> RecordIncrement(w)
         /\ Label(myTask[w]) = "barrier" <=> WorkerMeets(w)
         /\ Label(myTask[w]) \in {"submit", "wait"} <=> TaskCalls(w)
<1>1. WorkerMeets(w) => Label(myTask[w]) = "barrier"
  BY DEF WorkerMeets, Running
<1>2. RecordIncrement(w) => Label(myTask[w]) \in {"inc", "incr", "first", "second"}
  BY DEF RecordIncrement, Running
<1>3. TaskCalls(w) => Label(myTask[w]) \in {"submit", "wait"}
  BY DEF TaskCalls, Running
<1>4. RunEmpty(w) => Label(myTask[w]) = "empty"
  BY DEF RunEmpty, Running
<1> QED
  BY <1>1, <1>2, <1>3, <1>4 DEF Does, Counts

\* What a step leaves alone unless it is that of a Run().
LEMMA WhatStays ==
  ASSUME RunInv, TestSteps
  PROVE  /\ \/ \E w \in Workers : RecordIncrement(w)
            \/ results' = results /\ counter' = counter
         /\ \/ \E w \in Workers : WorkerMeets(w)
            \/ passed' = passed
         /\ waited \subseteq waited'
         /\ test' = test
BY DEF TestSteps, MainCalls, MainArrives, WorkerArrives, WorkerMeets,
       RecordIncrement, TaskCalls, RunEmpty, RunReturns, testVars, allVars

LEMMA MinusOne == \A n \in Nat : n # -1
OBVIOUS

LEMMA EffectsStep ==
  ASSUME RunInv, RunInv', Script \in Seq(AnyCall), KnownInv, EffectsInv, TestSteps
  PROVE  EffectsInv'
<1> USE DEF RunInv
<1> SUFFICES ASSUME NEW k \in Tasks
             PROVE  /\ results'[k] # -1 <=> Counts(k) /\ Ran(k)'
                    /\ Label(k) = "barrier" => (k \in passed' <=> Ran(k)')
                    /\ Label(k) = "wait" /\ finished'[k] => k \in waited'
                    /\ Label(k) = "submit" /\ Ran(k)' =>
                         \A j \in Submitted[k] : heap'[j] # "fresh"
  BY DEF EffectsInv, Counts, Label, Submitted, Number
<1>r. Ran(k)' <=> Ran(k) \/ \E w \in Workers : Does(w) /\ myTask[w] = k
  BY WhoHasRun
<1>1. results'[k] # -1 <=> Counts(k) /\ Ran(k)'
  <2>1. CASE \E w \in Workers : RecordIncrement(w)
    <3> PICK w \in Workers : RecordIncrement(w)
      BY <2>1
    <3>1. Does(w) /\ Counts(myTask[w])
      BY WhatDoes DEF Does
    <3>2. results' = [results EXCEPT ![myTask[w]] = counter]
      BY DEF RecordIncrement
    <3>3. counter # -1 /\ results \in [Tasks -> Int] /\ myTask[w] \in Tasks
      BY <3>1, MinusOne, RunsOnce DEF TestTypes
    <3>4. CASE k = myTask[w]
      BY <1>r, <3>1, <3>2, <3>3, <3>4
    <3>5. CASE k # myTask[w]
      <4>1. ASSUME NEW v \in Workers, Does(v), myTask[v] = k PROVE FALSE
        BY <3>1, <3>5, <4>1, OneRuns
      <4>2. results'[k] = results[k]
        BY <3>2, <3>3, <3>5
      <4> QED
        BY <1>r, <4>1, <4>2 DEF EffectsInv
    <3> QED
      BY <3>4, <3>5
  <2>2. CASE ~\E w \in Workers : RecordIncrement(w)
    <3>1. results' = results
      BY <2>2, WhatStays
    <3>2. \A w \in Workers : Does(w) => ~Counts(myTask[w])
      BY <2>2, WhatDoes
    <3> QED
      BY <1>r, <3>1, <3>2 DEF EffectsInv
  <2> QED
    BY <2>1, <2>2
<1>2. Label(k) = "barrier" => (k \in passed' <=> Ran(k)')
  <2> SUFFICES ASSUME Label(k) = "barrier" PROVE k \in passed' <=> Ran(k)'
    OBVIOUS
  <2>1. CASE \E w \in Workers : WorkerMeets(w)
    <3> PICK w \in Workers : WorkerMeets(w)
      BY <2>1
    <3>1. Does(w) /\ passed' = passed \cup {myTask[w]}
      BY DEF Does, WorkerMeets
    <3>2. ASSUME NEW v \in Workers, Does(v), myTask[v] = k PROVE k = myTask[w]
      BY <3>1, <3>2, OneRuns
    <3> QED
      BY <1>r, <3>1, <3>2 DEF EffectsInv
  <2>2. CASE ~\E w \in Workers : WorkerMeets(w)
    <3>1. passed' = passed
      BY <2>2, WhatStays
    <3>2. \A w \in Workers : Does(w) => Label(myTask[w]) # "barrier"
      BY <2>2, WhatDoes
    <3> QED
      BY <1>r, <3>1, <3>2 DEF EffectsInv
  <2> QED
    BY <2>1, <2>2
<1>3. Label(k) = "wait" /\ finished'[k] => k \in waited'
  <2> SUFFICES ASSUME Label(k) = "wait", finished'[k] PROVE k \in waited'
    OBVIOUS
  <2>1. CASE finished[k]
    BY <2>1, WhatStays DEF EffectsInv
  <2>2. CASE ~finished[k]
    <3>1. PICK w \in Workers : RunReturns(w) /\ myTask[w] = k
      BY <2>2, WhoFinishes
    <3> QED
      BY <3>1 DEF RunReturns
  <2> QED
    BY <2>1, <2>2
<1>4. ASSUME Label(k) = "submit", Ran(k)', NEW j \in Submitted[k]
      PROVE  heap'[j] # "fresh"
  <2>0. j \in Tasks
    BY WhoIsSubmitted
  <2>1. CASE Ran(k)
    <3>1. heap[j] # "fresh"
      BY <1>4, <2>1 DEF EffectsInv
    <3>2. ASSUME NEW t \in Threads, Submits(t, j) PROVE FALSE
      BY <2>0, <3>1, <3>2, WhatSubmits
    <3> QED
      BY <2>0, <3>1, <3>2, ObjectsStep
  <2>2. CASE ~Ran(k)
    <3>1. PICK w \in Workers : Does(w) /\ myTask[w] = k
      BY <1>r, <1>4, <2>2
    <3>2. TaskCalls(w)
      BY <1>4, <3>1, WhatDoes
    <3>3. \E i \in TaskSubmits[k] : SubmitTask(w, i)
      BY <1>4, <3>1, <3>2 DEF TaskCalls, Running
    <3>4. SubmitTask(w, j)
      BY <3>3, WhoIsSubmitted
    <3> QED
      BY <2>0, <3>4 DEF SubmitTask, PoolInv, OwnershipInv, TypeOK
  <2> QED
    BY <2>1, <2>2
<1> QED
  BY <1>1, <1>2, <1>3, <1>4

-----------------------------------------------------------------------------
(* The counter hands out every number once *)

Given == {k \in Tasks : results[k] # -1}

\* The counter says how many tasks have been given a number, and the numbers
\* given are those below it.
NumbersInv ==
  /\ IsFiniteSet(Given) /\ counter = Cardinality(Given)
  /\ \A k \in Given : results[k] \in 0 .. counter - 1
  /\ \A i \in 0 .. counter - 1 : \E k \in Given : results[k] = i

LEMMA NumbersStep ==
  ASSUME RunInv, KnownInv, EffectsInv, NumbersInv, TestSteps
  PROVE  NumbersInv'
<1> USE DEF RunInv
<1>1. CASE results' = results /\ counter' = counter
  <2>1. Given' = Given
    BY <1>1 DEF Given
  <2> QED
    BY <1>1, <2>1 DEF NumbersInv
<1>2. ASSUME NEW w \in Workers, RecordIncrement(w) PROVE NumbersInv'
  <2> DEFINE k == myTask[w]
  <2>1. Does(w)
    BY <1>2 DEF Does
  <2>2. k \in Tasks /\ ~Ran(k)
    BY <2>1, RunsOnce
  <2>3. k \notin Given
    BY <2>2 DEF EffectsInv, Given
  <2>4. results' = [results EXCEPT ![k] = counter] /\ counter' = counter + 1
    BY <1>2 DEF RecordIncrement
  <2>5. results \in [Tasks -> Int] /\ counter \in Nat /\ counter # -1
    BY MinusOne DEF TestTypes
  <2> HIDE DEF k
  <2>6. /\ results'[k] = counter
        /\ \A j \in Tasks \ {k} : results'[j] = results[j]
    BY <2>2, <2>4, <2>5
  <2>7. Given' = Given \cup {k}
    BY <2>2, <2>5, <2>6 DEF Given
  <2>8. IsFiniteSet(Given') /\ Cardinality(Given') = Cardinality(Given) + 1
    BY <2>3, <2>7, FS_AddElement DEF NumbersInv
  <2>9. \A j \in Given : j \in Tasks \ {k} /\ results'[j] = results[j]
    BY <2>3, <2>6 DEF Given
  <2>10. \A j \in Given' : results'[j] \in 0 .. counter' - 1
    BY <2>4, <2>5, <2>6, <2>7, <2>9 DEF NumbersInv
  <2>11. ASSUME NEW i \in 0 .. counter' - 1
         PROVE  \E j \in Given' : results'[j] = i
    <3>1. i \in 0 .. counter - 1 \/ i = counter
      BY <2>4, <2>5
    <3>2. CASE i = counter
      BY <2>6, <2>7, <3>2
    <3>3. CASE i \in 0 .. counter - 1
      <4>1. PICK j \in Given : results[j] = i
        BY <3>3 DEF NumbersInv
      <4> QED
        BY <2>7, <2>9, <4>1
    <3> QED
      BY <3>1, <3>2, <3>3
  <2>12. counter' = Cardinality(Given')
    BY <2>4, <2>8 DEF NumbersInv
  <2> QED
    BY <2>8, <2>10, <2>11, <2>12 DEF NumbersInv
<1> QED
  BY <1>1, <1>2, WhatStays

LEMMA FiniteImage ==
  ASSUME NEW S, IsFiniteSet(S), NEW f, f = [x \in S |-> f[x]]
  PROVE  IsFiniteSet({f[x] : x \in S})
<1> DEFINE T == {f[x] : x \in S}
<1>1. f \in [S -> T]
  OBVIOUS
<1>2. \A y \in T : \E x \in S : f[x] = y
  OBVIOUS
<1> HIDE DEF T
<1>3. f \in Surjection(S, T)
  BY <1>1, <1>2 DEF Surjection
<1>4. IsFiniteSet(T)
  BY <1>3, FS_Surjection
<1> QED
  BY <1>4 DEF T

\* A script is finite, and so are the counting tasks of a test.
LEMMA CountingIsFinite ==
  ASSUME test \in Tests, Script \in Seq(AnyCall)
  PROVE  IsFiniteSet(Used) /\ IsFiniteSet(Counting)
<1> DEFINE positions == {m \in DOMAIN Script : Script[m].op = "submit"}
<1>1. IsFiniteSet(DOMAIN Script)
  <2>1. DOMAIN Script = 1 .. Len(Script) /\ Len(Script) \in Nat
    BY LenProperties
  <2> QED
    BY <2>1, FS_Interval
<1>2. IsFiniteSet(positions)
  BY <1>1, FS_Subset
<1>3. Used = {Script[n].task : n \in positions}
  BY DEF Used
<1> HIDE DEF positions
<1>4. IsFiniteSet(Used)
  <2> DEFINE f == [n \in positions |-> Script[n].task]
  <2>1. f = [n \in positions |-> f[n]] /\ Used = {f[n] : n \in positions}
    BY <1>3
  <2> HIDE DEF f
  <2> QED
    BY <1>2, <2>1, FiniteImage
<1> DEFINE sent == {<<"incr", Number(j)>> : j \in Used}
<1>5. IsFiniteSet(sent)
  <2> DEFINE f == [j \in Used |-> <<"incr", Number(j)>>]
  <2>1. f = [j \in Used |-> f[j]] /\ sent = {f[j] : j \in Used}
    OBVIOUS
  <2> HIDE DEF f, sent
  <2> QED
    BY <1>4, <2>1, FiniteImage
<1>6. Counting \subseteq Used \cup sent
  <2> SUFFICES ASSUME NEW k \in Counting, k \notin Used PROVE k \in sent
    OBVIOUS
  <2>1. PICK j \in Used : k \in Submitted[j]
    BY DEF Counting
  <2> QED
    BY <2>1, UsedTasks, WhoIsSubmitted
<1> HIDE DEF sent
<1>7. IsFiniteSet(Used \cup sent)
  BY <1>4, <1>5, FS_Union
<1> QED
  BY <1>4, <1>6, <1>7, FS_Subset

\* A task that has been taken from the queue was submitted.
LEMMA RunningWasSubmitted ==
  ASSUME PoolInv, NEW k \in Tasks,
         finished[k] \/ \E w \in Workers : myTask[w] = k
  PROVE  heap[k] # "fresh"
BY PoolAssumption
   DEF PoolInv, OwnershipInv, MapMatchesHeap, WorkersHoldTasks

LEMMA GivenCount ==
  ASSUME RunInv, KnownInv, EffectsInv
  PROVE  Given \subseteq Counting
<1> SUFFICES ASSUME NEW k \in Tasks, results[k] # -1 PROVE k \in Counting
  BY DEF Given
<1>1. Counts(k) /\ Ran(k)
  BY DEF EffectsInv
<1>2. heap[k] # "fresh"
  BY <1>1, RunningWasSubmitted DEF Ran, RunInv
<1> QED
  BY <1>1, <1>2 DEF KnownInv, Counting

-----------------------------------------------------------------------------
(* Tasks begin in the order main submits them in *)

SubmitsAt(n) == n \in DOMAIN Script /\ Script[n].op = "submit"
MeetsAt(n) == n \in DOMAIN Script /\ Script[n].op = "barrier"
WaitsAt(n, k) == n \in DOMAIN Script /\ Script[n].op = "wait" /\ Script[n].task = k
TaskAt(n) == Script[n].task

\* What the calls of a test have to be like for its tasks to begin in order.
SubmitsOnce ==
  \A m, n \in DOMAIN Script :
    SubmitsAt(m) /\ SubmitsAt(n) /\ TaskAt(m) = TaskAt(n) => m = n
SubmitsNoIncr == \A k \in Used : Label(k) # "incr"
OrderlyScript == Script \in Seq(AnyCall) /\ SubmitsOnce /\ SubmitsNoIncr

Fresh(k) == heap[k] = "fresh"

\* main has submitted the tasks of the calls it has made, and no others.
MainInv == \A n \in DOMAIN Script : SubmitsAt(n) => (Fresh(TaskAt(n)) <=> at < n)

LEMMA UsedAt ==
  /\ \A n \in DOMAIN Script : SubmitsAt(n) => TaskAt(n) \in Used
  /\ \A k \in Used : \E n \in DOMAIN Script : SubmitsAt(n) /\ TaskAt(n) = k
BY DEF SubmitsAt, TaskAt, Used

\* Only main submits what its script names.
LEMMA WhoSubmitsUsed ==
  ASSUME PoolInv, TestTypes, OrderlyScript, NEW t \in Threads, NEW k \in Used,
         Submits(t, k)
  PROVE  MainCalls /\ SubmitsAt(at + 1) /\ TaskAt(at + 1) = k
<1>1. CASE t = main
  <2>1. MainCalls /\ Now.op = "submit" /\ k = Now.task
    BY <1>1, TestThreads DEF Submits
  <2>2. at + 1 \in DOMAIN Script
    BY <2>1, LenProperties DEF MainCalls, TestTypes, OrderlyScript
  <2> QED
    BY <2>1, <2>2 DEF SubmitsAt, TaskAt, Now
<1>2. CASE t # main
  <2>1. t \in Workers /\ Running(t, {"submit"}) /\ k \in TaskSubmits[myTask[t]]
    BY <1>2 DEF Submits
  <2>2. myTask[t] \in Tasks
    BY <2>1, RunnersAreOwners DEF Running, PoolInv
  <2>3. Label(k) = "incr"
    BY <2>1, <2>2, WhoIsSubmitted, TestAssumption
  <2> QED
    BY <2>3 DEF OrderlyScript, SubmitsNoIncr
<1> QED
  BY <1>1, <1>2

\* How main's place in its script moves.
LEMMA MainMoves ==
  ASSUME TestTypes, OrderlyScript, TestSteps
  PROVE  \/ at' = at
         \/ MainCalls /\ at' = at + 1 /\ at + 1 \in DOMAIN Script
<1>1. ASSUME MainCalls PROVE at' = at + 1 /\ at + 1 \in DOMAIN Script
  BY <1>1, LenProperties DEF MainCalls, TestTypes, OrderlyScript
<1> QED
  BY <1>1
     DEF TestSteps, MainArrives, WorkerArrives, WorkerMeets, RecordIncrement,
         TaskCalls, RunEmpty, RunReturns, testVars, allVars

LEMMA ScriptStays ==
  ASSUME RunInv, TestSteps
  PROVE  /\ Script' = Script /\ Used' = Used
         /\ \A n : (SubmitsAt(n)' <=> SubmitsAt(n)) /\ TaskAt(n)' = TaskAt(n)
         /\ \A n : MeetsAt(n)' <=> MeetsAt(n)
         /\ \A n, k : WaitsAt(n, k)' <=> WaitsAt(n, k)
<1>1. test' = test
  BY WhatStays
<1>2. Script' = Script
  BY <1>1 DEF Script
<1> QED
  BY <1>2 DEF Used, SubmitsAt, TaskAt, MeetsAt, WaitsAt

LEMMA MainStep ==
  ASSUME RunInv, OrderlyScript, MainInv, TestSteps
  PROVE  MainInv'
<1> USE DEF RunInv
<1>s. /\ Script' = Script
      /\ \A n \in DOMAIN Script : (SubmitsAt(n)' <=> SubmitsAt(n)) /\ TaskAt(n)' = TaskAt(n)
  BY ScriptStays
<1>t. at \in Nat /\ \A n \in DOMAIN Script : n \in Nat
  BY LenProperties DEF TestTypes, OrderlyScript
<1>u. \A n \in DOMAIN Script : SubmitsAt(n) => TaskAt(n) \in Used /\ TaskAt(n) \in Tasks
  BY UsedAt, UsedTasks DEF TestTypes
<1> SUFFICES ASSUME NEW n \in DOMAIN Script, SubmitsAt(n)
             PROVE  heap'[TaskAt(n)] = "fresh" <=> at' < n
  BY <1>s DEF MainInv, Fresh
<1> DEFINE k == TaskAt(n)
<1>k. k \in Used /\ k \in Tasks
  BY <1>u
<1>h. heap[k] = "fresh" <=> at < n
  BY DEF MainInv, Fresh
<1>1. CASE \E t \in Threads : Submits(t, k)
  <2>1. PICK t \in Threads : Submits(t, k)
    BY <1>1
  <2>2. MainCalls /\ SubmitsAt(at + 1) /\ TaskAt(at + 1) = k
    BY <1>k, <2>1, WhoSubmitsUsed
  <2>3. at' = at + 1
    BY <2>2 DEF MainCalls
  <2>4. at + 1 \in DOMAIN Script
    BY <2>2 DEF SubmitsAt
  <2>5. n = at + 1
    BY <2>2, <2>4 DEF OrderlyScript, SubmitsOnce
  <2>6. heap'[k] = "live"
    BY <1>k, <2>1, WhatSubmits DEF OrderlyScript, PoolInv, OwnershipInv, TypeOK
  <2>7. ~(at' < n)
    BY <1>t, <2>3, <2>5
  <2> QED
    BY <2>6, <2>7
<1>2. CASE ~\E t \in Threads : Submits(t, k)
  <2>1. heap'[k] = "fresh" <=> heap[k] = "fresh"
    BY <1>k, <1>2, ObjectsStep DEF OrderlyScript
  <2>2. CASE at' = at
    BY <1>h, <2>1, <2>2
  <2>3. CASE MainCalls /\ at' = at + 1 /\ at + 1 \in DOMAIN Script
    <3>1. n # at + 1
      <4> SUFFICES ASSUME n = at + 1 PROVE FALSE
        OBVIOUS
      <4>1. Now.op = "submit" /\ Now.task = k
        BY DEF SubmitsAt, TaskAt, Now
      <4>2. SubmitTask(main, k)
        BY <2>3, <4>1 DEF MainCalls
      <4>3. Submits(main, k)
        BY <2>3, <4>1, <4>2 DEF Submits
      <4> QED
        BY <1>2, <4>3, TestThreads
    <3>2. at < n <=> at + 1 < n
      BY <1>t, <3>1
    <3> QED
      BY <1>h, <2>1, <2>3, <3>2
  <2> QED
    BY <2>2, <2>3, MainMoves
<1> QED
  BY <1>1, <1>2

\* A worker has taken the task from the queue.
Begun(k) == finished[k] \/ \E w \in Workers : myTask[w] = k

\* The task under a queued name is the task of that name, and is not begun.
LEMMA QueuedTasks ==
  ASSUME PoolInv, NEW i \in DOMAIN taskQueue
  PROVE  /\ taskQueue[i] \in Tasks /\ taskMap[taskQueue[i]] = taskQueue[i]
         /\ ~Begun(taskQueue[i]) /\ heap[taskQueue[i]] = "live"
         /\ \A j \in DOMAIN taskQueue : taskQueue[j] = taskQueue[i] => j = i
<1> USE DEF PoolInv, OwnershipInv
<1>1. taskQueue[i] \in Names
  BY ElementOfSeq, LenProperties DEF TypeOK
<1>2. taskMap[taskQueue[i]] # NoTask
  BY DEF QueuedNamesAreMapped
<1>3. taskMap[taskQueue[i]] \in Tasks
  BY <1>1, <1>2 DEF TypeOK
<1>4. taskMap[taskQueue[i]] = taskQueue[i]
  BY <1>1, <1>2, <1>3, TestAssumption DEF MapMatchesHeap
<1> QED
  BY <1>3, <1>4 DEF QueuedNamesAreMapped, Begun

LEMMA SubmittedIsQueuedOrBegun ==
  ASSUME PoolInv, KnownInv, NEW k \in Tasks, ~Fresh(k), ~Begun(k)
  PROVE  \E i \in DOMAIN taskQueue : taskQueue[i] = k
<1> USE DEF PoolInv, OwnershipInv
<1>1. heap[k] = "live" /\ ~finished[k]
  BY DEF KnownInv, Fresh, Begun, TypeOK
<1>2. PICK i \in DOMAIN taskQueue : taskMap[taskQueue[i]] = k
  BY <1>1 DEF NoTaskIsLost, Begun
<1> QED
  BY <1>2, QueuedTasks

\* What a step does to the queue.
Takes(w, k) ==
  /\ pc[w] = "top" /\ ~Busy(w) /\ myTask[w] = NoTask /\ taskQueue # <<>>
  /\ k = Head(taskQueue) /\ taskQueue' = Tail(taskQueue)
  /\ myTask' = [myTask EXCEPT ![w] = k] /\ finished' = finished

QueueStays ==
  taskQueue' = taskQueue /\ \A k \in Tasks : Begun(k)' <=> Begun(k)

LEMMA MovesAndQueue ==
  ASSUME PoolInv, NEW t \in Threads,
         \/ PoolMove(t) \/ Stop(t) \/ UNCHANGED vars
         \/ \E n \in Names : WaitForTask(t, n)
         \/ t \in Workers /\ FinishRun(t)
  PROVE  QueueStays \/ (t \in Workers /\ \E k \in Tasks : Takes(t, k))
<1> USE PoolAssumption DEF PoolInv, OwnershipInv
<1>1. ASSUME UNCHANGED <<taskQueue, myTask, finished>> PROVE QueueStays
  BY <1>1 DEF QueueStays, Begun
<1>2. ASSUME NEW k, TestFinished(t, k) PROVE QueueStays
  BY <1>1, <1>2 DEF TestFinished
<1>3. ASSUME NEW n \in Names, WaitForTask(t, n) PROVE QueueStays
  BY <1>2, <1>3 DEF WaitForTask
<1>4. CASE ReturnFromDoneWait(t)
  BY <1>1, <1>2, <1>4 DEF ReturnFromDoneWait, Crash
<1>5. CASE \/ SubmitSignal(t) \/ EnterDoneWait(t) \/ SpuriousWakeup(t)
           \/ Stop(t) \/ JoinAll(t)
  BY <1>1, <1>5 DEF SubmitSignal, EnterDoneWait, SpuriousWakeup, Stop, JoinAll, Crash
<1>6. CASE UNCHANGED vars
  BY <1>1, <1>6 DEF vars
<1>7. ASSUME t \in Workers, TakeTask(t)
      PROVE  QueueStays \/ \E k \in Tasks : Takes(t, k)
  <2>1. CASE /\ pc[t] = "top" /\ taskQueue # <<>> /\ taskMap[Head(taskQueue)] # NoTask
             /\ taskQueue' = Tail(taskQueue)
             /\ myTask' = [myTask EXCEPT ![t] = taskMap[Head(taskQueue)]]
             /\ finished' = finished
    <3>1. 1 \in DOMAIN taskQueue /\ Head(taskQueue) = taskQueue[1]
      BY <2>1 DEF TypeOK
    <3>2. taskMap[Head(taskQueue)] = Head(taskQueue) /\ Head(taskQueue) \in Tasks
      BY <3>1, QueuedTasks
    <3>3. myTask[t] = NoTask
      BY <1>7, <2>1 DEF WorkersHoldTasks, Holding
    <3> QED
      BY <2>1, <3>2, <3>3 DEF Takes, Busy
  <2> QED
    BY <1>1, <1>7, <2>1 DEF TakeTask, Crash
<1>8. ASSUME t \in Workers, SignalDone(t) PROVE QueueStays
  <2>1. finished[myTask[t]] /\ pc[t] = "signalDone"
    BY <1>8 DEF SignalDone, WorkersHoldTasks
  <2>2. CASE taskQueue' = taskQueue /\ finished' = finished
             /\ myTask' = [myTask EXCEPT ![t] = NoTask]
    BY <1>8, <2>1, <2>2 DEF QueueStays, Begun, TypeOK
  <2> QED
    BY <1>1, <1>8, <2>2 DEF SignalDone, Crash
<1>9. ASSUME t \in Workers, FinishRun(t) PROVE QueueStays
  <2>1. /\ myTask[t] \in Tasks /\ myTask' = myTask /\ taskQueue' = taskQueue
        /\ finished' = [finished EXCEPT ![myTask[t]] = TRUE]
    BY <1>9, RunsEndFinished
  <2> QED
    BY <1>9, <2>1 DEF QueueStays, Begun, TypeOK
<1> QED
  BY <1>3, <1>4, <1>5, <1>6, <1>7, <1>8, <1>9 DEF PoolMove, CallStep

\* The queue after a submission.
Queues(k) == /\ taskQueue' = Append(taskQueue, k)
             /\ myTask' = myTask /\ finished' = finished

LEMMA QueueStep ==
  ASSUME PoolInv, TestTypes, Script \in Seq(AnyCall), TestSteps
  PROVE  \/ QueueStays
         \/ \E w \in Workers : \E k \in Tasks : Takes(w, k)
         \/ \E t \in Threads : \E k \in Tasks : Submits(t, k) /\ Queues(k)
<1> USE DEF PoolInv
<1> DEFINE Goal == \/ QueueStays
                   \/ \E w \in Workers : \E k \in Tasks : Takes(w, k)
                   \/ \E t \in Threads : \E k \in Tasks : Submits(t, k) /\ Queues(k)
<1>1. ASSUME NEW t \in Threads,
             \/ PoolMove(t) \/ Stop(t) \/ UNCHANGED vars
             \/ \E n \in Names : WaitForTask(t, n)
             \/ t \in Workers /\ FinishRun(t)
      PROVE  Goal
  BY <1>1, MovesAndQueue
<1>2. ASSUME NEW t \in Threads, NEW k \in Tasks, Submits(t, k) PROVE Goal
  <2>1. taskQueue' = Append(taskQueue, NameOf[k]) /\ myTask' = myTask /\ finished' = finished
    BY <1>2 DEF Submits, SubmitTask, Push
  <2>2. Queues(k)
    BY <2>1, TestAssumption DEF Queues
  <2> QED
    BY <1>2, <2>2
<1> HIDE DEF Goal
<1>3. ASSUME MainCalls PROVE Goal
  <2>1. at \in Nat /\ at < Len(Script) /\ test \in Tests
    BY <1>3, LenProperties DEF MainCalls, TestTypes
  <2>2. Now.op \in {"submit", "wait"} => Now.task \in Tasks
    BY <2>1, NextCall
  <2>3. CASE Now.op = "submit" /\ SubmitTask(main, Now.task)
    BY <1>2, <1>3, <2>2, <2>3, TestThreads DEF Submits
  <2>4. CASE Now.op = "wait" /\ WaitForTask(main, Now.task)
    BY <1>1, <2>2, <2>4, TestThreads, TestAssumption
  <2>5. CASE Stop(main) \/ UNCHANGED vars
    BY <1>1, <2>5, TestThreads
  <2> QED
    BY <1>3, <2>3, <2>4, <2>5 DEF MainCalls
<1>4. ASSUME NEW w \in Workers, TaskCalls(w) PROVE Goal
  <2>0. w \in Threads
    BY DEF Threads
  <2>1. myTask[w] \in Tasks
    BY <1>4, RunnersAreOwners DEF TaskCalls, Running
  <2>2. TaskSubmits[myTask[w]] \subseteq Tasks /\ TaskWaits[myTask[w]] \subseteq Names
    BY <2>1, PoolAssumption
  <2>3. ASSUME Running(w, {"submit"}), NEW j \in TaskSubmits[myTask[w]], SubmitTask(w, j)
        PROVE  Goal
    <3>1. Submits(w, j)
      BY <1>4, <2>3 DEF Submits
    <3> QED
      BY <1>2, <2>0, <2>2, <3>1
  <2>4. ASSUME NEW n \in TaskWaits[myTask[w]], WaitForTask(w, n) PROVE Goal
    BY <1>1, <2>0, <2>2, <2>4
  <2> QED
    BY <1>1, <1>4, <2>0, <2>3, <2>4 DEF TaskCalls
<1>5. ASSUME NEW w \in Workers, RunReturns(w) PROVE Goal
  BY <1>1, <1>5 DEF RunReturns, Threads
<1>6. MainArrives \/ UNCHANGED allVars => UNCHANGED vars
  BY DEF MainArrives, allVars
<1>7. \A w \in Workers : WorkerArrives(w) \/ WorkerMeets(w) \/ RecordIncrement(w)
                         \/ RunEmpty(w) => UNCHANGED vars
  BY DEF WorkerArrives, WorkerMeets, RecordIncrement, RunEmpty
<1>8. UNCHANGED vars => Goal
  BY <1>1, TestThreads
<1>9. Goal
  BY <1>1, <1>3, <1>4, <1>5, <1>6, <1>7, <1>8 DEF TestSteps
<1> QED
  BY <1>9 DEF Goal

\* A task that main submits earlier is queued before, and begins before.
Ahead(k, j) ==
  \A a, b \in DOMAIN taskQueue : taskQueue[a] = k /\ taskQueue[b] = j => a < b

FifoInv ==
  \A m, n \in DOMAIN Script : m < n /\ SubmitsAt(m) /\ SubmitsAt(n) =>
    /\ Begun(TaskAt(n)) => Begun(TaskAt(m))
    /\ Ahead(TaskAt(m), TaskAt(n))

LEMMA AheadAfterTake ==
  ASSUME PoolInv, NEW k, NEW j, Ahead(k, j), taskQueue # <<>>,
         taskQueue' = Tail(taskQueue)
  PROVE  Ahead(k, j)'
<1>1. taskQueue \in Seq(Names)
  BY DEF PoolInv, OwnershipInv, TypeOK
<1> DEFINE q == taskQueue
           r == taskQueue'
<1>2. /\ DOMAIN q = 1 .. Len(q) /\ Len(q) \in Nat
      /\ DOMAIN r = 1 .. Len(q) - 1
      /\ \A a \in 1 .. Len(q) - 1 : r[a] = q[a + 1]
  BY <1>1
<1> HIDE DEF q, r
<1>3. \A a, b \in DOMAIN q : q[a] = k /\ q[b] = j => a < b
  BY DEF Ahead, q
<1>4. \A a, b \in DOMAIN r : r[a] = k /\ r[b] = j => a < b
  <2> SUFFICES ASSUME NEW a \in DOMAIN r, NEW b \in DOMAIN r, r[a] = k, r[b] = j
               PROVE  a < b
    OBVIOUS
  <2>1. a + 1 \in DOMAIN q /\ b + 1 \in DOMAIN q /\ a \in Int /\ b \in Int
    BY <1>2
  <2>2. q[a + 1] = k /\ q[b + 1] = j
    BY <1>2
  <2>3. a + 1 < b + 1
    BY <1>3, <2>1, <2>2
  <2> QED
    BY <2>1, <2>3
<1> QED
  BY <1>4 DEF Ahead, r

LEMMA AheadAfterSubmit ==
  ASSUME PoolInv, NEW i, taskQueue' = Append(taskQueue, i), NEW k, NEW j,
         Ahead(k, j), k # j,
         i = k => \A b \in DOMAIN taskQueue : taskQueue[b] # j
  PROVE  Ahead(k, j)'
<1>1. taskQueue \in Seq(Names)
  BY DEF PoolInv, OwnershipInv, TypeOK
<1> DEFINE q == taskQueue
           r == taskQueue'
           e == Len(q) + 1
<1>2. /\ DOMAIN q = 1 .. Len(q) /\ Len(q) \in Nat
      /\ DOMAIN r = 1 .. e /\ r[e] = i
      /\ \A a \in 1 .. Len(q) : r[a] = q[a]
  BY <1>1
<1> HIDE DEF q, r
<1>3. /\ \A a, b \in DOMAIN q : q[a] = k /\ q[b] = j => a < b
      /\ i = k => \A b \in DOMAIN q : q[b] # j
  BY DEF Ahead, q
<1>4. \A a, b \in DOMAIN r : r[a] = k /\ r[b] = j => a < b
  <2> SUFFICES ASSUME NEW a \in DOMAIN r, NEW b \in DOMAIN r, r[a] = k, r[b] = j
               PROVE  a < b
    OBVIOUS
  <2>1. (a \in DOMAIN q \/ a = e) /\ (b \in DOMAIN q \/ b = e)
    BY <1>2
  <2>2. CASE a \in DOMAIN q /\ b \in DOMAIN q
    BY <1>2, <1>3, <2>2
  <2>3. CASE a \in DOMAIN q /\ b = e
    BY <1>2, <2>3
  <2>4. CASE a = e
    BY <1>2, <1>3, <2>1, <2>4
  <2> QED
    BY <2>1, <2>2, <2>3, <2>4
<1> QED
  BY <1>4 DEF Ahead, r

LEMMA WhoHasBegun ==
  ASSUME PoolInv, NEW w \in Workers, NEW k \in Tasks, Takes(w, k), NEW j \in Tasks
  PROVE  Begun(j)' <=> Begun(j) \/ j = k
BY PoolAssumption DEF Takes, Begun, PoolInv, OwnershipInv, TypeOK

LEMMA FifoStep ==
  ASSUME RunInv, OrderlyScript, KnownInv, MainInv, FifoInv, TestSteps
  PROVE  FifoInv'
<1> USE DEF RunInv
<1>s. /\ Script' = Script
      /\ \A n \in DOMAIN Script : (SubmitsAt(n)' <=> SubmitsAt(n)) /\ TaskAt(n)' = TaskAt(n)
  BY ScriptStays
<1>t. /\ at \in Nat /\ \A n \in DOMAIN Script : n \in Nat
      /\ \A n \in DOMAIN Script : SubmitsAt(n) => TaskAt(n) \in Tasks
  BY LenProperties, UsedAt, UsedTasks DEF TestTypes, OrderlyScript
<1>g. ASSUME NEW m \in DOMAIN Script, NEW n \in DOMAIN Script,
             m < n, SubmitsAt(m), SubmitsAt(n)
      PROVE  (Begun(TaskAt(n))' => Begun(TaskAt(m))') /\ Ahead(TaskAt(m), TaskAt(n))'
  <2>1. PICK k \in Tasks, j \in Tasks : k = TaskAt(m) /\ j = TaskAt(n) /\ k # j
    <3>1. m # n
      BY <1>t, <1>g
    <3> QED
      BY <1>t, <1>g, <3>1 DEF OrderlyScript, SubmitsOnce
  <2>2. (Begun(j) => Begun(k)) /\ Ahead(k, j)
    BY <1>g, <2>1 DEF FifoInv
  <2>3. Fresh(k) => Fresh(j)
    <3>1. (Fresh(k) <=> at < m) /\ (Fresh(j) <=> at < n)
      BY <1>g, <2>1 DEF MainInv
    <3>2. at < m => at < n
      BY <1>g, <1>t
    <3> QED
      BY <3>1, <3>2
  <2>c. /\ Begun(k)' <=> Begun(TaskAt(m))'
        /\ Begun(j)' <=> Begun(TaskAt(n))'
        /\ Ahead(k, j)' <=> Ahead(TaskAt(m), TaskAt(n))'
    BY <1>g, <1>s, <2>1 DEF Begun, Ahead
  <2>4. ASSUME QueueStays PROVE (Begun(j)' => Begun(k)') /\ Ahead(k, j)'
    BY <2>1, <2>2, <2>4 DEF QueueStays, Ahead
  <2>5. ASSUME NEW w \in Workers, NEW i \in Tasks, Takes(w, i)
        PROVE  (Begun(j)' => Begun(k)') /\ Ahead(k, j)'
    <3>1. (Begun(j)' <=> Begun(j) \/ j = i) /\ (Begun(k)' <=> Begun(k) \/ k = i)
      BY <2>1, <2>5, WhoHasBegun
    <3>2. Ahead(k, j)'
      BY <2>2, <2>5, AheadAfterTake DEF Takes
    <3>3. ASSUME j = i PROVE Begun(k)
      <4>1. taskQueue \in Seq(Names) /\ taskQueue # <<>> /\ j = Head(taskQueue)
        BY <2>5, <3>3 DEF Takes, PoolInv, OwnershipInv, TypeOK
      <4>2. 1 \in DOMAIN taskQueue /\ taskQueue[1] = j
        BY <4>1
      <4>3. ~Fresh(k)
        BY <2>3, <4>2, QueuedTasks DEF Fresh
      <4>4. SUFFICES ASSUME ~Begun(k) PROVE FALSE
        OBVIOUS
      <4>5. PICK a \in DOMAIN taskQueue : taskQueue[a] = k
        BY <2>1, <4>3, <4>4, SubmittedIsQueuedOrBegun
      <4>6. a < 1
        BY <2>2, <4>2, <4>5 DEF Ahead
      <4> QED
        BY <4>1, <4>5, <4>6
    <3> QED
      BY <2>2, <3>1, <3>2, <3>3
  <2>6. ASSUME NEW t \in Threads, NEW i \in Tasks, Submits(t, i), Queues(i)
        PROVE  (Begun(j)' => Begun(k)') /\ Ahead(k, j)'
    <3>1. (Begun(j)' <=> Begun(j)) /\ (Begun(k)' <=> Begun(k))
      BY <2>6 DEF Queues, Begun
    <3>2. ASSUME i = k, NEW b \in DOMAIN taskQueue PROVE taskQueue[b] # j
      <4>1. Fresh(j)
        BY <2>3, <2>6, <3>2, WhatSubmits DEF Fresh, OrderlyScript
      <4> QED
        BY <4>1, QueuedTasks DEF Fresh
    <3>3. Ahead(k, j)'
      BY <2>1, <2>2, <2>6, <3>2, AheadAfterSubmit DEF Queues
    <3> QED
      BY <2>2, <3>1, <3>3
  <2>7. (Begun(j)' => Begun(k)') /\ Ahead(k, j)'
    BY <2>4, <2>5, <2>6, QueueStep DEF OrderlyScript
  <2> QED
    BY <2>7, <2>c
<1> QED
  BY <1>g, <1>s DEF FifoInv

-----------------------------------------------------------------------------
(* The barrier holds the workers back *)

HasBarrier == \E j \in Used : Label(j) = "barrier"

\* What the calls of a test have to be like for its barrier to work: there is a
\* barrier task for every worker, they are submitted before all other tasks,
\* and main comes to the barrier after its last submission.
BarriersLead ==
  HasBarrier =>
    /\ Labelled("barrier", thread_count) \subseteq Used
    /\ \A m, n \in DOMAIN Script :
         /\ SubmitsAt(m) /\ Label(TaskAt(m)) = "barrier"
         /\ SubmitsAt(n) /\ Label(TaskAt(n)) # "barrier"
         => m < n
MeetsLast == \A m, n \in DOMAIN Script : SubmitsAt(m) /\ MeetsAt(n) => m < n
BarrierScript == OrderlyScript /\ BarriersLead /\ MeetsLast

\* Tasks that are held by some workers are no more than those workers.
LEMMA HeldTasks ==
  ASSUME NEW B, NEW V, V \subseteq Workers,
         \A k \in B : \E v \in V : myTask[v] = k
  PROVE  Cardinality(B) <= Cardinality(V)
<1> DEFINE f == [k \in B |-> CHOOSE v \in V : myTask[v] = k]
<1>1. \A k \in B : f[k] \in V /\ myTask[f[k]] = k
  OBVIOUS
<1>2. f \in [B -> V]
  BY <1>1
<1> HIDE DEF f
<1>3. f \in Injection(B, V)
  BY <1>1, <1>2 DEF Injection, IsInjective
<1>4. IsFiniteSet(V)
  BY PoolAssumption, FS_Subset
<1> QED
  BY <1>3, <1>4, FS_Injection

LEMMA LabelledTasks ==
  ASSUME NEW label, NEW count \in Nat
  PROVE  /\ Cardinality(Labelled(label, count)) = count
         /\ \A k \in Labelled(label, count) : Label(k) = label
<1> DEFINE S == 0 .. count - 1
           T == Labelled(label, count)
           f == [i \in S |-> <<label, i>>]
<1>1. T = {<<label, i>> : i \in S}
  BY DEF Labelled
<1>2. IsFiniteSet(S) /\ Cardinality(S) = count
  BY FS_Interval
<1> HIDE DEF S, T
<1>3. f \in [S -> T] /\ \A k \in T : \E i \in S : f[i] = k
  BY <1>1
<1>4. \A i, j \in S : f[i] = f[j] => i = j
  OBVIOUS
<1> HIDE DEF f
<1>5. f \in Injection(S, T) /\ f \in Surjection(S, T)
  BY <1>3, <1>4 DEF Injection, IsInjective, Surjection
<1>6. Cardinality(T) = Cardinality(S)
  BY <1>2, <1>5, FS_Surjection
<1>7. \A k \in T : Label(k) = label
  BY <1>1 DEF Label
<1> QED
  BY <1>2, <1>6, <1>7 DEF T

LEMMA ThreadCount == IsFiniteSet(Workers) /\ thread_count \in Nat /\ thread_count # 0
<1>1. IsFiniteSet(Workers) /\ Workers # {}
  BY PoolAssumption, TestsAssumption
<1> QED
  BY <1>1, FS_CardinalityType, FS_EmptySet DEF thread_count

\* The barrier opens when every worker and main have arrived.
LEMMA OpenedByMain ==
  ASSUME barrier \subseteq Threads, Opened
  PROVE  main \in barrier
<1>1. SUFFICES ASSUME main \notin barrier PROVE FALSE
  OBVIOUS
<1>2. barrier \subseteq Workers
  BY <1>1, TestThreads
<1>3. Cardinality(barrier) <= thread_count /\ IsFiniteSet(barrier)
  BY <1>2, ThreadCount, FS_Subset DEF thread_count
<1>4. Cardinality(barrier) \in Nat
  BY <1>3, FS_CardinalityType
<1> QED
  BY <1>3, <1>4, ThreadCount DEF Opened, BarrierCount

LEMMA StaysOpened ==
  ASSUME barrier' \subseteq Threads, barrier \subseteq barrier', Opened
  PROVE  Opened'
<1>1. IsFiniteSet(Threads)
  BY PoolAssumption, FS_Union DEF Threads
<1>2. IsFiniteSet(barrier')
  BY <1>1, FS_Subset
<1>3. Cardinality(barrier) <= Cardinality(barrier') /\ IsFiniteSet(barrier)
  BY <1>2, FS_Subset
<1>4. Cardinality(barrier) \in Nat /\ Cardinality(barrier') \in Nat
  BY <1>2, <1>3, FS_CardinalityType
<1> QED
  BY <1>3, <1>4, ThreadCount DEF Opened, BarrierCount, thread_count

\* main arrives at its barrier call only; a barrier task ends, and another task
\* begins, only when the barrier has opened.
BarrierInv ==
  /\ main \in barrier => \E n \in DOMAIN Script : MeetsAt(n) /\ n <= at + 1
  /\ \A k \in Tasks : Label(k) = "barrier" /\ Ran(k) => Opened
  /\ HasBarrier => \A k \in Used : Label(k) # "barrier" /\ Begun(k) => Opened

\* Behind the barrier everything has been submitted.
LEMMA OpenedAfterSubmits ==
  ASSUME TestTypes, BarrierScript, MainInv, BarrierInv, Opened, NEW k \in Used
  PROVE  ~Fresh(k)
<1>1. main \in barrier
  BY OpenedByMain DEF TestTypes
<1>2. PICK n \in DOMAIN Script : MeetsAt(n) /\ n <= at + 1
  BY <1>1 DEF BarrierInv
<1>3. PICK m \in DOMAIN Script : SubmitsAt(m) /\ TaskAt(m) = k
  BY UsedAt
<1>4. m < n
  BY <1>2, <1>3 DEF BarrierScript, MeetsLast
<1>5. at \in Nat /\ m \in Nat /\ n \in Nat
  BY LenProperties DEF TestTypes, BarrierScript, OrderlyScript
<1>6. ~(at < m)
  BY <1>2, <1>4, <1>5
<1> QED
  BY <1>3, <1>6 DEF MainInv

\* Before a barrier task has run, the workers are needed for the barrier tasks.
LEMMA NobodyIsFree ==
  ASSUME RunInv, BarrierScript, FifoInv, NEW w \in Workers, ~Busy(w),
         myTask[w] = NoTask, HasBarrier, NEW k \in Used, Label(k) # "barrier",
         \A j \in Used : j # k /\ Label(j) = "barrier" => Begun(j)
  PROVE  \E j \in Used : Label(j) = "barrier" /\ finished[j]
<1> DEFINE B == Labelled("barrier", thread_count)
<1>1. SUFFICES ASSUME \A j \in Used : Label(j) = "barrier" => ~finished[j]
               PROVE  FALSE
  OBVIOUS
<1>2. B \subseteq Used /\ Cardinality(B) = thread_count
      /\ \A j \in B : Label(j) = "barrier"
  BY LabelledTasks, ThreadCount DEF BarrierScript, BarriersLead
<1> HIDE DEF B
<1>3. Used \subseteq Tasks
  BY UsedTasks DEF RunInv, TestTypes
<1>4. ASSUME NEW j \in B PROVE \E v \in Workers \ {w} : myTask[v] = j
  <2>1. j \in Used /\ j \in Tasks /\ Begun(j) /\ ~finished[j]
    BY <1>1, <1>2, <1>3
  <2>2. PICK v \in Workers : myTask[v] = j
    BY <2>1 DEF Begun
  <2>3. v # w
    BY <2>1, <2>2, PoolAssumption
  <2> QED
    BY <2>2, <2>3
<1>5. Cardinality(B) <= Cardinality(Workers \ {w})
  BY <1>4, HeldTasks
<1>6. Cardinality(Workers \ {w}) = thread_count - 1
  BY ThreadCount, FS_RemoveElement DEF thread_count
<1> QED
  BY <1>2, <1>5, <1>6, ThreadCount

LEMMA BarrierStep ==
  ASSUME RunInv, RunInv', BarrierScript, KnownInv, MainInv, FifoInv, BarrierInv,
         TestSteps
  PROVE  BarrierInv'
<1> USE DEF RunInv
<1>o. OrderlyScript /\ Script \in Seq(AnyCall)
  BY DEF BarrierScript, OrderlyScript
<1>s. /\ Script' = Script /\ Used' = Used /\ HasBarrier' = HasBarrier
      /\ \A n \in DOMAIN Script : MeetsAt(n)' <=> MeetsAt(n)
  BY ScriptStays DEF HasBarrier, Label
<1>t. at \in Nat /\ (at' = at \/ at' = at + 1) /\ \A n \in DOMAIN Script : n \in Nat
  BY <1>o, MainMoves, LenProperties DEF TestTypes
<1>1. barrier \subseteq barrier'
      /\ (main \in barrier' => main \in barrier \/ MainArrives)
  BY TestThreads
     DEF TestSteps, MainCalls, MainArrives, WorkerArrives, WorkerMeets,
         RecordIncrement, TaskCalls, RunEmpty, RunReturns, testVars, allVars
<1>2. Opened => Opened'
  BY <1>1, StaysOpened DEF TestTypes
<1>3. ASSUME main \in barrier'
      PROVE  \E n \in DOMAIN Script : MeetsAt(n) /\ n <= at' + 1
  <2>1. CASE main \in barrier
    <3>1. PICK n \in DOMAIN Script : MeetsAt(n) /\ n <= at + 1
      BY <2>1 DEF BarrierInv
    <3>2. n <= at' + 1
      BY <1>t, <3>1
    <3> QED
      BY <3>1, <3>2
  <2>2. CASE MainArrives
    <3>1. at < Len(Script) /\ Now.op = "barrier" /\ at' = at
      BY <2>2 DEF MainArrives
    <3>2. at + 1 \in DOMAIN Script
      BY <1>o, <1>t, <3>1, LenProperties
    <3>3. MeetsAt(at + 1)
      BY <3>1, <3>2 DEF MeetsAt, Now
    <3>4. at + 1 <= at' + 1
      BY <1>t, <3>1
    <3> QED
      BY <3>2, <3>3, <3>4
  <2> QED
    BY <1>1, <1>3, <2>1, <2>2
<1>4. ASSUME NEW k \in Tasks, Label(k) = "barrier", Ran(k)' PROVE Opened'
  <2>1. CASE Ran(k)
    BY <1>2, <1>4, <2>1 DEF BarrierInv
  <2>2. CASE \E w \in Workers : Does(w) /\ myTask[w] = k
    <3>1. \E w \in Workers : WorkerMeets(w)
      BY <1>4, <2>2, WhatDoes
    <3> QED
      BY <1>2, <3>1 DEF WorkerMeets
  <2> QED
    BY <1>4, <2>1, <2>2, WhoHasRun
<1>5. ASSUME HasBarrier, NEW k \in Used, Label(k) # "barrier", Begun(k)'
      PROVE  Opened'
  <2>0. k \in Tasks
    BY UsedTasks DEF TestTypes
  <2>1. CASE Begun(k)
    BY <1>2, <1>5, <2>1 DEF BarrierInv
  <2>2. ASSUME ~Begun(k) PROVE Opened
    <3>1. PICK w \in Workers : Takes(w, k)
      <4>1. ~QueueStays
        BY <1>5, <2>0, <2>2 DEF QueueStays
      <4>2. ASSUME NEW i \in Tasks, Queues(i) PROVE FALSE
        BY <1>5, <2>2, <4>2 DEF Queues, Begun
      <4>3. PICK w \in Workers : \E i \in Tasks : Takes(w, i)
        BY <1>o, <4>1, <4>2, QueueStep
      <4>4. PICK i \in Tasks : Takes(w, i)
        BY <4>3
      <4>5. i = k
        BY <1>5, <2>0, <2>2, <4>4, WhoHasBegun
      <4> QED
        BY <4>4, <4>5
    <3>2. ~Fresh(k)
      <4>1. taskQueue \in Seq(Names) /\ taskQueue # <<>> /\ k = Head(taskQueue)
        BY <3>1 DEF Takes, PoolInv, OwnershipInv, TypeOK
      <4>2. 1 \in DOMAIN taskQueue /\ taskQueue[1] = k
        BY <4>1
      <4> QED
        BY <4>2, QueuedTasks DEF Fresh
    <3>3. ASSUME NEW j \in Used, Label(j) = "barrier" PROVE Begun(j)
      <4>1. PICK m \in DOMAIN Script, n \in DOMAIN Script :
               SubmitsAt(m) /\ TaskAt(m) = j /\ SubmitsAt(n) /\ TaskAt(n) = k
        BY UsedAt
      <4>2. m < n
        BY <1>5, <3>3, <4>1 DEF BarrierScript, BarriersLead
      <4>3. SUFFICES ASSUME ~Begun(j) PROVE FALSE
        OBVIOUS
      <4>4. ~Fresh(j)
        <5>1. (Fresh(j) <=> at < m) /\ (Fresh(k) <=> at < n)
          BY <4>1 DEF MainInv
        <5>2. at < m => at < n
          BY <1>t, <4>2
        <5> QED
          BY <3>2, <5>1, <5>2
      <4>5. j \in Tasks
        BY UsedTasks DEF TestTypes
      <4>6. PICK a \in DOMAIN taskQueue : taskQueue[a] = j
        BY <4>3, <4>4, <4>5, SubmittedIsQueuedOrBegun
      <4>7. taskQueue \in Seq(Names) /\ taskQueue # <<>> /\ k = Head(taskQueue)
        BY <3>1 DEF Takes, PoolInv, OwnershipInv, TypeOK
      <4>8. 1 \in DOMAIN taskQueue /\ taskQueue[1] = k /\ a \in Nat /\ a >= 1
        BY <4>7
      <4>9. a < 1
        BY <4>1, <4>2, <4>6, <4>8 DEF FifoInv, Ahead
      <4> QED
        BY <4>8, <4>9
    <3>4. PICK j \in Used : Label(j) = "barrier" /\ finished[j]
      BY <1>5, <3>1, <3>3, NobodyIsFree DEF Takes
    <3>5. j \in Tasks /\ Ran(j)
      BY <3>4, UsedTasks DEF TestTypes, Ran
    <3> QED
      BY <3>4, <3>5 DEF BarrierInv
  <2> QED
    BY <1>2, <2>1, <2>2
<1> QED
  BY <1>3, <1>4, <1>5, <1>s DEF BarrierInv, Label

-----------------------------------------------------------------------------
(* What has been waited for is deleted *)

Gone(k) == heap[k] = "deleted"
Awaiting(t, k) == pc[t] \in {"enrol", "doneWait", "rewait"} /\ waitTask[t] = k

\* A wait for a task is for one that was submitted: by an earlier call of main,
\* or by a task that main has waited for; and a wait task waits for a task of
\* the same test, which has a barrier.
WaitsFollow ==
  \A n \in DOMAIN Script : \A k \in Tasks : WaitsAt(n, k) =>
    \/ \E m \in DOMAIN Script : m < n /\ SubmitsAt(m) /\ TaskAt(m) = k
    \/ \E j \in Used : /\ k \in Submitted[j]
                       /\ \E m \in DOMAIN Script : m < n /\ WaitsAt(m, j)
WaitersMeet ==
  \A k \in Used : Label(k) = "wait" => HasBarrier /\ Awaited[k] \subseteq Used
WaitScript == BarrierScript /\ WaitsFollow /\ WaitersMeet

\* A call of WaitForTask that main or a wait task has made has deleted the
\* task, or the caller is still in it.
WaitsInv ==
  /\ \A n \in DOMAIN Script : \A k \in Tasks :
       WaitsAt(n, k) /\ n <= at => Gone(k) \/ (n = at /\ Awaiting(main, k))
  /\ \A w \in Workers : \A k \in Tasks :
       myTask[w] \in Tasks /\ body[w] = "end" /\ k \in Awaited[myTask[w]]
       => Gone(k) \/ Awaiting(w, k)
  /\ \A j \in Tasks : finished[j] => \A k \in Awaited[j] : Gone(k)

LEMMA WhatIsAwaited ==
  ASSUME NEW j \in Tasks, NEW k \in Awaited[j]
  PROVE  k \in Tasks /\ Label(j) = "wait" /\ TaskWaits[j] = {k}
<1>1. Awaited[j] = IF Label(j) = "wait" THEN {<<"empty", Number(j)>>} ELSE {}
  BY DEF Awaited
<1>2. TaskWaits[j] = Awaited[j] /\ k \in Tasks
  BY PoolAssumption, TestAssumption
<1> QED
  BY <1>1, <1>2

LEMMA GoneStays ==
  ASSUME PoolInv, TestTypes, Script \in Seq(AnyCall), TestSteps, NEW k \in Tasks,
         Gone(k)
  PROVE  Gone(k)'
<1>1. ASSUME NEW t \in Threads, Submits(t, k) PROVE FALSE
  BY <1>1, WhatSubmits DEF Gone
<1> QED
  BY <1>1, ObjectsStep DEF Gone

\* The loop of WaitForTask is left by the deletion only.
LEMMA TestDeletes ==
  ASSUME PoolInv, NEW t \in Threads, NEW k \in Tasks, TestFinished(t, k)
  PROVE  Gone(k)' \/ Awaiting(t, k)'
BY DEF TestFinished, Gone, Awaiting, PoolInv, OwnershipInv, TypeOK

LEMMA AwaitingStays ==
  ASSUME PoolInv, TestSteps, NEW t \in Threads, NEW k \in Tasks, Awaiting(t, k)
  PROVE  Awaiting(t, k)' \/ Gone(k)'
<1> USE PoolAssumption DEF PoolInv
<1> DEFINE Goal == Awaiting(t, k)' \/ Gone(k)'
<1>t. /\ pc \in [Threads -> Locations]
      /\ waitTask \in [Threads -> Tasks \cup {NoTask}]
  BY DEF OwnershipInv, TypeOK
<1>w. pc[t] \in {"enrol", "doneWait", "rewait"} /\ waitTask[t] = k
  BY DEF Awaiting
<1>1. ASSUME pc'[t] \in {"enrol", "doneWait", "rewait"}, waitTask'[t] = waitTask[t]
      PROVE  Goal
  BY <1>1, <1>w DEF Awaiting
<1> HIDE DEF Goal
<1>2. ASSUME UNCHANGED vars PROVE Goal
  BY <1>1, <1>2, <1>w DEF vars
<1>3. ASSUME NEW u \in Threads, NEW j, TestFinished(u, j), u # t PROVE Goal
  BY <1>1, <1>3, <1>t, <1>w DEF TestFinished
<1>h. ASSUME NEW u \in Threads, AtHome(u) PROVE u # t
  BY <1>h, <1>w DEF AtHome, Home
<1>4. ASSUME NEW u \in Threads, PoolCall(u) PROVE Goal
  <2>1. ASSUME NEW n \in Names, WaitForTask(u, n) PROVE Goal
    BY <1>3, <1>4, <1>h, <2>1 DEF WaitForTask
  <2>2. ASSUME NEW j \in Tasks, SubmitTask(u, j) PROVE Goal
    BY <1>1, <1>4, <1>h, <1>t, <1>w, <2>2 DEF SubmitTask
  <2>3. ASSUME Stop(u) PROVE Goal
    <3>1. u # t
      BY <1>4, <1>h, <2>3 DEF Stop
    <3>2. pc'[t] = pc[t] /\ waitTask' = waitTask
      BY <1>t, <1>w, <2>3, <3>1 DEF Stop, WokenByStop, Sleepers
    <3> QED
      BY <1>1, <1>w, <3>2
  <2> QED
    BY <1>4, <2>1, <2>2, <2>3 DEF PoolCall
<1>5. ASSUME NEW u \in Threads, PoolMove(u) PROVE Goal
  <2>1. CASE SubmitSignal(u)
    BY <1>1, <1>5, <1>t, <1>w, <2>1 DEF SubmitSignal, Sleepers
  <2>2. CASE EnterDoneWait(u)
    BY <1>1, <1>5, <1>t, <1>w, <2>2 DEF EnterDoneWait
  <2>3. CASE ReturnFromDoneWait(u) /\ u # t
    BY <1>1, <1>3, <1>5, <1>t, <1>w, <2>3 DEF ReturnFromDoneWait, Crash
  <2>4. CASE ReturnFromDoneWait(t)
    <3>1. TestFinished(t, k) => Goal
      BY TestDeletes DEF Goal
    <3> QED
      BY <1>1, <1>t, <1>w, <2>4, <3>1 DEF ReturnFromDoneWait, Crash
  <2>5. CASE SpuriousWakeup(u)
    BY <1>1, <1>5, <1>t, <1>w, <2>5 DEF SpuriousWakeup
  <2>6. CASE u \in Workers /\ TakeTask(u)
    BY <1>1, <1>5, <1>t, <1>w, <2>6 DEF TakeTask, Crash
  <2>7. CASE u \in Workers /\ SignalDone(u)
    BY <1>1, <1>5, <1>t, <1>w, <2>7 DEF SignalDone, DoneSleepers, Crash
  <2>8. CASE JoinAll(u)
    BY <1>1, <1>5, <1>t, <1>w, <2>8 DEF JoinAll, Crash
  <2> QED
    BY <1>5, <2>1, <2>2, <2>3, <2>4, <2>5, <2>6, <2>7, <2>8 DEF PoolMove, CallStep
<1>6. ASSUME NEW u \in Workers, RunReturns(u) PROVE Goal
  <2>1. FinishRun(u) /\ pc[u] = "run"
    BY <1>6 DEF RunReturns, FinishRun
  <2>2. pc' = [pc EXCEPT ![u] = "signalDone"] /\ waitTask' = waitTask
    BY <2>1, RunsEndFinished
  <2> QED
    BY <1>1, <1>t, <1>w, <2>1, <2>2 DEF Threads
<1>7. \A w \in Workers : WorkerArrives(w) \/ WorkerMeets(w) \/ RecordIncrement(w)
                         \/ RunEmpty(w) => UNCHANGED vars
  BY DEF WorkerArrives, WorkerMeets, RecordIncrement, RunEmpty
<1>8. MainArrives \/ UNCHANGED allVars => UNCHANGED vars
  BY DEF MainArrives, allVars
<1>9. Goal
  BY <1>2, <1>4, <1>5, <1>6, <1>7, <1>8, TestThreads DEF TestSteps, Threads
<1> QED
  BY <1>9 DEF Goal

\* A call of WaitForTask for a task that has been submitted.
LEMMA WaitCall ==
  ASSUME PoolInv, KnownInv, NEW t \in Threads, NEW k \in Tasks, ~Fresh(k),
         \/ WaitForTask(t, k)
         \/ taskMap[k] = NoTask /\ UNCHANGED vars
  PROVE  Gone(k)' \/ Awaiting(t, k)'
<1> USE DEF PoolInv, OwnershipInv
<1>1. CASE WaitForTask(t, k)
  <2>1. taskMap[k] # NoTask /\ TestFinished(t, taskMap[k])
    BY <1>1 DEF WaitForTask
  <2>2. taskMap[k] \in Tasks
    BY <2>1, TestAssumption DEF TypeOK
  <2>3. taskMap[k] = k
    BY <2>1, <2>2, TestAssumption DEF MapMatchesHeap
  <2> QED
    BY <2>1, <2>3, TestDeletes
<1>2. CASE taskMap[k] = NoTask /\ UNCHANGED vars
  <2>1. heap[k] # "live"
    BY <1>2, TestAssumption, PoolAssumption DEF MapMatchesHeap
  <2>2. heap[k] = "deleted"
    BY <2>1 DEF Fresh, TypeOK
  <2> QED
    BY <1>2, <2>2 DEF Gone, vars
<1> QED
  BY <1>1, <1>2

LEMMA MainWaitsStep ==
  ASSUME RunInv, RunInv', WaitScript, KnownInv, EffectsInv, MainInv, WaitsInv,
         TestSteps, NEW n \in DOMAIN Script, NEW k \in Tasks, WaitsAt(n, k),
         n <= at'
  PROVE  Gone(k)' \/ (n = at' /\ Awaiting(main, k)')
<1> USE DEF RunInv
<1>o. OrderlyScript /\ Script \in Seq(AnyCall)
  BY DEF WaitScript, BarrierScript, OrderlyScript
<1>t. at \in Nat /\ \A m \in DOMAIN Script : m \in Nat
  BY <1>o, LenProperties DEF TestTypes
<1>g. Gone(k) => Gone(k)'
  BY <1>o, GoneStays
<1>1. CASE n <= at
  <2>1. Gone(k) \/ (n = at /\ Awaiting(main, k))
    BY <1>1 DEF WaitsInv
  <2>2. CASE Gone(k)
    BY <1>g, <2>2
  <2>3. CASE n = at /\ Awaiting(main, k)
    <3>1. ~MainCalls
      BY <2>3 DEF Awaiting, MainCalls
    <3>2. at' = at
      BY <1>o, <3>1, MainMoves
    <3> QED
      BY <2>3, <3>2, AwaitingStays, TestThreads
  <2> QED
    BY <2>1, <2>2, <2>3
<1>2. CASE ~(n <= at)
  <2>1. MainCalls /\ at' = at + 1
    BY <1>2, <1>o, MainMoves
  <2>2. n = at + 1
    BY <1>2, <1>t, <2>1
  <2>3. Now.op = "wait" /\ Now.task = k
    BY <2>2 DEF WaitsAt, Now
  <2>4. pc[main] = "idle" /\ (WaitForTask(main, k) \/ (taskMap[k] = NoTask /\ UNCHANGED vars))
    BY <2>1, <2>3 DEF MainCalls
  <2>5. ~Fresh(k)
    <3>1. CASE \E m \in DOMAIN Script : m < n /\ SubmitsAt(m) /\ TaskAt(m) = k
      <4>1. PICK m \in DOMAIN Script : m < n /\ SubmitsAt(m) /\ TaskAt(m) = k
        BY <3>1
      <4>2. ~(at < m)
        BY <1>t, <2>2, <4>1
      <4> QED
        BY <4>1, <4>2 DEF MainInv
    <3>2. CASE \E j \in Used : /\ k \in Submitted[j]
                               /\ \E m \in DOMAIN Script : m < n /\ WaitsAt(m, j)
      <4>1. PICK j \in Used : /\ k \in Submitted[j]
                              /\ \E m \in DOMAIN Script : m < n /\ WaitsAt(m, j)
        BY <3>2
      <4>2. PICK m \in DOMAIN Script : m < n /\ WaitsAt(m, j)
        BY <4>1
      <4>3. j \in Tasks /\ Label(j) = "submit"
        BY <4>1, UsedTasks, WhoIsSubmitted DEF TestTypes
      <4>4. m <= at
        BY <1>t, <2>2, <4>2
      <4>5. Gone(j)
        BY <2>4, <4>2, <4>3, <4>4 DEF WaitsInv, Awaiting
      <4>6. Ran(j)
        BY <4>3, <4>5 DEF KnownInv, Gone, Ran
      <4> QED
        BY <4>1, <4>3, <4>6 DEF EffectsInv, Fresh
    <3> QED
      BY <3>1, <3>2 DEF WaitScript, WaitsFollow
  <2>6. Gone(k)' \/ Awaiting(main, k)'
    BY <2>4, <2>5, WaitCall, TestThreads
  <2> QED
    BY <2>1, <2>2, <2>6
<1> QED
  BY <1>1, <1>2

\* What a wait task waits for has been submitted before it begins.
LEMMA AwaitedIsSubmitted ==
  ASSUME RunInv, WaitScript, KnownInv, MainInv, BarrierInv, NEW j \in Tasks,
         Begun(j), NEW k \in Awaited[j]
  PROVE  ~Fresh(k)
<1>1. Label(j) = "wait"
  BY WhatIsAwaited
<1>2. heap[j] # "fresh"
  BY RunningWasSubmitted DEF Begun, RunInv
<1>3. j \in Used
  BY <1>1, <1>2, UsedTasks, WhoIsSubmitted DEF KnownInv, RunInv, TestTypes
<1>4. HasBarrier /\ k \in Used
  BY <1>1, <1>3 DEF WaitScript, WaitersMeet
<1>5. Opened
  BY <1>1, <1>3, <1>4 DEF BarrierInv
<1> QED
  BY <1>4, <1>5, OpenedAfterSubmits DEF WaitScript, RunInv

\* A worker whose Run() has done its thing has just done it, or had before.
LEMMA WhoEnds ==
  ASSUME RunInv, TestSteps, NEW w \in Workers, body'[w] = "end"
  PROVE  (body[w] = "end" \/ Does(w)) /\ StaysBusy(w)
<1> USE DEF RunInv
<1>b. body \in [Workers -> {"start", "met", "end"}]
  BY DEF TestTypes
<1>1. UNCHANGED vars => \A v \in Workers : StaysBusy(v)
  BY DEF StaysBusy, Busy, vars
<1>2. ASSUME NEW t \in Threads, PoolCall(t) \/ PoolMove(t)
      PROVE  \A v \in Workers : StaysBusy(v)
  BY <1>2, NobodyInterrupts DEF PoolInv
<1>3. ASSUME body' = body, \A v \in Workers : StaysBusy(v)
      PROVE  (body[w] = "end" \/ Does(w)) /\ StaysBusy(w)
  BY <1>3
<1>4. ASSUME NEW u \in Workers, Does(u), \A v \in Workers : StaysBusy(v)
      PROVE  (body[w] = "end" \/ Does(w)) /\ StaysBusy(w)
  <2>1. body' = [body EXCEPT ![u] = "end"]
    BY <1>4 DEF Does, WorkerMeets, RecordIncrement, TaskCalls, RunEmpty
  <2> QED
    BY <1>4, <1>b, <2>1
<1>5. ASSUME NEW u \in Workers, WorkerArrives(u)
      PROVE  (body[w] = "end" \/ Does(w)) /\ StaysBusy(w)
  BY <1>1, <1>5, <1>b DEF WorkerArrives
<1>6. ASSUME NEW u \in Workers, RunReturns(u)
      PROVE  (body[w] = "end" \/ Does(w)) /\ StaysBusy(w)
  <2>1. body' = [body EXCEPT ![u] = "start"]
    BY <1>6 DEF RunReturns
  <2>2. w # u /\ body[w] = "end"
    BY <1>b, <2>1
  <2>3. pc' = [pc EXCEPT ![u] = "signalDone"] /\ myTask' = myTask
    BY <1>6, RunsEndFinished DEF RunReturns, PoolInv
  <2>4. pc'[w] = pc[w]
    BY <2>2, <2>3 DEF PoolInv, OwnershipInv, TypeOK, Threads
  <2> QED
    BY <2>2, <2>3, <2>4 DEF StaysBusy, Busy
<1>7. ASSUME MainCalls, PoolCall(main) \/ UNCHANGED vars
      PROVE  (body[w] = "end" \/ Does(w)) /\ StaysBusy(w)
  BY <1>1, <1>2, <1>3, <1>7, TestThreads DEF MainCalls
<1>8. ASSUME MainArrives \/ UNCHANGED allVars
      PROVE  (body[w] = "end" \/ Does(w)) /\ StaysBusy(w)
  BY <1>1, <1>3, <1>8 DEF MainArrives, allVars, testVars
<1>9. ASSUME NEW t \in Threads, PoolMove(t), UNCHANGED testVars
      PROVE  (body[w] = "end" \/ Does(w)) /\ StaysBusy(w)
  BY <1>2, <1>3, <1>9 DEF testVars
<1>10. ASSUME NEW u \in Workers, TaskCalls(u), PoolCall(u) \/ UNCHANGED vars
       PROVE  (body[w] = "end" \/ Does(w)) /\ StaysBusy(w)
  BY <1>1, <1>2, <1>4, <1>10 DEF Does, Threads
<1>11. ASSUME NEW u \in Workers,
              WorkerMeets(u) \/ RecordIncrement(u) \/ RunEmpty(u)
       PROVE  (body[w] = "end" \/ Does(w)) /\ StaysBusy(w)
  BY <1>1, <1>4, <1>11 DEF Does, WorkerMeets, RecordIncrement, RunEmpty
<1> QED
  BY <1>5, <1>6, <1>7, <1>8, <1>9, <1>10, <1>11 DEF TestSteps

LEMMA WorkerWaitsStep ==
  ASSUME RunInv, RunInv', WaitScript, KnownInv, MainInv, BarrierInv, WaitsInv,
         TestSteps, NEW w \in Workers, NEW k \in Tasks,
         myTask'[w] \in Tasks, body'[w] = "end", k \in Awaited[myTask'[w]]
  PROVE  Gone(k)' \/ Awaiting(w, k)'
<1> USE DEF RunInv
<1>o. Script \in Seq(AnyCall)
  BY DEF WaitScript, BarrierScript, OrderlyScript
<1>b. body \in [Workers -> {"start", "met", "end"}]
  BY DEF TestTypes
<1>w. w \in Threads
  BY DEF Threads
<1>1. ASSUME body[w] = "end", StaysBusy(w) PROVE Gone(k)' \/ Awaiting(w, k)'
  <2>1. myTask'[w] = myTask[w]
    BY <1>1 DEF BodyInv, StaysBusy
  <2>2. Gone(k) \/ Awaiting(w, k)
    BY <1>1, <2>1 DEF WaitsInv
  <2> QED
    BY <1>o, <1>w, <2>2, GoneStays, AwaitingStays
<1>2. ASSUME Does(w) PROVE Gone(k)' \/ Awaiting(w, k)'
  <2>1. myTask[w] \in Tasks /\ Busy(w)
    BY <1>2, RunsOnce
  <2>2. myTask'[w] = myTask[w]
    BY <2>1, WhoEnds DEF StaysBusy
  <2>3. Label(myTask[w]) = "wait"
    BY <2>1, <2>2, WhatIsAwaited
  <2>4. TaskCalls(w)
    BY <1>2, <2>3, WhatDoes
  <2>5. \E n \in TaskWaits[myTask[w]] :
          \/ WaitForTask(w, n)
          \/ mutex = NoThread /\ taskMap[n] = NoTask /\ UNCHANGED vars
    BY <2>3, <2>4 DEF TaskCalls, Running
  <2>6. \/ WaitForTask(w, k)
        \/ taskMap[k] = NoTask /\ UNCHANGED vars
    BY <2>1, <2>2, <2>5, WhatIsAwaited
  <2>7. Begun(myTask[w])
    BY DEF Begun
  <2>8. ~Fresh(k)
    BY <2>1, <2>2, <2>7, AwaitedIsSubmitted
  <2> QED
    BY <1>w, <2>6, <2>8, WaitCall
<1> QED
  BY <1>1, <1>2, WhoEnds


LEMMA WaitsStep ==
  ASSUME RunInv, RunInv', WaitScript, KnownInv, EffectsInv, MainInv, BarrierInv,
         WaitsInv, TestSteps
  PROVE  WaitsInv'
<1> USE DEF RunInv
<1>o. Script \in Seq(AnyCall)
  BY DEF WaitScript, BarrierScript, OrderlyScript
<1>s. Script' = Script /\ Awaited' = Awaited
      /\ \A n, k : WaitsAt(n, k)' <=> WaitsAt(n, k)
  BY ScriptStays DEF Awaited, Label, Number
<1>1. ASSUME NEW n \in DOMAIN Script, NEW k \in Tasks, WaitsAt(n, k), n <= at'
      PROVE  Gone(k)' \/ (n = at' /\ Awaiting(main, k)')
  BY <1>1, MainWaitsStep
<1>2. ASSUME NEW w \in Workers, NEW k \in Tasks,
             myTask'[w] \in Tasks, body'[w] = "end", k \in Awaited[myTask'[w]]
      PROVE  Gone(k)' \/ Awaiting(w, k)'
  BY <1>2, WorkerWaitsStep
<1>3. ASSUME NEW j \in Tasks, finished'[j], NEW k \in Awaited[j] PROVE Gone(k)'
  <2>0. k \in Tasks
    BY WhatIsAwaited
  <2>1. CASE finished[j]
    <3>1. Gone(k)
      BY <2>1 DEF WaitsInv
    <3> QED
      BY <1>o, <2>0, <3>1, GoneStays
  <2>2. CASE ~finished[j]
    <3>1. PICK w \in Workers : /\ RunReturns(w) /\ myTask[w] = j
                               /\ pc[w] = "run" /\ body[w] = "end" /\ heap' = heap
      BY <1>3, <2>2, WhoFinishes
    <3>2. Gone(k)
      BY <2>0, <3>1 DEF WaitsInv, Awaiting
    <3> QED
      BY <3>1, <3>2 DEF Gone
  <2> QED
    BY <2>1, <2>2
<1> QED
  BY <1>1, <1>2, <1>3, <1>s DEF WaitsInv

-----------------------------------------------------------------------------
(* The first number goes to one of the first tasks *)

TestOfOrder == test.name = "run in order"

IncTask(i) == <<"inc", i>>

\* In the test of the order, the counting tasks are numbered as submitted.
InOrderScript ==
  TestOfOrder =>
    /\ Counting # {}
    /\ \A k \in Counting :
         /\ Number(k) \in Nat /\ k = IncTask(Number(k))
         /\ \E n \in DOMAIN Script :
              /\ SubmitsAt(n) /\ TaskAt(n) = k
              /\ \A j \in Labelled("inc", Number(k)) :
                   \E m \in DOMAIN Script :
                     m < n /\ SubmitsAt(m) /\ TaskAt(m) = j

FirstInv ==
  TestOfOrder /\ counter # 0 =>
    \E k \in Counting : Number(k) < thread_count /\ results[k] = 0

\* As long as no number was given, the tasks before one that begins are held.
LEMMA FirstIsEarly ==
  ASSUME RunInv, OrderlyScript, InOrderScript, KnownInv, EffectsInv, FifoInv,
         Given = {}, TestOfOrder,
         NEW w \in Workers, myTask[w] \in Counting
  PROVE  Number(myTask[w]) < thread_count
<1> DEFINE k == myTask[w]
           B == Labelled("inc", Number(k))
<1>1. PICK n \in DOMAIN Script :
         /\ SubmitsAt(n) /\ TaskAt(n) = k
         /\ \A j \in B : \E m \in DOMAIN Script :
              m < n /\ SubmitsAt(m) /\ TaskAt(m) = j
  BY DEF InOrderScript
<1>2. Cardinality(B) = Number(k) /\ \A j \in B : Label(j) = "inc"
  BY LabelledTasks DEF InOrderScript
<1>3. Begun(k)
  BY DEF Begun
<1>t. \A m \in DOMAIN Script : m \in Nat
  BY LenProperties DEF OrderlyScript
<1> HIDE DEF B
<1>4. ASSUME NEW j \in B PROVE \E v \in Workers \ {w} : myTask[v] = j
  <2>1. PICK m \in DOMAIN Script : m < n /\ SubmitsAt(m) /\ TaskAt(m) = j
    BY <1>1
  <2>2. j \in Tasks
    BY <2>1, UsedAt, UsedTasks DEF RunInv, TestTypes
  <2>3. Begun(j)
    BY <1>1, <1>3, <2>1 DEF FifoInv
  <2>4. ~finished[j]
    <3>1. Counts(j)
      BY <1>2 DEF Counts
    <3> QED
      BY <2>2, <3>1 DEF EffectsInv, Given, Ran
  <2>5. j # k
    <3>1. m # n
      BY <1>t, <2>1
    <3> QED
      BY <1>1, <2>1, <3>1 DEF OrderlyScript, SubmitsOnce
  <2> QED
    BY <2>3, <2>4, <2>5 DEF Begun
<1>5. Cardinality(B) <= Cardinality(Workers \ {w})
  BY <1>4, HeldTasks
<1>6. Cardinality(Workers \ {w}) = thread_count - 1
  BY ThreadCount, FS_RemoveElement DEF thread_count
<1>7. Number(k) \in Nat
  BY DEF InOrderScript
<1> QED
  BY <1>2, <1>5, <1>6, <1>7, ThreadCount

LEMMA FirstStep ==
  ASSUME RunInv, RunInv', OrderlyScript, InOrderScript, KnownInv, EffectsInv,
         NumbersInv, FifoInv, FirstInv, TestSteps
  PROVE  FirstInv'
<1> USE DEF RunInv
<1>s. TestOfOrder' = TestOfOrder /\ Counting' = Counting /\ thread_count' = thread_count
  BY WhatStays, ScriptStays
     DEF TestOfOrder, Counting, Submitted, Counts, Label, Number, thread_count
<1>1. CASE results' = results /\ counter' = counter
  BY <1>1, <1>s DEF FirstInv, Number
<1>2. ASSUME NEW w \in Workers, RecordIncrement(w), TestOfOrder
      PROVE  \E k \in Counting : Number(k) < thread_count /\ results'[k] = 0
  <2>1. Does(w)
    BY <1>2 DEF Does
  <2>2. PICK k \in Tasks : myTask[w] = k /\ ~Ran(k) /\ Counts(k)
    BY <2>1, RunsOnce, WhatDoes, <1>2
  <2>3. results' = [results EXCEPT ![k] = counter] /\ results \in [Tasks -> Int]
    BY <1>2, <2>2 DEF RecordIncrement, TestTypes
  <2>4. CASE counter = 0
    <3>1. Given = {}
      BY <2>4, FS_EmptySet DEF NumbersInv
    <3>2. heap[k] # "fresh"
      BY <2>2, RunningWasSubmitted
    <3>3. k \in Counting
      BY <2>2, <3>2 DEF KnownInv, Counting
    <3>4. Number(k) < thread_count
      BY <1>2, <2>2, <3>1, <3>3, FirstIsEarly
    <3>5. results'[k] = 0
      BY <2>2, <2>3, <2>4
    <3> QED
      BY <3>3, <3>4, <3>5
  <2>5. CASE counter # 0
    <3>1. PICK j \in Counting : Number(j) < thread_count /\ results[j] = 0
      BY <1>2, <2>5 DEF FirstInv
    <3>2. j \in Tasks
      BY DEF Counting
    <3>3. results[j] # -1
      BY <3>1
    <3>4. j # k
      BY <2>2, <3>2, <3>3 DEF EffectsInv
    <3>5. results'[j] = 0
      BY <2>2, <2>3, <3>1, <3>2, <3>4
    <3> QED
      BY <3>1, <3>5
  <2> QED
    BY <2>4, <2>5
<1> QED
  BY <1>1, <1>2, <1>s, WhatStays DEF FirstInv, Number

-----------------------------------------------------------------------------
(* A single thread gives out the numbers in the order of submission *)

OneThread == TestOfOrder /\ thread_count = 1

\* The counting tasks that have run are those with the numbers given so far.
OrderInv ==
  OneThread =>
    /\ \A k \in Given : Number(k) < counter /\ results[k] = Number(k)
    /\ \A k \in Counting : Number(k) < counter => k \in Given

\* A task that a single thread runs is behind the ones with smaller numbers.
LEMMA SmallerHaveRun ==
  ASSUME RunInv, OrderlyScript, InOrderScript, KnownInv, EffectsInv, FifoInv,
         OneThread, NEW w \in Workers, myTask[w] \in Counting,
         NEW j \in Labelled("inc", Number(myTask[w]))
  PROVE  j \in Given
<1> DEFINE k == myTask[w]
<1>1. PICK n \in DOMAIN Script :
         /\ SubmitsAt(n) /\ TaskAt(n) = k
         /\ \A i \in Labelled("inc", Number(k)) : \E m \in DOMAIN Script :
              m < n /\ SubmitsAt(m) /\ TaskAt(m) = i
  BY DEF InOrderScript, OneThread
<1>2. PICK m \in DOMAIN Script : m < n /\ SubmitsAt(m) /\ TaskAt(m) = j
  BY <1>1
<1>3. j \in Tasks
  BY <1>2, UsedAt, UsedTasks DEF RunInv, TestTypes
<1>4. Begun(k)
  BY DEF Begun
<1>5. Begun(j)
  BY <1>1, <1>2, <1>4 DEF FifoInv
<1>6. j # k
  <2>1. m # n
    BY <1>2, LenProperties DEF OrderlyScript
  <2> QED
    BY <1>1, <1>2, <2>1 DEF OrderlyScript, SubmitsOnce
<1>7. Workers = {w}
  <2>1. Cardinality(Workers) = 1 /\ IsFiniteSet(Workers)
    BY ThreadCount DEF OneThread, thread_count
  <2>2. PICK v : Workers = {v}
    BY <2>1, FS_Singleton
  <2> QED
    BY <2>2
<1>8. finished[j]
  BY <1>5, <1>6, <1>7 DEF Begun
<1>9. Counts(j)
  <2>1. Label(j) = "inc"
    BY DEF Labelled, Label
  <2> QED
    BY <2>1 DEF Counts
<1> QED
  BY <1>3, <1>8, <1>9 DEF EffectsInv, Given, Ran

LEMMA NextNumber ==
  ASSUME RunInv, OrderlyScript, InOrderScript, KnownInv, EffectsInv, FifoInv,
         OrderInv, OneThread, NEW w \in Workers, myTask[w] \in Counting,
         myTask[w] \notin Given
  PROVE  Number(myTask[w]) = counter
<1> DEFINE k == myTask[w]
           i == Number(k)
<1>1. i \in Nat
  BY DEF InOrderScript, OneThread
<1>2. counter \in Nat
  BY DEF RunInv, TestTypes
<1>3. ~(i < counter)
  BY DEF OrderInv
<1>4. ASSUME i # 0 PROVE i - 1 < counter
  <2> DEFINE h == i - 1
             j == IncTask(h)
  <2>1. h \in 0 .. i - 1
    BY <1>1, <1>4
  <2> HIDE DEF h
  <2>2. j \in Labelled("inc", i) /\ Number(j) = h
    BY <2>1 DEF Labelled, IncTask, Number
  <2>3. j \in Given
    BY <2>2, SmallerHaveRun
  <2> HIDE DEF j
  <2>4. h < counter
    BY <2>2, <2>3 DEF OrderInv
  <2> QED
    BY <2>4 DEF h
<1> HIDE DEF i
<1>5. i = counter
  BY <1>1, <1>2, <1>3, <1>4
<1> QED
  BY <1>5 DEF i

LEMMA OrderStep ==
  ASSUME RunInv, RunInv', OrderlyScript, InOrderScript, KnownInv, EffectsInv,
         NumbersInv, FifoInv, OrderInv, TestSteps
  PROVE  OrderInv'
<1> USE DEF RunInv
<1>s. OneThread' = OneThread /\ Counting' = Counting
  BY WhatStays, ScriptStays
     DEF TestOfOrder, Counting, Submitted, Counts, Label, Number, thread_count,
         OneThread
<1>1. CASE results' = results /\ counter' = counter
  <2>1. Given' = Given
    BY <1>1 DEF Given
  <2> QED
    BY <1>1, <1>s, <2>1 DEF OrderInv, Number
<1>2. ASSUME NEW w \in Workers, RecordIncrement(w), OneThread PROVE OrderInv'
  <2>1. Does(w)
    BY <1>2 DEF Does
  <2>2. PICK k \in Tasks : myTask[w] = k /\ ~Ran(k) /\ Counts(k)
    BY <2>1, RunsOnce, WhatDoes, <1>2
  <2>3. k \notin Given
    BY <2>2 DEF EffectsInv, Given
  <2>4. k \in Counting
    <3>1. heap[k] # "fresh"
      BY <2>2, RunningWasSubmitted
    <3> QED
      BY <2>2, <3>1 DEF KnownInv, Counting
  <2>5. Number(k) = counter
    BY <1>2, <2>2, <2>3, <2>4, NextNumber
  <2>6. /\ results' = [results EXCEPT ![k] = counter] /\ counter' = counter + 1
        /\ results \in [Tasks -> Int] /\ counter \in Nat /\ counter # -1
    BY <1>2, <2>2, MinusOne DEF RecordIncrement, TestTypes
  <2>7. /\ results'[k] = counter
        /\ \A j \in Tasks \ {k} : results'[j] = results[j]
    BY <2>6
  <2>8. Given' = Given \cup {k}
    BY <2>6, <2>7 DEF Given
  <2>9. \A j \in Given : j \in Tasks \ {k}
    BY <2>3 DEF Given
  <2>i. \A j \in Counting : Number(j) \in Nat /\ j = IncTask(Number(j))
    BY <1>2 DEF InOrderScript, OneThread
  <2>g. Given \subseteq Counting
    BY GivenCount
  <2>10. ASSUME NEW j \in Given'
         PROVE  Number(j) < counter' /\ results'[j] = Number(j)
    <3>1. CASE j = k
      BY <2>5, <2>6, <2>7, <3>1
    <3>2. CASE j \in Given
      <4>1. Number(j) < counter /\ results[j] = Number(j)
        BY <1>2, <3>2 DEF OrderInv
      <4>2. Number(j) \in Nat /\ results'[j] = results[j]
        BY <2>7, <2>9, <2>g, <2>i, <3>2
      <4> QED
        BY <2>6, <4>1, <4>2
    <3> QED
      BY <2>8, <3>1, <3>2
  <2>11. ASSUME NEW j \in Counting, Number(j) < counter' PROVE j \in Given'
    <3>1. Number(j) \in Nat
      BY <2>i
    <3>2. CASE Number(j) < counter
      BY <1>2, <2>8, <3>2 DEF OrderInv
    <3>3. CASE Number(j) = counter
      <4>1. j = k
        BY <2>4, <2>5, <2>i, <3>3
      <4> QED
        BY <2>8, <4>1
    <3> QED
      BY <2>6, <2>11, <3>1, <3>2, <3>3
  <2> QED
    BY <1>s, <2>10, <2>11 DEF OrderInv, Number
<1>3. CASE ~OneThread
  BY <1>3, <1>s DEF OrderInv
<1> QED
  BY <1>1, <1>2, <1>3, WhatStays

-----------------------------------------------------------------------------
(* The inductive invariant of the test program *)

\* Before the last call of a test every task has been waited for, by main or by
\* a task that main has waited for.
FinishScript ==
  \A k \in Tasks : k \in Used \/ (\E j \in Used : k \in Submitted[j]) =>
    \/ \E n \in DOMAIN Script : n < Len(Script) /\ WaitsAt(n, k)
    \/ \E j \in Used : /\ k \in Awaited[j]
                       /\ \E n \in DOMAIN Script : n < Len(Script) /\ WaitsAt(n, j)

GoodScript == WaitScript /\ InOrderScript /\ FinishScript

TestInv ==
  /\ RunInv /\ KnownInv /\ EffectsInv /\ NumbersInv
  /\ MainInv /\ FifoInv /\ BarrierInv /\ WaitsInv /\ FirstInv /\ OrderInv

LEMMA TestInvInit ==
  ASSUME TestInit, Script \in Seq(AnyCall), InOrderScript PROVE TestInv
<1> USE DEF TestInit
<1>i. /\ at = 0 /\ barrier = {} /\ counter = 0 /\ passed = {} /\ waited = {}
      /\ body = [w \in Workers |-> "start"] /\ results = [k \in Tasks |-> -1]
      /\ taskQueue = <<>> /\ heap = [k \in Tasks |-> "fresh"]
      /\ finished = [k \in Tasks |-> FALSE]
      /\ myTask = [w \in Workers |-> NoTask]
  BY DEF Init
<1>b. \A k \in Tasks : ~Begun(k) /\ ~Ran(k)
  BY <1>i, PoolAssumption DEF Begun, Ran
<1>l. Len(Script) \in Nat /\ DOMAIN Script = 1 .. Len(Script)
  BY LenProperties
<1>1. PoolInv
  BY OwnershipInit, PointersInit DEF PoolInv
<1>2. TestTypes
  <2>1. at \in 0 .. Len(Script)
    BY <1>i, <1>l
  <2>2. counter \in Nat /\ results \in [Tasks -> Int]
    BY <1>i
  <2> QED
    BY <1>i, <2>1, <2>2 DEF TestTypes
<1>3. BodyInv
  BY <1>i DEF BodyInv
<1>4. KnownInv
  BY <1>i DEF KnownInv
<1>5. EffectsInv
  BY <1>b, <1>i DEF EffectsInv, Ran
<1>6. Given = {}
  BY <1>i DEF Given
<1>7. NumbersInv
  BY <1>6, <1>i, FS_EmptySet DEF NumbersInv
<1>8. \A n \in DOMAIN Script : SubmitsAt(n) => TaskAt(n) \in Tasks
  BY UsedAt, UsedTasks
<1>9. MainInv
  <2>1. \A n \in DOMAIN Script : at < n
    BY <1>i, <1>l
  <2> QED
    BY <1>8, <1>i, <2>1 DEF MainInv, Fresh
<1>10. FifoInv
  <2>1. DOMAIN taskQueue = {}
    BY <1>i
  <2> QED
    BY <1>8, <1>b, <2>1 DEF FifoInv, Ahead
<1>11. BarrierInv
  BY <1>b, <1>i, UsedTasks DEF BarrierInv
<1>12. WaitsInv
  <2>1. \A n \in DOMAIN Script : ~(n <= at)
    BY <1>i, <1>l
  <2>2. \A w \in Workers : body[w] # "end"
    BY <1>i
  <2> QED
    BY <1>i, <2>1, <2>2 DEF WaitsInv
<1>13. FirstInv
  BY <1>i DEF FirstInv
<1>14. OrderInv
  <2> SUFFICES ASSUME OneThread, NEW k \in Counting PROVE ~(Number(k) < counter)
    BY <1>6 DEF OrderInv
  <2>1. Number(k) \in Nat
    BY DEF InOrderScript, OneThread
  <2> QED
    BY <1>i, <2>1
<1> QED
  BY <1>1, <1>2, <1>3, <1>4, <1>5, <1>7, <1>9, <1>10, <1>11, <1>12, <1>13, <1>14
     DEF TestInv, RunInv

LEMMA TestInvStep ==
  ASSUME ~ReuseNames, GoodScript, TestInv, [TestNext]_allVars
  PROVE  TestInv'
<1> USE DEF TestInv, GoodScript
<1>o. /\ BarrierScript /\ OrderlyScript /\ WaitScript /\ InOrderScript
      /\ Script \in Seq(AnyCall)
  BY DEF WaitScript, BarrierScript, OrderlyScript
<1>t. test \in Tests /\ at \in Nat
  BY <1>o, LenProperties DEF RunInv, TestTypes
<1>p. PoolInv /\ OwnershipInv
  BY DEF RunInv, PoolInv
<1>1. TestSteps
  BY <1>o, <1>p, <1>t, StepsAreTestSteps
<1>2. PoolInv'
  BY <1>o, <1>p, <1>t, TestStepsAreSteps, OwnershipStep, PointersStep
     DEF PoolInv, OwnershipInv
<1>3. TestTypes'
  BY <1>o, <1>p, TestTypesStep DEF RunInv
<1>4. RunInv'
  BY <1>1, <1>2, <1>3, BodyStep DEF RunInv
<1>5. KnownInv'
  BY <1>1, <1>2, <1>3, <1>o, <1>p, KnownStep, ScriptStays DEF RunInv
<1>6. EffectsInv'
  BY <1>1, <1>4, <1>o, EffectsStep
<1>7. NumbersInv'
  BY <1>1, NumbersStep
<1>8. MainInv'
  BY <1>1, <1>o, MainStep
<1>9. FifoInv'
  BY <1>1, <1>o, FifoStep
<1>10. BarrierInv'
  BY <1>1, <1>4, <1>o, BarrierStep
<1>11. WaitsInv'
  BY <1>1, <1>4, <1>o, WaitsStep
<1>12. FirstInv'
  BY <1>1, <1>4, <1>o, FirstStep
<1>13. OrderInv'
  BY <1>1, <1>4, <1>o, OrderStep
<1> QED
  BY <1>4, <1>5, <1>6, <1>7, <1>8, <1>9, <1>10, <1>11, <1>12, <1>13

LEMMA TestTypeHolds ==
  ASSUME TestInv, Script \in Seq(AnyCall) PROVE TestTypeOK
<1> USE DEF TestInv, RunInv
<1> DEFINE c == Cardinality(Counting)
<1>1. IsFiniteSet(Counting) /\ Given \subseteq Counting
  BY CountingIsFinite, GivenCount DEF TestTypes
<1>2. c \in Nat /\ counter <= c
  BY <1>1, FS_CardinalityType, FS_Subset DEF NumbersInv
<1> HIDE DEF c
<1>3. counter \in 0 .. c
  BY <1>2 DEF TestTypes
<1>4. results \in [Tasks -> -1 .. c - 1]
  <2>1. ASSUME NEW k \in Tasks PROVE results[k] \in -1 .. c - 1
    <3>1. CASE results[k] = -1
      BY <1>2, <3>1
    <3>2. CASE results[k] # -1
      <4>1. results[k] \in 0 .. counter - 1 /\ counter \in Nat
        BY <3>2 DEF NumbersInv, Given, TestTypes
      <4> QED
        BY <1>2, <4>1
    <3> QED
      BY <3>1, <3>2
  <2> QED
    BY <2>1 DEF TestTypes
<1> QED
  BY <1>3, <1>4 DEF TestTypeOK, TestTypes, PoolInv, OwnershipInv, c

LEMMA BarrierHolds ==
  ASSUME TestInv, BarrierScript PROVE BarrierHoldsWorkers
<1> USE DEF TestInv, RunInv
<1> SUFFICES ASSUME NEW k \in Used, \E j \in Used : Label(j) = "barrier",
                    Label(k) # "barrier",
                    finished[k] \/ (\E w \in Workers : myTask[w] = k),
                    NEW j \in Used
             PROVE  heap[j] # "fresh"
  BY DEF BarrierHoldsWorkers
<1>1. Opened
  BY DEF BarrierInv, HasBarrier, Begun
<1> QED
  BY <1>1, OpenedAfterSubmits DEF Fresh

\* When main has made its last wait, all tasks of the test are deleted.
LEMMA AllAreGone ==
  ASSUME TestInv, GoodScript, AllWaited, NEW k \in Tasks,
         k \in Used \/ \E j \in Used : k \in Submitted[j]
  PROVE  Gone(k) /\ finished[k]
<1> USE DEF TestInv, RunInv
<1>1. ASSUME NEW n \in DOMAIN Script, n < Len(Script), NEW j \in Tasks, WaitsAt(n, j)
      PROVE  Gone(j) /\ finished[j]
  <2>1. Len(Script) \in Nat /\ n \in Nat /\ at \in Nat
    BY LenProperties
       DEF GoodScript, WaitScript, BarrierScript, OrderlyScript, TestTypes
  <2>2. at >= Len(Script) - 1 /\ pc[main] \in {"idle", "stopped"}
    BY DEF AllWaited
  <2>3. ~Awaiting(main, j)
    BY <2>2 DEF Awaiting
  <2>4. n <= at
    BY <1>1, <2>1, <2>2
  <2>5. Gone(j)
    BY <1>1, <2>3, <2>4 DEF WaitsInv
  <2> QED
    BY <2>5 DEF KnownInv, Gone
<1>2. CASE \E n \in DOMAIN Script : n < Len(Script) /\ WaitsAt(n, k)
  BY <1>1, <1>2
<1>3. CASE \E j \in Used : /\ k \in Awaited[j]
                           /\ \E n \in DOMAIN Script : n < Len(Script) /\ WaitsAt(n, j)
  <2>1. PICK j \in Used : /\ k \in Awaited[j]
                          /\ \E n \in DOMAIN Script : n < Len(Script) /\ WaitsAt(n, j)
    BY <1>3
  <2>2. j \in Tasks /\ finished[j]
    BY <1>1, <2>1, UsedTasks DEF TestTypes
  <2>3. Gone(k)
    BY <2>1, <2>2 DEF WaitsInv
  <2> QED
    BY <2>3 DEF KnownInv, Gone
<1> QED
  BY <1>2, <1>3 DEF GoodScript, FinishScript

LEMMA ChecksHold ==
  ASSUME TestInv, GoodScript PROVE ChecksPass
<1> USE DEF TestInv, RunInv
<1> SUFFICES ASSUME AllWaited
             PROVE  /\ counter = Cardinality(Counting)
                    /\ {results[k] : k \in Counting} = 0 .. Cardinality(Counting) - 1
                    /\ test.name = "run in order" =>
                         \E k \in Counting : Number(k) < thread_count /\ results[k] = 0
                    /\ test.name = "run in order" /\ thread_count = 1 =>
                         \A k \in Counting : results[k] = Number(k)
                    /\ \A k \in Used :
                         /\ Label(k) = "barrier" => k \in passed
                         /\ Label(k) = "wait" => k \in waited
                         /\ heap[k] = "deleted"
  BY DEF ChecksPass
<1>s. Script \in Seq(AnyCall) /\ Used \subseteq Tasks
  BY UsedTasks DEF GoodScript, WaitScript, BarrierScript, OrderlyScript, TestTypes
<1>1. Given = Counting
  <2>1. Given \subseteq Counting
    BY GivenCount
  <2>2. ASSUME NEW k \in Counting PROVE k \in Given
    <3>1. k \in Tasks /\ Counts(k) /\ finished[k]
      BY AllAreGone DEF Counting
    <3> QED
      BY <3>1 DEF EffectsInv, Ran, Given
  <2> QED
    BY <2>1, <2>2
<1>2. counter = Cardinality(Counting)
  BY <1>1 DEF NumbersInv
<1>3. {results[k] : k \in Counting} = 0 .. Cardinality(Counting) - 1
  BY <1>1, <1>2 DEF NumbersInv
<1>4. ASSUME TestOfOrder
      PROVE  \E k \in Counting : Number(k) < thread_count /\ results[k] = 0
  <2>1. Counting # {} /\ IsFiniteSet(Counting)
    BY <1>1, <1>4 DEF GoodScript, InOrderScript, NumbersInv
  <2>2. counter # 0
    BY <1>2, <2>1, FS_EmptySet
  <2> QED
    BY <1>4, <2>2 DEF FirstInv
<1>5. ASSUME NEW k \in Used
      PROVE  /\ Label(k) = "barrier" => k \in passed
             /\ Label(k) = "wait" => k \in waited
             /\ heap[k] = "deleted"
  <2>1. k \in Tasks /\ Gone(k) /\ finished[k]
    BY <1>s, AllAreGone
  <2> QED
    BY <2>1 DEF EffectsInv, Ran, Gone
<1>6. ASSUME OneThread PROVE \A k \in Counting : results[k] = Number(k)
  BY <1>1, <1>6 DEF OrderInv
<1> QED
  BY <1>2, <1>3, <1>4, <1>5, <1>6 DEF TestOfOrder, OneThread

-----------------------------------------------------------------------------
(* The scripts, call by call *)

\* p is the part of s behind position from.
PartAt(s, from, p) == \A m \in 1 .. Len(p) : s[from + m] = p[m]

LEMMA Joining ==
  ASSUME NEW X, NEW s \in Seq(X), NEW p \in Seq(X)
  PROVE  /\ s \o p \in Seq(X) /\ Len(s \o p) = Len(s) + Len(p)
         /\ PartAt(s \o p, 0, s)
         /\ PartAt(s \o p, Len(s), p)
<1>1. /\ s \o p \in Seq(X) /\ Len(s \o p) = Len(s) + Len(p)
      /\ \A i \in 1 .. Len(s) + Len(p) :
           (s \o p)[i] = IF i <= Len(s) THEN s[i] ELSE p[i - Len(s)]
  BY ConcatProperties
<1>2. Len(s) \in Nat /\ Len(p) \in Nat
  BY LenProperties
<1> DEFINE q == s \o p
           a == Len(s)
           b == Len(p)
<1>3. \A i \in 1 .. a + b : q[i] = IF i <= a THEN s[i] ELSE p[i - a]
  BY <1>1
<1>4. a \in Nat /\ b \in Nat
  BY <1>2
<1> HIDE DEF q, a, b
<1>5. \A m \in 1 .. a : q[0 + m] = s[m]
  BY <1>3, <1>4
<1>6. \A m \in 1 .. b : q[a + m] = p[m]
  <2> SUFFICES ASSUME NEW m \in 1 .. b PROVE q[a + m] = p[m]
    OBVIOUS
  <2> DEFINE n == a + m
  <2>1. n \in 1 .. a + b /\ ~(n <= a) /\ n - a = m
    BY <1>4
  <2> HIDE DEF n
  <2>2. q[n] = p[n - a]
    BY <1>3, <2>1
  <2> QED
    BY <2>1, <2>2 DEF n
<1> QED
  BY <1>1, <1>5, <1>6 DEF PartAt, q, a, b

\* q is how s begins.
Begins(q, s) == Len(q) <= Len(s) /\ \A m \in 1 .. Len(q) : s[m] = q[m]

LEMMA BeginsOn ==
  ASSUME NEW X, NEW q \in Seq(X), NEW r \in Seq(X), NEW s \in Seq(X),
         Begins(q, r), Begins(r, s)
  PROVE  Begins(q, s)
<1> DEFINE a == Len(q)
           b == Len(r)
           c == Len(s)
<1>1. a \in Nat /\ b \in Nat /\ c \in Nat
  BY LenProperties
<1>2. /\ a <= b /\ b <= c
      /\ \A m \in 1 .. a : r[m] = q[m]
      /\ \A m \in 1 .. b : s[m] = r[m]
  BY DEF Begins
<1> HIDE DEF a, b, c
<1>3. a <= c /\ \A m \in 1 .. a : m \in 1 .. b
  BY <1>1, <1>2
<1>4. \A m \in 1 .. a : s[m] = q[m]
  BY <1>2, <1>3
<1> QED
  BY <1>3, <1>4 DEF Begins, a, c

LEMMA PartOfBegin ==
  ASSUME NEW X, NEW q \in Seq(X), NEW s \in Seq(X), Begins(q, s), NEW p \in Seq(X),
         NEW from \in Nat, from + Len(p) <= Len(q), PartAt(q, from, p)
  PROVE  PartAt(s, from, p)
<1>1. Len(q) \in Nat /\ Len(p) \in Nat
  BY LenProperties
<1> DEFINE a == Len(q)
           b == Len(p)
<1>2. /\ a \in Nat /\ b \in Nat /\ from + b <= a
      /\ \A m \in 1 .. a : s[m] = q[m]
      /\ \A m \in 1 .. b : q[from + m] = p[m]
  BY <1>1 DEF Begins, PartAt
<1> HIDE DEF a, b
<1>3. ASSUME NEW m \in 1 .. b PROVE s[from + m] = p[m]
  <2>1. from + m \in 1 .. a
    BY <1>2
  <2> QED
    BY <1>2, <2>1
<1> QED
  BY <1>3 DEF PartAt, b

LEMMA JoinBegins ==
  ASSUME NEW X, NEW q \in Seq(X), NEW p \in Seq(X)
  PROVE  Begins(q, q \o p)
<1>1. PartAt(q \o p, 0, q) /\ Len(q \o p) = Len(q) + Len(p)
      /\ Len(q) \in Nat /\ Len(p) \in Nat
  BY Joining, LenProperties
<1>2. \A m \in 1 .. Len(q) : 0 + m = m
  BY <1>1
<1> QED
  BY <1>1, <1>2 DEF PartAt, Begins

\* One more part behind a sequence of length n: where it is, and that the parts
\* before it are where they were.
Holds(X, s, n) == s \in Seq(X) /\ Len(s) = n /\ n \in Nat

LEMMA OnePart ==
  ASSUME NEW X, NEW q, NEW n, Holds(X, q, n), NEW p \in Seq(X),
         NEW m, m = n + Len(p)
  PROVE  Holds(X, q \o p, m) /\ PartAt(q \o p, n, p) /\ Begins(q, q \o p)
<1>1. q \in Seq(X) /\ Len(q) = n /\ n \in Nat
  BY DEF Holds
<1>2. q \o p \in Seq(X) /\ Len(q \o p) = Len(q) + Len(p) /\ PartAt(q \o p, Len(q), p)
  BY <1>1, Joining
<1>3. Len(p) \in Nat
  BY LenProperties
<1>4. Begins(q, q \o p)
  BY <1>1, JoinBegins
<1>5. Len(q \o p) = m /\ m \in Nat
  BY <1>1, <1>2, <1>3
<1> QED
  BY <1>1, <1>2, <1>4, <1>5 DEF Holds

LEMMA PartStays ==
  ASSUME NEW X, NEW q, NEW s, NEW n, NEW m, NEW l, NEW p \in Seq(X),
         l \in Nat, Holds(X, q, n), n = l + Len(p), PartAt(q, l, p),
         Holds(X, s, m), Begins(q, s)
  PROVE  PartAt(s, l, p)
<1>1. q \in Seq(X) /\ s \in Seq(X) /\ l + Len(p) <= Len(q)
  BY DEF Holds
<1> QED
  BY <1>1, PartOfBegin

LEMMA BeginStays ==
  ASSUME NEW X, NEW q, NEW r, NEW s, NEW n, NEW m, NEW l,
         Holds(X, q, n), Holds(X, r, m), Holds(X, s, l), Begins(q, r), Begins(r, s)
  PROVE  Begins(q, s)
<1>1. q \in Seq(X) /\ r \in Seq(X) /\ s \in Seq(X)
  BY DEF Holds
<1> QED
  BY <1>1, BeginsOn

\* Where the parts of a script end.
Ordered(e1, e2, e3, e4, e5, e6, e7) ==
  /\ e1 \in Nat /\ e2 \in Nat /\ e3 \in Nat /\ e4 \in Nat /\ e5 \in Nat
  /\ e6 \in Nat /\ e7 \in Nat
  /\ e1 <= e2 /\ e2 <= e3 /\ e3 <= e4 /\ e4 <= e5 /\ e5 <= e6 /\ e6 <= e7

Ends(X, s, p1, p2, p3, p4, p5, p6, p7, p8, e1, e2, e3, e4, e5, e6, e7, e8) ==
  /\ s = p1 \o p2 \o p3 \o p4 \o p5 \o p6 \o p7 \o p8
  /\ p1 \in Seq(X) /\ p2 \in Seq(X) /\ p3 \in Seq(X) /\ p4 \in Seq(X)
  /\ p5 \in Seq(X) /\ p6 \in Seq(X) /\ p7 \in Seq(X) /\ p8 \in Seq(X)
  /\ e1 = Len(p1) /\ e2 = e1 + Len(p2) /\ e3 = e2 + Len(p3) /\ e4 = e3 + Len(p4)
  /\ e5 = e4 + Len(p5) /\ e6 = e5 + Len(p6) /\ e7 = e6 + Len(p7) /\ e8 = e7 + Len(p8)

LEMMA EightParts ==
  ASSUME NEW X, NEW s, NEW p1, NEW p2, NEW p3, NEW p4, NEW p5, NEW p6, NEW p7, NEW p8,
         NEW e1, NEW e2, NEW e3, NEW e4, NEW e5, NEW e6, NEW e7, NEW e8,
         Ends(X, s, p1, p2, p3, p4, p5, p6, p7, p8, e1, e2, e3, e4, e5, e6, e7, e8)
  PROVE  /\ Holds(X, s, e8)
         /\ PartAt(s, 0, p1) /\ PartAt(s, e1, p2) /\ PartAt(s, e2, p3)
         /\ PartAt(s, e3, p4) /\ PartAt(s, e4, p5) /\ PartAt(s, e5, p6)
         /\ PartAt(s, e6, p7) /\ PartAt(s, e7, p8)
         /\ Ordered(e1, e2, e3, e4, e5, e6, e7) /\ e7 <= e8
<1> USE DEF Ends
<1> DEFINE q2 == p1 \o p2
           q3 == q2 \o p3
           q4 == q3 \o p4
           q5 == q4 \o p5
           q6 == q5 \o p6
           q7 == q6 \o p7
<1>0. Holds(X, p1, e1)
  BY LenProperties DEF Holds
<1>1. s = q7 \o p8
  OBVIOUS
<1>2. Holds(X, q2, e2) /\ PartAt(q2, e1, p2) /\ Begins(p1, q2)
  BY <1>0, OnePart
<1> HIDE DEF q2
<1>3. Holds(X, q3, e3) /\ PartAt(q3, e2, p3) /\ Begins(q2, q3)
  BY <1>2, OnePart
<1> HIDE DEF q3
<1>4. Holds(X, q4, e4) /\ PartAt(q4, e3, p4) /\ Begins(q3, q4)
  BY <1>3, OnePart
<1> HIDE DEF q4
<1>5. Holds(X, q5, e5) /\ PartAt(q5, e4, p5) /\ Begins(q4, q5)
  BY <1>4, OnePart
<1> HIDE DEF q5
<1>6. Holds(X, q6, e6) /\ PartAt(q6, e5, p6) /\ Begins(q5, q6)
  BY <1>5, OnePart
<1> HIDE DEF q6
<1>7. Holds(X, q7, e7) /\ PartAt(q7, e6, p7) /\ Begins(q6, q7)
  BY <1>6, OnePart
<1> HIDE DEF q7
<1>8. Holds(X, s, e8) /\ PartAt(s, e7, p8) /\ Begins(q7, s)
  BY <1>1, <1>7, OnePart
<1>9. Begins(q6, s)
  BY <1>6, <1>7, <1>8, BeginStays
<1>10. Begins(q5, s)
  BY <1>5, <1>6, <1>8, <1>9, BeginStays
<1>11. Begins(q4, s)
  BY <1>4, <1>5, <1>8, <1>10, BeginStays
<1>12. Begins(q3, s)
  BY <1>3, <1>4, <1>8, <1>11, BeginStays
<1>13. Begins(q2, s)
  BY <1>2, <1>3, <1>8, <1>12, BeginStays
<1>14. Begins(p1, s)
  BY <1>0, <1>2, <1>8, <1>13, BeginStays
<1>l. /\ e1 \in Nat /\ e2 \in Nat /\ e3 \in Nat /\ e4 \in Nat /\ e5 \in Nat
      /\ e6 \in Nat
  BY <1>0, <1>2, <1>3, <1>4, <1>5, <1>6 DEF Holds
<1>15. PartAt(s, e6, p7)
  BY <1>l, <1>7, <1>8, PartStays
<1>16. PartAt(s, e5, p6)
  BY <1>l, <1>6, <1>8, <1>9, PartStays
<1>17. PartAt(s, e4, p5)
  BY <1>l, <1>5, <1>8, <1>10, PartStays
<1>18. PartAt(s, e3, p4)
  BY <1>l, <1>4, <1>8, <1>11, PartStays
<1>19. PartAt(s, e2, p3)
  BY <1>l, <1>3, <1>8, <1>12, PartStays
<1>20. PartAt(s, e1, p2)
  BY <1>l, <1>2, <1>8, <1>13, PartStays
<1>21. PartAt(s, 0, p1)
  <2>1. \A m \in 1 .. Len(p1) : 0 + m = m
    BY <1>0 DEF Holds
  <2> QED
    BY <1>14, <2>1 DEF PartAt, Begins
<1>22. Ordered(e1, e2, e3, e4, e5, e6, e7) /\ e7 <= e8
  <2>1. /\ Len(p1) \in Nat /\ Len(p2) \in Nat /\ Len(p3) \in Nat /\ Len(p4) \in Nat
    BY LenProperties
  <2>2. /\ Len(p5) \in Nat /\ Len(p6) \in Nat /\ Len(p7) \in Nat /\ Len(p8) \in Nat
    BY LenProperties
  <2>3. /\ e1 = Len(p1) /\ e2 = e1 + Len(p2) /\ e3 = e2 + Len(p3)
        /\ e4 = e3 + Len(p4)
    OBVIOUS
  <2>4. /\ e5 = e4 + Len(p5) /\ e6 = e5 + Len(p6) /\ e7 = e6 + Len(p7)
        /\ e8 = e7 + Len(p8)
    OBVIOUS
  <2> HIDE DEF Ends
  <2>5. /\ e1 \in Nat /\ e2 \in Nat /\ e3 \in Nat /\ e4 \in Nat
        /\ e1 <= e2 /\ e2 <= e3 /\ e3 <= e4
    BY <2>1, <2>3
  <2>6. /\ e5 \in Nat /\ e6 \in Nat /\ e7 \in Nat /\ e8 \in Nat
        /\ e4 <= e5 /\ e5 <= e6 /\ e6 <= e7 /\ e7 <= e8
    BY <2>2, <2>4, <2>5
  <2> QED
    BY <2>5, <2>6 DEF Ordered
<1> QED
  BY <1>8, <1>15, <1>16, <1>17, <1>18, <1>19, <1>20, <1>21, <1>22

OpCalls(p, op, label) ==
  \A m \in 1 .. Len(p) : p[m].op = op /\ p[m].task = <<label, m - 1>>

LEMMA CallsPart ==
  ASSUME NEW op \in {"submit", "wait", "barrier", "stop"}, NEW label \in Labels,
         NEW count \in Nat
  PROVE  /\ Calls(op, label, count) \in Seq(AnyCall)
         /\ Len(Calls(op, label, count)) = count
         /\ OpCalls(Calls(op, label, count), op, label)
<1> DEFINE f == Calls(op, label, count)
<1>1. f = [m \in 1 .. count |-> [op |-> op, task |-> <<label, m - 1>>]]
  BY DEF Calls
<1>2. ASSUME NEW m \in 1 .. count
      PROVE  /\ f[m].op = op /\ f[m].task = <<label, m - 1>>
             /\ f[m] \in AnyCall
  <2> DEFINE i == m - 1
             k == <<label, i>>
             c == [op |-> op, task |-> k]
  <2>1. i \in Int
    OBVIOUS
  <2>2. f[m] = c
    BY <1>1
  <2> HIDE DEF i
  <2>3. k \in Labels \X Int
    BY <2>1
  <2> HIDE DEF k, f
  <2>4. c \in AnyCall
    BY <2>3 DEF AnyCall
  <2> HIDE DEF c
  <2>5. f[m] \in AnyCall
    BY <2>2, <2>4
  <2>6. c.op = op /\ c.task = k
    BY DEF c
  <2> QED
    BY <2>2, <2>5, <2>6 DEF k, i
<1> HIDE DEF f
<1>3. f \in [1 .. count -> AnyCall]
  BY <1>1, <1>2
<1>4. f \in Seq(AnyCall) /\ Len(f) = count
  BY <1>3, SeqDef, LenProperties
<1>5. OpCalls(f, op, label)
  BY <1>2, <1>4, Zenon DEF OpCalls
<1> QED
  BY <1>4, <1>5 DEF f

LEMMA CallPart ==
  ASSUME NEW op \in {"submit", "wait", "barrier", "stop"}
  PROVE  /\ Call(op, NoTask) \in Seq(AnyCall)
         /\ Len(Call(op, NoTask)) = 1
         /\ Call(op, NoTask)[1].op = op
<1> DEFINE c == [op |-> op, task |-> NoTask]
<1>1. c \in AnyCall
  BY DEF AnyCall
<1>2. c.op = op
  OBVIOUS
<1> HIDE DEF c
<1>3. <<c>> \in Seq(AnyCall) /\ Len(<<c>>) = 1 /\ <<c>>[1] = c
  BY <1>1
<1> QED
  BY <1>2, <1>3 DEF Call, c

LEMMA NoPart ==
  /\ <<>> \in Seq(AnyCall) /\ Len(<<>>) = 0
OBVIOUS

\* A sequence backwards.
LEMMA ReversePart ==
  ASSUME NEW X, NEW s \in Seq(X)
  PROVE  /\ Reverse(s) \in Seq(X) /\ Len(Reverse(s)) = Len(s)
         /\ \A m \in 1 .. Len(s) : Reverse(s)[m] = s[Len(s) - m + 1]
<1> DEFINE n == Len(s)
           f == Reverse(s)
<1>1. n \in Nat /\ \A m \in 1 .. n : s[m] \in X
  BY LenProperties, ElementOfSeq
<1>2. f = [m \in 1 .. n |-> s[(n - m) + 1]]
  BY DEF Reverse
<1> HIDE DEF n, f
<1>3. \A m \in 1 .. n : (n - m) + 1 \in 1 .. n
  BY <1>1
<1>4. f \in [1 .. n -> X]
  BY <1>1, <1>2, <1>3
<1>5. f \in Seq(X) /\ Len(f) = n
  BY <1>1, <1>4, SeqDef, LenProperties
<1> QED
  BY <1>2, <1>5 DEF n, f

LEMMA BothPart ==
  ASSUME NEW count \in Nat
  PROVE  /\ WaitsForBoth(count) \in Seq(AnyCall)
         /\ Len(WaitsForBoth(count)) = 2 * count
         /\ \A m \in 1 .. 2 * count :
              /\ WaitsForBoth(count)[m].op = "wait"
              /\ WaitsForBoth(count)[m].task =
                   <<IF m % 2 = 1 THEN "submit" ELSE "incr", count - (m + 1) \div 2>>
<1> DEFINE f == WaitsForBoth(count)
           label(m) == IF m % 2 = 1 THEN "submit" ELSE "incr"
           i(m) == count - (m + 1) \div 2
           n == 2 * count
<1>1. f = [m \in 1 .. n |-> [op |-> "wait", task |-> <<label(m), i(m)>>]]
  BY DEF WaitsForBoth
<1>2. ASSUME NEW m \in 1 .. n
      PROVE  /\ f[m].op = "wait" /\ f[m].task = <<label(m), i(m)>>
             /\ f[m] \in AnyCall
  <2> DEFINE k == <<label(m), i(m)>>
             c == [op |-> "wait", task |-> k]
  <2>1. i(m) \in Int
    OBVIOUS
  <2>2. f[m] = c
    BY <1>1
  <2>0. label(m) \in Labels
    BY Zenon DEF Labels
  <2> HIDE DEF i, label
  <2>3. k \in Labels \X Int
    BY <2>0, <2>1
  <2> HIDE DEF k, f
  <2>4. c \in AnyCall
    BY <2>3 DEF AnyCall
  <2> HIDE DEF c
  <2>5. f[m] \in AnyCall
    BY <2>2, <2>4
  <2>6. c.op = "wait" /\ c.task = k
    BY DEF c
  <2> QED
    BY <2>2, <2>5, <2>6 DEF k
<1>n. n \in Nat
  OBVIOUS
<1> HIDE DEF f, n
<1>3. f \in [1 .. n -> AnyCall]
  BY <1>1, <1>2
<1>4. f \in Seq(AnyCall) /\ Len(f) = n
  BY <1>n, <1>3, SeqDef, LenProperties
<1> QED
  BY <1>2, <1>4 DEF f, n

-----------------------------------------------------------------------------
(* The parts of the script of a test *)

\* Calls that submit the tasks with a label, that wait for the tasks of a set,
\* that go to the barrier and that stop the pool.
SubmitCalls(p, label) ==
  \A m \in 1 .. Len(p) : p[m].op = "submit" /\ p[m].task = <<label, m - 1>>
WaitCalls(p, K) ==
  /\ \A m \in 1 .. Len(p) : p[m].op = "wait" /\ p[m].task \in K
  /\ \A k \in K : \E m \in 1 .. Len(p) : p[m].task = k
MeetCalls(p) == \A m \in 1 .. Len(p) : p[m].op = "barrier"
StopCalls(p) == \A m \in 1 .. Len(p) : p[m].op = "stop"

\* The same, as calls number f + 1 to e of the script.
SubmitPart(f, e, label) ==
  \A n \in f + 1 .. e : SubmitsAt(n) /\ TaskAt(n) = <<label, n - f - 1>>
WaitPart(f, e, K) ==
  /\ \A n \in f + 1 .. e : WaitsAt(n, TaskAt(n)) /\ TaskAt(n) \in K
  /\ \A k \in K : \E n \in f + 1 .. e : WaitsAt(n, k)
MeetPart(f, e) == \A n \in f + 1 .. e : MeetsAt(n)
StopsAt(n) == n \in DOMAIN Script /\ Script[n].op = "stop"
StopPart(f, e) == \A n \in f + 1 .. e : StopsAt(n)

LEMMA OneKind ==
  ASSUME NEW n
  PROVE  /\ SubmitsAt(n) => ~MeetsAt(n) /\ ~StopsAt(n) /\ \A k : ~WaitsAt(n, k)
         /\ MeetsAt(n) => \A k : ~WaitsAt(n, k)
         /\ StopsAt(n) => ~MeetsAt(n) /\ \A k : ~WaitsAt(n, k)
         /\ \A k : WaitsAt(n, k) => k = TaskAt(n)
BY DEF SubmitsAt, MeetsAt, StopsAt, WaitsAt, TaskAt

\* Call number n of the script is call number n - f of the part behind f.
LEMMA InPart ==
  ASSUME NEW l \in Nat, Holds(AnyCall, Script, l), NEW p \in Seq(AnyCall),
         NEW f \in Nat, NEW e \in Nat, e = f + Len(p), e <= l, PartAt(Script, f, p),
         NEW n \in f + 1 .. e
  PROVE  n \in DOMAIN Script /\ n - f \in 1 .. Len(p) /\ Script[n] = p[n - f]
<1>1. Len(p) \in Nat
  BY LenProperties
<1>2. n \in 1 .. l /\ n - f \in 1 .. Len(p) /\ f + (n - f) = n
  BY <1>1
<1>3. n \in DOMAIN Script
  BY <1>2, LenProperties DEF Holds
<1> DEFINE m == n - f
<1>4. m \in 1 .. Len(p) /\ f + m = n
  BY <1>2
<1> HIDE DEF m
<1>5. Script[f + m] = p[m]
  BY <1>4 DEF PartAt
<1> QED
  BY <1>2, <1>3, <1>4, <1>5 DEF m

LEMMA PartsOfScript ==
  ASSUME NEW l \in Nat, Holds(AnyCall, Script, l), NEW p \in Seq(AnyCall),
         NEW f \in Nat, NEW e \in Nat, e = f + Len(p), e <= l, PartAt(Script, f, p)
  PROVE  /\ \A label : SubmitCalls(p, label) => SubmitPart(f, e, label)
         /\ \A K : WaitCalls(p, K) => WaitPart(f, e, K)
         /\ MeetCalls(p) => MeetPart(f, e)
         /\ StopCalls(p) => StopPart(f, e)
<1>l. Len(p) \in Nat
  BY LenProperties
<1>1. ASSUME NEW n \in f + 1 .. e
      PROVE  n \in DOMAIN Script /\ n - f \in 1 .. Len(p) /\ Script[n] = p[n - f]
  BY InPart
<1>2. ASSUME NEW label, SubmitCalls(p, label), NEW n \in f + 1 .. e
      PROVE  SubmitsAt(n) /\ TaskAt(n) = <<label, n - f - 1>>
  <2> DEFINE m == n - f
             i == n - f - 1
  <2>1. n \in DOMAIN Script /\ m \in 1 .. Len(p) /\ Script[n] = p[m] /\ m - 1 = i
    BY <1>1
  <2> HIDE DEF m, i
  <2>2. p[m].op = "submit" /\ p[m].task = <<label, m - 1>>
    BY <1>2, <2>1 DEF SubmitCalls
  <2>3. SubmitsAt(n) /\ TaskAt(n) = <<label, i>>
    BY <2>1, <2>2 DEF SubmitsAt, TaskAt
  <2> QED
    BY <2>3 DEF i
<1>3. ASSUME NEW K, WaitCalls(p, K) PROVE WaitPart(f, e, K)
  <2>1. ASSUME NEW n \in f + 1 .. e PROVE WaitsAt(n, TaskAt(n)) /\ TaskAt(n) \in K
    <3> DEFINE m == n - f
    <3>1. n \in DOMAIN Script /\ m \in 1 .. Len(p) /\ Script[n] = p[m]
      BY <1>1
    <3> HIDE DEF m
    <3>2. p[m].op = "wait" /\ p[m].task \in K
      BY <1>3, <3>1 DEF WaitCalls
    <3> QED
      BY <3>1, <3>2 DEF WaitsAt, TaskAt
  <2>2. ASSUME NEW k \in K PROVE \E n \in f + 1 .. e : WaitsAt(n, k)
    <3>1. PICK m \in 1 .. Len(p) : p[m].task = k
      BY <1>3 DEF WaitCalls
    <3> DEFINE n == f + m
    <3>2. n \in f + 1 .. e /\ n - f = m
      BY <1>l
    <3> HIDE DEF n
    <3>3. Script[n] = p[m]
      BY <1>1, <3>2
    <3>4. TaskAt(n) = k
      BY <3>1, <3>3 DEF TaskAt
    <3> QED
      BY <2>1, <3>2, <3>4
  <2> QED
    BY <2>1, <2>2 DEF WaitPart
<1>4. ASSUME MeetCalls(p), NEW n \in f + 1 .. e PROVE MeetsAt(n)
  <2> DEFINE m == n - f
  <2>1. n \in DOMAIN Script /\ m \in 1 .. Len(p) /\ Script[n] = p[m]
    BY <1>1
  <2> HIDE DEF m
  <2> QED
    BY <1>4, <2>1 DEF MeetsAt, MeetCalls
<1>5. ASSUME StopCalls(p), NEW n \in f + 1 .. e PROVE StopsAt(n)
  <2> DEFINE m == n - f
  <2>1. n \in DOMAIN Script /\ m \in 1 .. Len(p) /\ Script[n] = p[m]
    BY <1>1
  <2> HIDE DEF m
  <2> QED
    BY <1>5, <2>1 DEF StopsAt, StopCalls
<1> QED
  BY <1>2, <1>3, <1>4, <1>5 DEF SubmitPart, MeetPart, StopPart

\* Every test submits tasks of at most three labels, waits before it submits the
\* second, or goes to the barrier and waits after the third, and stops the pool.
Layout(l1, l2, l3, e1, e2, e3, e4, e5, e6, e7, K1, K2, K3) ==
  /\ Ordered(e1, e2, e3, e4, e5, e6, e7) /\ Holds(AnyCall, Script, e7 + 1)
  /\ SubmitPart(0, e1, l1) /\ WaitPart(e1, e2, K1) /\ SubmitPart(e2, e3, l2)
  /\ SubmitPart(e3, e4, l3) /\ MeetPart(e4, e5) /\ WaitPart(e5, e6, K2)
  /\ WaitPart(e6, e7, K3) /\ StopPart(e7, e7 + 1)

LEMMA LayoutOf ==
  ASSUME NEW p1, NEW p2, NEW p3, NEW p4, NEW p5, NEW p6, NEW p7, NEW p8,
         NEW e1, NEW e2, NEW e3, NEW e4, NEW e5, NEW e6, NEW e7, NEW l,
         Ends(AnyCall, Script, p1, p2, p3, p4, p5, p6, p7, p8,
              e1, e2, e3, e4, e5, e6, e7, l),
         Len(p8) = 1,
         NEW l1, NEW l2, NEW l3, NEW K1, NEW K2, NEW K3,
         SubmitCalls(p1, l1), WaitCalls(p2, K1), SubmitCalls(p3, l2),
         SubmitCalls(p4, l3), MeetCalls(p5), WaitCalls(p6, K2), WaitCalls(p7, K3),
         StopCalls(p8)
  PROVE  Layout(l1, l2, l3, e1, e2, e3, e4, e5, e6, e7, K1, K2, K3)
<1>1. /\ Holds(AnyCall, Script, l)
      /\ PartAt(Script, 0, p1) /\ PartAt(Script, e1, p2) /\ PartAt(Script, e2, p3)
      /\ PartAt(Script, e3, p4) /\ PartAt(Script, e4, p5) /\ PartAt(Script, e5, p6)
      /\ PartAt(Script, e6, p7) /\ PartAt(Script, e7, p8)
      /\ Ordered(e1, e2, e3, e4, e5, e6, e7) /\ e7 <= l
  BY EightParts
<1>2. l = e7 + 1
  BY DEF Ends
<1>3. /\ e1 \in Nat /\ e2 \in Nat /\ e3 \in Nat /\ e4 \in Nat /\ e5 \in Nat
      /\ e6 \in Nat /\ e7 \in Nat /\ l \in Nat /\ l <= l /\ 0 \in Nat
      /\ e1 <= l /\ e2 <= l /\ e3 <= l /\ e4 <= l /\ e5 <= l /\ e6 <= l
  BY <1>1, <1>2 DEF Ordered
<1>4. SubmitPart(0, e1, l1)
  <2>1. e1 = 0 + Len(p1) /\ p1 \in Seq(AnyCall)
    BY <1>3 DEF Ends
  <2> QED
    BY <1>1, <1>3, <2>1, PartsOfScript
<1>5. WaitPart(e1, e2, K1)
  <2>1. e2 = e1 + Len(p2) /\ p2 \in Seq(AnyCall)
    BY DEF Ends
  <2> QED
    BY <1>1, <1>3, <2>1, PartsOfScript
<1>6. SubmitPart(e2, e3, l2)
  <2>1. e3 = e2 + Len(p3) /\ p3 \in Seq(AnyCall)
    BY DEF Ends
  <2> QED
    BY <1>1, <1>3, <2>1, PartsOfScript
<1>7. SubmitPart(e3, e4, l3)
  <2>1. e4 = e3 + Len(p4) /\ p4 \in Seq(AnyCall)
    BY DEF Ends
  <2> QED
    BY <1>1, <1>3, <2>1, PartsOfScript
<1>8. MeetPart(e4, e5)
  <2>1. e5 = e4 + Len(p5) /\ p5 \in Seq(AnyCall)
    BY DEF Ends
  <2> QED
    BY <1>1, <1>3, <2>1, PartsOfScript
<1>9. WaitPart(e5, e6, K2)
  <2>1. e6 = e5 + Len(p6) /\ p6 \in Seq(AnyCall)
    BY DEF Ends
  <2> QED
    BY <1>1, <1>3, <2>1, PartsOfScript
<1>10. WaitPart(e6, e7, K3)
  <2>1. e7 = e6 + Len(p7) /\ p7 \in Seq(AnyCall)
    BY DEF Ends
  <2> QED
    BY <1>1, <1>3, <2>1, PartsOfScript
<1>11. StopPart(e7, l)
  <2>1. l = e7 + Len(p8) /\ p8 \in Seq(AnyCall)
    BY DEF Ends
  <2> QED
    BY <1>1, <1>3, <2>1, PartsOfScript
<1> QED
  BY <1>1, <1>2, <1>4, <1>5, <1>6, <1>7, <1>8, <1>9, <1>10, <1>11 DEF Layout

\* The calls of a script by their place in it.
LEMMA LayoutCalls ==
  ASSUME NEW l1, NEW l2, NEW l3, NEW e1, NEW e2, NEW e3, NEW e4, NEW e5, NEW e6,
         NEW e7, NEW K1, NEW K2, NEW K3,
         Layout(l1, l2, l3, e1, e2, e3, e4, e5, e6, e7, K1, K2, K3),
         NEW n \in DOMAIN Script
  PROVE  /\ n \in Nat /\ n > 0 /\ n <= e7 + 1 /\ Len(Script) = e7 + 1
         /\ SubmitsAt(n) => \/ n \in 0 + 1 .. e1 \/ n \in e2 + 1 .. e3
                            \/ n \in e3 + 1 .. e4
         /\ MeetsAt(n) => n \in e4 + 1 .. e5
         /\ \A k : WaitsAt(n, k) => \/ n \in e1 + 1 .. e2 /\ k \in K1
                                    \/ n \in e5 + 1 .. e6 /\ k \in K2
                                    \/ n \in e6 + 1 .. e7 /\ k \in K3
<1>1. Script \in Seq(AnyCall) /\ Len(Script) = e7 + 1
  BY DEF Layout, Holds
<1>2. n \in 1 .. e7 + 1
  BY <1>1, LenProperties
<1>3. Ordered(e1, e2, e3, e4, e5, e6, e7)
  BY DEF Layout
<1>4. \/ n \in 0 + 1 .. e1 \/ n \in e1 + 1 .. e2 \/ n \in e2 + 1 .. e3
      \/ n \in e3 + 1 .. e4 \/ n \in e4 + 1 .. e5 \/ n \in e5 + 1 .. e6
      \/ n \in e6 + 1 .. e7 \/ n \in e7 + 1 .. e7 + 1
  BY <1>2, <1>3 DEF Ordered
<1>5. n \in Nat /\ n > 0 /\ n <= e7 + 1
  BY <1>2, <1>3 DEF Ordered
<1>6. /\ n \in 0 + 1 .. e1 \/ n \in e2 + 1 .. e3 \/ n \in e3 + 1 .. e4 => SubmitsAt(n)
      /\ n \in e4 + 1 .. e5 => MeetsAt(n)
      /\ n \in e7 + 1 .. e7 + 1 => StopsAt(n)
      /\ n \in e1 + 1 .. e2 => WaitsAt(n, TaskAt(n)) /\ TaskAt(n) \in K1
      /\ n \in e5 + 1 .. e6 => WaitsAt(n, TaskAt(n)) /\ TaskAt(n) \in K2
      /\ n \in e6 + 1 .. e7 => WaitsAt(n, TaskAt(n)) /\ TaskAt(n) \in K3
  BY DEF Layout, SubmitPart, MeetPart, StopPart, WaitPart
<1> QED
  BY <1>1, <1>4, <1>5, <1>6, OneKind

LEMMA LabelOf ==
  ASSUME NEW label, NEW count, NEW k \in Labelled(label, count)
  PROVE  Label(k) = label
BY DEF Labelled, Label

\* The tasks of a part that submits.
LEMMA PartSubmits ==
  ASSUME NEW f \in Nat, NEW e \in Nat, f <= e, NEW label, SubmitPart(f, e, label)
  PROVE  /\ \A n \in f + 1 .. e :
              /\ n \in DOMAIN Script /\ SubmitsAt(n) /\ Label(TaskAt(n)) = label
              /\ Number(TaskAt(n)) = n - f - 1 /\ TaskAt(n) \in Labelled(label, e - f)
         /\ \A k \in Labelled(label, e - f) :
              /\ Label(k) = label /\ Number(k) \in 0 .. e - f - 1
              /\ f + 1 + Number(k) \in f + 1 .. e /\ TaskAt(f + 1 + Number(k)) = k
<1>1. ASSUME NEW n \in f + 1 .. e
      PROVE  /\ n \in DOMAIN Script /\ SubmitsAt(n) /\ Label(TaskAt(n)) = label
             /\ Number(TaskAt(n)) = n - f - 1 /\ TaskAt(n) \in Labelled(label, e - f)
  <2>1. SubmitsAt(n) /\ TaskAt(n) = <<label, n - f - 1>>
    BY DEF SubmitPart
  <2>2. n - f - 1 \in 0 .. e - f - 1
    OBVIOUS
  <2> QED
    BY <2>1, <2>2 DEF SubmitsAt, Labelled, Label, Number
<1>2. ASSUME NEW k \in Labelled(label, e - f)
      PROVE  /\ Label(k) = label /\ Number(k) \in 0 .. e - f - 1
             /\ f + 1 + Number(k) \in f + 1 .. e /\ TaskAt(f + 1 + Number(k)) = k
  <2>1. PICK i \in 0 .. e - f - 1 : k = <<label, i>>
    BY DEF Labelled
  <2>2. Label(k) = label /\ Number(k) = i
    BY <2>1 DEF Label, Number
  <2> DEFINE n == f + 1 + i
  <2>3. n \in f + 1 .. e /\ n - f - 1 = i
    OBVIOUS
  <2> HIDE DEF n
  <2>4. TaskAt(n) = <<label, n - f - 1>>
    BY <2>3 DEF SubmitPart
  <2>5. TaskAt(n) = k
    BY <2>1, <2>3, <2>4
  <2> QED
    BY <2>2, <2>3, <2>5 DEF n
<1> QED
  BY <1>1, <1>2

LEMMA LayoutParts ==
  ASSUME NEW l1, NEW l2, NEW l3, NEW e1, NEW e2, NEW e3, NEW e4, NEW e5, NEW e6,
         NEW e7, NEW K1, NEW K2, NEW K3,
         Layout(l1, l2, l3, e1, e2, e3, e4, e5, e6, e7, K1, K2, K3)
  PROVE  /\ e1 \in Nat /\ e2 \in Nat /\ e3 \in Nat /\ e4 \in Nat /\ 0 \in Nat
         /\ 0 <= e1 /\ e1 <= e2 /\ e2 <= e3 /\ e3 <= e4 /\ e1 - 0 = e1
         /\ SubmitPart(0, e1, l1) /\ SubmitPart(e2, e3, l2) /\ SubmitPart(e3, e4, l3)
<1>1. Ordered(e1, e2, e3, e4, e5, e6, e7)
  BY DEF Layout
<1>2. /\ e1 \in Nat /\ e2 \in Nat /\ e3 \in Nat /\ e4 \in Nat /\ 0 \in Nat
      /\ 0 <= e1 /\ e1 <= e2 /\ e2 <= e3 /\ e3 <= e4 /\ e1 - 0 = e1
  BY <1>1 DEF Ordered
<1>3. SubmitPart(0, e1, l1) /\ SubmitPart(e2, e3, l2) /\ SubmitPart(e3, e4, l3)
  BY DEF Layout
<1> QED
  BY <1>2, <1>3

\* What a test submits.
LEMMA LayoutSubmits ==
  ASSUME NEW l1, NEW l2, NEW l3, NEW e1, NEW e2, NEW e3, NEW e4, NEW e5, NEW e6,
         NEW e7, NEW K1, NEW K2, NEW K3,
         Layout(l1, l2, l3, e1, e2, e3, e4, e5, e6, e7, K1, K2, K3),
         l1 # l2, l1 # l3, l2 # l3
  PROVE  /\ SubmitsOnce /\ MeetsLast
         /\ Used = Labelled(l1, e1) \cup Labelled(l2, e3 - e2)
                     \cup Labelled(l3, e4 - e3)
<1>1. /\ e1 \in Nat /\ e2 \in Nat /\ e3 \in Nat /\ e4 \in Nat /\ 0 \in Nat
      /\ 0 <= e1 /\ e1 <= e2 /\ e2 <= e3 /\ e3 <= e4 /\ e1 - 0 = e1
  BY LayoutParts
<1>2. SubmitPart(0, e1, l1) /\ SubmitPart(e2, e3, l2) /\ SubmitPart(e3, e4, l3)
  BY DEF Layout
<1>3. \A n \in DOMAIN Script :
        /\ n \in Nat
        /\ SubmitsAt(n) => \/ n \in 0 + 1 .. e1 \/ n \in e2 + 1 .. e3
                           \/ n \in e3 + 1 .. e4
        /\ MeetsAt(n) => n \in e4 + 1 .. e5
  BY LayoutCalls
<1>4. \A n \in 0 + 1 .. e1 :
        /\ n \in DOMAIN Script /\ SubmitsAt(n) /\ Label(TaskAt(n)) = l1
        /\ Number(TaskAt(n)) = n - 0 - 1 /\ TaskAt(n) \in Labelled(l1, e1)
  BY <1>1, <1>2, PartSubmits
<1>5. \A n \in e2 + 1 .. e3 :
        /\ n \in DOMAIN Script /\ SubmitsAt(n) /\ Label(TaskAt(n)) = l2
        /\ Number(TaskAt(n)) = n - e2 - 1 /\ TaskAt(n) \in Labelled(l2, e3 - e2)
  BY <1>1, <1>2, PartSubmits
<1>6. \A n \in e3 + 1 .. e4 :
        /\ n \in DOMAIN Script /\ SubmitsAt(n) /\ Label(TaskAt(n)) = l3
        /\ Number(TaskAt(n)) = n - e3 - 1 /\ TaskAt(n) \in Labelled(l3, e4 - e3)
  BY <1>1, <1>2, PartSubmits
<1>7. SubmitsOnce
  <2> SUFFICES ASSUME NEW m \in DOMAIN Script, NEW n \in DOMAIN Script,
                      SubmitsAt(m), SubmitsAt(n), TaskAt(m) = TaskAt(n)
               PROVE  m = n
    BY DEF SubmitsOnce
  <2>1. m \in Nat /\ n \in Nat
    BY <1>3
  <2>2. CASE m \in 0 + 1 .. e1
    BY <1>1, <1>3, <1>4, <1>5, <1>6, <2>1, <2>2
  <2>3. CASE m \in e2 + 1 .. e3
    BY <1>1, <1>3, <1>4, <1>5, <1>6, <2>1, <2>3
  <2>4. CASE m \in e3 + 1 .. e4
    BY <1>1, <1>3, <1>4, <1>5, <1>6, <2>1, <2>4
  <2> QED
    BY <1>3, <2>2, <2>3, <2>4
<1>8. MeetsLast
  <2> SUFFICES ASSUME NEW m \in DOMAIN Script, NEW n \in DOMAIN Script,
                      SubmitsAt(m), MeetsAt(n)
               PROVE  m < n
    BY DEF MeetsLast
  <2>1. m \in Nat /\ n \in Nat /\ n \in e4 + 1 .. e5
    BY <1>3
  <2>2. m <= e4
    BY <1>1, <1>3, <2>1
  <2> QED
    BY <1>1, <2>1, <2>2
<1>9. ASSUME NEW k \in Used
      PROVE  \/ k \in Labelled(l1, e1) \/ k \in Labelled(l2, e3 - e2)
             \/ k \in Labelled(l3, e4 - e3)
  <2>1. PICK n \in DOMAIN Script : SubmitsAt(n) /\ TaskAt(n) = k
    BY UsedAt
  <2> QED
    BY <1>3, <1>4, <1>5, <1>6, <2>1
<1>10. ASSUME NEW k \in Labelled(l1, e1) PROVE k \in Used
  <2> DEFINE n == 0 + 1 + Number(k)
  <2>1. n \in 0 + 1 .. e1 /\ TaskAt(n) = k
    BY <1>1, <1>2, PartSubmits
  <2> HIDE DEF n
  <2> QED
    BY <1>4, <2>1, UsedAt
<1>11. ASSUME NEW k \in Labelled(l2, e3 - e2) PROVE k \in Used
  <2> DEFINE n == e2 + 1 + Number(k)
  <2>1. n \in e2 + 1 .. e3 /\ TaskAt(n) = k
    BY <1>1, <1>2, PartSubmits
  <2> HIDE DEF n
  <2> QED
    BY <1>5, <2>1, UsedAt
<1>12. ASSUME NEW k \in Labelled(l3, e4 - e3) PROVE k \in Used
  <2> DEFINE n == e3 + 1 + Number(k)
  <2>1. n \in e3 + 1 .. e4 /\ TaskAt(n) = k
    BY <1>1, <1>2, PartSubmits
  <2> HIDE DEF n
  <2> QED
    BY <1>6, <2>1, UsedAt
<1> QED
  BY <1>7, <1>8, <1>9, <1>10, <1>11, <1>12

LEMMA LayoutOrders ==
  ASSUME NEW l1, NEW l2, NEW l3, NEW e1, NEW e2, NEW e3, NEW e4, NEW e5, NEW e6,
         NEW e7, NEW K1, NEW K2, NEW K3,
         Layout(l1, l2, l3, e1, e2, e3, e4, e5, e6, e7, K1, K2, K3),
         l1 # l2, l1 # l3, l2 # l3
  PROVE  \A m, n \in DOMAIN Script :
           SubmitsAt(m) /\ Label(TaskAt(m)) = l1 /\ SubmitsAt(n)
             /\ Label(TaskAt(n)) # l1 => m < n
<1> SUFFICES ASSUME NEW m \in DOMAIN Script, NEW n \in DOMAIN Script,
                    SubmitsAt(m), Label(TaskAt(m)) = l1,
                    SubmitsAt(n), Label(TaskAt(n)) # l1
             PROVE  m < n
  OBVIOUS
<1>1. /\ e1 \in Nat /\ e2 \in Nat /\ e3 \in Nat /\ e4 \in Nat /\ 0 \in Nat
      /\ 0 <= e1 /\ e1 <= e2 /\ e2 <= e3 /\ e3 <= e4
      /\ SubmitPart(0, e1, l1) /\ SubmitPart(e2, e3, l2) /\ SubmitPart(e3, e4, l3)
  BY LayoutParts
<1>2. \A i \in DOMAIN Script :
        i \in Nat /\ (SubmitsAt(i) => \/ i \in 0 + 1 .. e1 \/ i \in e2 + 1 .. e3
                                      \/ i \in e3 + 1 .. e4)
  BY LayoutCalls
<1>3. \A i \in 0 + 1 .. e1 : Label(TaskAt(i)) = l1
  BY <1>1, PartSubmits
<1>4. \A i \in e2 + 1 .. e3 : Label(TaskAt(i)) = l2
  BY <1>1, PartSubmits
<1>5. \A i \in e3 + 1 .. e4 : Label(TaskAt(i)) = l3
  BY <1>1, PartSubmits
<1>6. m \in 0 + 1 .. e1
  BY <1>2, <1>4, <1>5
<1>7. n \in e2 + 1 .. e3 \/ n \in e3 + 1 .. e4
  BY <1>2, <1>3
<1>8. m <= e1 /\ n > e2 /\ n \in Nat /\ m \in Nat
  BY <1>1, <1>2, <1>6, <1>7
<1> QED
  BY <1>1, <1>8

\* The barrier tasks of a test are as many as the workers, and come first.
LEMMA LayoutBarriers ==
  ASSUME NEW l1, NEW l2, NEW l3, NEW e1, NEW e2, NEW e3, NEW e4, NEW e5, NEW e6,
         NEW e7, NEW K1, NEW K2, NEW K3,
         Layout(l1, l2, l3, e1, e2, e3, e4, e5, e6, e7, K1, K2, K3),
         l1 # l2, l1 # l3, l2 # l3, l2 # "barrier", l3 # "barrier",
         l1 = "barrier" => e1 \in {0, thread_count}
  PROVE  BarriersLead
<1> SUFFICES ASSUME HasBarrier
             PROVE  /\ Labelled("barrier", thread_count) \subseteq Used
                    /\ \A m, n \in DOMAIN Script :
                         /\ SubmitsAt(m) /\ Label(TaskAt(m)) = "barrier"
                         /\ SubmitsAt(n) /\ Label(TaskAt(n)) # "barrier"
                         => m < n
  BY DEF BarriersLead
<1>u. Used = Labelled(l1, e1) \cup Labelled(l2, e3 - e2) \cup Labelled(l3, e4 - e3)
  BY LayoutSubmits
<1>1. PICK k \in Used : Label(k) = "barrier"
  BY DEF HasBarrier
<1>n. Labelled(l1, 0) = {}
  <2>1. 0 .. 0 - 1 = {}
    OBVIOUS
  <2> QED
    BY <2>1 DEF Labelled
<1>2. k \in Labelled(l1, e1) /\ l1 = "barrier"
  <2>1. \A j : j \in Labelled(l1, e1) => Label(j) = l1
    BY LabelOf
  <2>2. \A j : j \in Labelled(l2, e3 - e2) => Label(j) = l2
    BY LabelOf
  <2>3. \A j : j \in Labelled(l3, e4 - e3) => Label(j) = l3
    BY LabelOf
  <2> QED
    BY <1>1, <1>u, <2>1, <2>2, <2>3
<1>3. e1 = thread_count
  BY <1>2, <1>n
<1>4. Labelled("barrier", thread_count) \subseteq Used
  BY <1>2, <1>3, <1>u
<1>5. \A m, n \in DOMAIN Script :
           SubmitsAt(m) /\ Label(TaskAt(m)) = l1 /\ SubmitsAt(n)
             /\ Label(TaskAt(n)) # l1 => m < n
  BY LayoutOrders
<1> QED
  BY <1>2, <1>4, <1>5

LEMMA LayoutOrderly ==
  ASSUME NEW l1, NEW l2, NEW l3, NEW e1, NEW e2, NEW e3, NEW e4, NEW e5, NEW e6,
         NEW e7, NEW K1, NEW K2, NEW K3,
         Layout(l1, l2, l3, e1, e2, e3, e4, e5, e6, e7, K1, K2, K3),
         l1 # l2, l1 # l3, l2 # l3, l2 # "barrier", l3 # "barrier",
         l1 = "barrier" => e1 \in {0, thread_count},
         l1 # "incr", l2 # "incr", l3 # "incr"
  PROVE  BarrierScript
<1>1. /\ SubmitsOnce /\ MeetsLast
      /\ Used = Labelled(l1, e1) \cup Labelled(l2, e3 - e2)
                  \cup Labelled(l3, e4 - e3)
  BY LayoutSubmits
<1>2. BarriersLead
  BY LayoutBarriers
<1>3. SubmitsNoIncr
  BY <1>1, LabelOf DEF SubmitsNoIncr
<1>4. Script \in Seq(AnyCall)
  BY DEF Layout, Holds
<1> QED
  BY <1>1, <1>2, <1>3, <1>4 DEF BarrierScript, OrderlyScript

\* What a test waits for.
LEMMA LayoutWaits ==
  ASSUME NEW l1, NEW l2, NEW l3, NEW e1, NEW e2, NEW e3, NEW e4, NEW e5, NEW e6,
         NEW e7, NEW K1, NEW K2, NEW K3,
         Layout(l1, l2, l3, e1, e2, e3, e4, e5, e6, e7, K1, K2, K3)
  PROVE  \A k \in K1 \cup K2 \cup K3 :
           \E n \in DOMAIN Script : n < Len(Script) /\ WaitsAt(n, k)
<1>1. /\ e1 \in Nat /\ e2 \in Nat /\ e5 \in Nat /\ e6 \in Nat /\ e7 \in Nat
      /\ e2 <= e7 /\ e6 <= e7
  <2>1. Ordered(e1, e2, e3, e4, e5, e6, e7)
    BY DEF Layout
  <2> QED
    BY <2>1 DEF Ordered
<1>2. Len(Script) = e7 + 1
  BY DEF Layout, Holds
<1>3. /\ \A k \in K1 : \E n \in e1 + 1 .. e2 : WaitsAt(n, k)
      /\ \A k \in K2 : \E n \in e5 + 1 .. e6 : WaitsAt(n, k)
      /\ \A k \in K3 : \E n \in e6 + 1 .. e7 : WaitsAt(n, k)
  BY DEF Layout, WaitPart
<1>4. ASSUME NEW n, NEW k, n \in e1 + 1 .. e2 \/ n \in e5 + 1 .. e6 \/ n \in e6 + 1 .. e7,
             WaitsAt(n, k)
      PROVE  n \in DOMAIN Script /\ n < Len(Script)
  <2>1. n < e7 + 1
    BY <1>1, <1>4
  <2> QED
    BY <1>2, <1>4, <2>1 DEF WaitsAt
<1> QED
  BY <1>3, <1>4

\* Every wait is for a task that was submitted before.
LEMMA LayoutFollows ==
  ASSUME NEW l1, NEW l2, NEW l3, NEW e1, NEW e2, NEW e3, NEW e4, NEW e5, NEW e6,
         NEW e7, NEW K1, NEW K2, NEW K3,
         Layout(l1, l2, l3, e1, e2, e3, e4, e5, e6, e7, K1, K2, K3),
         l1 # l2, l1 # l3, l2 # l3,
         K1 \subseteq Labelled(l1, e1), K3 \subseteq Used,
         \A n \in e5 + 1 .. e6 : \A k \in K2 : WaitsAt(n, k) =>
           \/ k \in Used
           \/ \E j \in Used : k \in Submitted[j]
                /\ \E m \in DOMAIN Script : m < n /\ WaitsAt(m, j)
  PROVE  WaitsFollow
<1> SUFFICES ASSUME NEW n \in DOMAIN Script, NEW k \in Tasks, WaitsAt(n, k),
                    ~ \E j \in Used : k \in Submitted[j]
                         /\ \E m \in DOMAIN Script : m < n /\ WaitsAt(m, j)
             PROVE  \E m \in DOMAIN Script : m < n /\ SubmitsAt(m) /\ TaskAt(m) = k
  BY DEF WaitsFollow
<1>1. /\ e1 \in Nat /\ e2 \in Nat /\ e3 \in Nat /\ e4 \in Nat /\ 0 \in Nat
      /\ 0 <= e1 /\ e1 <= e2 /\ e2 <= e3 /\ e3 <= e4 /\ e1 - 0 = e1
      /\ SubmitPart(0, e1, l1)
  BY LayoutParts
<1>o. /\ e5 \in Nat /\ e6 \in Nat /\ e7 \in Nat /\ e4 <= e5 /\ e5 <= e6
  <2>1. Ordered(e1, e2, e3, e4, e5, e6, e7)
    BY DEF Layout
  <2> QED
    BY <2>1 DEF Ordered
<1>2. \A i \in DOMAIN Script :
        i \in Nat /\ (SubmitsAt(i) => \/ i \in 0 + 1 .. e1 \/ i \in e2 + 1 .. e3
                                      \/ i \in e3 + 1 .. e4)
  BY LayoutCalls
<1>3. \/ n \in e1 + 1 .. e2 /\ k \in K1
      \/ n \in e5 + 1 .. e6 /\ k \in K2
      \/ n \in e6 + 1 .. e7 /\ k \in K3
  BY LayoutCalls
<1>4. CASE n \in e1 + 1 .. e2 /\ k \in K1
  <2> DEFINE m == 0 + 1 + Number(k)
  <2>1. k \in Labelled(l1, e1)
    BY <1>4
  <2>2. m \in 0 + 1 .. e1 /\ TaskAt(m) = k
    BY <1>1, <2>1, PartSubmits
  <2> HIDE DEF m
  <2>3. m \in DOMAIN Script /\ SubmitsAt(m)
    BY <1>1, <2>2, PartSubmits
  <2>4. m < n
    BY <1>1, <1>4, <2>2
  <2> QED
    BY <2>2, <2>3, <2>4
<1>5. CASE (n \in e5 + 1 .. e6 /\ k \in K2) \/ (n \in e6 + 1 .. e7 /\ k \in K3)
  <2>1. k \in Used
    BY <1>5
  <2>2. PICK m \in DOMAIN Script : SubmitsAt(m) /\ TaskAt(m) = k
    BY <2>1, UsedAt
  <2>3. m <= e4 /\ m \in Nat
    BY <1>1, <1>2, <2>2
  <2>4. n > e4 /\ n \in Nat
    BY <1>1, <1>o, <1>2, <1>5
  <2> QED
    BY <1>1, <2>2, <2>3, <2>4
<1> QED
  BY <1>3, <1>4, <1>5

LEMMA LayoutFinishes ==
  ASSUME NEW l1, NEW l2, NEW l3, NEW e1, NEW e2, NEW e3, NEW e4, NEW e5, NEW e6,
         NEW e7, NEW K1, NEW K2, NEW K3,
         Layout(l1, l2, l3, e1, e2, e3, e4, e5, e6, e7, K1, K2, K3),
         \A k \in Tasks : k \in Used \/ (\E j \in Used : k \in Submitted[j]) =>
           \/ k \in K1 \cup K2 \cup K3
           \/ \E j \in Used : k \in Awaited[j] /\ j \in K1 \cup K2 \cup K3
  PROVE  FinishScript
<1>1. \A k \in K1 \cup K2 \cup K3 :
        \E n \in DOMAIN Script : n < Len(Script) /\ WaitsAt(n, k)
  BY LayoutWaits
<1> QED
  BY <1>1 DEF FinishScript

-----------------------------------------------------------------------------
(* The calls a test is made of *)

LEMMA SubmitsOf ==
  ASSUME NEW label \in Labels, NEW count \in Nat
  PROVE  /\ Calls("submit", label, count) \in Seq(AnyCall)
         /\ Len(Calls("submit", label, count)) = count
         /\ SubmitCalls(Calls("submit", label, count), label)
<1> DEFINE p == Calls("submit", label, count)
<1>0. "submit" \in {"submit", "wait", "barrier", "stop"}
  OBVIOUS
<1>1. p \in Seq(AnyCall) /\ Len(p) = count /\ OpCalls(p, "submit", label)
  BY <1>0, CallsPart
<1> HIDE DEF p
<1>2. SubmitCalls(p, label)
  BY <1>1, Zenon DEF SubmitCalls, OpCalls
<1> QED
  BY <1>1, <1>2 DEF p

LEMMA WaitsOf ==
  ASSUME NEW label \in Labels, NEW count \in Nat
  PROVE  /\ Calls("wait", label, count) \in Seq(AnyCall)
         /\ Len(Calls("wait", label, count)) = count
         /\ WaitCalls(Calls("wait", label, count), Labelled(label, count))
<1> DEFINE p == Calls("wait", label, count)
<1>0. "wait" \in {"submit", "wait", "barrier", "stop"}
  OBVIOUS
<1>1. p \in Seq(AnyCall) /\ Len(p) = count /\ OpCalls(p, "wait", label)
  BY <1>0, CallsPart
<1> HIDE DEF p
<1>2. \A m \in 1 .. count : p[m].op = "wait" /\ p[m].task = <<label, m - 1>>
  BY <1>1, Zenon DEF OpCalls
<1>3. \A m \in 1 .. count : m - 1 \in 0 .. count - 1
  OBVIOUS
<1>4. \A m \in 1 .. count : p[m].op = "wait" /\ p[m].task \in Labelled(label, count)
  BY <1>2, <1>3 DEF Labelled
<1>5. ASSUME NEW k \in Labelled(label, count)
      PROVE  \E m \in 1 .. count : p[m].task = k
  <2>1. PICK i \in 0 .. count - 1 : k = <<label, i>>
    BY DEF Labelled
  <2> DEFINE m == i + 1
  <2>2. m \in 1 .. count /\ m - 1 = i
    OBVIOUS
  <2> HIDE DEF m
  <2> QED
    BY <1>2, <2>1, <2>2
<1>6. WaitCalls(p, Labelled(label, count))
  BY <1>1, <1>4, <1>5 DEF WaitCalls
<1> QED
  BY <1>1, <1>6 DEF p

LEMMA ReversedWaits ==
  ASSUME NEW p \in Seq(AnyCall), NEW K, WaitCalls(p, K)
  PROVE  /\ Reverse(p) \in Seq(AnyCall) /\ Len(Reverse(p)) = Len(p)
         /\ WaitCalls(Reverse(p), K)
<1> DEFINE q == Reverse(p)
           b == Len(p)
<1>1. q \in Seq(AnyCall) /\ Len(q) = b /\ \A m \in 1 .. b : q[m] = p[b - m + 1]
  BY ReversePart
<1>2. b \in Nat
  BY LenProperties
<1>3. /\ \A m \in 1 .. b : p[m].op = "wait" /\ p[m].task \in K
      /\ \A k \in K : \E m \in 1 .. b : p[m].task = k
  BY DEF WaitCalls
<1> HIDE DEF q, b
<1>4. \A m \in 1 .. b : b - m + 1 \in 1 .. b /\ b - (b - m + 1) + 1 = m
  BY <1>2
<1>5. ASSUME NEW m \in 1 .. b PROVE q[m].op = "wait" /\ q[m].task \in K
  <2> DEFINE i == b - m + 1
  <2>1. i \in 1 .. b /\ q[m] = p[i]
    BY <1>1, <1>4
  <2> HIDE DEF i
  <2> QED
    BY <1>3, <2>1
<1>6. ASSUME NEW k \in K PROVE \E m \in 1 .. b : q[m].task = k
  <2>1. PICK i \in 1 .. b : p[i].task = k
    BY <1>3
  <2> DEFINE m == b - i + 1
  <2>2. m \in 1 .. b /\ b - m + 1 = i
    BY <1>4
  <2> HIDE DEF m
  <2> QED
    BY <1>1, <2>1, <2>2
<1> QED
  BY <1>1, <1>5, <1>6 DEF WaitCalls, q, b

LEMMA NoCalls ==
  /\ <<>> \in Seq(AnyCall) /\ Len(<<>>) = 0
  /\ \A label : SubmitCalls(<<>>, label)
  /\ WaitCalls(<<>>, {}) /\ MeetCalls(<<>>)
<1>1. <<>> \in Seq(AnyCall) /\ Len(<<>>) = 0
  OBVIOUS
<1>2. \A m \in 1 .. Len(<<>>) : FALSE
  BY <1>1
<1> QED
  BY <1>1, <1>2 DEF SubmitCalls, WaitCalls, MeetCalls

LEMMA OneCall ==
  /\ Barrier \in Seq(AnyCall) /\ Len(Barrier) = 1 /\ MeetCalls(Barrier)
  /\ Stopping \in Seq(AnyCall) /\ Len(Stopping) = 1 /\ StopCalls(Stopping)
<1>1. /\ Barrier \in Seq(AnyCall) /\ Len(Barrier) = 1 /\ Barrier[1].op = "barrier"
      /\ Stopping \in Seq(AnyCall) /\ Len(Stopping) = 1 /\ Stopping[1].op = "stop"
  BY CallPart DEF Barrier, Stopping
<1>2. \A m \in 1 .. 1 : m = 1
  OBVIOUS
<1> QED
  BY <1>1, <1>2 DEF MeetCalls, StopCalls

LEMMA BothOf ==
  ASSUME NEW count \in Nat
  PROVE  /\ WaitsForBoth(count) \in Seq(AnyCall)
         /\ Len(WaitsForBoth(count)) = 2 * count
         /\ WaitCalls(WaitsForBoth(count),
                      Labelled("submit", count) \cup Labelled("incr", count))
<1> DEFINE p == WaitsForBoth(count)
           K == Labelled("submit", count) \cup Labelled("incr", count)
           i(m) == count - (m + 1) \div 2
           odd(m) == m % 2 = 1
           label(m) == IF odd(m) THEN "submit" ELSE "incr"
           b == 2 * count
<1>1. /\ p \in Seq(AnyCall) /\ Len(p) = b
      /\ \A m \in 1 .. b : p[m].op = "wait" /\ p[m].task = <<label(m), i(m)>>
  BY BothPart
<1>2. \A m \in 1 .. b : i(m) \in 0 .. count - 1
  OBVIOUS
<1>3. ASSUME NEW j \in 0 .. count - 1
      PROVE  /\ \E m \in 1 .. b : odd(m) /\ i(m) = j
             /\ \E m \in 1 .. b : ~odd(m) /\ i(m) = j
  <2> DEFINE m == 2 * (count - j) - 1
             n == 2 * (count - j)
  <2>1. m \in 1 .. b /\ m % 2 = 1 /\ (m + 1) \div 2 = count - j
    OBVIOUS
  <2>2. n \in 1 .. b /\ n % 2 # 1 /\ (n + 1) \div 2 = count - j
    OBVIOUS
  <2> HIDE DEF m, n
  <2>3. count - (count - j) = j
    OBVIOUS
  <2> QED
    BY <2>1, <2>2, <2>3
<1> HIDE DEF p, i, odd, b
<1>4. \A m \in 1 .. b : label(m) \in {"submit", "incr"}
                        /\ (odd(m) <=> label(m) = "submit")
  BY Zenon
<1> HIDE DEF label
<1>5. ASSUME NEW m \in 1 .. b PROVE p[m].op = "wait" /\ p[m].task \in K
  BY <1>1, <1>2, <1>4 DEF Labelled
<1>6. ASSUME NEW k \in K PROVE \E m \in 1 .. b : p[m].task = k
  <2>1. CASE k \in Labelled("submit", count)
    <3>1. PICK j \in 0 .. count - 1 : k = <<"submit", j>>
      BY <2>1 DEF Labelled
    <3>2. PICK m \in 1 .. b : odd(m) /\ i(m) = j
      BY <1>3
    <3>3. p[m].task = k
      BY <1>1, <1>4, <3>1, <3>2
    <3> QED
      BY <3>3
  <2>2. CASE k \in Labelled("incr", count)
    <3>1. PICK j \in 0 .. count - 1 : k = <<"incr", j>>
      BY <2>2 DEF Labelled
    <3>2. PICK m \in 1 .. b : ~odd(m) /\ i(m) = j
      BY <1>3
    <3>3. p[m].task = k
      BY <1>1, <1>4, <3>1, <3>2
    <3> QED
      BY <3>3
  <2> QED
    BY <2>1, <2>2
<1> QED
  BY <1>1, <1>5, <1>6 DEF WaitCalls, p, b

-----------------------------------------------------------------------------
(* The scripts of the tests *)

LEMMA TestFields ==
  ASSUME test \in Tests
  PROVE  /\ test.count \in Nat /\ test.count # 0
         /\ test.submit_first \in BOOLEAN /\ test.wait_reverse \in BOOLEAN
         /\ test.name \in {"run in order", "wait for future", "submit many",
                           "submit again"}
BY TestsAssumption

LEMMA BarrierCalls ==
  /\ submit_barrier_set \in Seq(AnyCall) /\ Len(submit_barrier_set) = thread_count
  /\ SubmitCalls(submit_barrier_set, "barrier")
  /\ cleanup_barrier_set \in Seq(AnyCall) /\ Len(cleanup_barrier_set) = thread_count
  /\ WaitCalls(cleanup_barrier_set, Labelled("barrier", thread_count))
<1>1. "barrier" \in Labels
  BY DEF Labels
<1>2. thread_count \in Nat
  BY ThreadCount
<1> QED
  BY <1>1, <1>2, SubmitsOf, WaitsOf DEF submit_barrier_set, cleanup_barrier_set

LEMMA NoneLabelled == ASSUME NEW label PROVE Labelled(label, 0) = {}
<1>1. 0 .. 0 - 1 = {}
  OBVIOUS
<1> QED
  BY <1>1 DEF Labelled

\* Nothing is added to a script by a part without calls.
LEMMA WithoutParts ==
  ASSUME NEW p1 \in Seq(AnyCall), NEW p3 \in Seq(AnyCall)
  PROVE  p1 \o <<>> \o p3 \o <<>> = p1 \o p3
<1>1. p1 \o <<>> = p1
  BY ConcatEmptySeq
<1>2. p1 \o p3 \in Seq(AnyCall)
  BY ConcatProperties
<1>3. (p1 \o p3) \o <<>> = p1 \o p3
  BY <1>2, ConcatEmptySeq
<1> QED
  BY <1>1, <1>3

\* What nobody submits for another.
LEMMA NoneSubmitted ==
  ASSUME NEW j \in Tasks, Label(j) # "submit" PROVE Submitted[j] = {}
BY DEF Submitted

LEMMA NoneAwaited ==
  ASSUME NEW j \in Tasks, Label(j) # "wait" PROVE Awaited[j] = {}
BY DEF Awaited

\* The calls of the test of the order, with A barrier tasks.
LEMMA OrderLayout ==
  ASSUME NEW C \in Nat, NEW f \in BOOLEAN, NEW r \in BOOLEAN,
         Script = test_run_in_order(C, f, r)
  PROVE  \E A \in {0, thread_count} : \E e5, e6, e7 :
           Layout("barrier", "inc", "empty", A, A, A + C, A + C, e5, e6, e7,
                  {}, Labelled("inc", C), Labelled("barrier", A))
<1> DEFINE lb == "barrier"
           li == "inc"
           le == "empty"
           w == Calls("wait", "inc", C)
           p1 == When(f, submit_barrier_set)
           p3 == Calls("submit", "inc", C)
           p5 == When(f, Barrier)
           p6 == IF r THEN Reverse(w) ELSE w
           p7 == When(f, cleanup_barrier_set)
           A == IF f THEN thread_count ELSE 0
           K == Labelled("inc", C)
<1>2. Script = p1 \o p3 \o p5 \o p6 \o p7 \o Stopping
  BY DEF test_run_in_order
<1>i. "inc" \in Labels
  BY DEF Labels
<1>3. p3 \in Seq(AnyCall) /\ Len(p3) = C /\ SubmitCalls(p3, li)
  BY <1>i, SubmitsOf
<1>4. w \in Seq(AnyCall) /\ WaitCalls(w, K)
  BY <1>i, WaitsOf
<1> HIDE DEF w, K
<1>5. p6 \in Seq(AnyCall) /\ WaitCalls(p6, K)
  BY <1>4, ReversedWaits
<1>6. /\ p1 \in Seq(AnyCall) /\ Len(p1) = A /\ SubmitCalls(p1, lb)
      /\ p7 \in Seq(AnyCall) /\ WaitCalls(p7, Labelled(lb, A))
      /\ p5 \in Seq(AnyCall) /\ MeetCalls(p5)
  <2>1. CASE f
    <3>1. p1 = submit_barrier_set /\ p7 = cleanup_barrier_set /\ p5 = Barrier
          /\ A = thread_count
      BY <2>1 DEF When
    <3> QED
      BY <3>1, BarrierCalls, OneCall
  <2>2. CASE ~f
    <3>1. p1 = <<>> /\ p7 = <<>> /\ p5 = <<>> /\ A = 0
      BY <2>2 DEF When
    <3>2. Labelled("barrier", 0) = {}
      BY NoneLabelled
    <3> QED
      BY <3>1, <3>2, NoCalls
  <2> QED
    BY <2>1, <2>2
<1>7. A \in {0, thread_count}
  OBVIOUS
<1> DEFINE e5 == A + C + Len(p5)
           e6 == e5 + Len(p6)
           e7 == e6 + Len(p7)
           l == e7 + Len(Stopping)
<1> HIDE DEF p1, p3, p5, p6, p7, A, lb, li, le
<1>8. Script = p1 \o <<>> \o p3 \o <<>> \o p5 \o p6 \o p7 \o Stopping
  <2>1. p1 \o <<>> \o p3 \o <<>> = p1 \o p3
    BY <1>3, <1>6, WithoutParts
  <2> QED
    BY <1>2, <2>1
<1>9. A \in Nat
  BY <1>7, ThreadCount
<1>10. /\ A + Len(<<>>) = A /\ A + C + Len(<<>>) = A + C
  BY <1>9
<1>11. Ends(AnyCall, Script, p1, <<>>, p3, <<>>, p5, p6, p7, Stopping,
            A, A, A + C, A + C, e5, e6, e7, l)
  <2>1. Stopping \in Seq(AnyCall) /\ <<>> \in Seq(AnyCall)
    BY OneCall, NoCalls
  <2> QED
    BY <1>3, <1>5, <1>6, <1>8, <1>10, <2>1, Zenon DEF Ends
<1> HIDE DEF e5, e6, e7, l
<1>12. Layout(lb, li, le, A, A, A + C, A + C, e5, e6, e7, {}, K, Labelled(lb, A))
  BY <1>3, <1>5, <1>6, <1>11, NoCalls, OneCall, LayoutOf
<1> QED
  BY <1>7, <1>12, Zenon DEF K, lb, li, le

\* Nothing but a submitting task submits, nothing but a wait task waits.
LEMMA SimpleTest ==
  ASSUME test \in Tests, \A k \in Used : Label(k) \notin {"submit", "wait"}
  PROVE  /\ WaitersMeet
         /\ \A k \in Tasks : \A j \in Used : k \notin Submitted[j]
         /\ Counting = {k \in Used : Counts(k)}
<1>1. Used \subseteq Tasks
  BY UsedTasks
<1>2. \A k \in Tasks : \A j \in Used : k \notin Submitted[j]
  BY <1>1, NoneSubmitted
<1> QED
  BY <1>1, <1>2 DEF WaitersMeet, Counting

LEMMA OrderUsed ==
  ASSUME NEW C \in Nat, NEW A \in Nat, NEW e5, NEW e6, NEW e7,
         NEW l1, NEW l2, NEW l3, NEW K1, NEW K2, NEW K3,
         Layout(l1, l2, l3, A, A, A + C, A + C, e5, e6, e7, K1, K2, K3),
         l1 # l2, l1 # l3, l2 # l3
  PROVE  /\ Used = Labelled(l1, A) \cup Labelled(l2, C)
         /\ \A k \in Labelled(l2, C) :
              /\ Number(k) \in Nat /\ k = <<l2, Number(k)>>
              /\ \E n \in DOMAIN Script :
                   /\ SubmitsAt(n) /\ TaskAt(n) = k
                   /\ \A j \in Labelled(l2, Number(k)) :
                        \E m \in DOMAIN Script :
                          m < n /\ SubmitsAt(m) /\ TaskAt(m) = j
<1>1. (A + C) - A = C /\ (A + C) - (A + C) = 0 /\ A + C \in Nat /\ A <= A + C
  OBVIOUS
<1>2. Used = Labelled(l1, A) \cup Labelled(l2, (A + C) - A)
               \cup Labelled(l3, (A + C) - (A + C))
  BY LayoutSubmits
<1>3. Used = Labelled(l1, A) \cup Labelled(l2, C)
  BY <1>1, <1>2, NoneLabelled
<1>4. SubmitPart(A, A + C, l2)
  BY DEF Layout
<1>5. ASSUME NEW k \in Labelled(l2, C)
      PROVE  /\ Number(k) \in 0 .. C - 1 /\ k = <<l2, Number(k)>>
             /\ A + 1 + Number(k) \in DOMAIN Script /\ SubmitsAt(A + 1 + Number(k))
             /\ TaskAt(A + 1 + Number(k)) = k
  <2> DEFINE n == A + 1 + Number(k)
  <2>1. n \in A + 1 .. A + C /\ TaskAt(n) = k /\ Number(k) \in 0 .. (A + C) - A - 1
    BY <1>1, <1>4, PartSubmits
  <2> HIDE DEF n
  <2>2. n \in DOMAIN Script /\ SubmitsAt(n)
    BY <1>1, <1>4, <2>1, PartSubmits
  <2>3. Number(k) \in 0 .. C - 1
    BY <1>1, <2>1
  <2>4. k = <<l2, Number(k)>>
    BY DEF Labelled, Number
  <2> QED
    BY <2>1, <2>2, <2>3, <2>4 DEF n
<1>6. ASSUME NEW k \in Labelled(l2, C)
      PROVE  /\ Number(k) \in Nat /\ k = <<l2, Number(k)>>
             /\ \E n \in DOMAIN Script :
                  /\ SubmitsAt(n) /\ TaskAt(n) = k
                  /\ \A j \in Labelled(l2, Number(k)) :
                       \E m \in DOMAIN Script :
                         m < n /\ SubmitsAt(m) /\ TaskAt(m) = j
  <2> DEFINE c == Number(k)
             n == A + 1 + c
  <2>1. /\ c \in 0 .. C - 1 /\ n \in DOMAIN Script /\ SubmitsAt(n) /\ TaskAt(n) = k
        /\ k = <<l2, c>>
    BY <1>5
  <2> HIDE DEF c
  <2>2. ASSUME NEW j \in Labelled(l2, c)
        PROVE  \E m \in DOMAIN Script : m < n /\ SubmitsAt(m) /\ TaskAt(m) = j
    <3>1. PICK i \in 0 .. c - 1 : j = <<l2, i>>
      BY DEF Labelled
    <3>2. i \in 0 .. C - 1
      BY <2>1
    <3>3. j \in Labelled(l2, C) /\ Number(j) = i
      BY <3>1, <3>2 DEF Labelled, Number
    <3> DEFINE m == A + 1 + i
    <3>4. m \in DOMAIN Script /\ SubmitsAt(m) /\ TaskAt(m) = j
      BY <1>5, <3>3
    <3>5. m < n
      BY <2>1
    <3> QED
      BY <3>4, <3>5
  <2>3. c \in Nat
    BY <2>1
  <2> HIDE DEF n
  <2> QED
    BY <2>1, <2>2, <2>3 DEF c
<1> QED
  BY <1>3, <1>6

LEMMA OrderGood ==
  ASSUME test \in Tests, NEW C \in Nat, C # 0, NEW A \in {0, thread_count},
         NEW e5, NEW e6, NEW e7,
         Layout("barrier", "inc", "empty", A, A, A + C, A + C, e5, e6, e7,
                {}, Labelled("inc", C), Labelled("barrier", A))
  PROVE  GoodScript
<1> DEFINE lb == "barrier"
           li == "inc"
           le == "empty"
           K == Labelled(li, C)
           B == Labelled(lb, A)
<1>1. /\ lb # li /\ lb # le /\ li # le /\ li # "barrier" /\ le # "barrier"
      /\ lb # "incr" /\ li # "incr" /\ le # "incr"
  OBVIOUS
<1>2. Layout(lb, li, le, A, A, A + C, A + C, e5, e6, e7, {}, K, B)
  OBVIOUS
<1> HIDE DEF lb, li, le
<1>3. A \in Nat
  BY ThreadCount
<1>4. /\ Used = B \cup K
      /\ \A k \in K :
           /\ Number(k) \in Nat /\ k = <<li, Number(k)>>
           /\ \E n \in DOMAIN Script :
                /\ SubmitsAt(n) /\ TaskAt(n) = k
                /\ \A j \in Labelled(li, Number(k)) :
                     \E m \in DOMAIN Script :
                       m < n /\ SubmitsAt(m) /\ TaskAt(m) = j
  BY <1>1, <1>2, <1>3, OrderUsed
<1>5. BarrierScript
  BY <1>1, <1>2, LayoutOrderly
<1>6. \A k \in K : Label(k) = "inc"
  BY LabelOf DEF li
<1>7. \A k \in B : Label(k) = "barrier"
  BY LabelOf DEF lb
<1>8. /\ WaitersMeet
      /\ \A k \in Tasks : \A j \in Used : k \notin Submitted[j]
      /\ Counting = {k \in Used : Counts(k)}
  BY <1>4, <1>6, <1>7, SimpleTest
<1>9. WaitsFollow
  <2>1. K \subseteq Used /\ B \subseteq Used /\ {} \subseteq Labelled(lb, A)
    BY <1>4
  <2> QED
    BY <1>1, <1>2, <2>1, LayoutFollows
<1>10. InOrderScript
  <2>1. Counting = K
    BY <1>4, <1>6, <1>7, <1>8 DEF Counts
  <2>2. K # {}
    <3>1. 0 \in 0 .. C - 1
      OBVIOUS
    <3> QED
      BY <3>1 DEF Labelled
  <2> QED
    BY <1>4, <2>1, <2>2 DEF InOrderScript, IncTask, li
<1>11. FinishScript
  <2>1. \A k \in Tasks : k \in Used \/ (\E j \in Used : k \in Submitted[j]) =>
          k \in {} \cup K \cup B
    BY <1>4, <1>8
  <2> QED
    BY <1>2, <2>1, LayoutFinishes
<1> QED
  BY <1>5, <1>8, <1>9, <1>10, <1>11 DEF GoodScript, WaitScript

\* The calls of the test of the wait tasks.
LEMMA WaitLayout ==
  ASSUME NEW W \in Nat, W = Waiters, Script = test_wait_for_from_future_tasks
  PROVE  \E e5, e6, e7 :
           Layout("barrier", "wait", "empty", thread_count, thread_count,
                  thread_count + W, thread_count + W + W, e5, e6, e7,
                  {}, Labelled("wait", W), Labelled("barrier", thread_count))
<1> DEFINE lb == "barrier"
           lw == "wait"
           le == "empty"
           A == thread_count
           p1 == submit_barrier_set
           p3 == Calls("submit", "wait", W)
           p4 == Calls("submit", "empty", W)
           p6 == Calls("wait", "wait", W)
           p7 == cleanup_barrier_set
           K == Labelled("wait", W)
           B == Labelled("barrier", A)
<1>1. Script = p1 \o p3 \o p4 \o Barrier \o p6 \o p7 \o Stopping
  BY DEF test_wait_for_from_future_tasks
<1>i. "wait" \in Labels /\ "empty" \in Labels
  BY DEF Labels
<1>2. p3 \in Seq(AnyCall) /\ Len(p3) = W /\ SubmitCalls(p3, lw)
  BY <1>i, SubmitsOf
<1>3. p4 \in Seq(AnyCall) /\ Len(p4) = W /\ SubmitCalls(p4, le)
  BY <1>i, SubmitsOf
<1>4. p6 \in Seq(AnyCall) /\ WaitCalls(p6, K)
  BY <1>i, WaitsOf
<1>5. /\ p1 \in Seq(AnyCall) /\ Len(p1) = A /\ SubmitCalls(p1, lb)
      /\ p7 \in Seq(AnyCall) /\ WaitCalls(p7, B)
  BY BarrierCalls
<1>6. A \in Nat
  BY ThreadCount
<1> DEFINE e5 == A + W + W + Len(Barrier)
           e6 == e5 + Len(p6)
           e7 == e6 + Len(p7)
           l == e7 + Len(Stopping)
<1> HIDE DEF p1, p3, p4, p6, p7, A, K, B, lb, lw, le
<1>7. Script = p1 \o <<>> \o p3 \o p4 \o Barrier \o p6 \o p7 \o Stopping
  <2>1. p1 \o <<>> = p1
    BY <1>5, ConcatEmptySeq
  <2> QED
    BY <1>1, <2>1
<1>8. A + Len(<<>>) = A
  BY <1>6
<1>9. Ends(AnyCall, Script, p1, <<>>, p3, p4, Barrier, p6, p7, Stopping,
           A, A, A + W, A + W + W, e5, e6, e7, l)
  <2>1. Stopping \in Seq(AnyCall) /\ <<>> \in Seq(AnyCall) /\ Barrier \in Seq(AnyCall)
    BY OneCall, NoCalls
  <2> QED
    BY <1>2, <1>3, <1>4, <1>5, <1>7, <1>8, <2>1, Zenon DEF Ends
<1> HIDE DEF e5, e6, e7, l
<1>10. Layout(lb, lw, le, A, A, A + W, A + W + W, e5, e6, e7, {}, K, B)
  BY <1>2, <1>3, <1>4, <1>5, <1>9, NoCalls, OneCall, LayoutOf
<1> QED
  BY <1>10, Zenon DEF A, K, B, lb, lw, le

LEMMA WaitGood ==
  ASSUME test \in Tests, ~TestOfOrder, NEW W \in Nat, NEW e5, NEW e6, NEW e7,
         Layout("barrier", "wait", "empty", thread_count, thread_count,
                thread_count + W, thread_count + W + W, e5, e6, e7,
                {}, Labelled("wait", W), Labelled("barrier", thread_count))
  PROVE  GoodScript
<1> DEFINE lb == "barrier"
           lw == "wait"
           le == "empty"
           A == thread_count
           K == Labelled(lw, W)
           E == Labelled(le, W)
           B == Labelled(lb, A)
<1>1. /\ lb # lw /\ lb # le /\ lw # le /\ lw # "barrier" /\ le # "barrier"
      /\ lb # "incr" /\ lw # "incr" /\ le # "incr"
  OBVIOUS
<1>2. Layout(lb, lw, le, A, A, A + W, A + W + W, e5, e6, e7, {}, K, B)
  OBVIOUS
<1>3. A \in Nat /\ A # 0 /\ A \in {0, thread_count}
  BY ThreadCount
<1> HIDE DEF lb, lw, le, A
<1>4. Used = B \cup K \cup E
  <2>1. (A + W) - A = W /\ (A + W + W) - (A + W) = W
    BY <1>3
  <2>2. Used = Labelled(lb, A) \cup Labelled(lw, (A + W) - A)
                 \cup Labelled(le, (A + W + W) - (A + W))
    BY <1>1, <1>2, LayoutSubmits
  <2> QED
    BY <2>1, <2>2
<1>5. BarrierScript
  BY <1>1, <1>2, <1>3, LayoutOrderly
<1>6. /\ \A k \in K : Label(k) = "wait"
      /\ \A k \in B : Label(k) = "barrier"
      /\ \A k \in E : Label(k) = "empty"
  BY LabelOf DEF lw, lb, le
<1>u. Used \subseteq Tasks
  BY UsedTasks
<1>7. \A k \in Tasks : \A j \in Used : k \notin Submitted[j]
  BY <1>4, <1>6, <1>u, NoneSubmitted
<1>8. \A i \in 0 .. W - 1 : <<lw, i>> \in K /\ <<le, i>> \in E
  BY DEF Labelled
<1>9. \A i : <<lw, i>> \in Tasks => Awaited[<<lw, i>>] = {<<le, i>>}
  BY DEF Awaited, lw, le, Label, Number
<1>10. WaitersMeet
  <2> SUFFICES ASSUME NEW k \in Used, Label(k) = "wait"
               PROVE  HasBarrier /\ Awaited[k] \subseteq Used
    BY DEF WaitersMeet
  <2>1. HasBarrier
    <3>1. 0 \in 0 .. A - 1
      BY <1>3
    <3>2. <<lb, 0>> \in B
      BY <3>1 DEF Labelled
    <3> QED
      BY <1>4, <1>6, <3>2 DEF HasBarrier
  <2>2. k \in K
    BY <1>4, <1>6
  <2>3. PICK i \in 0 .. W - 1 : k = <<lw, i>>
    BY <2>2 DEF Labelled
  <2> QED
    BY <1>4, <1>8, <1>9, <1>u, <2>1, <2>3
<1>11. WaitsFollow
  <2>1. K \subseteq Used /\ B \subseteq Used /\ {} \subseteq Labelled(lb, A)
    BY <1>4
  <2> QED
    BY <1>1, <1>2, <2>1, LayoutFollows
<1>12. FinishScript
  <2>1. ASSUME NEW k \in E PROVE \E j \in Used : k \in Awaited[j] /\ j \in K
    <3>1. PICK i \in 0 .. W - 1 : k = <<le, i>>
      BY DEF Labelled
    <3>2. <<lw, i>> \in K /\ <<lw, i>> \in Used /\ <<lw, i>> \in Tasks
      BY <1>4, <1>8, <1>u
    <3> QED
      BY <1>9, <3>1, <3>2
  <2>2. \A k \in Tasks : k \in Used \/ (\E j \in Used : k \in Submitted[j]) =>
          \/ k \in {} \cup K \cup B
          \/ \E j \in Used : k \in Awaited[j] /\ j \in {} \cup K \cup B
    BY <1>4, <1>7, <2>1
  <2> QED
    BY <1>2, <2>2, LayoutFinishes
<1> QED
  BY <1>5, <1>10, <1>11, <1>12 DEF GoodScript, WaitScript, InOrderScript

\* The calls of the test of the submitting tasks; main waits for what a task has
\* submitted when it has waited for the task.
WaitsFirst(f, e) ==
  \A n \in f + 1 .. e : \A k : WaitsAt(n, k) /\ Label(k) = "incr" =>
    n - 1 \in f + 1 .. e /\ WaitsAt(n - 1, <<"submit", Number(k)>>)

LEMMA BothInTurn ==
  ASSUME NEW C \in Nat, NEW l \in Nat, Holds(AnyCall, Script, l),
         NEW f \in Nat, NEW e \in Nat, e = f + 2 * C, e <= l,
         PartAt(Script, f, WaitsForBoth(C))
  PROVE  WaitsFirst(f, e)
<1> DEFINE p == WaitsForBoth(C)
           i(m) == C - (m + 1) \div 2
           odd(m) == m % 2 = 1
           label(m) == IF odd(m) THEN "submit" ELSE "incr"
           b == 2 * C
<1>1. /\ p \in Seq(AnyCall) /\ Len(p) = b
      /\ \A m \in 1 .. b : p[m].op = "wait" /\ p[m].task = <<label(m), i(m)>>
  BY BothPart
<1>2. ASSUME NEW m \in 1 .. b, ~odd(m)
      PROVE  m - 1 \in 1 .. b /\ odd(m - 1) /\ i(m - 1) = i(m)
  <2>1. m % 2 = 0
    BY <1>2
  <2>2. m # 1
    BY <2>1
  <2>3. m - 1 \in 1 .. b /\ (m - 1) % 2 = 1
    BY <2>1, <2>2
  <2>4. (m - 1 + 1) \div 2 = (m + 1) \div 2
    BY <2>1
  <2> QED
    BY <2>3, <2>4
<1>3. \A m \in 1 .. b : (odd(m) => label(m) = "submit")
                        /\ (~odd(m) => label(m) = "incr")
  BY Zenon
<1>4. b \in Nat /\ e = f + b
  OBVIOUS
<1>5. PartAt(Script, f, p)
  OBVIOUS
<1> HIDE DEF p, i, odd, label, b
<1>6. ASSUME NEW n \in f + 1 .. e
      PROVE  /\ n \in DOMAIN Script /\ n - f \in 1 .. b
             /\ WaitsAt(n, <<label(n - f), i(n - f)>>)
  <2>1. e = f + Len(p)
    BY <1>1, <1>4
  <2> DEFINE m == n - f
  <2>2. n \in DOMAIN Script /\ m \in 1 .. Len(p) /\ Script[n] = p[m]
    BY <1>1, <1>5, <2>1, InPart
  <2> HIDE DEF m
  <2>3. n \in DOMAIN Script /\ m \in 1 .. b /\ WaitsAt(n, <<label(m), i(m)>>)
    BY <1>1, <2>2 DEF WaitsAt
  <2> QED
    BY <2>3 DEF m
<1> SUFFICES ASSUME NEW n \in f + 1 .. e, NEW k, WaitsAt(n, k), Label(k) = "incr"
             PROVE  n - 1 \in f + 1 .. e /\ WaitsAt(n - 1, <<"submit", Number(k)>>)
  BY DEF WaitsFirst
<1> DEFINE m == n - f
           o == n - 1
           s == m - 1
<1>7. m \in 1 .. b /\ k = <<label(m), i(m)>>
  <2>1. m \in 1 .. b /\ WaitsAt(n, <<label(m), i(m)>>)
    BY <1>6
  <2> QED
    BY <2>1, OneKind
<1>8. ~odd(m) /\ Number(k) = i(m)
  BY <1>3, <1>7 DEF Label, Number
<1>9. s \in 1 .. b /\ odd(s) /\ i(s) = i(m)
  BY <1>2, <1>7, <1>8
<1>10. o \in f + 1 .. e /\ o - f = s
  BY <1>4, <1>7, <1>9
<1>11. WaitsAt(o, <<label(s), i(s)>>)
  BY <1>6, <1>10
<1> HIDE DEF m, o, s
<1>12. WaitsAt(o, <<"submit", Number(k)>>)
  BY <1>3, <1>8, <1>9, <1>11
<1> QED
  BY <1>10, <1>12 DEF o

LEMMA SubmitLayout ==
  ASSUME NEW C \in Nat, Script = test_submit_many(C)
  PROVE  \E e5, e6, e7 :
           /\ Layout("barrier", "submit", "empty", thread_count, thread_count,
                     thread_count + C, thread_count + C, e5, e6, e7,
                     {}, Labelled("submit", C) \cup Labelled("incr", C),
                     Labelled("barrier", thread_count))
           /\ WaitsFirst(e5, e6)
<1> DEFINE lb == "barrier"
           ls == "submit"
           le == "empty"
           A == thread_count
           p1 == submit_barrier_set
           p3 == Calls("submit", "submit", C)
           p6 == WaitsForBoth(C)
           p7 == cleanup_barrier_set
           K == Labelled("submit", C) \cup Labelled("incr", C)
           B == Labelled("barrier", A)
<1>1. Script = p1 \o p3 \o Barrier \o p6 \o p7 \o Stopping
  BY DEF test_submit_many
<1>i. "submit" \in Labels
  BY DEF Labels
<1>2. p3 \in Seq(AnyCall) /\ Len(p3) = C /\ SubmitCalls(p3, ls)
  BY <1>i, SubmitsOf
<1>4. p6 \in Seq(AnyCall) /\ Len(p6) = 2 * C /\ WaitCalls(p6, K)
  BY BothOf
<1>5. /\ p1 \in Seq(AnyCall) /\ Len(p1) = A /\ SubmitCalls(p1, lb)
      /\ p7 \in Seq(AnyCall) /\ WaitCalls(p7, B)
  BY BarrierCalls
<1>6. A \in Nat
  BY ThreadCount
<1> DEFINE e5 == A + C + Len(Barrier)
           e6 == e5 + Len(p6)
           e7 == e6 + Len(p7)
           l == e7 + Len(Stopping)
<1> HIDE DEF p1, p3, p6, p7, A, K, B, lb, ls, le
<1>7. Script = p1 \o <<>> \o p3 \o <<>> \o Barrier \o p6 \o p7 \o Stopping
  <2>1. p1 \o <<>> \o p3 \o <<>> = p1 \o p3
    BY <1>2, <1>5, WithoutParts
  <2> QED
    BY <1>1, <2>1
<1>8. A + Len(<<>>) = A /\ A + C + Len(<<>>) = A + C
  BY <1>6
<1>9. Ends(AnyCall, Script, p1, <<>>, p3, <<>>, Barrier, p6, p7, Stopping,
           A, A, A + C, A + C, e5, e6, e7, l)
  <2>1. Stopping \in Seq(AnyCall) /\ <<>> \in Seq(AnyCall) /\ Barrier \in Seq(AnyCall)
    BY OneCall, NoCalls
  <2> QED
    BY <1>2, <1>4, <1>5, <1>7, <1>8, <2>1, Zenon DEF Ends
<1>e. e6 = e5 + Len(p6)
  OBVIOUS
<1> HIDE DEF e5, e6, e7, l
<1>10. Layout(lb, ls, le, A, A, A + C, A + C, e5, e6, e7, {}, K, B)
  BY <1>2, <1>4, <1>5, <1>9, NoCalls, OneCall, LayoutOf
<1>11. WaitsFirst(e5, e6)
  <2>1. /\ PartAt(Script, e5, p6) /\ Ordered(A, A, A + C, A + C, e5, e6, e7)
        /\ Holds(AnyCall, Script, l) /\ e7 <= l
    BY <1>9, EightParts
  <2>2. e5 \in Nat /\ e6 \in Nat /\ e7 \in Nat /\ e6 <= e7
    BY <2>1 DEF Ordered
  <2>3. l \in Nat
    BY <2>1 DEF Holds
  <2>4. e6 <= l /\ e6 = e5 + 2 * C
    BY <1>4, <1>e, <2>1, <2>2, <2>3
  <2> QED
    BY <2>1, <2>2, <2>3, <2>4, BothInTurn DEF p6
<1> QED
  BY <1>10, <1>11, Zenon DEF A, K, B, lb, ls, le

LEMMA SubmitGood ==
  ASSUME test \in Tests, ~TestOfOrder, NEW C \in Nat, NEW e5, NEW e6, NEW e7,
         Layout("barrier", "submit", "empty", thread_count, thread_count,
                thread_count + C, thread_count + C, e5, e6, e7,
                {}, Labelled("submit", C) \cup Labelled("incr", C),
                Labelled("barrier", thread_count)),
         WaitsFirst(e5, e6)
  PROVE  GoodScript
<1> DEFINE lb == "barrier"
           ls == "submit"
           le == "empty"
           A == thread_count
           S == Labelled(ls, C)
           I == Labelled("incr", C)
           K == S \cup I
           B == Labelled(lb, A)
<1>1. /\ lb # ls /\ lb # le /\ ls # le /\ ls # "barrier" /\ le # "barrier"
      /\ lb # "incr" /\ ls # "incr" /\ le # "incr"
  OBVIOUS
<1>2. Layout(lb, ls, le, A, A, A + C, A + C, e5, e6, e7, {}, K, B)
  OBVIOUS
<1>3. A \in Nat /\ A \in {0, thread_count}
  BY ThreadCount
<1> HIDE DEF lb, ls, le, A
<1>4. Used = B \cup S
  BY <1>1, <1>2, <1>3, OrderUsed
<1>5. BarrierScript
  BY <1>1, <1>2, <1>3, LayoutOrderly
<1>6. /\ \A k \in S : Label(k) = "submit"
      /\ \A k \in B : Label(k) = "barrier"
      /\ \A k \in I : Label(k) = "incr"
  BY LabelOf DEF ls, lb
<1>u. Used \subseteq Tasks
  BY UsedTasks
<1>7. ASSUME NEW i \in 0 .. C - 1
      PROVE  /\ <<"submit", i>> \in Used /\ <<"submit", i>> \in S
             /\ <<"incr", i>> \in I
             /\ Submitted[<<"submit", i>>] = {<<"incr", i>>}
  <2>1. <<"submit", i>> \in S /\ <<"incr", i>> \in I
    BY DEF Labelled, ls
  <2>2. <<"submit", i>> \in Used /\ <<"submit", i>> \in Tasks
    BY <1>4, <1>u, <2>1
  <2> QED
    BY <2>1, <2>2 DEF Submitted, Label, Number
<1>8. \A k : \A j \in Used : k \in Submitted[j] => k \in I
  <2> SUFFICES ASSUME NEW k, NEW j \in Used, k \in Submitted[j] PROVE k \in I
    OBVIOUS
  <2>1. j \in S
    BY <1>4, <1>6, <1>u, NoneSubmitted
  <2>2. PICK i \in 0 .. C - 1 : j = <<"submit", i>>
    BY <2>1 DEF Labelled, ls
  <2> QED
    BY <1>7, <2>2
<1>9. WaitersMeet
  BY <1>4, <1>6 DEF WaitersMeet
<1>10. WaitsFollow
  <2>1. B \subseteq Used /\ {} \subseteq Labelled(lb, A)
    BY <1>4
  <2>2. ASSUME NEW n \in e5 + 1 .. e6, NEW k \in K, WaitsAt(n, k), k \notin Used
        PROVE  \E j \in Used : k \in Submitted[j]
                 /\ \E m \in DOMAIN Script : m < n /\ WaitsAt(m, j)
    <3>1. k \in I
      BY <1>4, <2>2
    <3>2. PICK i \in 0 .. C - 1 : k = <<"incr", i>>
      BY <3>1 DEF Labelled
    <3>3. Label(k) = "incr" /\ Number(k) = i
      BY <3>2 DEF Label, Number
    <3> DEFINE m == n - 1
    <3>4. WaitsAt(m, <<"submit", i>>)
      BY <2>2, <3>3 DEF WaitsFirst
    <3>5. m < n
      <4>1. Ordered(A, A, A + C, A + C, e5, e6, e7)
        BY <1>2 DEF Layout
      <4> QED
        BY <4>1 DEF Ordered
    <3> HIDE DEF m
    <3>6. m \in DOMAIN Script
      BY <3>4 DEF WaitsAt
    <3>7. <<"submit", i>> \in Used /\ k \in Submitted[<<"submit", i>>]
      BY <1>7, <3>2
    <3> QED
      BY <3>4, <3>5, <3>6, <3>7
  <2> HIDE DEF K, B
  <2> QED
    BY <1>1, <1>2, <2>1, <2>2, LayoutFollows
<1>11. FinishScript
  <2>1. \A k \in Tasks : k \in Used \/ (\E j \in Used : k \in Submitted[j]) =>
          k \in {} \cup K \cup B
    BY <1>4, <1>8
  <2> QED
    BY <1>2, <2>1, LayoutFinishes
<1> QED
  BY <1>5, <1>9, <1>10, <1>11 DEF GoodScript, WaitScript, InOrderScript

LEMMA AgainLayout ==
  ASSUME NEW C \in Nat, Script = test_submit_then_wait_then_submit(C)
  PROVE  \E e5, e6, e7 :
           Layout("first", "second", "empty", C, C + C, C + C + C, C + C + C,
                  e5, e6, e7, Labelled("first", C), Labelled("second", C), {})
<1> DEFINE lf == "first"
           ls == "second"
           le == "empty"
           p1 == Calls("submit", "first", C)
           p2 == Calls("wait", "first", C)
           p3 == Calls("submit", "second", C)
           p6 == Calls("wait", "second", C)
           K == Labelled("first", C)
           M == Labelled("second", C)
<1>1. Script = p1 \o p2 \o p3 \o p6 \o Stopping
  BY DEF test_submit_then_wait_then_submit
<1>i. "first" \in Labels /\ "second" \in Labels
  BY DEF Labels
<1>2. /\ p1 \in Seq(AnyCall) /\ Len(p1) = C /\ SubmitCalls(p1, lf)
      /\ p3 \in Seq(AnyCall) /\ Len(p3) = C /\ SubmitCalls(p3, ls)
  BY <1>i, SubmitsOf
<1>3. /\ p2 \in Seq(AnyCall) /\ Len(p2) = C /\ WaitCalls(p2, K)
      /\ p6 \in Seq(AnyCall) /\ Len(p6) = C /\ WaitCalls(p6, M)
  BY <1>i, WaitsOf
<1> DEFINE e5 == C + C + C
           e6 == e5 + Len(p6)
           l == e6 + Len(Stopping)
<1> HIDE DEF p1, p2, p3, p6, K, M, lf, ls, le
<1>4. Script = p1 \o p2 \o p3 \o <<>> \o <<>> \o p6 \o <<>> \o Stopping
  <2>1. p1 \o p2 \o p3 \in Seq(AnyCall)
    BY <1>2, <1>3, ConcatProperties
  <2>2. p1 \o p2 \o p3 \o <<>> = p1 \o p2 \o p3
    BY <2>1, ConcatEmptySeq
  <2>3. p1 \o p2 \o p3 \o p6 \in Seq(AnyCall)
    BY <1>3, <2>1, ConcatProperties
  <2>4. p1 \o p2 \o p3 \o p6 \o <<>> = p1 \o p2 \o p3 \o p6
    BY <2>3, ConcatEmptySeq
  <2> QED
    BY <1>1, <2>2, <2>4
<1>5. e5 + Len(<<>>) = e5 /\ e6 + Len(<<>>) = e6
  BY <1>3
<1>6. Ends(AnyCall, Script, p1, p2, p3, <<>>, <<>>, p6, <<>>, Stopping,
           C, C + C, e5, e5, e5, e6, e6, l)
  <2>1. Stopping \in Seq(AnyCall) /\ <<>> \in Seq(AnyCall)
    BY OneCall, NoCalls
  <2> QED
    BY <1>2, <1>3, <1>4, <1>5, <2>1, Zenon DEF Ends
<1> HIDE DEF e6, l
<1>7. Layout(lf, ls, le, C, C + C, e5, e5, e5, e6, e6, K, M, {})
  <2> HIDE DEF e5
  <2> QED
    BY <1>2, <1>3, <1>6, NoCalls, OneCall, LayoutOf
<1> QED
  BY <1>7, Zenon DEF K, M, lf, ls, le

LEMMA AgainGood ==
  ASSUME test \in Tests, ~TestOfOrder, NEW C \in Nat, NEW e5, NEW e6, NEW e7,
         Layout("first", "second", "empty", C, C + C, C + C + C, C + C + C,
                e5, e6, e7, Labelled("first", C), Labelled("second", C), {})
  PROVE  GoodScript
<1> DEFINE lf == "first"
           ls == "second"
           le == "empty"
           K == Labelled(lf, C)
           M == Labelled(ls, C)
<1>1. /\ lf # ls /\ lf # le /\ ls # le /\ ls # "barrier" /\ le # "barrier"
      /\ lf # "incr" /\ ls # "incr" /\ le # "incr" /\ lf # "barrier"
  OBVIOUS
<1>2. Layout(lf, ls, le, C, C + C, C + C + C, C + C + C, e5, e6, e7, K, M, {})
  OBVIOUS
<1> HIDE DEF lf, ls, le
<1>4. Used = K \cup M
  <2>1. (C + C + C) - (C + C) = C /\ (C + C + C) - (C + C + C) = 0
    OBVIOUS
  <2>2. Used = Labelled(lf, C) \cup Labelled(ls, (C + C + C) - (C + C))
                 \cup Labelled(le, (C + C + C) - (C + C + C))
    BY <1>1, <1>2, LayoutSubmits
  <2> QED
    BY <2>1, <2>2, NoneLabelled
<1>5. BarrierScript
  BY <1>1, <1>2, LayoutOrderly
<1>6. /\ \A k \in K : Label(k) = "first"
      /\ \A k \in M : Label(k) = "second"
  BY LabelOf DEF lf, ls
<1>7. /\ WaitersMeet
      /\ \A k \in Tasks : \A j \in Used : k \notin Submitted[j]
  BY <1>4, <1>6, SimpleTest
<1>8. WaitsFollow
  <2>1. M \subseteq Used /\ {} \subseteq Used /\ K \subseteq Labelled(lf, C)
    BY <1>4
  <2> QED
    BY <1>1, <1>2, <2>1, LayoutFollows
<1>9. FinishScript
  <2>1. \A k \in Tasks : k \in Used \/ (\E j \in Used : k \in Submitted[j]) =>
          k \in K \cup M \cup {}
    BY <1>4, <1>7
  <2> QED
    BY <1>2, <2>1, LayoutFinishes
<1> QED
  BY <1>5, <1>7, <1>8, <1>9 DEF GoodScript, WaitScript, InOrderScript

\* The script of every test is as the proofs below need it.
LEMMA ScriptIsGood ==
  ASSUME test \in Tests PROVE GoodScript /\ Script \in Seq(AnyCall)
<1> DEFINE C == test.count
<1> SUFFICES GoodScript
  BY DEF GoodScript, WaitScript, BarrierScript, OrderlyScript
<1>1. C \in Nat /\ C # 0
  BY TestFields
<1>2. CASE test.name = "run in order"
  <2> DEFINE f == test.submit_first
             r == test.wait_reverse
  <2>1. Script = test_run_in_order(C, f, r) /\ f \in BOOLEAN /\ r \in BOOLEAN
    BY <1>2, TestFields DEF Script, ScriptOf
  <2> HIDE DEF C, f, r
  <2> QED
    BY <1>1, <2>1, OrderLayout, OrderGood
<1>3. CASE test.name = "wait for future"
  <2> DEFINE W == Waiters
  <2>1. W \in Nat
    BY ThreadCount DEF Waiters
  <2>2. Script = test_wait_for_from_future_tasks /\ ~TestOfOrder
    BY <1>3 DEF Script, ScriptOf, TestOfOrder
  <2> HIDE DEF C
  <2> QED
    BY <2>1, <2>2, WaitLayout, WaitGood
<1>4. CASE test.name = "submit many"
  <2>1. Script = test_submit_many(C) /\ ~TestOfOrder
    BY <1>4 DEF Script, ScriptOf, TestOfOrder
  <2> HIDE DEF C
  <2> QED
    BY <1>1, <2>1, SubmitLayout, SubmitGood
<1>5. CASE test.name = "submit again"
  <2>1. Script = test_submit_then_wait_then_submit(C) /\ ~TestOfOrder
    BY <1>5 DEF Script, ScriptOf, TestOfOrder
  <2> HIDE DEF C
  <2> QED
    BY <1>1, <2>1, AgainLayout, AgainGood
<1> QED
  BY <1>2, <1>3, <1>4, <1>5, TestFields

-----------------------------------------------------------------------------
(* The theorems *)

LEMMA TestInvAlways ==
  ASSUME ~ReuseNames PROVE TestSpec => []TestInv
<1>1. ASSUME TestInit PROVE TestInv
  <2>1. test \in Tests
    BY <1>1 DEF TestInit
  <2>2. InOrderScript /\ Script \in Seq(AnyCall)
    BY <2>1, ScriptIsGood DEF GoodScript
  <2> QED
    BY <1>1, <2>2, TestInvInit
<1>2. ASSUME TestInv, [TestNext]_allVars PROVE TestInv'
  <2>1. test \in Tests
    BY <1>2 DEF TestInv, RunInv, TestTypes
  <2> QED
    BY <1>2, <2>1, ScriptIsGood, TestInvStep
<1> QED
  BY <1>1, <1>2, PTL DEF TestSpec

\* The variables of the test program have their types: in particular the counter
\* and what the counting tasks are given (pool-test.cc:37-39) stay within the
\* number of these tasks, and main within its calls.
THEOREM TestTypeCorrect ==
  ASSUME ~ReuseNames PROVE TestSpec => []TestTypeOK
<1>1. TestInv => TestTypeOK
  <2> SUFFICES ASSUME TestInv PROVE TestTypeOK
    OBVIOUS
  <2>1. test \in Tests
    BY DEF TestInv, RunInv, TestTypes
  <2> QED
    BY <2>1, ScriptIsGood, TestTypeHolds
<1> QED
  BY <1>1, TestInvAlways, PTL

\* The barrier does what it is for (pool-test.cc:168): whatever the number of
\* threads, no task after the barrier tasks begins before main has submitted all
\* the tasks of the test.
THEOREM BarrierHoldsTheWorkers ==
  ASSUME ~ReuseNames PROVE TestSpec => []BarrierHoldsWorkers
<1>1. TestInv => BarrierHoldsWorkers
  <2> SUFFICES ASSUME TestInv PROVE BarrierHoldsWorkers
    OBVIOUS
  <2>1. test \in Tests
    BY DEF TestInv, RunInv, TestTypes
  <2>2. BarrierScript
    BY <2>1, ScriptIsGood DEF GoodScript, WaitScript
  <2> QED
    BY <2>2, BarrierHolds
<1> QED
  BY <1>1, TestInvAlways, PTL

\* The CHECKs of the four tests (those of test_run_in_order are at
\* pool-test.cc:221-239) pass in every interleaving, for every number of threads
\* and tasks: every counting task has run once and they were given the numbers
\* from 0 on, 0 went to one of the first thread_count of them, a single thread
\* gave them in the order of submission, every barrier and wait task has run,
\* every task is deleted.
THEOREM EveryCheckPasses ==
  ASSUME ~ReuseNames PROVE TestSpec => []ChecksPass
<1>1. TestInv => ChecksPass
  <2> SUFFICES ASSUME TestInv PROVE ChecksPass
    OBVIOUS
  <2>1. test \in Tests
    BY DEF TestInv, RunInv, TestTypes
  <2> QED
    BY <2>1, ScriptIsGood, ChecksHold
<1> QED
  BY <1>1, TestInvAlways, PTL

\* The test program as a user of the pool: whatever main and the Run() of its
\* tasks do, each step of it is a step the pool allows its clients and tasks, or
\* leaves the pool alone.  What is proved of the pool holds in the tests.
UsesThePool == Init /\ [][Next]_vars

THEOREM TestsAreClients ==
  ASSUME ~ReuseNames PROVE TestSpec => UsesThePool
<1>1. TestInit => Init
  BY DEF TestInit
<1>2. ASSUME TestInv, [TestNext]_allVars PROVE [Next]_vars
  <2>1. test \in Tests /\ OwnershipInv
    BY <1>2 DEF TestInv, RunInv, TestTypes, PoolInv
  <2>2. Script \in Seq(AnyCall)
    BY <2>1, ScriptIsGood
  <2>3. at \in Nat
    BY <1>2, <2>2, LenProperties DEF TestInv, RunInv, TestTypes
  <2> QED
    BY <1>2, <2>1, <2>2, <2>3, TestStepsAreSteps
<1> QED
  BY <1>1, <1>2, TestInvAlways, PTL DEF TestSpec, UsesThePool
================================================================================
