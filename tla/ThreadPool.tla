------------------------------ MODULE ThreadPool ------------------------------
(***************************************************************************)
(* The pthread pool of src/pool: pool.cc and pool.h.  Workers run          *)
(* WorkerFunction, clients (the main thread of pool-test.cc) and the Run() *)
(* of a task call SubmitTask and WaitForTask, a client calls Stop.         *)
(*                                                                         *)
(* What is atomic.  taskQueue, taskMap and stopCalled are only touched     *)
(* with taskMutex held, so a critical section is one step, except where    *)
(* its outcome can be overtaken by a thread that does NOT take the mutex:  *)
(* a worker sets Task::finished and signals doneCondition without it, so   *)
(* WaitForTask's test of the flag and its entry into pthread_cond_wait are *)
(* two steps, between which the caller holds the mutex.                    *)
(*                                                                         *)
(* The wait set of a condition variable is the set of threads whose pc     *)
(* says that they sleep on it.  pthread_cond_wait may return spuriously.   *)
(***************************************************************************)
EXTENDS Naturals, Sequences, FiniteSets

CONSTANTS
  Workers,       \* the threads the constructor creates
  Clients,       \* the threads that use the pool from outside
  Tasks,         \* the Task objects that are ever allocated
  Names,         \* the strings used as task names
  NameOf,        \* the name each object is submitted under
  TaskSubmits,   \* the objects the Run() of a task may submit (SubmitTaskTask)
  TaskWaits,     \* the names the Run() of a task may wait for (WaitForTaskTask)
  MayFail,       \* the workers whose pthread_create may fail
  ReuseNames,    \* may a name be submitted while an object of that name lives?
  ShareWaits,    \* may two threads wait for one name at the same time?
  NoTask,        \* no entry in the map, no task in a local variable
  NoThread       \* the mutex is free

ASSUME PoolAssumption ==
  /\ Workers \cap Clients = {}
  /\ IsFiniteSet(Workers) /\ IsFiniteSet(Clients)
  /\ NoThread \notin Workers \cup Clients
  /\ NoTask \notin Tasks
  /\ NameOf \in [Tasks -> Names]
  /\ TaskSubmits \in [Tasks -> SUBSET Tasks]
  /\ TaskWaits \in [Tasks -> SUBSET Names]
  /\ MayFail \subseteq Workers
  /\ ReuseNames \in BOOLEAN /\ ShareWaits \in BOOLEAN

VARIABLES
  taskQueue,   \* ThreadPool::taskQueue, names in submission order
  taskMap,     \* ThreadPool::taskMap, NoTask where there is no entry
  stopCalled,  \* ThreadPool::stopCalled
  mutex,       \* who holds taskMutex across two steps
  pc,          \* where each thread is
  myTask,      \* WorkerFunction's myTask, from the pop to the end of the loop
  waitTask,    \* WaitForTask's myTask, while the call is in progress
  finished,    \* Task::finished
  heap,        \* is the object not yet allocated, live, or deleted?
  alive        \* FALSE once undefined behaviour has ended the process

vars == <<taskQueue, taskMap, stopCalled, mutex, pc, myTask, waitTask,
          finished, heap, alive>>

Threads == Workers \cup Clients

\* idle         a client between two calls
\* top          a worker at the head of its loop, or woken inside cond_wait
\* readyWait    a worker asleep on taskReadyCondition
\* run          a worker inside Run(), between two calls into the pool
\* signalReady  in SubmitTask, the mutex released and the signal not yet sent
\* enrol        in WaitForTask, finished read as false, the mutex held
\* doneWait     asleep on the doneCondition of waitTask
\* rewait       woken from doneCondition, the mutex not yet reacquired
\* signalDone   a worker that has set finished and not yet signalled
\* exited, absent  WorkerFunction returned, or never started
\* joining, stopped  Stop between its broadcast and its return, and after it
Locations == {"idle", "top", "readyWait", "run", "signalReady", "enrol",
              "doneWait", "rewait", "signalDone", "exited", "absent",
              "joining", "stopped"}

\* The thread that holds taskMutex across two steps is in WaitForTask, about to
\* sleep: a thread that sleeps or runs a task has released it.
HolderEnrols == \A t \in Threads : mutex = t <=> pc[t] = "enrol"

TypeOK ==
  /\ taskQueue \in Seq(Names)
  /\ taskMap \in [Names -> Tasks \cup {NoTask}]
  /\ stopCalled \in BOOLEAN
  /\ mutex \in Threads \cup {NoThread}
  /\ pc \in [Threads -> Locations]
  /\ myTask \in [Workers -> Tasks \cup {NoTask}]
  /\ waitTask \in [Threads -> Tasks \cup {NoTask}]
  /\ finished \in [Tasks -> BOOLEAN]
  /\ heap \in [Tasks -> {"fresh", "live", "deleted"}]
  /\ alive \in BOOLEAN
  /\ HolderEnrols

-----------------------------------------------------------------------------
(* The constructor: it only reports a failed pthread_create and goes on. *)

Init ==
  /\ taskQueue = <<>>
  /\ taskMap = [n \in Names |-> NoTask]
  /\ stopCalled = FALSE
  /\ mutex = NoThread
  /\ \E failed \in SUBSET MayFail :
       pc = [t \in Threads |-> IF t \in Clients THEN "idle"
                               ELSE IF t \in failed THEN "absent"
                               ELSE "top"]
  /\ myTask = [w \in Workers |-> NoTask]
  /\ waitTask = [t \in Threads |-> NoTask]
  /\ finished = [k \in Tasks |-> FALSE]
  /\ heap = [k \in Tasks |-> "fresh"]
  /\ alive = TRUE

\* Where a thread continues when a call into the pool returns.
Home(t) == IF t \in Clients THEN "idle" ELSE "run"

\* A thread that may call into the pool now.
AtHome(t) == pc[t] = Home(t)

\* The outcome of undefined behaviour that ends the process: the sanitizers
\* of the Makefile abort, an unmapped page faults.
Crash == /\ alive' = FALSE
         /\ UNCHANGED <<taskQueue, taskMap, stopCalled, mutex, pc, myTask,
                        waitTask, finished, heap>>

-----------------------------------------------------------------------------
(* SubmitTask(name, task) *)

\* A thread submits only objects meant for it and, as pool.h assumes, not
\* after Stop.
MaySubmit(t, k) ==
  /\ ~stopCalled
  /\ heap[k] = "fresh"
  /\ IF t \in Workers THEN k \in TaskSubmits[myTask[t]]
                      ELSE \A j \in Tasks : k \notin TaskSubmits[j]
  /\ \/ ReuseNames
     \/ \A j \in Tasks : heap[j] = "live" => NameOf[j] # NameOf[k]

\* taskQueue.push(name), and its variant that pushes at the wrong end.
PushInFront(k) == <<NameOf[k]>> \o taskQueue
Push(k) == Append(taskQueue, NameOf[k])

\* taskMap.insert({name, task}), which leaves an entry that exists alone, and
\* its variant that forgets to insert.
InsertNothing(k) == taskMap
Insert(k) == [taskMap EXCEPT ![NameOf[k]] = IF @ = NoTask THEN k ELSE @]

\* lock; push; insert; unlock.
SubmitTask(t, k) ==
  /\ AtHome(t) /\ mutex = NoThread
  /\ MaySubmit(t, k)
  /\ heap' = [heap EXCEPT ![k] = "live"]
  /\ taskQueue' = Push(k)
  /\ taskMap' = Insert(k)
  /\ pc' = [pc EXCEPT ![t] = "signalReady"]
  /\ UNCHANGED <<stopCalled, mutex, myTask, waitTask, finished, alive>>

Sleepers == {w \in Workers : pc[w] = "readyWait"}

\* A variant that omits the signal.
SubmitWithoutSignal(t) ==
  /\ pc[t] = "signalReady"
  /\ pc' = [pc EXCEPT ![t] = Home(t)]
  /\ UNCHANGED <<taskQueue, taskMap, stopCalled, mutex, myTask, waitTask,
                 finished, heap, alive>>

\* pthread_cond_signal(&taskReadyCondition), after the unlock.
SubmitSignal(t) ==
  /\ pc[t] = "signalReady"
  /\ \/ /\ Sleepers = {}
        /\ pc' = [pc EXCEPT ![t] = Home(t)]
     \/ \E w \in Sleepers :
          pc' = [pc EXCEPT ![t] = Home(t), ![w] = "top"]
  /\ UNCHANGED <<taskQueue, taskMap, stopCalled, mutex, myTask, waitTask,
                 finished, heap, alive>>

-----------------------------------------------------------------------------
(* WaitForTask(name) *)

MayWait(t, n) ==
  /\ ~stopCalled
  /\ t \in Workers => n \in TaskWaits[myTask[t]]
  /\ \/ ShareWaits
     \/ \A u \in Threads : waitTask[u] # NoTask => NameOf[waitTask[u]] # n

\* Task::getFinished, and a variant of the loop that does not look at it.
AssumedFinished(k) == TRUE
getFinished(k) == finished[k]

\* One test of the while condition on object k, with the mutex just taken:
\* leave the loop, erase the entry and delete the object, or go on to sleep.
TestFinished(t, k) ==
  \/ /\ getFinished(k)
     /\ taskMap' = [taskMap EXCEPT ![NameOf[k]] = NoTask]
     /\ heap' = [heap EXCEPT ![k] = "deleted"]
     /\ waitTask' = [waitTask EXCEPT ![t] = NoTask]
     /\ pc' = [pc EXCEPT ![t] = Home(t)]
     /\ UNCHANGED <<taskQueue, stopCalled, mutex, myTask, finished, alive>>
  \/ /\ ~getFinished(k)
     /\ mutex' = t
     /\ waitTask' = [waitTask EXCEPT ![t] = k]
     /\ pc' = [pc EXCEPT ![t] = "enrol"]
     /\ UNCHANGED <<taskQueue, taskMap, stopCalled, myTask, finished, heap,
                    alive>>

\* A name with no entry, not submitted yet or waited for already, returns at
\* once, which changes nothing.
WaitForTask(t, n) ==
  /\ AtHome(t) /\ mutex = NoThread
  /\ MayWait(t, n)
  /\ taskMap[n] # NoTask
  /\ TestFinished(t, taskMap[n])

\* A variant that goes to sleep with the mutex held.
EnterHolding(t) ==
  /\ pc[t] = "enrol"
  /\ pc' = [pc EXCEPT ![t] = "doneWait"]
  /\ UNCHANGED <<taskQueue, taskMap, stopCalled, mutex, myTask, waitTask,
                 finished, heap, alive>>

\* pthread_cond_wait goes to sleep and releases the mutex in one step.
EnterDoneWait(t) ==
  /\ pc[t] = "enrol"
  /\ pc' = [pc EXCEPT ![t] = "doneWait"]
  /\ mutex' = NoThread
  /\ UNCHANGED <<taskQueue, taskMap, stopCalled, myTask, waitTask, finished,
                 heap, alive>>

\* pthread_cond_wait returns, the loop tests the flag of the object whose
\* pointer the call still holds.  Reading a deleted object is undefined: it
\* ends the process, or reads false and sleeps (reading true deletes twice,
\* which ends it too).
ReturnFromDoneWait(t) ==
  /\ pc[t] = "rewait" /\ mutex = NoThread
  /\ \/ /\ heap[waitTask[t]] = "live"
        /\ TestFinished(t, waitTask[t])
     \/ /\ heap[waitTask[t]] = "deleted"
        /\ \/ Crash
           \/ /\ mutex' = t
              /\ pc' = [pc EXCEPT ![t] = "enrol"]
              /\ UNCHANGED <<taskQueue, taskMap, stopCalled, myTask, waitTask,
                             finished, heap, alive>>

-----------------------------------------------------------------------------
(* WorkerFunction *)

\* lock; the while loop around cond_wait; the test of stopCalled, which comes
\* first; pop and look the name up; unlock.
TakeTask(w) ==
  /\ pc[w] = "top" /\ mutex = NoThread
  /\ \/ /\ taskQueue = <<>> /\ ~stopCalled
        /\ pc' = [pc EXCEPT ![w] = "readyWait"]
        /\ UNCHANGED <<taskQueue, taskMap, stopCalled, mutex, myTask, waitTask,
                       finished, heap, alive>>
     \/ /\ stopCalled
        /\ pc' = [pc EXCEPT ![w] = "exited"]
        /\ UNCHANGED <<taskQueue, taskMap, stopCalled, mutex, myTask, waitTask,
                       finished, heap, alive>>
     \/ /\ ~stopCalled /\ taskQueue # <<>>
        /\ taskMap[Head(taskQueue)] # NoTask
        /\ taskQueue' = Tail(taskQueue)
        /\ myTask' = [myTask EXCEPT ![w] = taskMap[Head(taskQueue)]]
        /\ pc' = [pc EXCEPT ![w] = "run"]
        /\ UNCHANGED <<taskMap, stopCalled, mutex, waitTask, finished, heap,
                       alive>>
     \* operator[] makes a null entry, and Run() is called through it
     \/ /\ ~stopCalled /\ taskQueue # <<>>
        /\ taskMap[Head(taskQueue)] = NoTask
        /\ Crash

\* A variant in which the worker deletes the task it has run.
FinishRunAndDelete(w) ==
  /\ pc[w] = "run"
  /\ finished' = [finished EXCEPT ![myTask[w]] = TRUE]
  /\ heap' = [heap EXCEPT ![myTask[w]] = "deleted"]
  /\ pc' = [pc EXCEPT ![w] = "signalDone"]
  /\ UNCHANGED <<taskQueue, taskMap, stopCalled, mutex, myTask, waitTask,
                 alive>>

\* Run() returns and setFinishedTrue() follows, with no lock held.  If the
\* object is gone, the write is lost or ends the process.
FinishRun(w) ==
  /\ pc[w] = "run"
  /\ \/ /\ finished' = [finished EXCEPT ![myTask[w]] = TRUE]
        /\ pc' = [pc EXCEPT ![w] = "signalDone"]
        /\ UNCHANGED <<taskQueue, taskMap, stopCalled, mutex, myTask, waitTask,
                       heap, alive>>
     \/ heap[myTask[w]] = "deleted" /\ Crash

DoneSleepers(k) == {t \in Threads : pc[t] = "doneWait" /\ waitTask[t] = k}

\* pthread_cond_signal(myTask->getDoneCondition()), with no lock held.  On a
\* deleted object it ends the process or wakes nobody.
SignalDone(w) ==
  /\ pc[w] = "signalDone"
  /\ \/ /\ \/ heap[myTask[w]] = "deleted"
           \/ DoneSleepers(myTask[w]) = {}
        /\ pc' = [pc EXCEPT ![w] = "top"]
        /\ myTask' = [myTask EXCEPT ![w] = NoTask]
        /\ UNCHANGED <<taskQueue, taskMap, stopCalled, mutex, waitTask,
                       finished, heap, alive>>
     \/ /\ heap[myTask[w]] = "live"
        /\ \E t \in DoneSleepers(myTask[w]) :
             pc' = [pc EXCEPT ![w] = "top", ![t] = "rewait"]
        /\ myTask' = [myTask EXCEPT ![w] = NoTask]
        /\ UNCHANGED <<taskQueue, taskMap, stopCalled, mutex, waitTask,
                       finished, heap, alive>>
     \/ heap[myTask[w]] = "deleted" /\ Crash

\* POSIX lets pthread_cond_wait return without a signal.
SpuriousWakeup(t) ==
  /\ \/ pc[t] = "readyWait" /\ pc' = [pc EXCEPT ![t] = "top"]
     \/ pc[t] = "doneWait" /\ pc' = [pc EXCEPT ![t] = "rewait"]
  /\ UNCHANGED <<taskQueue, taskMap, stopCalled, mutex, myTask, waitTask,
                 finished, heap, alive>>

-----------------------------------------------------------------------------
(* Stop() *)

\* pool.h: "All tasks must have been waited for before calling this".
MayStop == ~stopCalled /\ \A k \in Tasks : heap[k] # "live"

\* The workers the broadcast wakes, and a variant without the broadcast.
NobodyWoken == {}
WokenByStop == Sleepers

\* lock; stopCalled = true; broadcast; unlock.
Stop(c) ==
  /\ AtHome(c) /\ mutex = NoThread
  /\ MayStop
  /\ stopCalled' = TRUE
  /\ pc' = [t \in Threads |-> IF t = c THEN "joining"
                              ELSE IF t \in WokenByStop THEN "top"
                              ELSE pc[t]]
  /\ UNCHANGED <<taskQueue, taskMap, mutex, myTask, waitTask, finished, heap,
                 alive>>

\* pthread_join has returned for every thread, and a variant without joins.
NotJoined == TRUE
Joined == \A w \in Workers : pc[w] \in {"exited", "absent"}

\* The joins, then the mutex, the condition and the array are destroyed.  To
\* join a thread that was never created reads an uninitialised handle: the
\* call fails, which is only reported, or ends the process.
JoinAll(c) ==
  /\ pc[c] = "joining"
  /\ Joined
  /\ \/ /\ pc' = [pc EXCEPT ![c] = "stopped"]
        /\ UNCHANGED <<taskQueue, taskMap, stopCalled, mutex, myTask, waitTask,
                       finished, heap, alive>>
     \/ (\E w \in Workers : pc[w] = "absent") /\ Crash

-----------------------------------------------------------------------------

\* The steps a thread takes on its own once it is inside the pool.
WorkerStep(w) == TakeTask(w) \/ FinishRun(w) \/ SignalDone(w)
CallStep(t) == SubmitSignal(t) \/ EnterDoneWait(t) \/ ReturnFromDoneWait(t)

Next ==
  /\ alive
  /\ \/ \E t \in Threads : \/ \E k \in Tasks : SubmitTask(t, k)
                           \/ \E n \in Names : WaitForTask(t, n)
                           \/ CallStep(t)
                           \/ SpuriousWakeup(t)
     \/ \E w \in Workers : WorkerStep(w)
     \/ \E c \in Clients : Stop(c) \/ JoinAll(c)

\* Every thread is scheduled and a contended mutex is granted in the end
\* (strong fairness: it can be busy again and again).  Nothing obliges a
\* client to make a call, nor the system to wake a thread spuriously; Run()
\* of a task returns.
Fairness ==
  /\ \A w \in Workers :
       /\ SF_vars(alive /\ TakeTask(w))
       /\ WF_vars(alive /\ FinishRun(w))
       /\ WF_vars(alive /\ SignalDone(w))
  /\ \A t \in Threads :
       /\ WF_vars(alive /\ SubmitSignal(t))
       /\ WF_vars(alive /\ EnterDoneWait(t))
       /\ SF_vars(alive /\ ReturnFromDoneWait(t))
  /\ \A c \in Clients : WF_vars(alive /\ JoinAll(c))

Spec == Init /\ [][Next]_vars

FairSpec == Spec /\ Fairness

-----------------------------------------------------------------------------
(* Safety *)

\* A worker that has popped a task and has not yet set its finished flag.
Busy(w) == myTask[w] # NoTask /\ pc[w] # "signalDone"

\* The object a worker runs stays allocated and unfinished while it runs, no
\* other worker runs it, and its name still leads to it: WaitForTask does not
\* delete it early and no name is popped twice.
RunningTaskIsOwned ==
  \A w \in Workers : Busy(w) =>
    /\ heap[myTask[w]] = "live"
    /\ ~finished[myTask[w]]
    /\ taskMap[NameOf[myTask[w]]] = myTask[w]
    /\ \A v \in Workers \ {w} : myTask[v] # myTask[w]

\* Every queued name leads to a live object that no worker has taken, and is
\* queued once, so that the taskMap[taskKey] of a worker never makes a null
\* entry and calls Run() through it.
QueuedNamesAreMapped ==
  \A i \in DOMAIN taskQueue :
    LET k == taskMap[taskQueue[i]]
    IN  /\ k # NoTask
        /\ heap[k] = "live"
        /\ ~finished[k]
        /\ \A w \in Workers : myTask[w] # k
        /\ \A j \in DOMAIN taskQueue : taskQueue[j] = taskQueue[i] => j = i

\* No submitted object is forgotten: while it lives and has not finished, its
\* name is queued or a worker runs it.
NoTaskIsLost ==
  \A k \in Tasks : heap[k] = "live" /\ ~finished[k] =>
    \/ \E i \in DOMAIN taskQueue : taskMap[taskQueue[i]] = k
    \/ \E w \in Workers : Busy(w) /\ myTask[w] = k

\* The workers on their way to the queue, and the signals on their way.
Arriving == {w \in Workers : pc[w] = "top"}
Signalling == {t \in Threads : pc[t] = "signalReady"}

\* No wake-up of a worker is lost although SubmitTask signals after it has
\* released the mutex and a worker that comes round may take the task first:
\* while a worker sleeps, the queue is no longer than the workers on their way
\* to it and the signals on their way to the sleepers.
NoIdleBacklog ==
  Sleepers # {} =>
    Len(taskQueue) <= Cardinality(Arriving) + Cardinality(Signalling)

\* When Stop has destroyed the mutex and the condition, every worker that ran
\* has returned and no client is inside WaitForTask.
NobodyInsideAfterStop ==
  (\E c \in Clients : pc[c] = "stopped") =>
    \A t \in Threads : pc[t] \in {"idle", "exited", "absent", "stopped",
                                 "signalReady"}

\* Stop loses no work: when the workers are told to go, nothing is queued and
\* nobody runs or awaits a task.
StopFindsNoWork ==
  stopCalled => /\ taskQueue = <<>>
                /\ \A w \in Workers : ~Busy(w)
                /\ \A t \in Threads : waitTask[t] = NoTask

\* pool.cc:85 signals the done condition of an object that is still allocated.
SignalsLiveTask ==
  \A w \in Workers : pc[w] = "signalDone" => heap[myTask[w]] = "live"

-----------------------------------------------------------------------------
(* Liveness *)

\* A submitted task whose Run() waits for no other is run to its end, unless
\* the process has died of undefined behaviour.
SubmittedTasksFinish ==
  \A k \in Tasks : TaskWaits[k] = {} =>
    (heap[k] = "live" ~> finished[k] \/ ~alive)

\* Stop returns: every worker comes to see the flag and can be joined.
StopReturns ==
  \A c \in Clients : pc[c] = "joining" ~> pc[c] = "stopped" \/ ~alive

\* pool.h:43: WaitForTask returns once the task is completed.
WaitReturns ==
  \A t \in Threads, k \in Tasks :
    waitTask[t] = k /\ finished[k] ~> waitTask[t] # k \/ ~alive
=============================================================================
