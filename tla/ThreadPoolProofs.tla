--------------------------- MODULE ThreadPoolProofs ---------------------------
(***************************************************************************)
(* Theorems about ThreadPool, for every number of workers, clients, tasks  *)
(* and names: first those that hold whatever the users do with names and   *)
(* waits, then those about uses in which a name is submitted again only    *)
(* after its earlier object was deleted, and last that such a pool         *)
(* implements FifoExecutor.                                                *)
(***************************************************************************)
EXTENDS MCThreadPool, FiniteSetTheorems, TLAPS

-----------------------------------------------------------------------------
(* Type correctness *)

\* A call returns to one of the two places it can have been made from.
LEMMA HomeType == \A t \in Threads : Home(t) \in Locations
BY DEF Home, Locations

LEMMA TypeInit == Init => TypeOK
<1> SUFFICES ASSUME Init PROVE TypeOK
  OBVIOUS
<1>1. taskQueue \in Seq(Names)
  BY DEF Init
<1>2. pc \in [Threads -> Locations]
  BY DEF Init, Locations
<1>3. finished \in [Tasks -> BOOLEAN]
  BY DEF Init
<1>4. heap \in [Tasks -> {"fresh", "live", "deleted"}]
  BY DEF Init
<1>5. HolderEnrols
  BY PoolAssumption DEF Init, HolderEnrols, Threads
<1> QED
  BY <1>1, <1>2, <1>3, <1>4, <1>5 DEF Init, TypeOK

\* The mutex is taken and released together with the place of its holder.
LEMMA HolderStep == TypeOK /\ [Next]_vars => HolderEnrols'
<1> SUFFICES ASSUME TypeOK, [Next]_vars PROVE HolderEnrols'
  OBVIOUS
<1>0. /\ pc \in [Threads -> Locations] /\ HolderEnrols
      /\ NoThread \notin Threads /\ Workers \subseteq Threads /\ Clients \subseteq Threads
  BY PoolAssumption DEF TypeOK, Threads
<1>h. \A t \in Threads : Home(t) # "enrol"
  BY DEF Home
<1>u. ASSUME NEW t \in Threads, NEW at, at # "enrol", pc[t] # "enrol",
             pc' = [pc EXCEPT ![t] = at], mutex' = mutex
      PROVE  HolderEnrols'
  BY <1>0, <1>u DEF HolderEnrols
<1>v. ASSUME NEW t \in Threads, mutex = NoThread,
             pc' = [pc EXCEPT ![t] = "enrol"], mutex' = t
      PROVE  HolderEnrols'
  BY <1>0, <1>v DEF HolderEnrols
<1>w. ASSUME NEW t \in Threads, NEW u \in Threads, NEW at, NEW to,
             pc[t] # "enrol", pc[u] # "enrol", at # "enrol", to # "enrol",
             pc' = [pc EXCEPT ![t] = at, ![u] = to], mutex' = mutex
      PROVE  HolderEnrols'
  BY <1>0, <1>w DEF HolderEnrols
<1>s. ASSUME UNCHANGED <<pc, mutex>>
      PROVE  HolderEnrols'
  BY <1>0, <1>s DEF HolderEnrols
<1>f. ASSUME NEW t \in Threads, NEW k, mutex = NoThread, TestFinished(t, k)
      PROVE  HolderEnrols'
  <2>1. pc[t] # "enrol"
    BY <1>0, <1>f DEF HolderEnrols
  <2> QED
    BY <2>1, <1>f, <1>h, <1>u, <1>v DEF TestFinished
<1>1. ASSUME NEW t \in Threads, NEW k \in Tasks, SubmitTask(t, k)
      PROVE  HolderEnrols'
  BY <1>1, <1>h, <1>u DEF SubmitTask, AtHome
<1>2. ASSUME NEW t \in Threads, NEW n \in Names, WaitForTask(t, n)
      PROVE  HolderEnrols'
  BY <1>2, <1>f DEF WaitForTask
<1>3. ASSUME NEW t \in Threads, SubmitSignal(t)
      PROVE  HolderEnrols'
  BY <1>3, <1>0, <1>h, <1>u, <1>w DEF SubmitSignal, Sleepers
<1>4. ASSUME NEW t \in Threads, EnterDoneWait(t)
      PROVE  HolderEnrols'
  BY <1>4, <1>0 DEF EnterDoneWait, HolderEnrols
<1>5. ASSUME NEW t \in Threads, ReturnFromDoneWait(t)
      PROVE  HolderEnrols'
  BY <1>5, <1>f, <1>v, <1>s DEF ReturnFromDoneWait, Crash
<1>6. ASSUME NEW t \in Threads, SpuriousWakeup(t)
      PROVE  HolderEnrols'
  BY <1>6, <1>u DEF SpuriousWakeup
<1>7. ASSUME NEW w \in Workers, TakeTask(w)
      PROVE  HolderEnrols'
  BY <1>7, <1>0, <1>u, <1>s DEF TakeTask, Crash
<1>8. ASSUME NEW w \in Workers, FinishRun(w)
      PROVE  HolderEnrols'
  BY <1>8, <1>0, <1>u, <1>s DEF FinishRun, Crash
<1>9. ASSUME NEW w \in Workers, SignalDone(w)
      PROVE  HolderEnrols'
  BY <1>9, <1>0, <1>u, <1>w, <1>s DEF SignalDone, DoneSleepers, Crash
<1>10. ASSUME NEW c \in Clients, Stop(c)
       PROVE  HolderEnrols'
  BY <1>10, <1>0, <1>h DEF Stop, AtHome, WokenByStop, Sleepers, HolderEnrols
<1>11. ASSUME NEW c \in Clients, JoinAll(c)
       PROVE  HolderEnrols'
  BY <1>11, <1>0, <1>u, <1>s DEF JoinAll, Crash
<1>12. CASE UNCHANGED vars
  BY <1>12, <1>s DEF vars
<1> QED
  BY <1>1, <1>2, <1>3, <1>4, <1>5, <1>6, <1>7, <1>8, <1>9, <1>10, <1>11, <1>12
  DEF Next, CallStep, WorkerStep

\* Whatever the users do with names and waits, a step keeps every variable in
\* its type.
LEMMA TypeStep == TypeOK /\ [Next]_vars => TypeOK'
<1> SUFFICES ASSUME TypeOK, [Next]_vars PROVE TypeOK'
  OBVIOUS
<1>h. HolderEnrols'
  BY HolderStep
<1> USE PoolAssumption, <1>h DEF TypeOK
<1>c. ASSUME Crash PROVE TypeOK'
  BY <1>c DEF Crash
<1>f. ASSUME NEW t \in Threads, NEW k \in Tasks \cup {NoTask},
             TestFinished(t, k)
      PROVE  TypeOK'
  <2>1. CASE getFinished(k)
    <3>1. pc' \in [Threads -> Locations]
      BY <1>f, <2>1, HomeType DEF TestFinished
    <3>2. heap' \in [Tasks -> {"fresh", "live", "deleted"}]
      BY <1>f, <2>1 DEF TestFinished
    <3>3. waitTask' \in [Threads -> Tasks \cup {NoTask}]
      BY <1>f, <2>1 DEF TestFinished
    <3>4. taskMap' \in [Names -> Tasks \cup {NoTask}]
      BY <1>f, <2>1 DEF TestFinished
    <3> QED
      BY <1>f, <2>1, <3>1, <3>2, <3>3, <3>4 DEF TestFinished
  <2>2. CASE ~getFinished(k)
    <3>1. pc' \in [Threads -> Locations]
      BY <1>f, <2>2 DEF TestFinished, Locations
    <3> QED
      BY <1>f, <2>2, <3>1 DEF TestFinished
  <2> QED
    BY <2>1, <2>2
<1>1. ASSUME NEW t \in Threads, NEW k \in Tasks, SubmitTask(t, k)
      PROVE  TypeOK'
  <2>1. NameOf[k] \in Names
    OBVIOUS
  <2>2. taskQueue' \in Seq(Names)
    BY <1>1, <2>1 DEF SubmitTask, Push
  <2>3. taskMap' \in [Names -> Tasks \cup {NoTask}]
    BY <1>1, <2>1 DEF SubmitTask, Insert
  <2> QED
    BY <1>1, <2>2, <2>3 DEF SubmitTask, Locations
<1>2. ASSUME NEW t \in Threads, NEW n \in Names, WaitForTask(t, n)
      PROVE  TypeOK'
  BY <1>2, <1>f DEF WaitForTask
<1>3. ASSUME NEW t \in Threads, SubmitSignal(t)
      PROVE  TypeOK'
  BY <1>3, HomeType DEF SubmitSignal, Sleepers, Locations, Threads
<1>4. ASSUME NEW t \in Threads, EnterDoneWait(t)
      PROVE  TypeOK'
  BY <1>4 DEF EnterDoneWait, Locations
<1>5. ASSUME NEW t \in Threads, ReturnFromDoneWait(t)
      PROVE  TypeOK'
  <2>1. CASE TestFinished(t, waitTask[t])
    BY <2>1, <1>f
  <2>2. CASE Crash
    BY <2>2, <1>c
  <2>3. CASE /\ mutex' = t
             /\ pc' = [pc EXCEPT ![t] = "enrol"]
             /\ UNCHANGED <<taskQueue, taskMap, stopCalled, myTask, waitTask,
                            finished, heap, alive>>
    BY <2>3 DEF Locations
  <2> QED
    BY <1>5, <2>1, <2>2, <2>3 DEF ReturnFromDoneWait
<1>6. ASSUME NEW t \in Threads, SpuriousWakeup(t)
      PROVE  TypeOK'
  BY <1>6 DEF SpuriousWakeup, Locations
<1>7. ASSUME NEW w \in Workers, TakeTask(w)
      PROVE  TypeOK'
  <2>1. CASE /\ \/ pc' = [pc EXCEPT ![w] = "readyWait"]
                \/ pc' = [pc EXCEPT ![w] = "exited"]
             /\ UNCHANGED <<taskQueue, taskMap, stopCalled, mutex, myTask,
                            waitTask, finished, heap, alive>>
    BY <2>1 DEF Locations
  <2>2. CASE /\ taskQueue # <<>>
             /\ taskQueue' = Tail(taskQueue)
             /\ myTask' = [myTask EXCEPT ![w] = taskMap[Head(taskQueue)]]
             /\ pc' = [pc EXCEPT ![w] = "run"]
             /\ UNCHANGED <<taskMap, stopCalled, mutex, waitTask, finished,
                            heap, alive>>
    <3>1. Head(taskQueue) \in Names /\ Tail(taskQueue) \in Seq(Names)
      BY <2>2
    <3>2. pc' \in [Threads -> Locations]
      BY <2>2 DEF Locations
    <3> QED
      BY <2>2, <3>1, <3>2
  <2> QED
    BY <1>7, <1>c, <2>1, <2>2 DEF TakeTask
<1>8. ASSUME NEW w \in Workers, FinishRun(w)
      PROVE  TypeOK'
  <2>1. CASE Crash
    BY <2>1, <1>c
  <2>2. CASE /\ finished' = [finished EXCEPT ![myTask[w]] = TRUE]
             /\ pc' = [pc EXCEPT ![w] = "signalDone"]
             /\ UNCHANGED <<taskQueue, taskMap, stopCalled, mutex, myTask, waitTask,
                            heap, alive>>
    <3>1. pc' \in [Threads -> Locations]
      BY <2>2 DEF Locations
    <3>2. finished' \in [Tasks -> BOOLEAN]
      BY <2>2
    <3> QED
      BY <2>2, <3>1, <3>2
  <2> QED
    BY <1>8, <2>1, <2>2 DEF FinishRun
<1>9. ASSUME NEW w \in Workers, SignalDone(w)
      PROVE  TypeOK'
  BY <1>9, <1>c DEF SignalDone, DoneSleepers, Locations, Threads
<1>10. ASSUME NEW c \in Clients, Stop(c)
       PROVE  TypeOK'
  BY <1>10 DEF Stop, Locations, Threads
<1>11. ASSUME NEW c \in Clients, JoinAll(c)
       PROVE  TypeOK'
  BY <1>11, <1>c DEF JoinAll, Locations, Threads
<1>12. CASE UNCHANGED vars
  BY <1>12 DEF vars
<1> QED
  BY <1>1, <1>2, <1>3, <1>4, <1>5, <1>6, <1>7, <1>8, <1>9, <1>10, <1>11, <1>12
  DEF Next, CallStep, WorkerStep

\* Every reachable state of the pool is well typed, misuse included.
THEOREM TypeCorrect == Spec => []TypeOK
BY TypeInit, TypeStep, PTL DEF Spec

-----------------------------------------------------------------------------
(* No wake-up of a worker is lost *)

\* After Stop's broadcast nobody goes to sleep again.  Without this part a
\* worker that leaves after Stop would take its wake-up with it.
BacklogInv ==
  /\ TypeOK
  /\ stopCalled => Sleepers = {}
  /\ NoIdleBacklog

LEMMA CountsAreNumbers ==
  /\ IsFiniteSet(Arriving) /\ IsFiniteSet(Signalling)
  /\ Cardinality(Arriving) \in Nat /\ Cardinality(Signalling) \in Nat
  /\ IsFiniteSet(Arriving') /\ IsFiniteSet(Signalling')
  /\ Cardinality(Arriving') \in Nat /\ Cardinality(Signalling') \in Nat
<1>1. IsFiniteSet(Threads)
  BY PoolAssumption, FS_Union DEF Threads
<1>2. /\ Arriving \subseteq Workers /\ Signalling \subseteq Threads
      /\ Arriving' \subseteq Workers /\ Signalling' \subseteq Threads
  BY DEF Arriving, Signalling
<1> QED
  BY <1>1, <1>2, PoolAssumption, FS_Subset, FS_CardinalityType

\* A step that takes nobody off the way to the queue, lets nobody fall asleep
\* and does not lengthen the queue cannot create an idle backlog.
LEMMA NobodyTurnsBack ==
  ASSUME TypeOK, TypeOK', NoIdleBacklog, Len(taskQueue') <= Len(taskQueue),
         Arriving \subseteq Arriving', Signalling \subseteq Signalling',
         Sleepers' \subseteq Sleepers
  PROVE  NoIdleBacklog'
<1>2. /\ Cardinality(Arriving) <= Cardinality(Arriving')
      /\ Cardinality(Signalling) <= Cardinality(Signalling')
  BY CountsAreNumbers, FS_Subset
<1>3. Len(taskQueue) \in Nat /\ Len(taskQueue') \in Nat
  BY DEF TypeOK
<1> QED
  BY <1>2, <1>3, CountsAreNumbers DEF NoIdleBacklog

LEMMA BacklogInit == Init => BacklogInv
<1> SUFFICES ASSUME Init PROVE BacklogInv
  OBVIOUS
<1>1. Sleepers = {}
  BY DEF Init, Sleepers, Threads
<1> QED
  BY <1>1, TypeInit DEF Init, BacklogInv, NoIdleBacklog

LEMMA BacklogStep == BacklogInv /\ [Next]_vars => BacklogInv'
<1> SUFFICES ASSUME BacklogInv, [Next]_vars PROVE BacklogInv'
  OBVIOUS
<1>t. TypeOK /\ TypeOK'
  BY TypeStep DEF BacklogInv
<1>b. NoIdleBacklog /\ (stopCalled => Sleepers = {})
  BY DEF BacklogInv
<1>n. Len(taskQueue) \in Nat
  BY <1>t DEF TypeOK
<1>h. \A t \in Threads : Home(t) \in {"idle", "run"}
  BY DEF Home
<1>s. ASSUME UNCHANGED <<taskQueue, stopCalled>>, Arriving \subseteq Arriving',
             Signalling \subseteq Signalling', Sleepers' \subseteq Sleepers
      PROVE  BacklogInv'
  BY <1>s, <1>t, <1>b, <1>n, NobodyTurnsBack DEF BacklogInv
<1>c. ASSUME Crash PROVE BacklogInv'
  BY <1>c, <1>s DEF Crash, Arriving, Signalling, Sleepers
<1>f. ASSUME NEW t \in Threads, NEW k, TestFinished(t, k),
             pc[t] \notin {"top", "signalReady", "readyWait"}
      PROVE  BacklogInv'
  <2>1. /\ pc' = [pc EXCEPT ![t] = Home(t)] \/ pc' = [pc EXCEPT ![t] = "enrol"]
        /\ UNCHANGED <<taskQueue, stopCalled>>
    BY <1>f DEF TestFinished
  <2>2. /\ Arriving \subseteq Arriving' /\ Signalling \subseteq Signalling'
        /\ Sleepers' \subseteq Sleepers
    BY <1>f, <2>1, <1>h, <1>t
    DEF Arriving, Signalling, Sleepers, Threads, TypeOK
  <2> QED
    BY <2>1, <2>2, <1>s
<1>1. ASSUME NEW t \in Threads, NEW k \in Tasks, SubmitTask(t, k)
      PROVE  BacklogInv'
  <2>1. Len(taskQueue') = Len(taskQueue) + 1
    BY <1>1, <1>t DEF SubmitTask, Push, TypeOK
  <2>2. Arriving' = Arriving /\ Sleepers' = Sleepers
    BY <1>1, <1>t, <1>h DEF SubmitTask, AtHome, Arriving, Sleepers, Threads, TypeOK
  <2>3. Signalling' = Signalling \cup {t} /\ t \notin Signalling
    BY <1>1, <1>t, <1>h DEF SubmitTask, AtHome, Signalling, TypeOK
  <2>4. Cardinality(Signalling') = Cardinality(Signalling) + 1
    BY <2>3, CountsAreNumbers, FS_AddElement
  <2>5. stopCalled' = stopCalled
    BY <1>1 DEF SubmitTask
  <2>6. NoIdleBacklog'
    BY <2>1, <2>2, <2>4, <1>b, <1>n, CountsAreNumbers
    DEF NoIdleBacklog
  <2> QED
    BY <2>2, <2>5, <2>6, <1>t, <1>b DEF BacklogInv
<1>2. ASSUME NEW t \in Threads, NEW n \in Names, WaitForTask(t, n)
      PROVE  BacklogInv'
  BY <1>2, <1>f, <1>h DEF WaitForTask, AtHome
<1>3. ASSUME NEW t \in Threads, SubmitSignal(t)
      PROVE  BacklogInv'
  <2>1. CASE Sleepers = {} /\ pc' = [pc EXCEPT ![t] = Home(t)]
    <3>1. Sleepers' = {}
      BY <2>1, <1>h, <1>t DEF Sleepers, Threads, TypeOK
    <3> QED
      BY <3>1, <1>t DEF BacklogInv, NoIdleBacklog
  <2>2. ASSUME NEW w \in Sleepers,
               pc' = [pc EXCEPT ![t] = Home(t), ![w] = "top"]
        PROVE  BacklogInv'
    <3>1. w \in Workers /\ pc[w] = "readyWait" /\ pc[t] = "signalReady" /\ w # t
      BY <1>3 DEF Sleepers, SubmitSignal
    <3>2. Arriving' = Arriving \cup {w} /\ w \notin Arriving
      <4>1. Home(t) # "top" /\ DOMAIN pc = Threads /\ w \in Threads
        BY <3>1, <1>h, <1>t DEF Threads, TypeOK
      <4>2. /\ pc'[t] # "top" /\ pc'[w] = "top"
            /\ \A s \in Threads \ {t, w} : pc'[s] = pc[s]
        BY <4>1, <2>2, <3>1
      <4>3. Workers \subseteq Threads
        BY DEF Threads
      <4> QED
        BY <4>2, <4>3, <3>1 DEF Arriving
    <3>3. Signalling' = Signalling \ {t} /\ t \in Signalling
      <4>1. Home(t) # "signalReady" /\ DOMAIN pc = Threads /\ w \in Threads
        BY <3>1, <1>h, <1>t DEF Threads, TypeOK
      <4>2. /\ pc'[t] # "signalReady" /\ pc'[w] # "signalReady"
            /\ \A s \in Threads \ {t, w} : pc'[s] = pc[s]
        BY <4>1, <2>2, <3>1
      <4> QED
        BY <4>2, <3>1 DEF Signalling
    <3>4. Cardinality(Arriving') = Cardinality(Arriving) + 1
      BY <3>2, CountsAreNumbers, FS_AddElement
    <3>5. Cardinality(Signalling') = Cardinality(Signalling) - 1
      BY <3>3, CountsAreNumbers, FS_RemoveElement
    <3>6. taskQueue' = taskQueue /\ stopCalled' = stopCalled
      BY <1>3 DEF SubmitSignal
    <3>7. Sleepers # {}
      OBVIOUS
    <3>8. Len(taskQueue') <= Cardinality(Arriving') + Cardinality(Signalling')
      BY <3>4, <3>5, <3>6, <3>7, <1>b, <1>n, CountsAreNumbers
      DEF NoIdleBacklog
    <3> QED
      BY <3>6, <3>7, <3>8, <1>b, <1>t
      DEF BacklogInv, NoIdleBacklog
  <2> QED
    BY <1>3, <2>1, <2>2 DEF SubmitSignal
<1>4. ASSUME NEW t \in Threads, EnterDoneWait(t)
      PROVE  BacklogInv'
  <2>1. /\ Arriving \subseteq Arriving' /\ Signalling \subseteq Signalling'
        /\ Sleepers' \subseteq Sleepers
    BY <1>4, <1>t DEF EnterDoneWait, Arriving, Signalling, Sleepers, Threads, TypeOK
  <2> QED
    BY <2>1, <1>4, <1>s DEF EnterDoneWait
<1>5. ASSUME NEW t \in Threads, ReturnFromDoneWait(t)
      PROVE  BacklogInv'
  <2>1. CASE TestFinished(t, waitTask[t])
    BY <2>1, <1>5, <1>f DEF ReturnFromDoneWait
  <2>2. CASE Crash
    BY <2>2, <1>c
  <2>3. CASE /\ pc' = [pc EXCEPT ![t] = "enrol"]
             /\ UNCHANGED <<taskQueue, stopCalled>>
    <3>1. /\ Arriving \subseteq Arriving' /\ Signalling \subseteq Signalling'
          /\ Sleepers' \subseteq Sleepers
      BY <1>5, <2>3, <1>t
      DEF ReturnFromDoneWait, Arriving, Signalling, Sleepers, Threads, TypeOK
    <3> QED
      BY <3>1, <2>3, <1>s
  <2> QED
    BY <1>5, <2>1, <2>2, <2>3 DEF ReturnFromDoneWait
<1>6. ASSUME NEW t \in Threads, SpuriousWakeup(t)
      PROVE  BacklogInv'
  <2>1. /\ Arriving \subseteq Arriving' /\ Signalling \subseteq Signalling'
        /\ Sleepers' \subseteq Sleepers
    BY <1>6, <1>t DEF SpuriousWakeup, Arriving, Signalling, Sleepers, Threads, TypeOK
  <2> QED
    BY <2>1, <1>6, <1>s DEF SpuriousWakeup
<1>7. ASSUME NEW w \in Workers, TakeTask(w)
      PROVE  BacklogInv'
  <2>1. CASE taskQueue = <<>> /\ ~stopCalled
             /\ UNCHANGED <<taskQueue, stopCalled>>
    <3>1. NoIdleBacklog'
      BY <2>1, CountsAreNumbers DEF NoIdleBacklog
    <3> QED
      BY <3>1, <2>1, <1>t DEF BacklogInv
  <2>2. CASE stopCalled /\ pc' = [pc EXCEPT ![w] = "exited"]
    <3>1. Sleepers' = {}
      BY <2>2, <1>b, <1>t DEF Sleepers, Threads, TypeOK
    <3> QED
      BY <3>1, <1>t DEF BacklogInv, NoIdleBacklog
  <2>3. CASE /\ taskQueue # <<>>
             /\ taskQueue' = Tail(taskQueue)
             /\ pc' = [pc EXCEPT ![w] = "run"]
             /\ stopCalled' = stopCalled
    <3>1. Len(taskQueue') = Len(taskQueue) - 1
      BY <2>3, <1>t DEF TypeOK
    <3>2. Arriving' = Arriving \ {w} /\ w \in Arriving
      BY <1>7, <2>3, <1>t DEF TakeTask, Arriving, Threads, TypeOK
    <3>3. Signalling' = Signalling /\ Sleepers' = Sleepers
      BY <1>7, <2>3, <1>t DEF TakeTask, Signalling, Sleepers, Threads, TypeOK
    <3>4. Cardinality(Arriving') = Cardinality(Arriving) - 1
      BY <3>2, CountsAreNumbers, FS_RemoveElement
    <3>5. NoIdleBacklog'
      BY <3>1, <3>3, <3>4, <1>b, <1>n, CountsAreNumbers
      DEF NoIdleBacklog
    <3> QED
      BY <2>3, <3>3, <3>5, <1>b, <1>t DEF BacklogInv
  <2> QED
    BY <1>7, <1>c, <2>1, <2>2, <2>3 DEF TakeTask
<1>8. ASSUME NEW w \in Workers, FinishRun(w)
      PROVE  BacklogInv'
  <2>1. CASE Crash
    BY <2>1, <1>c
  <2>2. CASE pc' = [pc EXCEPT ![w] = "signalDone"]
             /\ UNCHANGED <<taskQueue, stopCalled>>
    <3>1. /\ Arriving \subseteq Arriving' /\ Signalling \subseteq Signalling'
          /\ Sleepers' \subseteq Sleepers
      BY <1>8, <2>2, <1>t
      DEF FinishRun, Arriving, Signalling, Sleepers, Threads, TypeOK
    <3> QED
      BY <3>1, <2>2, <1>s
  <2> QED
    BY <1>8, <2>1, <2>2 DEF FinishRun
<1>9. ASSUME NEW w \in Workers, SignalDone(w)
      PROVE  BacklogInv'
  <2>1. CASE Crash
    BY <2>1, <1>c
  <2>2. CASE pc' = [pc EXCEPT ![w] = "top"] /\ UNCHANGED <<taskQueue, stopCalled>>
    <3>1. /\ Arriving \subseteq Arriving' /\ Signalling \subseteq Signalling'
          /\ Sleepers' \subseteq Sleepers
      BY <1>9, <2>2, <1>t
      DEF SignalDone, Arriving, Signalling, Sleepers, Threads, TypeOK
    <3> QED
      BY <3>1, <2>2, <1>s
  <2>3. ASSUME NEW t \in DoneSleepers(myTask[w]),
               pc' = [pc EXCEPT ![w] = "top", ![t] = "rewait"],
               UNCHANGED <<taskQueue, stopCalled>>
        PROVE  BacklogInv'
    <3>1. t \in Threads /\ pc[t] = "doneWait" /\ pc[w] = "signalDone"
      BY <1>9 DEF SignalDone, DoneSleepers
    <3>2. /\ Arriving \subseteq Arriving' /\ Signalling \subseteq Signalling'
          /\ Sleepers' \subseteq Sleepers
      BY <2>3, <3>1, <1>t DEF Arriving, Signalling, Sleepers, Threads, TypeOK
    <3> QED
      BY <3>2, <2>3, <1>s
  <2> QED
    BY <1>9, <2>1, <2>2, <2>3 DEF SignalDone
<1>10. ASSUME NEW c \in Clients, Stop(c)
       PROVE  BacklogInv'
  <2>1. Sleepers' = {}
    BY <1>10, <1>t DEF Stop, Sleepers, WokenByStop, Threads, TypeOK
  <2> QED
    BY <2>1, <1>t DEF BacklogInv, NoIdleBacklog
<1>11. ASSUME NEW c \in Clients, JoinAll(c)
       PROVE  BacklogInv'
  <2>1. CASE Crash
    BY <2>1, <1>c
  <2>2. CASE pc' = [pc EXCEPT ![c] = "stopped"] /\ UNCHANGED <<taskQueue, stopCalled>>
    <3>1. /\ Arriving \subseteq Arriving' /\ Signalling \subseteq Signalling'
          /\ Sleepers' \subseteq Sleepers
      BY <1>11, <2>2, <1>t
      DEF JoinAll, Arriving, Signalling, Sleepers, Threads, TypeOK
    <3> QED
      BY <3>1, <2>2, <1>s
  <2> QED
    BY <1>11, <2>1, <2>2 DEF JoinAll
<1>12. CASE UNCHANGED vars
  BY <1>12, <1>s DEF vars, Arriving, Signalling, Sleepers
<1> QED
  BY <1>1, <1>2, <1>3, <1>4, <1>5, <1>6, <1>7, <1>8, <1>9, <1>10, <1>11, <1>12
  DEF Next, CallStep, WorkerStep

\* SubmitTask may signal after it has released the mutex and yet no queued task
\* is left behind sleeping workers, however names and waits are used.
THEOREM NoBacklogBehindSleepers == Spec => []NoIdleBacklog
<1>1. BacklogInv => NoIdleBacklog
  BY DEF BacklogInv
<1> QED
  BY <1>1, BacklogInit, BacklogStep, PTL DEF Spec

-----------------------------------------------------------------------------
(* Who owns a task: the inductive invariant *)

\* The map and the heap agree, and an object is allocated unfinished.
MapMatchesHeap ==
  /\ \A k \in Tasks : heap[k] = "live" => taskMap[NameOf[k]] = k
  /\ \A n \in Names : taskMap[n] # NoTask =>
       heap[taskMap[n]] = "live" /\ NameOf[taskMap[n]] = n
  /\ \A k \in Tasks : heap[k] = "fresh" => ~finished[k]

\* Where a worker is between the pop and the end of its loop.
Holding == {"run", "signalReady", "enrol", "doneWait", "rewait", "signalDone"}

WorkersHoldTasks ==
  \A w \in Workers :
    /\ myTask[w] # NoTask <=> pc[w] \in Holding
    /\ myTask[w] # NoTask => heap[myTask[w]] # "fresh"
    /\ pc[w] = "signalDone" => finished[myTask[w]]

OwnershipInv ==
  /\ TypeOK
  /\ MapMatchesHeap
  /\ WorkersHoldTasks
  /\ RunningTaskIsOwned
  /\ QueuedNamesAreMapped
  /\ NoTaskIsLost

LEMMA OwnershipInit == Init => OwnershipInv
<1> SUFFICES ASSUME Init PROVE OwnershipInv
  OBVIOUS
<1> USE PoolAssumption
<1>1. TypeOK
  BY TypeInit
<1>2. MapMatchesHeap
  BY DEF Init, MapMatchesHeap
<1>3. WorkersHoldTasks
  BY DEF Init, WorkersHoldTasks, Holding, Threads
<1>4. RunningTaskIsOwned
  BY DEF Init, RunningTaskIsOwned, Busy
<1>5. QueuedNamesAreMapped
  BY DEF Init, QueuedNamesAreMapped
<1>6. NoTaskIsLost
  BY DEF Init, NoTaskIsLost
<1> QED
  BY <1>1, <1>2, <1>3, <1>4, <1>5, <1>6 DEF OwnershipInv

-----------------------------------------------------------------------------
(* The steps, one lemma for each way to touch the tasks *)

\* Steps that only move threads: no worker picks up, finishes or lets go of a
\* task.
LEMMA ThreadsMove ==
  ASSUME OwnershipInv, TypeOK',
         UNCHANGED <<taskQueue, taskMap, myTask, finished, heap>>,
         \A w \in Workers : /\ pc'[w] \in Holding <=> pc[w] \in Holding
                            /\ pc'[w] = "signalDone" <=> pc[w] = "signalDone"
  PROVE  OwnershipInv'
<1> USE DEF OwnershipInv
<1>1. \A w \in Workers : Busy(w)' <=> Busy(w)
  BY DEF Busy
<1>2. MapMatchesHeap'
  BY DEF MapMatchesHeap
<1>3. WorkersHoldTasks'
  BY DEF WorkersHoldTasks
<1>4. RunningTaskIsOwned'
  BY <1>1 DEF RunningTaskIsOwned
<1>5. QueuedNamesAreMapped'
  BY DEF QueuedNamesAreMapped
<1>6. NoTaskIsLost'
  BY <1>1 DEF NoTaskIsLost
<1> QED
  BY <1>2, <1>3, <1>4, <1>5, <1>6

\* A name that leads nowhere before the submission leads to its object after
\* it; no queued name is the new one.
LEMMA SubmitKeepsOwnership ==
  ASSUME ~ReuseNames, OwnershipInv, TypeOK',
         NEW t \in Threads, NEW k \in Tasks, SubmitTask(t, k)
  PROVE  OwnershipInv'
<1> USE PoolAssumption DEF OwnershipInv
<1> DEFINE n == NameOf[k]
<1>1. n \in Names /\ heap[k] = "fresh" /\ heap' = [heap EXCEPT ![k] = "live"]
  BY DEF SubmitTask, MaySubmit
<1>2. taskMap[n] = NoTask
  <2>1. \A j \in Tasks : heap[j] = "live" => NameOf[j] # n
    BY DEF SubmitTask, MaySubmit
  <2>2. taskMap[n] \in Tasks \cup {NoTask}
    BY <1>1 DEF TypeOK
  <2>3. taskMap[n] # NoTask => heap[taskMap[n]] = "live" /\ NameOf[taskMap[n]] = n
    BY <1>1 DEF MapMatchesHeap
  <2> QED
    BY <2>1, <2>2, <2>3
<1>3. taskMap' = [taskMap EXCEPT ![n] = k] /\ taskQueue' = Append(taskQueue, n)
  BY <1>1, <1>2 DEF SubmitTask, Insert, Push, TypeOK
<1>4. UNCHANGED <<myTask, finished>>
  BY DEF SubmitTask
<1>5. \A w \in Workers : /\ pc'[w] \in Holding <=> pc[w] \in Holding
                         /\ pc'[w] = "signalDone" <=> pc[w] = "signalDone"
  BY DEF SubmitTask, AtHome, Home, Holding, TypeOK, Threads
<1>6. \A w \in Workers : Busy(w)' <=> Busy(w)
  BY <1>4, <1>5 DEF Busy
<1>7. \A w \in Workers : myTask[w] # k
  BY <1>1 DEF WorkersHoldTasks
<1>8. MapMatchesHeap'
  BY <1>1, <1>2, <1>3, <1>4 DEF MapMatchesHeap, TypeOK
<1>9. WorkersHoldTasks'
  BY <1>1, <1>4, <1>5, <1>7 DEF WorkersHoldTasks, TypeOK
<1>10. RunningTaskIsOwned'
  <2> SUFFICES ASSUME NEW w \in Workers, Busy(w)
               PROVE  /\ heap'[myTask[w]] = "live"
                      /\ ~finished[myTask[w]]
                      /\ taskMap'[NameOf[myTask[w]]] = myTask[w]
                      /\ \A v \in Workers \ {w} : myTask[v] # myTask[w]
    BY <1>4, <1>6 DEF RunningTaskIsOwned
  <2>1. myTask[w] \in Tasks /\ heap[myTask[w]] = "live"
    BY DEF Busy, RunningTaskIsOwned, TypeOK
  <2> QED
    BY <2>1, <1>8, <1>1, <1>7 DEF RunningTaskIsOwned, MapMatchesHeap, TypeOK
<1>11. QueuedNamesAreMapped'
  <2>1. \A i \in DOMAIN taskQueue : taskQueue[i] \in Names /\ taskQueue[i] # n
    BY <1>2 DEF QueuedNamesAreMapped, TypeOK
  <2>2. /\ DOMAIN taskQueue' = DOMAIN taskQueue \cup {Len(taskQueue) + 1}
        /\ \A i \in DOMAIN taskQueue : taskQueue'[i] = taskQueue[i]
        /\ taskQueue'[Len(taskQueue) + 1] = n
    BY <1>1, <1>3 DEF TypeOK
  <2> SUFFICES ASSUME NEW i \in DOMAIN taskQueue'
               PROVE  /\ taskMap'[taskQueue'[i]] # NoTask
                      /\ heap'[taskMap'[taskQueue'[i]]] = "live"
                      /\ ~finished[taskMap'[taskQueue'[i]]]
                      /\ \A w \in Workers : myTask[w] # taskMap'[taskQueue'[i]]
                      /\ \A j \in DOMAIN taskQueue' :
                           taskQueue'[j] = taskQueue'[i] => j = i
    BY <1>4 DEF QueuedNamesAreMapped
  <2>3. CASE i \in DOMAIN taskQueue
    <3>1. taskMap'[taskQueue'[i]] = taskMap[taskQueue[i]]
      BY <2>1, <2>2, <2>3, <1>3 DEF TypeOK
    <3>2. taskMap[taskQueue[i]] \in Tasks
      BY <2>1, <2>3 DEF QueuedNamesAreMapped, TypeOK
    <3>3. /\ ~finished[taskMap'[taskQueue'[i]]]
          /\ \A w \in Workers : myTask[w] # taskMap'[taskQueue'[i]]
      BY <3>1, <2>3 DEF QueuedNamesAreMapped
    <3>4. heap'[taskMap'[taskQueue'[i]]] = "live"
      BY <3>1, <3>2, <2>3, <1>1 DEF QueuedNamesAreMapped, TypeOK
    <3>5. \A j \in DOMAIN taskQueue' : taskQueue'[j] = taskQueue'[i] => j = i
      BY <2>1, <2>2, <2>3 DEF QueuedNamesAreMapped
    <3> QED
      BY <3>1, <3>2, <3>3, <3>4, <3>5
  <2>4. CASE i = Len(taskQueue) + 1
    <3>1. taskMap'[taskQueue'[i]] = k
      BY <2>2, <2>4, <1>1, <1>3 DEF TypeOK
    <3>2. ~finished[k] /\ heap'[k] = "live"
      BY <1>1 DEF MapMatchesHeap, TypeOK
    <3>3. \A j \in DOMAIN taskQueue' : taskQueue'[j] = taskQueue'[i] => j = i
      BY <2>1, <2>2, <2>4
    <3> QED
      BY <3>1, <3>2, <3>3, <1>7
  <2> QED
    BY <2>2, <2>3, <2>4
<1>12. NoTaskIsLost'
  <2> SUFFICES ASSUME NEW j \in Tasks, heap'[j] = "live", ~finished[j]
               PROVE  \/ \E i \in DOMAIN taskQueue' : taskMap'[taskQueue'[i]] = j
                      \/ \E w \in Workers : Busy(w) /\ myTask[w] = j
    BY <1>4, <1>6 DEF NoTaskIsLost
  <2>1. CASE j = k
    <3>1. /\ Len(taskQueue) + 1 \in DOMAIN taskQueue'
          /\ taskMap'[taskQueue'[Len(taskQueue) + 1]] = k
      BY <1>1, <1>3 DEF TypeOK
    <3> QED
      BY <3>1, <2>1
  <2>2. CASE j # k
    <3>1. heap[j] = "live"
      BY <2>2, <1>1 DEF TypeOK
    <3>2. ASSUME NEW i \in DOMAIN taskQueue, taskMap[taskQueue[i]] = j
          PROVE  i \in DOMAIN taskQueue' /\ taskMap'[taskQueue'[i]] = j
      <4>1. /\ taskQueue[i] \in Names /\ i \in DOMAIN taskQueue'
            /\ taskQueue'[i] = taskQueue[i]
        BY <1>1, <1>3 DEF TypeOK
      <4>2. taskQueue[i] # n
        BY <3>2, <1>2
      <4> QED
        BY <4>1, <4>2, <3>2, <1>3 DEF TypeOK
    <3> QED
      BY <3>1, <3>2 DEF NoTaskIsLost
  <2> QED
    BY <2>1, <2>2
<1> QED
  BY <1>8, <1>9, <1>10, <1>11, <1>12

\* A waiter finds object k finished and destroys it: nobody runs it and its
\* name is not queued.
LEMMA DeletionKeepsOwnership ==
  ASSUME OwnershipInv, TypeOK', NEW t \in Threads, NEW k \in Tasks,
         heap[k] = "live", finished[k], pc[t] \in {Home(t), "rewait"},
         taskMap' = [taskMap EXCEPT ![NameOf[k]] = NoTask],
         heap' = [heap EXCEPT ![k] = "deleted"],
         pc' = [pc EXCEPT ![t] = Home(t)],
         UNCHANGED <<taskQueue, myTask, finished>>
  PROVE  OwnershipInv'
<1> USE PoolAssumption DEF OwnershipInv
<1> DEFINE n == NameOf[k]
<1>1. n \in Names /\ taskMap[n] = k
  BY DEF MapMatchesHeap
<1>2. \A w \in Workers : /\ pc'[w] \in Holding <=> pc[w] \in Holding
                         /\ pc'[w] = "signalDone" <=> pc[w] = "signalDone"
  BY DEF Home, Holding, TypeOK, Threads
<1>3. \A w \in Workers : Busy(w)' <=> Busy(w)
  BY <1>2 DEF Busy
<1>4. \A i \in DOMAIN taskQueue : taskQueue[i] \in Names /\ taskQueue[i] # n
  BY <1>1 DEF QueuedNamesAreMapped, TypeOK
<1>5. \A i \in DOMAIN taskQueue : /\ taskMap'[taskQueue[i]] = taskMap[taskQueue[i]]
                                  /\ taskMap[taskQueue[i]] \in Tasks \ {k}
  BY <1>1, <1>4 DEF QueuedNamesAreMapped, TypeOK
<1>6. \A w \in Workers : Busy(w) => myTask[w] \in Tasks \ {k}
  BY DEF Busy, RunningTaskIsOwned, TypeOK
<1>7. MapMatchesHeap'
  BY <1>1 DEF MapMatchesHeap, TypeOK
<1>8. WorkersHoldTasks'
  BY <1>2 DEF WorkersHoldTasks, TypeOK
<1>9. RunningTaskIsOwned'
  <2> SUFFICES ASSUME NEW w \in Workers, Busy(w)
               PROVE  /\ heap'[myTask[w]] = "live"
                      /\ ~finished[myTask[w]]
                      /\ taskMap'[NameOf[myTask[w]]] = myTask[w]
                      /\ \A v \in Workers \ {w} : myTask[v] # myTask[w]
    BY <1>3 DEF RunningTaskIsOwned
  <2>1. heap'[myTask[w]] = "live"
    BY <1>6 DEF RunningTaskIsOwned, TypeOK
  <2> QED
    BY <2>1, <1>6, <1>7 DEF RunningTaskIsOwned, MapMatchesHeap
<1>10. QueuedNamesAreMapped'
  <2> SUFFICES ASSUME NEW i \in DOMAIN taskQueue
               PROVE  /\ taskMap'[taskQueue[i]] # NoTask
                      /\ heap'[taskMap'[taskQueue[i]]] = "live"
                      /\ ~finished[taskMap'[taskQueue[i]]]
                      /\ \A w \in Workers : myTask[w] # taskMap'[taskQueue[i]]
                      /\ \A j \in DOMAIN taskQueue :
                           taskQueue[j] = taskQueue[i] => j = i
    BY DEF QueuedNamesAreMapped
  <2>1. heap'[taskMap'[taskQueue[i]]] = "live"
    BY <1>5 DEF QueuedNamesAreMapped, TypeOK
  <2> QED
    BY <2>1, <1>5 DEF QueuedNamesAreMapped
<1>11. NoTaskIsLost'
  <2> SUFFICES ASSUME NEW j \in Tasks, heap'[j] = "live", ~finished[j]
               PROVE  \/ \E i \in DOMAIN taskQueue : taskMap'[taskQueue[i]] = j
                      \/ \E w \in Workers : Busy(w) /\ myTask[w] = j
    BY <1>3 DEF NoTaskIsLost
  <2>1. heap[j] = "live"
    BY DEF TypeOK
  <2> QED
    BY <2>1, <1>5 DEF NoTaskIsLost
<1> QED
  BY <1>7, <1>8, <1>9, <1>10, <1>11

\* One test of the flag of a live object: the thread deletes it, or sleeps.
LEMMA TestKeepsOwnership ==
  ASSUME OwnershipInv, TypeOK', NEW t \in Threads, NEW k \in Tasks,
         heap[k] = "live", pc[t] \in {Home(t), "rewait"}, TestFinished(t, k)
  PROVE  OwnershipInv'
<1>1. CASE getFinished(k)
  <2>1. finished[k]
    BY <1>1 DEF getFinished
  <2>2. /\ taskMap' = [taskMap EXCEPT ![NameOf[k]] = NoTask]
        /\ heap' = [heap EXCEPT ![k] = "deleted"]
        /\ pc' = [pc EXCEPT ![t] = Home(t)]
        /\ UNCHANGED <<taskQueue, myTask, finished>>
    BY <1>1 DEF TestFinished
  <2> QED
    BY <2>1, <2>2, DeletionKeepsOwnership
<1>2. CASE ~getFinished(k)
  <2>1. /\ pc' = [pc EXCEPT ![t] = "enrol"]
        /\ UNCHANGED <<taskQueue, taskMap, myTask, finished, heap>>
    BY <1>2 DEF TestFinished
  <2>2. \A w \in Workers : /\ pc'[w] \in Holding <=> pc[w] \in Holding
                           /\ pc'[w] = "signalDone" <=> pc[w] = "signalDone"
    BY <2>1, PoolAssumption DEF Home, Holding, OwnershipInv, TypeOK, Threads
  <2> QED
    BY <2>1, <2>2, ThreadsMove
<1> QED
  BY <1>1, <1>2

\* A worker pops the oldest name; its object has no owner yet, and no other
\* queued name leads to it.
LEMMA TakingKeepsOwnership ==
  ASSUME OwnershipInv, TypeOK', NEW w \in Workers,
         pc[w] = "top", taskQueue # <<>>, taskMap[Head(taskQueue)] # NoTask,
         taskQueue' = Tail(taskQueue),
         myTask' = [myTask EXCEPT ![w] = taskMap[Head(taskQueue)]],
         pc' = [pc EXCEPT ![w] = "run"],
         UNCHANGED <<taskMap, finished, heap>>
  PROVE  OwnershipInv'
<1> USE PoolAssumption DEF OwnershipInv
<1> DEFINE k == taskMap[taskQueue[1]]
<1>1. /\ 1 \in DOMAIN taskQueue /\ Head(taskQueue) = taskQueue[1]
      /\ taskQueue[1] \in Names
  BY DEF TypeOK
<1>2. /\ k \in Tasks /\ heap[k] = "live" /\ ~finished[k]
      /\ NameOf[k] = taskQueue[1]
      /\ \A v \in Workers : myTask[v] # k
  BY <1>1 DEF QueuedNamesAreMapped, MapMatchesHeap, TypeOK
<1>3. /\ myTask'[w] = k /\ \A v \in Workers \ {w} : myTask'[v] = myTask[v]
      /\ pc'[w] = "run" /\ \A v \in Workers \ {w} : pc'[v] = pc[v]
  BY <1>1 DEF TypeOK, Threads
<1>4. /\ Busy(w)'
      /\ \A v \in Workers \ {w} : Busy(v)' <=> Busy(v)
      /\ ~Busy(w)
  BY <1>2, <1>3 DEF Busy, WorkersHoldTasks, Holding
<1>5. \A i \in DOMAIN taskQueue' : /\ i + 1 \in DOMAIN taskQueue /\ i \in Nat \ {0}
                                   /\ taskQueue'[i] = taskQueue[i + 1]
  BY <1>1 DEF TypeOK
<1>6. \A i \in DOMAIN taskQueue \ {1} : /\ i - 1 \in DOMAIN taskQueue'
                                        /\ taskQueue'[i - 1] = taskQueue[i]
  BY <1>1 DEF TypeOK
<1>7. MapMatchesHeap'
  BY DEF MapMatchesHeap
<1>8. WorkersHoldTasks'
  BY <1>2, <1>3 DEF WorkersHoldTasks, Holding
<1>9. RunningTaskIsOwned'
  <2> SUFFICES ASSUME NEW v \in Workers, Busy(v)'
               PROVE  /\ heap[myTask'[v]] = "live"
                      /\ ~finished[myTask'[v]]
                      /\ taskMap[NameOf[myTask'[v]]] = myTask'[v]
                      /\ \A u \in Workers \ {v} : myTask'[u] # myTask'[v]
    BY DEF RunningTaskIsOwned
  <2>1. CASE v = w
    BY <2>1, <1>2, <1>3
  <2>2. CASE v # w
    BY <2>2, <1>2, <1>3, <1>4 DEF RunningTaskIsOwned
  <2> QED
    BY <2>1, <2>2
<1>10. QueuedNamesAreMapped'
  <2> SUFFICES ASSUME NEW i \in DOMAIN taskQueue'
               PROVE  /\ taskMap[taskQueue'[i]] # NoTask
                      /\ heap[taskMap[taskQueue'[i]]] = "live"
                      /\ ~finished[taskMap[taskQueue'[i]]]
                      /\ \A v \in Workers : myTask'[v] # taskMap[taskQueue'[i]]
                      /\ \A j \in DOMAIN taskQueue' :
                           taskQueue'[j] = taskQueue'[i] => j = i
    BY DEF QueuedNamesAreMapped
  <2>1. /\ taskMap[taskQueue'[i]] # NoTask
        /\ heap[taskMap[taskQueue'[i]]] = "live"
        /\ ~finished[taskMap[taskQueue'[i]]]
        /\ \A v \in Workers : myTask[v] # taskMap[taskQueue'[i]]
    BY <1>5 DEF QueuedNamesAreMapped
  <2>2. taskMap[taskQueue'[i]] # k
    <3>1. taskQueue[i + 1] # taskQueue[1] /\ taskQueue[i + 1] \in Names
      BY <1>1, <1>5 DEF QueuedNamesAreMapped, TypeOK
    <3>2. NameOf[taskMap[taskQueue[i + 1]]] = taskQueue[i + 1]
      BY <2>1, <3>1, <1>5 DEF MapMatchesHeap
    <3> QED
      BY <1>2, <1>5, <3>1, <3>2
  <2>3. ASSUME NEW j \in DOMAIN taskQueue', taskQueue'[j] = taskQueue'[i]
        PROVE  j = i
    <3>1. j + 1 = i + 1
      BY <2>3, <1>5 DEF QueuedNamesAreMapped
    <3> QED
      BY <3>1, <1>5
  <2> QED
    BY <2>1, <2>2, <2>3, <1>3
<1>11. NoTaskIsLost'
  <2> SUFFICES ASSUME NEW j \in Tasks, heap[j] = "live", ~finished[j]
               PROVE  \/ \E i \in DOMAIN taskQueue' : taskMap[taskQueue'[i]] = j
                      \/ \E v \in Workers : Busy(v)' /\ myTask'[v] = j
    BY DEF NoTaskIsLost
  <2>1. CASE j = k
    BY <2>1, <1>3, <1>4
  <2>2. CASE j # k
    <3>1. ASSUME NEW i \in DOMAIN taskQueue, taskMap[taskQueue[i]] = j
          PROVE  \E q \in DOMAIN taskQueue' : taskMap[taskQueue'[q]] = j
      BY <3>1, <2>2, <1>6
    <3>2. ASSUME NEW v \in Workers, Busy(v), myTask[v] = j
          PROVE  Busy(v)' /\ myTask'[v] = j
      BY <3>2, <1>3, <1>4
    <3> QED
      BY <3>1, <3>2 DEF NoTaskIsLost
  <2> QED
    BY <2>1, <2>2
<1> QED
  BY <1>7, <1>8, <1>9, <1>10, <1>11

\* The object a worker sets the flag of is its own, alive and not queued.
LEMMA FinishKeepsOwnership ==
  ASSUME OwnershipInv, TypeOK', NEW w \in Workers, pc[w] = "run",
         finished' = [finished EXCEPT ![myTask[w]] = TRUE],
         pc' = [pc EXCEPT ![w] = "signalDone"],
         UNCHANGED <<taskQueue, taskMap, myTask, heap>>
  PROVE  OwnershipInv'
<1> USE PoolAssumption DEF OwnershipInv
<1> DEFINE k == myTask[w]
<1>1. k \in Tasks /\ Busy(w)
  BY DEF WorkersHoldTasks, Holding, Busy, TypeOK
<1>2. heap[k] = "live" /\ \A v \in Workers \ {w} : myTask[v] # k
  BY <1>1 DEF RunningTaskIsOwned
<1>3. finished'[k] /\ \A j \in Tasks \ {k} : finished'[j] <=> finished[j]
  BY <1>1 DEF TypeOK
<1>4. /\ pc'[w] = "signalDone" /\ ~Busy(w)'
      /\ \A v \in Workers \ {w} : pc'[v] = pc[v] /\ (Busy(v)' <=> Busy(v))
  BY DEF Busy, TypeOK, Threads
<1>5. MapMatchesHeap'
  BY <1>2, <1>3 DEF MapMatchesHeap
<1>6. WorkersHoldTasks'
  BY <1>1, <1>2, <1>3, <1>4 DEF WorkersHoldTasks, Holding, TypeOK
<1>7. RunningTaskIsOwned'
  <2> SUFFICES ASSUME NEW v \in Workers, Busy(v)'
               PROVE  /\ heap[myTask[v]] = "live"
                      /\ ~finished'[myTask[v]]
                      /\ taskMap[NameOf[myTask[v]]] = myTask[v]
                      /\ \A u \in Workers \ {v} : myTask[u] # myTask[v]
    BY DEF RunningTaskIsOwned
  <2>1. v # w /\ Busy(v) /\ myTask[v] \in Tasks \ {k}
    BY <1>2, <1>4 DEF Busy, TypeOK
  <2> QED
    BY <2>1, <1>3 DEF RunningTaskIsOwned
<1>8. QueuedNamesAreMapped'
  <2>1. \A i \in DOMAIN taskQueue : taskMap[taskQueue[i]] \in Tasks \ {k}
    BY DEF QueuedNamesAreMapped, TypeOK
  <2> QED
    BY <2>1, <1>3 DEF QueuedNamesAreMapped
<1>9. NoTaskIsLost'
  BY <1>3, <1>4 DEF NoTaskIsLost
<1> QED
  BY <1>5, <1>6, <1>7, <1>8, <1>9

\* A worker lets go of a task that is finished, and may wake a waiter.
LEMMA LettingGoKeepsOwnership ==
  ASSUME OwnershipInv, TypeOK', NEW w \in Workers, pc[w] = "signalDone",
         myTask' = [myTask EXCEPT ![w] = NoTask],
         \/ pc' = [pc EXCEPT ![w] = "top"]
         \/ \E t \in Threads : /\ pc[t] = "doneWait"
                               /\ pc' = [pc EXCEPT ![w] = "top", ![t] = "rewait"],
         UNCHANGED <<taskQueue, taskMap, finished, heap>>
  PROVE  OwnershipInv'
<1> USE PoolAssumption DEF OwnershipInv
<1>1. /\ pc'[w] = "top" /\ myTask'[w] = NoTask
      /\ \A v \in Workers \ {w} :
           /\ myTask'[v] = myTask[v]
           /\ pc'[v] \in Holding <=> pc[v] \in Holding
           /\ pc'[v] = "signalDone" <=> pc[v] = "signalDone"
  BY DEF Holding, TypeOK, Threads
<1>2. /\ ~Busy(w) /\ ~Busy(w)'
      /\ \A v \in Workers \ {w} : Busy(v)' <=> Busy(v)
  BY <1>1 DEF Busy
<1>3. MapMatchesHeap'
  BY DEF MapMatchesHeap
<1>4. WorkersHoldTasks'
  BY <1>1 DEF WorkersHoldTasks, Holding
<1>5. RunningTaskIsOwned'
  <2> SUFFICES ASSUME NEW v \in Workers, Busy(v)'
               PROVE  /\ heap[myTask'[v]] = "live"
                      /\ ~finished[myTask'[v]]
                      /\ taskMap[NameOf[myTask'[v]]] = myTask'[v]
                      /\ \A u \in Workers \ {v} : myTask'[u] # myTask'[v]
    BY DEF RunningTaskIsOwned
  <2>1. v # w /\ Busy(v) /\ myTask'[v] = myTask[v] /\ myTask[v] # NoTask
    BY <1>1, <1>2 DEF Busy
  <2> QED
    BY <2>1, <1>1 DEF RunningTaskIsOwned
<1>6. QueuedNamesAreMapped'
  BY <1>1 DEF QueuedNamesAreMapped
<1>7. NoTaskIsLost'
  BY <1>1, <1>2 DEF NoTaskIsLost
<1> QED
  BY <1>3, <1>4, <1>5, <1>6, <1>7

-----------------------------------------------------------------------------
(* A thread inside the loop of WaitForTask holds a pointer *)

WaitersHoldPointers ==
  \A t \in Threads :
    pc[t] \in {"enrol", "doneWait", "rewait"} => waitTask[t] # NoTask

LEMMA PointersInit == Init => WaitersHoldPointers
BY DEF Init, WaitersHoldPointers, Threads

LEMMA PointersStep ==
  TypeOK /\ WaitersHoldPointers /\ [Next]_vars => WaitersHoldPointers'
<1> SUFFICES ASSUME TypeOK, WaitersHoldPointers, [Next]_vars
             PROVE  WaitersHoldPointers'
  OBVIOUS
<1> USE PoolAssumption DEF WaitersHoldPointers, TypeOK, Threads
<1>f. ASSUME NEW t \in Threads, NEW k \in Tasks, TestFinished(t, k)
      PROVE  WaitersHoldPointers'
  BY <1>f DEF TestFinished, Home
<1>1. ASSUME NEW t \in Threads, NEW k \in Tasks, SubmitTask(t, k)
      PROVE  WaitersHoldPointers'
  BY <1>1 DEF SubmitTask
<1>2. ASSUME NEW t \in Threads, NEW n \in Names, WaitForTask(t, n)
      PROVE  WaitersHoldPointers'
  BY <1>2, <1>f DEF WaitForTask
<1>3. ASSUME NEW t \in Threads, CallStep(t)
      PROVE  WaitersHoldPointers'
  <2>1. CASE SubmitSignal(t)
    BY <2>1 DEF SubmitSignal, Sleepers, Home
  <2>2. CASE EnterDoneWait(t)
    BY <2>2 DEF EnterDoneWait
  <2>3. CASE ReturnFromDoneWait(t)
    BY <2>3, <1>f DEF ReturnFromDoneWait, Crash
  <2> QED
    BY <1>3, <2>1, <2>2, <2>3 DEF CallStep
<1>4. ASSUME NEW t \in Threads, SpuriousWakeup(t)
      PROVE  WaitersHoldPointers'
  BY <1>4 DEF SpuriousWakeup
<1>5. ASSUME NEW w \in Workers, WorkerStep(w)
      PROVE  WaitersHoldPointers'
  <2>1. CASE TakeTask(w)
    BY <2>1 DEF TakeTask, Crash
  <2>2. CASE FinishRun(w)
    BY <2>2 DEF FinishRun, Crash
  <2>3. CASE SignalDone(w)
    BY <2>3 DEF SignalDone, DoneSleepers, Crash
  <2> QED
    BY <1>5, <2>1, <2>2, <2>3 DEF WorkerStep
<1>6. ASSUME NEW c \in Clients, Stop(c) \/ JoinAll(c)
      PROVE  WaitersHoldPointers'
  <2>1. CASE Stop(c)
    <3>1. /\ waitTask' = waitTask
          /\ \A t \in Threads : pc'[t] = pc[t] \/ pc'[t] \in {"joining", "top"}
      BY <2>1 DEF Stop
    <3> QED
      BY <3>1
  <2>2. CASE JoinAll(c)
    BY <2>2 DEF JoinAll, Crash
  <2> QED
    BY <1>6, <2>1, <2>2
<1>7. CASE UNCHANGED vars
  BY <1>7 DEF vars
<1> QED
  BY <1>1, <1>2, <1>3, <1>4, <1>5, <1>6, <1>7 DEF Next

-----------------------------------------------------------------------------
(* Ownership *)

LEMMA OwnershipStep ==
  ASSUME ~ReuseNames
  PROVE  OwnershipInv /\ WaitersHoldPointers /\ [Next]_vars => OwnershipInv'
<1> SUFFICES ASSUME OwnershipInv, WaitersHoldPointers, [Next]_vars
             PROVE  OwnershipInv'
  OBVIOUS
<1>t. TypeOK /\ TypeOK'
  BY TypeStep DEF OwnershipInv
<1>c. ASSUME Crash PROVE OwnershipInv'
  BY <1>c, <1>t, ThreadsMove DEF Crash
<1>1. ASSUME NEW t \in Threads, NEW k \in Tasks, SubmitTask(t, k)
      PROVE  OwnershipInv'
  BY <1>1, <1>t, SubmitKeepsOwnership
<1>2. ASSUME NEW t \in Threads, NEW n \in Names, WaitForTask(t, n)
      PROVE  OwnershipInv'
  <2>1. taskMap[n] \in Tasks /\ heap[taskMap[n]] = "live"
    BY <1>2, <1>t DEF WaitForTask, OwnershipInv, MapMatchesHeap, TypeOK
  <2>2. pc[t] = Home(t) /\ TestFinished(t, taskMap[n])
    BY <1>2 DEF WaitForTask, AtHome
  <2> QED
    BY <2>1, <2>2, <1>t, TestKeepsOwnership
<1>3. ASSUME NEW t \in Threads, CallStep(t)
      PROVE  OwnershipInv'
  <2>1. CASE SubmitSignal(t)
    <3>1. /\ UNCHANGED <<taskQueue, taskMap, myTask, finished, heap>>
          /\ \A w \in Workers : /\ pc'[w] \in Holding <=> pc[w] \in Holding
                                /\ pc'[w] = "signalDone" <=> pc[w] = "signalDone"
      BY <2>1, <1>t, PoolAssumption
      DEF SubmitSignal, Sleepers, Home, Holding, TypeOK, Threads
    <3> QED
      BY <3>1, <1>t, ThreadsMove
  <2>2. CASE EnterDoneWait(t)
    <3>1. /\ UNCHANGED <<taskQueue, taskMap, myTask, finished, heap>>
          /\ \A w \in Workers : /\ pc'[w] \in Holding <=> pc[w] \in Holding
                                /\ pc'[w] = "signalDone" <=> pc[w] = "signalDone"
      BY <2>2, <1>t DEF EnterDoneWait, Holding, TypeOK, Threads
    <3> QED
      BY <3>1, <1>t, ThreadsMove
  <2>3. CASE ReturnFromDoneWait(t)
    <3>1. pc[t] = "rewait" /\ waitTask[t] \in Tasks
      BY <2>3, <1>t DEF ReturnFromDoneWait, WaitersHoldPointers, TypeOK
    <3>2. CASE heap[waitTask[t]] = "live" /\ TestFinished(t, waitTask[t])
      BY <3>1, <3>2, <1>t, TestKeepsOwnership
    <3>3. CASE /\ pc' = [pc EXCEPT ![t] = "enrol"]
               /\ UNCHANGED <<taskQueue, taskMap, myTask, finished, heap>>
      <4>1. \A w \in Workers : /\ pc'[w] \in Holding <=> pc[w] \in Holding
                               /\ pc'[w] = "signalDone" <=> pc[w] = "signalDone"
        BY <3>1, <3>3, <1>t DEF Holding, TypeOK, Threads
      <4> QED
        BY <3>3, <4>1, <1>t, ThreadsMove
    <3> QED
      BY <2>3, <3>2, <3>3, <1>c DEF ReturnFromDoneWait
  <2> QED
    BY <1>3, <2>1, <2>2, <2>3 DEF CallStep
<1>4. ASSUME NEW t \in Threads, SpuriousWakeup(t)
      PROVE  OwnershipInv'
  <2>1. /\ UNCHANGED <<taskQueue, taskMap, myTask, finished, heap>>
        /\ \A w \in Workers : /\ pc'[w] \in Holding <=> pc[w] \in Holding
                              /\ pc'[w] = "signalDone" <=> pc[w] = "signalDone"
    BY <1>4, <1>t DEF SpuriousWakeup, Holding, TypeOK, Threads
  <2> QED
    BY <2>1, <1>t, ThreadsMove
<1>5. ASSUME NEW w \in Workers, TakeTask(w)
      PROVE  OwnershipInv'
  <2>1. pc[w] = "top"
    BY <1>5 DEF TakeTask
  <2>2. CASE /\ \/ pc' = [pc EXCEPT ![w] = "readyWait"]
                \/ pc' = [pc EXCEPT ![w] = "exited"]
             /\ UNCHANGED <<taskQueue, taskMap, myTask, finished, heap>>
    <3>1. \A v \in Workers : /\ pc'[v] \in Holding <=> pc[v] \in Holding
                             /\ pc'[v] = "signalDone" <=> pc[v] = "signalDone"
      BY <2>1, <2>2, <1>t DEF Holding, TypeOK, Threads
    <3> QED
      BY <2>2, <3>1, <1>t, ThreadsMove
  <2>3. CASE /\ taskQueue # <<>> /\ taskMap[Head(taskQueue)] # NoTask
             /\ taskQueue' = Tail(taskQueue)
             /\ myTask' = [myTask EXCEPT ![w] = taskMap[Head(taskQueue)]]
             /\ pc' = [pc EXCEPT ![w] = "run"]
             /\ UNCHANGED <<taskMap, finished, heap>>
    BY <2>1, <2>3, <1>t, TakingKeepsOwnership
  <2> QED
    BY <1>5, <1>c, <2>2, <2>3 DEF TakeTask
<1>6. ASSUME NEW w \in Workers, FinishRun(w)
      PROVE  OwnershipInv'
  BY <1>6, <1>c, <1>t, FinishKeepsOwnership DEF FinishRun
<1>7. ASSUME NEW w \in Workers, SignalDone(w)
      PROVE  OwnershipInv'
  <2>1. CASE Crash
    BY <2>1, <1>c
  <2>2. CASE ~Crash
    <3>1. /\ pc[w] = "signalDone"
          /\ myTask' = [myTask EXCEPT ![w] = NoTask]
          /\ \/ pc' = [pc EXCEPT ![w] = "top"]
             \/ \E t \in Threads : /\ pc[t] = "doneWait"
                                   /\ pc' = [pc EXCEPT ![w] = "top", ![t] = "rewait"]
          /\ UNCHANGED <<taskQueue, taskMap, finished, heap>>
      BY <1>7, <2>2 DEF SignalDone, DoneSleepers
    <3> QED
      BY <3>1, <1>t, LettingGoKeepsOwnership
  <2> QED
    BY <2>1, <2>2
<1>8. ASSUME NEW c \in Clients, Stop(c)
      PROVE  OwnershipInv'
  <2>1. /\ UNCHANGED <<taskQueue, taskMap, myTask, finished, heap>>
        /\ \A w \in Workers : /\ pc'[w] \in Holding <=> pc[w] \in Holding
                              /\ pc'[w] = "signalDone" <=> pc[w] = "signalDone"
    BY <1>8, <1>t, PoolAssumption
    DEF Stop, WokenByStop, Sleepers, Holding, TypeOK, Threads
  <2> QED
    BY <2>1, <1>t, ThreadsMove
<1>9. ASSUME NEW c \in Clients, JoinAll(c)
      PROVE  OwnershipInv'
  <2>1. CASE Crash
    BY <2>1, <1>c
  <2>2. CASE ~Crash
    <3>1. /\ UNCHANGED <<taskQueue, taskMap, myTask, finished, heap>>
          /\ \A w \in Workers : /\ pc'[w] \in Holding <=> pc[w] \in Holding
                                /\ pc'[w] = "signalDone" <=> pc[w] = "signalDone"
      BY <1>9, <2>2, <1>t, PoolAssumption
      DEF JoinAll, Holding, TypeOK, Threads
    <3> QED
      BY <3>1, <1>t, ThreadsMove
  <2> QED
    BY <2>1, <2>2
<1>10. CASE UNCHANGED vars
  BY <1>10, <1>t, ThreadsMove DEF vars
<1> QED
  BY <1>1, <1>2, <1>3, <1>4, <1>5, <1>6, <1>7, <1>8, <1>9, <1>10
  DEF Next, WorkerStep

\* The parts of the invariant are reachable facts together.
LEMMA OwnershipHolds ==
  ASSUME ~ReuseNames
  PROVE  Spec => [](OwnershipInv /\ WaitersHoldPointers)
<1>1. Init => OwnershipInv /\ WaitersHoldPointers
  BY OwnershipInit, PointersInit
<1>2. OwnershipInv /\ WaitersHoldPointers /\ [Next]_vars
      => (OwnershipInv /\ WaitersHoldPointers)'
  BY OwnershipStep, PointersStep DEF OwnershipInv
<1> QED
  BY <1>1, <1>2, PTL DEF Spec

\* While a worker runs a task the object is neither deleted nor run by another
\* worker, if names are not used twice at a time.
THEOREM WorkersOwnTheirTasks ==
  ASSUME ~ReuseNames PROVE Spec => []RunningTaskIsOwned
<1>1. OwnershipInv => RunningTaskIsOwned
  BY DEF OwnershipInv
<1> QED
  BY <1>1, OwnershipHolds, PTL

\* No worker ever finds a popped name without a task.
THEOREM QueuedNamesLeadToTasks ==
  ASSUME ~ReuseNames PROVE Spec => []QueuedNamesAreMapped
<1>1. OwnershipInv => QueuedNamesAreMapped
  BY DEF OwnershipInv
<1> QED
  BY <1>1, OwnershipHolds, PTL

\* Every unfinished task is queued or run.
THEOREM TasksAreKept ==
  ASSUME ~ReuseNames PROVE Spec => []NoTaskIsLost
<1>1. OwnershipInv => NoTaskIsLost
  BY DEF OwnershipInv
<1> QED
  BY <1>1, OwnershipHolds, PTL

-----------------------------------------------------------------------------
(* Waiters and Stop, when no name is waited for twice at a time either *)

\* The pointer a thread keeps over its sleep is not that of a deleted object.
WaiterHoldsLiveTask ==
  \A t \in Threads : waitTask[t] # NoTask => heap[waitTask[t]] = "live"

WaitersAlone ==
  \A t, u \in Threads :
    waitTask[t] # NoTask /\ waitTask[u] = waitTask[t] => u = t

\* Stop may only be called when nothing lives, and nothing is submitted later.
StoppedIsEmpty == stopCalled => \A k \in Tasks : heap[k] # "live"

WaitingInv == WaiterHoldsLiveTask /\ WaitersAlone /\ StoppedIsEmpty

LEMMA WaitingInit == Init => WaitingInv
BY DEF Init, WaitingInv, WaiterHoldsLiveTask, WaitersAlone, StoppedIsEmpty

\* Thread t tests the flag of object k, which no other thread waits for.
LEMMA TestKeepsWaiting ==
  ASSUME TypeOK, WaitingInv, NEW t \in Threads, NEW k \in Tasks,
         heap[k] = "live", TestFinished(t, k),
         \A u \in Threads \ {t} : waitTask[u] # k
  PROVE  WaitingInv'
<1> USE PoolAssumption
    DEF TypeOK, WaitingInv, WaiterHoldsLiveTask, WaitersAlone, StoppedIsEmpty
<1>1. CASE getFinished(k)
  <2>1. /\ heap' = [heap EXCEPT ![k] = "deleted"]
        /\ waitTask' = [waitTask EXCEPT ![t] = NoTask]
        /\ stopCalled' = stopCalled
    BY <1>1 DEF TestFinished
  <2>2. WaiterHoldsLiveTask'
    BY <2>1
  <2>3. WaitersAlone'
    BY <2>1
  <2>4. StoppedIsEmpty'
    BY <2>1
  <2> QED
    BY <2>2, <2>3, <2>4
<1>2. CASE ~getFinished(k)
  <2>1. /\ waitTask' = [waitTask EXCEPT ![t] = k]
        /\ UNCHANGED <<heap, stopCalled>>
    BY <1>2 DEF TestFinished
  <2> QED
    BY <2>1
<1> QED
  BY <1>1, <1>2

LEMMA WaitingStep ==
  ASSUME ~ShareWaits
  PROVE  /\ OwnershipInv /\ WaitersHoldPointers /\ WaitingInv
         /\ [Next]_vars
         => WaitingInv'
<1> SUFFICES ASSUME OwnershipInv, WaitersHoldPointers, WaitingInv, [Next]_vars
             PROVE  WaitingInv'
  OBVIOUS
<1>t. TypeOK
  BY DEF OwnershipInv
<1>u. ASSUME UNCHANGED <<waitTask, heap, stopCalled>> PROVE WaitingInv'
  BY <1>u DEF WaitingInv, WaiterHoldsLiveTask, WaitersAlone, StoppedIsEmpty
<1>1. ASSUME NEW t \in Threads, NEW k \in Tasks, SubmitTask(t, k)
      PROVE  WaitingInv'
  <2>1. /\ ~stopCalled /\ heap' = [heap EXCEPT ![k] = "live"]
        /\ UNCHANGED <<waitTask, stopCalled>>
    BY <1>1 DEF SubmitTask, MaySubmit
  <2> QED
    BY <2>1, <1>t
    DEF TypeOK, WaitingInv, WaiterHoldsLiveTask, WaitersAlone, StoppedIsEmpty
<1>2. ASSUME NEW t \in Threads, NEW n \in Names, WaitForTask(t, n)
      PROVE  WaitingInv'
  <2> DEFINE k == taskMap[n]
  <2>1. k \in Tasks /\ heap[k] = "live" /\ NameOf[k] = n
    BY <1>2, <1>t DEF WaitForTask, OwnershipInv, MapMatchesHeap, TypeOK
  <2>2. \A u \in Threads : waitTask[u] # k
    BY <1>2, <2>1, PoolAssumption DEF WaitForTask, MayWait
  <2>3. TestFinished(t, k)
    BY <1>2 DEF WaitForTask
  <2> QED
    BY <2>1, <2>2, <2>3, <1>t, TestKeepsWaiting
<1>3. ASSUME NEW t \in Threads, ReturnFromDoneWait(t)
      PROVE  WaitingInv'
  <2>1. waitTask[t] \in Tasks /\ heap[waitTask[t]] = "live"
    BY <1>3, <1>t DEF ReturnFromDoneWait, WaitersHoldPointers, TypeOK,
                      WaitingInv, WaiterHoldsLiveTask
  <2>2. \A u \in Threads \ {t} : waitTask[u] # waitTask[t]
    BY <2>1, PoolAssumption DEF WaitingInv, WaitersAlone
  <2>3. TestFinished(t, waitTask[t])
    BY <1>3, <2>1 DEF ReturnFromDoneWait
  <2> QED
    BY <2>1, <2>2, <2>3, <1>t, TestKeepsWaiting
<1>4. ASSUME NEW c \in Clients, Stop(c)
      PROVE  WaitingInv'
  BY <1>4 DEF Stop, MayStop, WaitingInv, WaiterHoldsLiveTask, WaitersAlone,
              StoppedIsEmpty
<1>5. ASSUME NEW t \in Threads,
             SubmitSignal(t) \/ EnterDoneWait(t) \/ SpuriousWakeup(t)
      PROVE  WaitingInv'
  BY <1>5, <1>u DEF SubmitSignal, EnterDoneWait, SpuriousWakeup
<1>6. ASSUME NEW w \in Workers, WorkerStep(w)
      PROVE  WaitingInv'
  BY <1>6, <1>u DEF WorkerStep, TakeTask, FinishRun, SignalDone, Crash
<1>7. ASSUME NEW c \in Clients, JoinAll(c)
      PROVE  WaitingInv'
  BY <1>7, <1>u DEF JoinAll, Crash
<1>8. CASE UNCHANGED vars
  BY <1>8, <1>u DEF vars
<1> QED
  BY <1>1, <1>2, <1>3, <1>4, <1>5, <1>6, <1>7, <1>8 DEF Next, CallStep

LEMMA WaitingHolds ==
  ASSUME ~ReuseNames, ~ShareWaits
  PROVE  Spec => [](OwnershipInv /\ WaitingInv)
<1>1. Init => OwnershipInv /\ WaitersHoldPointers /\ WaitingInv
  BY OwnershipInit, PointersInit, WaitingInit
<1>2. OwnershipInv /\ WaitersHoldPointers /\ WaitingInv /\ [Next]_vars
      => (OwnershipInv /\ WaitersHoldPointers /\ WaitingInv)'
  BY OwnershipStep, PointersStep, WaitingStep DEF OwnershipInv
<1> QED
  BY <1>1, <1>2, PTL DEF Spec

\* A caller who stops the pool when everything was waited for leaves no queued
\* name, no running task and no waiter behind.
THEOREM StopLosesNothing ==
  ASSUME ~ReuseNames, ~ShareWaits PROVE Spec => []StopFindsNoWork
<1>1. OwnershipInv /\ WaitingInv => StopFindsNoWork
  <2> SUFFICES ASSUME OwnershipInv, WaitingInv, stopCalled
               PROVE  /\ taskQueue = <<>>
                      /\ \A w \in Workers : ~Busy(w)
                      /\ \A t \in Threads : waitTask[t] = NoTask
    BY DEF StopFindsNoWork
  <2>1. \A k \in Tasks : heap[k] # "live"
    BY DEF WaitingInv, StoppedIsEmpty
  <2>2. taskQueue = <<>>
    <3>1. SUFFICES ASSUME taskQueue # <<>> PROVE FALSE
      OBVIOUS
    <3>2. 1 \in DOMAIN taskQueue /\ taskQueue[1] \in Names
      BY <3>1 DEF OwnershipInv, TypeOK
    <3>3. taskMap[taskQueue[1]] \in Tasks /\ heap[taskMap[taskQueue[1]]] = "live"
      BY <3>2 DEF OwnershipInv, QueuedNamesAreMapped, TypeOK
    <3> QED
      BY <2>1, <3>3
  <2>3. \A w \in Workers : ~Busy(w)
    BY <2>1 DEF OwnershipInv, RunningTaskIsOwned, Busy, TypeOK
  <2>4. \A t \in Threads : waitTask[t] = NoTask
    BY <2>1 DEF OwnershipInv, WaitingInv, WaiterHoldsLiveTask, TypeOK
  <2> QED
    BY <2>2, <2>3, <2>4
<1> QED
  BY <1>1, WaitingHolds, PTL

-----------------------------------------------------------------------------
(* Who is in the pool when Stop has torn it down *)

\* Where a client can be, and where a thread is in its own call of Stop.
ClientLocations == {"idle", "signalReady", "enrol", "doneWait", "rewait",
                    "joining", "stopped"}
Leaving == {"joining", "stopped"}

\* One client at most gets past the flag, and it leaves the joins only when no
\* worker is left.
StopInv ==
  /\ \A c \in Clients : pc[c] \in ClientLocations
  /\ \A t \in Threads : pc[t] \in Leaving =>
       /\ stopCalled /\ t \in Clients
       /\ \A u \in Threads \ {t} : pc[u] \notin Leaving
  /\ \A c \in Clients : pc[c] = "stopped" => Joined

LEMMA StopInit == Init => StopInv
BY PoolAssumption DEF Init, StopInv, Leaving, ClientLocations, Threads

\* Threads move, none of them in its own call of Stop.
LEMMA MovesKeepStop ==
  ASSUME StopInv, stopCalled' = stopCalled,
         \A t \in Threads : pc'[t] # pc[t] =>
           /\ pc[t] \notin Leaving \cup {"exited", "absent"}
           /\ pc'[t] \notin Leaving
           /\ t \in Clients => pc'[t] \in ClientLocations
  PROVE  StopInv'
<1> USE PoolAssumption DEF StopInv, Leaving, Threads
<1>1. \A c \in Clients : pc'[c] \in ClientLocations
  OBVIOUS
<1>2. \A t \in Threads : pc'[t] \in Leaving <=> pc[t] \in Leaving
  OBVIOUS
<1>3. Joined => Joined'
  BY DEF Joined
<1>4. \A c \in Clients : pc'[c] = "stopped" => pc[c] = "stopped"
  OBVIOUS
<1> QED
  BY <1>1, <1>2, <1>3, <1>4

LEMMA StopStep == TypeOK /\ StopInv /\ [Next]_vars => StopInv'
<1> SUFFICES ASSUME TypeOK, StopInv, [Next]_vars PROVE StopInv'
  OBVIOUS
<1> USE PoolAssumption DEF Threads
<1>p. pc \in [Threads -> Locations]
  BY DEF TypeOK
<1>c. ASSUME UNCHANGED <<pc, stopCalled>> PROVE StopInv'
  BY <1>c, MovesKeepStop
<1>1. ASSUME NEW t \in Threads,
             \/ \E k \in Tasks : SubmitTask(t, k)
             \/ \E n \in Names : WaitForTask(t, n)
             \/ CallStep(t)
             \/ SpuriousWakeup(t)
      PROVE  StopInv'
  <2> USE DEF Leaving, ClientLocations
  <2>1. CASE \E k \in Tasks : SubmitTask(t, k)
    BY <2>1, <1>p, MovesKeepStop DEF SubmitTask, AtHome, Home
  <2>2. CASE \E n \in Names : WaitForTask(t, n)
    BY <2>2, <1>p, MovesKeepStop DEF WaitForTask, TestFinished, AtHome, Home
  <2>3. CASE SubmitSignal(t)
    BY <2>3, <1>p, MovesKeepStop DEF SubmitSignal, Sleepers, Home
  <2>4. CASE EnterDoneWait(t)
    BY <2>4, <1>p, MovesKeepStop DEF EnterDoneWait
  <2>5. CASE ReturnFromDoneWait(t)
    <3>1. stopCalled' = stopCalled /\ pc[t] = "rewait"
      BY <2>5 DEF ReturnFromDoneWait, TestFinished, Crash
    <3>2. \/ pc' = pc
          \/ pc' = [pc EXCEPT ![t] = Home(t)]
          \/ pc' = [pc EXCEPT ![t] = "enrol"]
      BY <2>5 DEF ReturnFromDoneWait, TestFinished, Crash
    <3> QED
      BY <3>1, <3>2, <1>p, MovesKeepStop DEF Home
  <2>6. CASE SpuriousWakeup(t)
    <3>1. CASE pc[t] = "readyWait"
      <4>1. t \in Workers
        BY <3>1 DEF StopInv
      <4> QED
        BY <2>6, <3>1, <4>1, <1>p, MovesKeepStop DEF SpuriousWakeup
    <3>2. CASE pc[t] = "doneWait"
      BY <2>6, <3>2, <1>p, MovesKeepStop DEF SpuriousWakeup
    <3> QED
      BY <2>6, <3>1, <3>2 DEF SpuriousWakeup
  <2> QED
    BY <1>1, <2>1, <2>2, <2>3, <2>4, <2>5, <2>6 DEF CallStep
<1>2. ASSUME NEW w \in Workers, WorkerStep(w) PROVE StopInv'
  <2> USE DEF Leaving, ClientLocations
  <2>1. CASE TakeTask(w)
    <3>1. stopCalled' = stopCalled /\ pc[w] = "top"
      BY <2>1 DEF TakeTask, Crash
    <3>2. \/ pc' = pc
          \/ pc' = [pc EXCEPT ![w] = "readyWait"]
          \/ pc' = [pc EXCEPT ![w] = "exited"]
          \/ pc' = [pc EXCEPT ![w] = "run"]
      BY <2>1 DEF TakeTask, Crash
    <3> QED
      BY <3>1, <3>2, <1>p, MovesKeepStop
  <2>2. CASE FinishRun(w)
    BY <2>2, <1>p, MovesKeepStop DEF FinishRun, Crash
  <2>3. CASE SignalDone(w)
    <3>1. stopCalled' = stopCalled /\ pc[w] = "signalDone"
      BY <2>3 DEF SignalDone, Crash
    <3>2. \/ pc' = pc
          \/ pc' = [pc EXCEPT ![w] = "top"]
          \/ \E t \in Threads : /\ pc[t] = "doneWait"
                                /\ pc' = [pc EXCEPT ![w] = "top", ![t] = "rewait"]
      BY <2>3 DEF SignalDone, Crash, DoneSleepers
    <3> QED
      BY <3>1, <3>2, <1>p, MovesKeepStop
  <2> QED
    BY <1>2, <2>1, <2>2, <2>3 DEF WorkerStep
<1>3. ASSUME NEW c \in Clients, Stop(c) PROVE StopInv'
  <2>1. ~stopCalled /\ stopCalled' /\ pc'[c] = "joining"
    BY <1>3, <1>p DEF Stop, MayStop
  <2>2. \A t \in Threads \ {c} : \/ pc'[t] = pc[t]
                                 \/ t \in Workers /\ pc'[t] = "top"
    BY <1>3, <1>p DEF Stop, WokenByStop, Sleepers
  <2>3. \A t \in Threads : pc[t] \notin Leaving
    BY <2>1 DEF StopInv
  <2>4. \A t \in Threads \ {c} : pc'[t] \notin Leaving
    BY <2>2, <2>3 DEF Leaving
  <2> QED
    BY <2>1, <2>2, <2>4 DEF StopInv, Leaving, ClientLocations
<1>4. ASSUME NEW c \in Clients, JoinAll(c) PROVE StopInv'
  <2>1. CASE pc' = [pc EXCEPT ![c] = "stopped"] /\ stopCalled' = stopCalled
    <3>1. pc[c] = "joining" /\ Joined
      BY <1>4 DEF JoinAll
    <3>2. Joined'
      BY <2>1, <3>1, <1>p DEF Joined
    <3>3. \A t \in Threads : pc'[t] \in Leaving <=> pc[t] \in Leaving
      BY <2>1, <3>1, <1>p DEF Leaving
    <3>4. \A d \in Clients : pc'[d] \in ClientLocations
      BY <2>1, <1>p DEF StopInv, ClientLocations
    <3> QED
      BY <2>1, <3>2, <3>3, <3>4 DEF StopInv
  <2> QED
    BY <1>4, <1>c, <2>1 DEF JoinAll, Crash
<1>5. CASE UNCHANGED vars
  BY <1>5, <1>c DEF vars
<1> QED
  BY <1>1, <1>2, <1>3, <1>4, <1>5 DEF Next

\* When a client has come back from Stop, every worker is gone and no other
\* client sleeps in the pool or holds its mutex.
THEOREM StopEmptiesThePool ==
  ASSUME ~ReuseNames, ~ShareWaits PROVE Spec => []NobodyInsideAfterStop
<1>1. OwnershipInv /\ WaitersHoldPointers /\ StopFindsNoWork /\ StopInv
      => NobodyInsideAfterStop
  <2> SUFFICES ASSUME TypeOK, WaitersHoldPointers, StopFindsNoWork, StopInv,
                      NEW c \in Clients, pc[c] = "stopped", NEW t \in Threads
               PROVE  pc[t] \in {"idle", "exited", "absent", "stopped",
                                 "signalReady"}
    BY DEF OwnershipInv, NobodyInsideAfterStop
  <2>1. stopCalled /\ Joined /\ \A u \in Threads \ {c} : pc[u] \notin Leaving
    BY DEF StopInv, Leaving, Threads
  <2>2. waitTask[t] = NoTask
    BY <2>1 DEF StopFindsNoWork
  <2>3. CASE t \in Workers
    BY <2>1, <2>3 DEF Joined
  <2>4. CASE t \in Clients
    BY <2>1, <2>2, <2>4
    DEF StopInv, Leaving, ClientLocations, WaitersHoldPointers
  <2> QED
    BY <2>3, <2>4 DEF Threads
<1>2. Init => StopInv
  BY StopInit
<1>3. OwnershipInv /\ StopInv /\ [Next]_vars => StopInv'
  BY StopStep DEF OwnershipInv
<1> QED
  BY <1>1, <1>2, <1>3, OwnershipHolds, StopLosesNothing, PTL DEF Spec

-----------------------------------------------------------------------------
(* The pool implements FifoExecutor *)

\* The four variables of the executor.
WaitingList == [i \in DOMAIN taskQueue |-> taskMap[taskQueue[i]]]
RunningSet == {k \in Tasks : \E w \in Workers : Busy(w) /\ myTask[w] = k}
DoneSet == {k \in Tasks : heap[k] = "live" /\ finished[k]}
ReapedSet == {k \in Tasks : heap[k] = "deleted"}

LEMMA ExecutorInit == Init => Executor!Init
<1> SUFFICES ASSUME Init PROVE Executor!Init
  OBVIOUS
<1>1. WaitingList = <<>>
  BY DEF Init, WaitingList
<1>2. RunningSet = {} /\ DoneSet = {} /\ ReapedSet = {}
  BY PoolAssumption DEF Init, RunningSet, Busy, DoneSet, ReapedSet
<1> QED
  BY <1>1, <1>2 DEF Executor!Init, WaitingList, RunningSet, DoneSet, ReapedSet

\* What is queued leads to tasks, before a step and after it.
WaitingFacts ==
  /\ WaitingList \in Seq(Tasks) /\ Len(WaitingList) = Len(taskQueue)
  /\ DOMAIN WaitingList = DOMAIN taskQueue
  /\ \A i \in DOMAIN taskQueue :
       /\ WaitingList[i] = taskMap[taskQueue[i]] /\ WaitingList[i] \in Tasks
       /\ heap[WaitingList[i]] = "live" /\ ~finished[WaitingList[i]]

LEMMA WaitingType == OwnershipInv => WaitingFacts
<1> SUFFICES ASSUME OwnershipInv PROVE WaitingFacts
  OBVIOUS
<1> DEFINE n == Len(taskQueue)
<1>1. n \in Nat /\ DOMAIN taskQueue = 1 .. n
  BY DEF OwnershipInv, TypeOK
<1>2. \A i \in DOMAIN taskQueue :
        /\ taskMap[taskQueue[i]] \in Tasks
        /\ heap[taskMap[taskQueue[i]]] = "live"
        /\ ~finished[taskMap[taskQueue[i]]]
  BY DEF OwnershipInv, QueuedNamesAreMapped, TypeOK
<1> HIDE DEF n
<1>3. WaitingList \in [1 .. n -> Tasks]
  BY <1>1, <1>2 DEF WaitingList
<1>4. WaitingList \in Seq(Tasks) /\ Len(WaitingList) = n
  BY <1>1, <1>3
<1> QED
  BY <1>1, <1>2, <1>4 DEF WaitingList, WaitingFacts, n

LEMMA WaitingTypeNext == (OwnershipInv => WaitingFacts)'
BY WaitingType, PTL

\* Steps that keep the tasks where they are.
LEMMA ExecutorStutters ==
  ASSUME UNCHANGED <<taskQueue, taskMap, heap, finished>>,
         \A w \in Workers : /\ Busy(w)' <=> Busy(w)
                            /\ Busy(w) => myTask'[w] = myTask[w]
  PROVE  UNCHANGED Executor!vars
<1>1. WaitingList' = WaitingList /\ DoneSet' = DoneSet /\ ReapedSet' = ReapedSet
  BY DEF WaitingList, DoneSet, ReapedSet
<1>2. RunningSet' = RunningSet
  BY DEF RunningSet
<1> QED
  BY <1>1, <1>2 DEF Executor!vars, WaitingList, RunningSet, DoneSet, ReapedSet

\* The tasks the executor knows are those that were allocated.
LEMMA KnownTasks ==
  ASSUME OwnershipInv, NEW k \in Tasks, heap[k] = "fresh"
  PROVE  k \notin Executor!Known
<1>1. \A i \in DOMAIN WaitingList : WaitingList[i] # k
  BY WaitingType DEF WaitingFacts
<1>2. k \notin RunningSet /\ k \notin DoneSet /\ k \notin ReapedSet
  BY DEF RunningSet, DoneSet, ReapedSet, OwnershipInv, RunningTaskIsOwned
<1>3. Executor!Known =
        {WaitingList[i] : i \in DOMAIN WaitingList} \cup RunningSet \cup DoneSet \cup ReapedSet
  BY DEF Executor!Known, WaitingList, RunningSet, DoneSet, ReapedSet
<1> QED
  BY <1>1, <1>2, <1>3

LEMMA SubmitRefines ==
  ASSUME ~ReuseNames, OwnershipInv, OwnershipInv', NEW t \in Threads,
         NEW k \in Tasks, SubmitTask(t, k)
  PROVE  Executor!Submit(k)
<1> DEFINE n == NameOf[k]
<1>1. n \in Names /\ heap[k] = "fresh" /\ heap' = [heap EXCEPT ![k] = "live"]
      /\ UNCHANGED <<myTask, finished>> /\ taskQueue' = Append(taskQueue, n)
  BY PoolAssumption DEF SubmitTask, MaySubmit, Push
<1>2. taskMap[n] = NoTask
  <2>1. \A j \in Tasks : heap[j] = "live" => NameOf[j] # n
    BY DEF SubmitTask, MaySubmit
  <2>2. taskMap[n] \in Tasks \cup {NoTask}
    BY <1>1 DEF OwnershipInv, TypeOK
  <2>3. taskMap[n] # NoTask => heap[taskMap[n]] = "live" /\ NameOf[taskMap[n]] = n
    BY <1>1 DEF OwnershipInv, MapMatchesHeap
  <2> QED
    BY <2>1, <2>2, <2>3
<1>3. taskMap' = [taskMap EXCEPT ![n] = k]
  BY <1>1, <1>2 DEF SubmitTask, Insert, OwnershipInv, TypeOK
<1>4. WaitingList' = Append(WaitingList, k)
  <2> DEFINE m == Len(taskQueue)
  <2>1. /\ m \in Nat /\ DOMAIN taskQueue = 1 .. m /\ DOMAIN taskQueue' = 1 .. m + 1
        /\ \A i \in 1 .. m : taskQueue'[i] = taskQueue[i] /\ taskQueue[i] \in Names
        /\ taskQueue'[m + 1] = n
    BY <1>1 DEF OwnershipInv, TypeOK
  <2>2. WaitingList \in Seq(Tasks) /\ Len(WaitingList) = m /\ DOMAIN WaitingList = 1 .. m
        /\ \A i \in 1 .. m : WaitingList[i] = taskMap[taskQueue[i]]
    BY <2>1, WaitingType DEF WaitingFacts
  <2>3. WaitingList' \in Seq(Tasks) /\ Len(WaitingList') = m + 1
        /\ \A i \in 1 .. m + 1 : WaitingList'[i] = taskMap'[taskQueue'[i]]
    <3>1. Len(taskQueue') = m + 1
      BY <1>1 DEF OwnershipInv, TypeOK
    <3> QED
      BY <2>1, <3>1, WaitingTypeNext DEF WaitingFacts
  <2>4. \A i \in 1 .. m : taskQueue[i] # n
    BY <1>2, <2>1 DEF OwnershipInv, QueuedNamesAreMapped
  <2> HIDE DEF m, n
  <2>5. \A i \in 1 .. m : WaitingList'[i] = WaitingList[i]
    <3> SUFFICES ASSUME NEW i \in 1 .. m PROVE WaitingList'[i] = WaitingList[i]
      OBVIOUS
    <3>1. taskMap'[taskQueue[i]] = taskMap[taskQueue[i]]
      BY <1>3, <2>1, <2>4 DEF OwnershipInv, TypeOK
    <3>2. i \in 1 .. m + 1
      BY <2>1
    <3> QED
      BY <2>1, <2>2, <2>3, <3>1, <3>2
  <2>6. WaitingList'[m + 1] = k
    BY <1>1, <1>3, <2>1, <2>3 DEF OwnershipInv, TypeOK
  <2> DEFINE u == WaitingList
             v == WaitingList'
  <2>7. /\ u \in Seq(Tasks) /\ v \in Seq(Tasks) /\ Len(u) = m /\ Len(v) = m + 1
        /\ \A i \in 1 .. m : v[i] = u[i]
        /\ v[m + 1] = k
    BY <2>2, <2>3, <2>5, <2>6
  <2> HIDE DEF u, v
  <2>8. v = Append(u, k)
    BY <2>1, <2>7
  <2> QED
    BY <2>8 DEF u, v
<1>5. \A w \in Workers : Busy(w)' <=> Busy(w)
  BY <1>1, PoolAssumption
  DEF SubmitTask, AtHome, Home, Busy, OwnershipInv, TypeOK, Threads
<1>6. RunningSet' = RunningSet
  BY <1>1, <1>5 DEF RunningSet
<1>7. DoneSet' = DoneSet
  BY <1>1 DEF DoneSet, OwnershipInv, TypeOK, MapMatchesHeap
<1>8. ReapedSet' = ReapedSet
  BY <1>1 DEF ReapedSet, OwnershipInv, TypeOK
<1> QED
  BY <1>1, <1>4, <1>6, <1>7, <1>8, KnownTasks
  DEF Executor!Submit, WaitingList, RunningSet, DoneSet, ReapedSet

LEMMA ReapRefines ==
  ASSUME OwnershipInv, OwnershipInv', NEW t \in Threads, NEW k \in Tasks,
         heap[k] = "live", finished[k], pc[t] \in {Home(t), "rewait"},
         taskMap' = [taskMap EXCEPT ![NameOf[k]] = NoTask],
         heap' = [heap EXCEPT ![k] = "deleted"],
         pc' = [pc EXCEPT ![t] = Home(t)],
         UNCHANGED <<taskQueue, myTask, finished>>
  PROVE  Executor!Reap(k)
<1> DEFINE n == NameOf[k]
<1>1. n \in Names /\ taskMap[n] = k
  BY PoolAssumption DEF OwnershipInv, MapMatchesHeap
<1>2. \A i \in DOMAIN taskQueue : taskMap'[taskQueue[i]] = taskMap[taskQueue[i]]
  <2>1. \A i \in DOMAIN taskQueue : taskQueue[i] \in Names /\ taskQueue[i] # n
    BY <1>1 DEF OwnershipInv, QueuedNamesAreMapped, TypeOK
  <2> QED
    BY <2>1 DEF OwnershipInv, TypeOK
<1>3. WaitingList' = WaitingList
  BY <1>2 DEF WaitingList
<1>4. \A w \in Workers : Busy(w)' <=> Busy(w)
  BY PoolAssumption DEF Busy, Home, OwnershipInv, TypeOK, Threads
<1>5. RunningSet' = RunningSet
  BY <1>4 DEF RunningSet
<1>6. k \in DoneSet /\ DoneSet' = DoneSet \ {k} /\ ReapedSet' = ReapedSet \cup {k}
  BY DEF DoneSet, ReapedSet, OwnershipInv, TypeOK
<1> QED
  BY <1>3, <1>5, <1>6 DEF Executor!Reap, WaitingList, RunningSet, DoneSet, ReapedSet

LEMMA TestRefines ==
  ASSUME OwnershipInv, OwnershipInv', NEW t \in Threads, NEW k \in Tasks,
         heap[k] = "live", pc[t] \in {Home(t), "rewait"}, TestFinished(t, k)
  PROVE  Executor!Reap(k) \/ UNCHANGED Executor!vars
<1>1. CASE getFinished(k)
  <2>1. finished[k]
    BY <1>1 DEF getFinished
  <2>2. /\ taskMap' = [taskMap EXCEPT ![NameOf[k]] = NoTask]
        /\ heap' = [heap EXCEPT ![k] = "deleted"]
        /\ pc' = [pc EXCEPT ![t] = Home(t)]
        /\ UNCHANGED <<taskQueue, myTask, finished>>
    BY <1>1 DEF TestFinished
  <2> QED
    BY <2>1, <2>2, ReapRefines
<1>2. CASE ~getFinished(k)
  <2>1. /\ pc' = [pc EXCEPT ![t] = "enrol"]
        /\ UNCHANGED <<taskQueue, taskMap, myTask, finished, heap>>
    BY <1>2 DEF TestFinished
  <2>2. \A w \in Workers : Busy(w)' <=> Busy(w)
    BY <2>1, PoolAssumption DEF Busy, Home, OwnershipInv, TypeOK, Threads
  <2> QED
    BY <2>1, <2>2, ExecutorStutters
<1> QED
  BY <1>1, <1>2

\* The running tasks are in different workers, so that there are at most as
\* many as workers that run one.
LEMMA RunningBound ==
  ASSUME OwnershipInv, NEW w \in Workers, ~Busy(w)
  PROVE  Cardinality(RunningSet) < Cardinality(Workers)
<1> DEFINE others == Workers \ {w}
           f == [k \in RunningSet |-> CHOOSE v \in Workers : Busy(v) /\ myTask[v] = k]
<1>1. \A k \in RunningSet : /\ f[k] \in others
                         /\ Busy(f[k]) /\ myTask[f[k]] = k
  BY DEF RunningSet
<1>2. f \in Injection(RunningSet, others)
  <2>1. f \in [RunningSet -> others]
    BY <1>1
  <2>2. \A j, k \in RunningSet : f[j] = f[k] => j = k
    BY <1>1
  <2> HIDE DEF f
  <2> QED
    BY <2>1, <2>2 DEF Injection, IsInjective
<1>3. IsFiniteSet(others) /\ Cardinality(others) = Cardinality(Workers) - 1
  BY PoolAssumption, FS_RemoveElement
<1>4. IsFiniteSet(RunningSet) /\ Cardinality(RunningSet) <= Cardinality(others)
  <2> HIDE DEF f, others
  <2> QED
    BY <1>2, <1>3, FS_Injection
<1>5. Cardinality(Workers) \in Nat /\ Cardinality(RunningSet) \in Nat
  BY <1>4, PoolAssumption, FS_CardinalityType
<1> QED
  BY <1>3, <1>4, <1>5

LEMMA TakingRefines ==
  ASSUME OwnershipInv, OwnershipInv', NEW w \in Workers,
         pc[w] = "top", taskQueue # <<>>, taskMap[Head(taskQueue)] # NoTask,
         taskQueue' = Tail(taskQueue),
         myTask' = [myTask EXCEPT ![w] = taskMap[Head(taskQueue)]],
         pc' = [pc EXCEPT ![w] = "run"],
         UNCHANGED <<taskMap, finished, heap>>
  PROVE  Executor!Start
<1> DEFINE m == Len(taskQueue)
           k == taskMap[taskQueue[1]]
<1>1. /\ m \in Nat /\ m > 0 /\ DOMAIN taskQueue = 1 .. m
      /\ Head(taskQueue) = taskQueue[1] /\ Len(taskQueue') = m - 1
      /\ DOMAIN taskQueue' = 1 .. m - 1
      /\ \A i \in 1 .. m - 1 : taskQueue'[i] = taskQueue[i + 1]
  BY DEF OwnershipInv, TypeOK
<1>2. WaitingList \in Seq(Tasks) /\ Len(WaitingList) = m
      /\ \A i \in 1 .. m : WaitingList[i] = taskMap[taskQueue[i]]
  BY <1>1, WaitingType DEF WaitingFacts
<1>3. WaitingList' \in Seq(Tasks) /\ Len(WaitingList') = m - 1
      /\ \A i \in 1 .. m - 1 : WaitingList'[i] = taskMap[taskQueue'[i]]
  BY <1>1, WaitingTypeNext DEF WaitingFacts
<1>4. WaitingList # <<>> /\ Head(WaitingList) = k /\ WaitingList' = Tail(WaitingList)
  <2> DEFINE u == WaitingList
             v == WaitingList'
  <2>1. \A i \in 1 .. m - 1 : i \in 1 .. m /\ i + 1 \in 1 .. m
    BY <1>1
  <2>2. ASSUME NEW i \in 1 .. m - 1 PROVE v[i] = u[i + 1]
    <3>1. v[i] = taskMap[taskQueue'[i]] /\ taskQueue'[i] = taskQueue[i + 1]
      BY <1>1, <1>3
    <3>2. u[i + 1] = taskMap[taskQueue[i + 1]]
      BY <1>2, <2>1
    <3> QED
      BY <3>1, <3>2
  <2>3. u \in Seq(Tasks) /\ v \in Seq(Tasks) /\ Len(u) = m /\ Len(v) = m - 1
        /\ u[1] = k
    BY <1>1, <1>2, <1>3
  <2> HIDE DEF u, v, m, k
  <2>4. u # <<>> /\ Head(u) = k
    BY <1>1, <2>3
  <2>5. v = Tail(u)
    BY <1>1, <2>2, <2>3, <2>4
  <2> QED
    BY <2>4, <2>5 DEF u, v
<1>5. /\ myTask'[w] = k /\ pc'[w] = "run" /\ k \in Tasks /\ k # NoTask
      /\ \A v \in Workers \ {w} : myTask'[v] = myTask[v] /\ pc'[v] = pc[v]
  BY <1>1, PoolAssumption DEF OwnershipInv, QueuedNamesAreMapped, TypeOK, Threads
<1>6. ~Busy(w) /\ Busy(w)' /\ \A v \in Workers \ {w} : Busy(v)' <=> Busy(v)
  BY <1>5 DEF Busy, OwnershipInv, WorkersHoldTasks, Holding
<1>7. RunningSet' = RunningSet \cup {k}
  <2>1. ASSUME NEW j \in Tasks
        PROVE  j \in RunningSet' <=> j \in RunningSet \/ j = k
    BY <1>5, <1>6 DEF RunningSet
  <2>2. RunningSet \subseteq Tasks /\ RunningSet' \subseteq Tasks /\ k \in Tasks
    BY <1>5 DEF RunningSet
  <2> QED
    BY <2>1, <2>2
<1>8. DoneSet' = DoneSet /\ ReapedSet' = ReapedSet
  BY DEF DoneSet, ReapedSet
<1>9. Cardinality(RunningSet) < Cardinality(Workers)
  BY <1>6, RunningBound
<1>10. \A S : Executor!Cardinality(S) = Cardinality(S)
  BY DEF Executor!Cardinality, Cardinality
<1> QED
  BY <1>4, <1>7, <1>8, <1>9, <1>10
  DEF Executor!Start, WaitingList, RunningSet, DoneSet, ReapedSet

LEMMA FinishRefines ==
  ASSUME OwnershipInv, NEW w \in Workers, NEW k \in Tasks,
         pc[w] = "run", k = myTask[w],
         finished' = [finished EXCEPT ![myTask[w]] = TRUE],
         pc' = [pc EXCEPT ![w] = "signalDone"],
         UNCHANGED <<taskQueue, taskMap, myTask, heap>>
  PROVE  Executor!Complete(k)
<1>1. k \in Tasks /\ Busy(w)
  BY PoolAssumption DEF OwnershipInv, WorkersHoldTasks, Holding, Busy, TypeOK
<1>2. heap[k] = "live" /\ \A v \in Workers \ {w} : myTask[v] # k
  BY <1>1 DEF OwnershipInv, RunningTaskIsOwned
<1>3. finished'[k] /\ \A j \in Tasks \ {k} : finished'[j] <=> finished[j]
  BY <1>1 DEF OwnershipInv, TypeOK
<1>4. ~Busy(w)' /\ \A v \in Workers \ {w} : Busy(v)' <=> Busy(v)
  BY DEF Busy, OwnershipInv, TypeOK, Threads
<1>5. k \in RunningSet /\ RunningSet' = RunningSet \ {k}
  BY <1>1, <1>2, <1>4 DEF RunningSet
<1>6. DoneSet' = DoneSet \cup {k}
  BY <1>1, <1>2, <1>3 DEF DoneSet
<1>7. WaitingList' = WaitingList /\ ReapedSet' = ReapedSet
  BY DEF WaitingList, ReapedSet
<1> QED
  BY <1>5, <1>6, <1>7 DEF Executor!Complete, WaitingList, RunningSet, DoneSet, ReapedSet

\* Every step of the pool is a step of the executor, or none.
LEMMA ExecutorStep ==
  ASSUME ~ReuseNames
  PROVE  /\ OwnershipInv /\ OwnershipInv' /\ WaitersHoldPointers /\ [Next]_vars
         => [Executor!Next]_(Executor!vars)
<1> SUFFICES ASSUME OwnershipInv, OwnershipInv', WaitersHoldPointers, [Next]_vars
             PROVE  Executor!Next \/ UNCHANGED Executor!vars
  OBVIOUS
<1>t. TypeOK
  BY DEF OwnershipInv
<1>m. ASSUME UNCHANGED <<taskQueue, taskMap, myTask, finished, heap>>,
             \A w \in Workers : Busy(w)' <=> Busy(w)
      PROVE  UNCHANGED Executor!vars
  BY <1>m, ExecutorStutters
<1>c. ASSUME Crash PROVE UNCHANGED Executor!vars
  BY <1>c, <1>m DEF Crash, Busy
<1>1. ASSUME NEW t \in Threads, NEW k \in Tasks, SubmitTask(t, k)
      PROVE  Executor!Next
  BY <1>1, SubmitRefines DEF Executor!Next
<1>f. ASSUME NEW t \in Threads, NEW k \in Tasks, heap[k] = "live",
             pc[t] \in {Home(t), "rewait"}, TestFinished(t, k)
      PROVE  Executor!Next \/ UNCHANGED Executor!vars
  BY <1>f, TestRefines DEF Executor!Next
<1>2. ASSUME NEW t \in Threads, NEW n \in Names, WaitForTask(t, n)
      PROVE  Executor!Next \/ UNCHANGED Executor!vars
  <2>1. taskMap[n] \in Tasks /\ heap[taskMap[n]] = "live"
    BY <1>2, <1>t DEF WaitForTask, OwnershipInv, MapMatchesHeap, TypeOK
  <2>2. pc[t] = Home(t) /\ TestFinished(t, taskMap[n])
    BY <1>2 DEF WaitForTask, AtHome
  <2> QED
    BY <2>1, <2>2, <1>f
<1>3. ASSUME NEW t \in Threads, SubmitSignal(t) \/ EnterDoneWait(t) \/ SpuriousWakeup(t)
      PROVE  UNCHANGED Executor!vars
  <2>1. UNCHANGED <<taskQueue, taskMap, myTask, finished, heap>>
    BY <1>3 DEF SubmitSignal, EnterDoneWait, SpuriousWakeup
  <2>2. \A w \in Workers : pc'[w] = "signalDone" <=> pc[w] = "signalDone"
    BY <1>3, <1>t, PoolAssumption
    DEF SubmitSignal, EnterDoneWait, SpuriousWakeup, Sleepers, Home, TypeOK, Threads
  <2> QED
    BY <2>1, <2>2, <1>m DEF Busy
<1>4. ASSUME NEW t \in Threads, ReturnFromDoneWait(t)
      PROVE  Executor!Next \/ UNCHANGED Executor!vars
  <2>1. pc[t] = "rewait" /\ waitTask[t] \in Tasks
    BY <1>4, <1>t DEF ReturnFromDoneWait, WaitersHoldPointers, TypeOK
  <2>2. CASE heap[waitTask[t]] = "live" /\ TestFinished(t, waitTask[t])
    BY <2>1, <2>2, <1>f
  <2>3. CASE /\ pc' = [pc EXCEPT ![t] = "enrol"]
             /\ UNCHANGED <<taskQueue, taskMap, myTask, finished, heap>>
    <3>1. \A w \in Workers : pc'[w] = "signalDone" <=> pc[w] = "signalDone"
      BY <2>1, <2>3, <1>t DEF TypeOK, Threads
    <3> QED
      BY <2>3, <3>1, <1>m DEF Busy
  <2> QED
    BY <1>4, <1>c, <2>2, <2>3 DEF ReturnFromDoneWait
<1>5. ASSUME NEW w \in Workers, TakeTask(w)
      PROVE  Executor!Next \/ UNCHANGED Executor!vars
  <2>1. pc[w] = "top"
    BY <1>5 DEF TakeTask
  <2>2. CASE /\ \/ pc' = [pc EXCEPT ![w] = "readyWait"]
                \/ pc' = [pc EXCEPT ![w] = "exited"]
             /\ UNCHANGED <<taskQueue, taskMap, myTask, finished, heap>>
    <3>1. \A v \in Workers : pc'[v] = "signalDone" <=> pc[v] = "signalDone"
      BY <2>1, <2>2, <1>t DEF TypeOK, Threads
    <3> QED
      BY <2>2, <3>1, <1>m DEF Busy
  <2>3. CASE /\ taskQueue # <<>> /\ taskMap[Head(taskQueue)] # NoTask
             /\ taskQueue' = Tail(taskQueue)
             /\ myTask' = [myTask EXCEPT ![w] = taskMap[Head(taskQueue)]]
             /\ pc' = [pc EXCEPT ![w] = "run"]
             /\ UNCHANGED <<taskMap, finished, heap>>
    BY <2>1, <2>3, TakingRefines DEF Executor!Next
  <2> QED
    BY <1>5, <1>c, <2>2, <2>3 DEF TakeTask
<1>6. ASSUME NEW w \in Workers, FinishRun(w)
      PROVE  Executor!Next \/ UNCHANGED Executor!vars
  <2>1. CASE Crash
    BY <2>1, <1>c
  <2>2. CASE ~Crash
    <3>1. /\ pc[w] = "run" /\ finished' = [finished EXCEPT ![myTask[w]] = TRUE]
          /\ pc' = [pc EXCEPT ![w] = "signalDone"]
          /\ UNCHANGED <<taskQueue, taskMap, myTask, heap>>
      BY <1>6, <2>2 DEF FinishRun
    <3>2. myTask[w] \in Tasks
      BY <3>1, <1>t DEF OwnershipInv, WorkersHoldTasks, Holding, TypeOK
    <3>3. PICK k \in Tasks : k = myTask[w]
      BY <3>2
    <3>4. Executor!Complete(k)
      BY <3>1, <3>3, FinishRefines
    <3>5. Executor!Next
      BY <3>4, Zenon DEF Executor!Next
    <3> QED
      BY <3>5
  <2> QED
    BY <2>1, <2>2
<1>7. ASSUME NEW w \in Workers, SignalDone(w)
      PROVE  UNCHANGED Executor!vars
  <2>1. CASE Crash
    BY <2>1, <1>c
  <2>2. CASE ~Crash
    <3>1. /\ pc[w] = "signalDone"
          /\ myTask' = [myTask EXCEPT ![w] = NoTask]
          /\ \/ pc' = [pc EXCEPT ![w] = "top"]
             \/ \E t \in Threads : /\ pc[t] = "doneWait"
                                   /\ pc' = [pc EXCEPT ![w] = "top", ![t] = "rewait"]
          /\ UNCHANGED <<taskQueue, taskMap, finished, heap>>
      BY <1>7, <2>2 DEF SignalDone, DoneSleepers
    <3>2. ~Busy(w) /\ ~Busy(w)'
      BY <3>1, <1>t DEF Busy, TypeOK
    <3>3. ASSUME NEW v \in Workers \ {w}
          PROVE  /\ myTask'[v] = myTask[v]
                 /\ pc'[v] = "signalDone" <=> pc[v] = "signalDone"
      BY <3>1, <1>t DEF TypeOK, Threads
    <3>4. \A v \in Workers : /\ Busy(v)' <=> Busy(v)
                             /\ Busy(v) => myTask'[v] = myTask[v]
      BY <3>2, <3>3 DEF Busy
    <3> QED
      BY <3>1, <3>4, ExecutorStutters
  <2> QED
    BY <2>1, <2>2
<1>8. ASSUME NEW c \in Clients, Stop(c) \/ JoinAll(c)
      PROVE  UNCHANGED Executor!vars
  <2>1. CASE Crash
    BY <2>1, <1>c
  <2>2. CASE ~Crash
    <3>1. UNCHANGED <<taskQueue, taskMap, myTask, finished, heap>>
      BY <1>8, <2>2 DEF Stop, JoinAll
    <3>2. \A w \in Workers : pc'[w] = "signalDone" <=> pc[w] = "signalDone"
      BY <1>8, <2>2, <1>t, PoolAssumption
      DEF Stop, JoinAll, WokenByStop, Sleepers, TypeOK, Threads
    <3> QED
      BY <3>1, <3>2, <1>m DEF Busy
  <2> QED
    BY <2>1, <2>2
<1>9. CASE UNCHANGED vars
  BY <1>9, <1>m DEF vars, Busy
<1> QED
  BY <1>1, <1>2, <1>3, <1>4, <1>5, <1>6, <1>7, <1>8, <1>9
  DEF Next, WorkerStep, CallStep

\* For any number of workers, clients, tasks and names: the pool starts every
\* task once, in the order of submission, never more than it has workers, and
\* gives it back only when its Run() has returned.
THEOREM PoolIsExecutor ==
  ASSUME ~ReuseNames PROVE Spec => ImplementsExecutor
<1>1. OwnershipInv /\ WaitersHoldPointers /\ (OwnershipInv /\ WaitersHoldPointers)'
        /\ [Next]_vars => [Executor!Next]_(Executor!vars)
  BY ExecutorStep
<1> QED
  BY <1>1, ExecutorInit, OwnershipHolds, PTL
  DEF Spec, ImplementsExecutor, Executor!Spec
=============================================================================
