----------------------------- MODULE MCThreadPool -----------------------------
(***************************************************************************)
(* Instances of ThreadPool for TLC, and its refinement of FifoExecutor.    *)
(***************************************************************************)
EXTENDS ThreadPool, TLC

CONSTANTS w1, w2, c1, c2, k1, k2, k3, n1, n2, n3

\* Every object has a name of its own, as in pool-test.cc.
DistinctNames == k1 :> n1 @@ k2 :> n2 @@ k3 :> n3
\* k1 and k3 share a name, one after the other or at the same time.
SharedName == k1 :> n1 @@ k2 :> n2 @@ k3 :> n1

NoSubmits == [k \in Tasks |-> {}]
NoWaits == [k \in Tasks |-> {}]
\* k1 submits k2, as the SubmitTaskTask of test_submit_many.
K1Submits == [k \in Tasks |-> IF k = k1 THEN {k2} ELSE {}]
\* k1 waits for a task queued after it, as the WaitForTaskTask of
\* test_wait_for_from_future_tasks.
K1Waits == [k \in Tasks |-> IF k = k1 THEN {n2} ELSE {}]

\* The state of the executor that a state of the pool stands for.
Executor == INSTANCE FifoExecutor WITH
  Capacity <- Cardinality(Workers),
  waiting  <- [i \in DOMAIN taskQueue |-> taskMap[taskQueue[i]]],
  running  <- {k \in Tasks : \E w \in Workers : Busy(w) /\ myTask[w] = k},
  done     <- {k \in Tasks : heap[k] = "live" /\ finished[k]},
  reaped   <- {k \in Tasks : heap[k] = "deleted"}

\* The pool implements the executor: tasks start in the order of submission,
\* once, and WaitForTask destroys one only after its Run() has returned.
ImplementsExecutor == Executor!Spec
=============================================================================
