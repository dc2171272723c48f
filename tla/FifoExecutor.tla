----------------------------- MODULE FifoExecutor -----------------------------
(***************************************************************************)
(* What the thread pool promises to its users: a submitted task is started *)
(* once, in the order of submission, by one of Capacity workers, and is    *)
(* given back to the waiter only when its Run() has returned.              *)
(***************************************************************************)
EXTENDS Naturals, Sequences, FiniteSets

CONSTANTS Tasks, Capacity

VARIABLES
  waiting,   \* submitted and not started, oldest first
  running,   \* started, Run() not returned
  done,      \* Run() returned, not yet given back
  reaped     \* given back and destroyed

vars == <<waiting, running, done, reaped>>

Init == /\ waiting = <<>>
        /\ running = {} /\ done = {} /\ reaped = {}

Known == {waiting[i] : i \in DOMAIN waiting} \cup running \cup done \cup reaped

Submit(k) ==
  /\ k \in Tasks \ Known
  /\ waiting' = Append(waiting, k)
  /\ UNCHANGED <<running, done, reaped>>

Start ==
  /\ waiting # <<>>
  /\ Cardinality(running) < Capacity
  /\ running' = running \cup {Head(waiting)}
  /\ waiting' = Tail(waiting)
  /\ UNCHANGED <<done, reaped>>

Complete(k) ==
  /\ k \in running
  /\ running' = running \ {k}
  /\ done' = done \cup {k}
  /\ UNCHANGED <<waiting, reaped>>

Reap(k) ==
  /\ k \in done
  /\ done' = done \ {k}
  /\ reaped' = reaped \cup {k}
  /\ UNCHANGED <<waiting, running>>

Next == Start \/ \E k \in Tasks : Submit(k) \/ Complete(k) \/ Reap(k)

Spec == Init /\ [][Next]_vars
=============================================================================
