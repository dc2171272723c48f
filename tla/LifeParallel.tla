----------------------------- MODULE LifeParallel -----------------------------
(***************************************************************************)
(* simulate_life_parallel of src/life/life-parallel.cc.  The caller cuts   *)
(* the inner rows into one block per thread, creates the threads one by    *)
(* one and joins them.  In every step a thread computes the rows of its    *)
(* block, from the caller's board into a second one if the step is even    *)
(* and back if it is odd, and then waits at a barrier for all the others.  *)
(*                                                                         *)
(* A row is computed in one step: NoDataRace says that no thread writes    *)
(* what another one reads or writes meanwhile, so that a finer grain would *)
(* show nothing else.                                                      *)
(***************************************************************************)
EXTENDS LifeCall

CONSTANTS
  threads,  \* the number of threads to create
  MayFail   \* the threads whose pthread_create may fail

Thread == 0 .. threads - 1

\* pthread_barrier_init refuses a count of 0, and the call returns at once.
ASSUME ParallelAssumption ==
  /\ threads \in Nat \ {0}
  /\ MayFail \subseteq Thread

VARIABLES
  state,        \* the caller's board
  other_state,  \* the second board, all dead at first
  caller,       \* what simulate_life_parallel does: create, join, returned
  next,         \* the thread it creates or joins next
  pc,           \* where each thread is
  step,         \* the step variable of each thread
  y,            \* the row each thread computes next
  alive         \* FALSE once undefined behaviour has ended the process

vars == <<state, other_state, caller, next, pc, step, y, alive>>

\* unborn    not created (yet)
\* absent    could not be created
\* compute   in the loop over the rows of its block
\* waiting   inside pthread_barrier_wait
\* released  the barrier has opened, pthread_barrier_wait has not returned
\* exited    simulate_life_thread has returned
Locations == {"unborn", "absent", "compute", "waiting", "released", "exited"}

TypeOK ==
  /\ state \in Boards /\ other_state \in Boards
  /\ caller \in {"create", "join", "returned"}
  /\ next \in 0 .. threads
  /\ pc \in [Thread -> Locations]
  /\ step \in [Thread -> Nat]
  /\ y \in [Thread -> RowCounts]
  /\ alive \in BOOLEAN

-----------------------------------------------------------------------------
(* The blocks of rows *)

\* Integer division of C, which rounds towards zero.
Quotient(a, b) == IF a >= 0 THEN a \div b ELSE -((-a) \div b)

\* Start is inclusive, stop is exclusive; a variant of stop keeps one row more,
\* another makes blocks of equal sizes and leaves the remainder out.
start_row(i) == Quotient((height - 2) * i, threads) + 1
StopOneLater(i) == Quotient((height - 2) * (i + 1), threads) + 2
StopOfEqualBlocks(i) == Quotient(height - 2, threads) * (i + 1) + 1
stop_row(i) == Quotient((height - 2) * (i + 1), threads) + 1

-----------------------------------------------------------------------------

Init ==
  /\ state \in InitialBoards
  /\ other_state = {}
  /\ caller = "create"
  /\ next = 0
  /\ pc = [t \in Thread |-> "unborn"]
  /\ step = [t \in Thread |-> 0]
  /\ y = [t \in Thread |-> start_row(t)]
  /\ alive = TRUE

\* The test of the loop over the steps, made by a thread for step s, and a
\* variant that runs one step too few.
LoopTestOneLess(s) == IF s + 1 < steps THEN "compute" ELSE "exited"
LoopTest(s) == IF s < steps THEN "compute" ELSE "exited"

\* pthread_create(&thread_array[i], ...); its result is not looked at.
Create ==
  /\ caller = "create"
  /\ \/ pc' = [pc EXCEPT ![next] = LoopTest(0)]
     \/ next \in MayFail /\ pc' = [pc EXCEPT ![next] = "absent"]
  /\ IF next + 1 < threads THEN next' = next + 1 /\ caller' = "create"
                           ELSE next' = 0 /\ caller' = "join"
  /\ UNCHANGED <<state, other_state, step, y, alive>>

\* pthread_join(thread_array[i], NULL) for each thread in turn, and a variant
\* that does not wait.  The handle of a thread that was never created is
\* uninitialised: the call fails, which goes unnoticed, or ends the process.
NothingToJoin(t) == TRUE
CanJoin(t) == pc[t] \in {"exited", "absent"}

Join ==
  /\ caller = "join" /\ next < threads
  /\ CanJoin(next)
  /\ \/ next' = next + 1 /\ alive' = TRUE
     \/ pc[next] = "absent" /\ next' = next /\ alive' = FALSE
  /\ UNCHANGED <<state, other_state, caller, pc, step, y>>

\* After the last join the boards are swapped if the number of steps is odd.
\* In the variant they never are.
ReturnUnswapped ==
  /\ caller = "join" /\ next = threads
  /\ caller' = "returned"
  /\ UNCHANGED <<state, other_state, next, pc, step, y, alive>>
Return ==
  /\ caller = "join" /\ next = threads
  /\ caller' = "returned"
  /\ IF steps % 2 = 1 THEN state' = other_state /\ other_state' = state
                      ELSE UNCHANGED <<state, other_state>>
  /\ UNCHANGED <<next, pc, step, y, alive>>

-----------------------------------------------------------------------------
(* simulate_life_thread *)

Even(t) == step[t] % 2 = 0

RowStep(t) ==
  /\ pc[t] = "compute" /\ y[t] < stop_row(t)
  /\ IF Even(t)
     THEN /\ other_state' = ComputeRow(other_state, state, y[t])
          /\ UNCHANGED state
     ELSE /\ state' = ComputeRow(state, other_state, y[t])
          /\ UNCHANGED other_state
  /\ y' = [y EXCEPT ![t] = @ + 1]
  /\ UNCHANGED <<caller, next, pc, step, alive>>

Waiting == {t \in Thread : pc[t] = "waiting"}

\* Is thread t the last that the barrier waits for?  The barrier was
\* initialised with the number of threads; in the variants with one less and
\* one more.
LastButOne(t) == Cardinality(Waiting \cup {t}) >= threads - 1
NeverLast(t) == Cardinality(Waiting \cup {t}) = threads + 1
LastToArrive(t) == Cardinality(Waiting \cup {t}) = threads

\* pthread_barrier_wait: the last to arrive opens the barrier to all.
Arrive(t) ==
  /\ pc[t] = "compute" /\ y[t] >= stop_row(t)
  /\ pc' = IF LastToArrive(t)
           THEN [u \in Thread |-> IF u \in Waiting \cup {t} THEN "released"
                                  ELSE pc[u]]
           ELSE [pc EXCEPT ![t] = "waiting"]
  /\ UNCHANGED <<state, other_state, caller, next, step, y, alive>>

\* pthread_barrier_wait returns, ++step, and the loops start again.
Leave(t) ==
  /\ pc[t] = "released"
  /\ step' = [step EXCEPT ![t] = @ + 1]
  /\ pc' = [pc EXCEPT ![t] = LoopTest(step[t] + 1)]
  /\ y' = [y EXCEPT ![t] = start_row(t)]
  /\ UNCHANGED <<state, other_state, caller, next, alive>>

ThreadStep(t) == RowStep(t) \/ Arrive(t) \/ Leave(t)
CallerStep == Create \/ Join \/ Return

Next == alive /\ (CallerStep \/ \E t \in Thread : ThreadStep(t))

Spec == Init /\ [][Next]_vars

\* Every thread and the caller are scheduled.
FairSpec == /\ Spec
            /\ WF_vars(alive /\ CallerStep)
            /\ \A t \in Thread : WF_vars(alive /\ ThreadStep(t))

-----------------------------------------------------------------------------
(* Safety *)

\* The rows a thread may be reading and the row it may be writing, with the
\* board: the target of an even step is the source of an odd one.
Computing(t) == pc[t] = "compute" /\ y[t] < stop_row(t)
Reads(t) == {<<Even(t), r>> : r \in y[t] - 1 .. y[t] + 1}
Writes(t) == {<<~Even(t), y[t]>>}

\* No thread writes a row that another one reads or writes at the same time,
\* at the borders of the blocks either: no thread runs ahead into a step that
\* overwrites rows a slower neighbour still has to read.
NoDataRace ==
  \A t, u \in Thread : t # u /\ Computing(t) /\ Computing(u) =>
    Writes(t) \cap (Reads(u) \cup Writes(u)) = {}

\* The steps thread t has completed, as far as the barrier is concerned.
Completed(t) == step[t] + (IF pc[t] = "released" THEN 1 ELSE 0)

\* The caller swaps and gives the board back only when no thread can touch it.
NothingRunsAfterReturn ==
  caller = "returned" => \A t \in Thread : pc[t] \in {"exited", "absent"}

\* life.h:75-76: the call "simulates the specified number of steps", or the
\* process hangs or dies if some threads were created and some were not.
ReturnsAfterAllSteps ==
  caller = "returned" /\ (\E t \in Thread : pc[t] = "exited") =>
    \A t \in Thread : step[t] >= steps

-----------------------------------------------------------------------------
(* What the call promises *)

\* The board that holds the current generation.
CurrentIsState == caller = "returned" \/ Completed(0) % 2 = 0

Life == INSTANCE LifeGenerations WITH
  board      <- IF CurrentIsState THEN state ELSE other_state,
  generation <- Completed(0)

\* Each opening of the barrier makes one whole generation of Conway's Life, and
\* the board the caller gets back is the last one made.  As in the serial
\* version that takes boards with dead edges.
ImplementsLife == Life!Spec

-----------------------------------------------------------------------------
(* Liveness *)

\* The call returns if every thread was created: none is left at the barrier.
CallReturns == <>(caller = "returned" \/ \E t \in Thread : pc[t] = "absent")
=============================================================================
