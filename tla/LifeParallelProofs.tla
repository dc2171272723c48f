-------------------------- MODULE LifeParallelProofs --------------------------
(***************************************************************************)
(* Theorems about LifeParallel, for every size of board, number of threads *)
(* and number of steps.  The last part shows that it implements            *)
(* LifeGenerations, if the edge of the board is dead, the number of steps  *)
(* is not negative and pthread_create does not fail for every thread.      *)
(***************************************************************************)
EXTENDS LifeParallel, LifeBoardProofs

-----------------------------------------------------------------------------
(* Integer division *)

LEMMA DivBounds ==
  ASSUME NEW a \in Int, NEW m \in Nat \ {0}
  PROVE  /\ a \div m \in Int
         /\ m * (a \div m) <= a
         /\ a < m * (a \div m) + m
OBVIOUS

LEMMA DivMonotone ==
  ASSUME NEW a \in Int, NEW b \in Int, NEW m \in Nat \ {0}, a <= b
  PROVE  a \div m <= b \div m
<1> DEFINE p == a \div m
           q == b \div m
<1>1. /\ p \in Int /\ q \in Int /\ m * p <= a /\ b < m * q + m
  BY DivBounds
<1>2. SUFFICES ASSUME q + 1 <= p PROVE FALSE
  BY <1>1
<1> HIDE DEF p, q
<1>3. m * (q + 1) <= m * p
  BY <1>1, <1>2
<1>4. m * (q + 1) = m * q + m
  BY <1>1
<1> QED
  BY <1>1, <1>3, <1>4

LEMMA DivExact ==
  ASSUME NEW h \in Int, NEW m \in Nat \ {0}
  PROVE  (h * m) \div m = h
<1> DEFINE q == (h * m) \div m
<1>1. q \in Int /\ m * q <= h * m /\ h * m < m * q + m
  BY DivBounds
<1> HIDE DEF q
<1>2. CASE q <= h - 1
  <2>1. m * q <= m * (h - 1) /\ m * (h - 1) = h * m - m
    BY <1>1, <1>2
  <2> QED
    BY <1>1, <2>1
<1>3. CASE q >= h + 1
  <2>1. m * q >= m * (h + 1) /\ m * (h + 1) = h * m + m
    BY <1>1, <1>3
  <2> QED
    BY <1>1, <2>1
<1> QED
  BY <1>1, <1>2, <1>3 DEF q

-----------------------------------------------------------------------------
(* The blocks of rows *)

\* A board of fewer than three rows has no rows to compute.
LEMMA FlatBoard ==
  ASSUME height = 1, NEW t \in Thread
  PROVE  start_row(t) = 1 /\ stop_row(t) \in Int /\ stop_row(t) <= 1
<1> USE ParallelAssumption DEF Thread
<1>1. /\ (height - 2) * t = -t /\ (height - 2) * (t + 1) = -(t + 1)
      /\ t \in Int /\ 0 <= t /\ t < threads /\ threads \in Nat \ {0}
  OBVIOUS
<1>2. t \div threads = 0
  BY <1>1
<1>3. (t + 1) \div threads \in Int /\ 0 <= (t + 1) \div threads
  <2>1. 0 \div threads = 0
    BY <1>1
  <2> QED
    BY <1>1, <2>1, DivBounds, DivMonotone
<1>4. start_row(t) = 1
  BY <1>1, <1>2 DEF start_row, Quotient
<1>5. stop_row(t) = -((t + 1) \div threads) + 1
  BY <1>1 DEF stop_row, Quotient
<1> QED
  BY <1>3, <1>4, <1>5

\* The block of every thread lies in the inner rows.
LEMMA BlocksAreInside ==
  ASSUME height >= 2, NEW t \in Thread
  PROVE  /\ start_row(t) \in Int /\ stop_row(t) \in Int
         /\ 1 <= start_row(t) /\ start_row(t) <= stop_row(t)
         /\ stop_row(t) <= height - 1
<1> USE ParallelAssumption, BoardAssumption DEF Thread
<1> DEFINE h == height - 2
           Q(i) == (h * i) \div threads
<1>1. h \in Nat /\ t \in Int /\ 0 <= t /\ t + 1 <= threads /\ threads \in Nat \ {0}
  OBVIOUS
<1> HIDE DEF h
<1>2. /\ h * 0 = 0 /\ h * t \in Int /\ h * (t + 1) \in Int /\ h * threads \in Int
      /\ h * 0 <= h * t /\ h * t <= h * (t + 1) /\ h * (t + 1) <= h * threads
  BY <1>1
<1>3. /\ Q(t) \in Int /\ Q(t + 1) \in Int
      /\ 0 \div threads <= Q(t) /\ Q(t) <= Q(t + 1)
      /\ Q(t + 1) <= (h * threads) \div threads
  BY <1>1, <1>2, DivBounds, DivMonotone
<1>4. 0 \div threads = 0 /\ (h * threads) \div threads = h
  BY <1>1, DivExact
<1>5. start_row(t) = Q(t) + 1 /\ stop_row(t) = Q(t + 1) + 1
  BY <1>1, <1>2 DEF start_row, stop_row, Quotient, h
<1> QED
  BY <1>1, <1>3, <1>4, <1>5 DEF h

\* The block of a thread ends before the blocks of later threads begin.
LEMMA BlocksAreDisjoint ==
  ASSUME NEW t \in Thread, NEW u \in Thread, t < u, height >= 2
  PROVE  stop_row(t) <= start_row(u)
<1> USE ParallelAssumption, BoardAssumption DEF Thread
<1> DEFINE h == height - 2
<1>1. /\ h \in Nat /\ t \in Int /\ u \in Int /\ 0 <= t /\ t + 1 <= u
      /\ threads \in Nat \ {0}
  OBVIOUS
<1> HIDE DEF h
<1>2. /\ h * (t + 1) \in Int /\ h * u \in Int
      /\ 0 <= h * (t + 1) /\ h * (t + 1) <= h * u
  BY <1>1
<1>3. (h * (t + 1)) \div threads <= (h * u) \div threads
  BY <1>1, <1>2, DivMonotone
<1>4. /\ start_row(u) = ((h * u) \div threads) + 1
      /\ stop_row(t) = ((h * (t + 1)) \div threads) + 1
  BY <1>1, <1>2 DEF start_row, stop_row, Quotient, h
<1> QED
  BY <1>1, <1>2, <1>3, <1>4, DivBounds

\* Every inner row is in the block of some thread.
LEMMA BlocksCover ==
  ASSUME NEW r \in InnerRows
  PROVE  \E t \in Thread : start_row(t) <= r /\ r < stop_row(t)
<1> USE ParallelAssumption, BoardAssumption DEF Thread
<1> DEFINE h == height - 2
           m == threads
           t == (m * r - 1) \div h
<1>1. /\ h \in Nat \ {0} /\ r \in Int /\ 1 <= r /\ r <= h
      /\ m \in Nat \ {0}
  BY DEF InnerRows
<1> HIDE DEF h, m
<1>2. m * r \in Int /\ m <= m * r /\ m * r <= m * h
  BY <1>1
<1>3. t \in Int /\ h * t <= m * r - 1 /\ m * r - 1 < h * t + h
  <2>1. m * r - 1 \in Int
    BY <1>2
  <2> QED
    BY <1>1, <2>1, DivBounds
<1> HIDE DEF t
<1>4. 0 <= t /\ t < m
  <2>1. ASSUME t <= -1 PROVE FALSE
    <3>1. h * t + h <= 0
      <4>1. h * t <= h * (-1)
        BY <1>1, <1>3, <2>1
      <4> QED
        BY <1>1, <1>3, <4>1
    <3> QED
      BY <1>1, <1>2, <1>3, <3>1
  <2>2. ASSUME t >= m PROVE FALSE
    <3>1. h * t >= h * m /\ h * m = m * h
      BY <1>1, <1>3, <2>2
    <3> QED
      BY <1>1, <1>2, <1>3, <3>1
  <2> QED
    BY <1>1, <1>3, <2>1, <2>2
<1>5. h * t \in Int /\ h * (t + 1) = h * t + h /\ h * t >= 0
  BY <1>1, <1>3, <1>4
<1>6. (h * t) \div m <= r - 1
  <2> DEFINE q == (h * t) \div m
  <2>1. q \in Int /\ m * q <= h * t
    BY <1>1, <1>5, DivBounds
  <2> HIDE DEF q
  <2>2. ASSUME q >= r PROVE FALSE
    <3>1. m * q >= m * r
      BY <1>1, <2>1, <2>2
    <3> QED
      BY <1>1, <1>2, <1>3, <1>5, <2>1, <3>1
  <2> QED
    BY <1>1, <2>1, <2>2 DEF q
<1>7. r <= (h * (t + 1)) \div m
  <2>1. m * r <= h * (t + 1) /\ h * (t + 1) \in Int
    BY <1>1, <1>2, <1>3, <1>5
  <2>2. (m * r) \div m = r
    <3>1. m * r = r * m
      BY <1>1
    <3> QED
      BY <1>1, <3>1, DivExact
  <2> QED
    BY <1>1, <1>2, <2>1, <2>2, DivMonotone
<1>8. /\ (h * t) \div m \in Int /\ (h * (t + 1)) \div m \in Int
  BY <1>1, <1>5, DivBounds
<1>9. /\ start_row(t) = ((h * t) \div m) + 1
      /\ stop_row(t) = ((h * (t + 1)) \div m) + 1
  BY <1>1, <1>5 DEF start_row, stop_row, Quotient, h, m
<1>10. t \in Thread
  BY <1>1, <1>3, <1>4 DEF m
<1> QED
  BY <1>1, <1>6, <1>7, <1>8, <1>9, <1>10

\* What the row counters of a thread run over, whatever the height.
LEMMA BlockFacts ==
  ASSUME NEW t \in Thread
  PROVE  /\ start_row(t) \in RowCounts /\ stop_row(t) \in Int
         /\ \A r \in RowCounts : r < stop_row(t) =>
              r \in InnerRows /\ r + 1 \in RowCounts
<1> USE BoardAssumption DEF RowCounts, InnerRows
<1>1. CASE height = 1
  BY <1>1, FlatBoard
<1>2. CASE height >= 2
  BY <1>2, BlocksAreInside
<1> QED
  BY <1>1, <1>2

-----------------------------------------------------------------------------
(* Type correctness *)

LEMMA LoopTestType == \A s : LoopTest(s) \in {"compute", "exited"}
BY DEF LoopTest

LEMMA TypeInit == Init => TypeOK
<1> SUFFICES ASSUME Init PROVE TypeOK
  OBVIOUS
<1>1. {} \in Boards
  BY DEF Boards
<1>2. y \in [Thread -> RowCounts]
  BY BlockFacts DEF Init
<1> QED
  BY <1>1, <1>2, ParallelAssumption, CallAssumption DEF Init, TypeOK, Locations

LEMMA TypeStep == TypeOK /\ [Next]_vars => TypeOK'
<1> SUFFICES ASSUME TypeOK, [Next]_vars PROVE TypeOK'
  OBVIOUS
<1> USE ParallelAssumption DEF TypeOK
<1>1. CASE Create
  <2>1. pc' \in [Thread -> Locations]
    BY <1>1, LoopTestType DEF Create, Locations
  <2>2. next' \in 0 .. threads /\ caller' \in {"create", "join", "returned"}
    BY <1>1 DEF Create
  <2>3. UNCHANGED <<state, other_state, step, y, alive>>
    BY <1>1 DEF Create
  <2> QED
    BY <2>1, <2>2, <2>3
<1>2. CASE Join
  <2>1. next' \in 0 .. threads
    BY <1>2 DEF Join
  <2>2. alive' \in BOOLEAN
    BY <1>2, Zenon DEF Join
  <2>3. UNCHANGED <<state, other_state, caller, pc, step, y>>
    BY <1>2 DEF Join
  <2> QED
    BY <2>1, <2>2, <2>3
<1>3. CASE Return
  BY <1>3 DEF Return
<1>4. ASSUME NEW t \in Thread, RowStep(t)
      PROVE  TypeOK'
  <2>1. y[t] \in InnerRows /\ y[t] + 1 \in RowCounts
    BY <1>4, BlockFacts DEF RowStep
  <2>2. state' \in Boards /\ other_state' \in Boards
    BY <1>4, <2>1, ComputedBoard DEF RowStep
  <2> QED
    BY <1>4, <2>1, <2>2 DEF RowStep
<1>5. ASSUME NEW t \in Thread, Arrive(t)
      PROVE  TypeOK'
  <2>1. pc' \in [Thread -> Locations]
    BY <1>5 DEF Arrive, Locations
  <2> QED
    BY <1>5, <2>1 DEF Arrive
<1>6. ASSUME NEW t \in Thread, Leave(t)
      PROVE  TypeOK'
  <2>1. pc' \in [Thread -> Locations]
    BY <1>6, LoopTestType DEF Leave, Locations
  <2>2. y' \in [Thread -> RowCounts]
    BY <1>6, BlockFacts DEF Leave
  <2> QED
    BY <1>6, <2>1, <2>2 DEF Leave
<1>7. CASE UNCHANGED vars
  BY <1>7 DEF vars
<1> QED
  BY <1>1, <1>2, <1>3, <1>4, <1>5, <1>6, <1>7
  DEF Next, CallerStep, ThreadStep

\* The boards keep their cells within the board and every thread keeps to the
\* rows of the board, however the rows are divided.
THEOREM TypeCorrect == Spec => []TypeOK
BY TypeInit, TypeStep, PTL DEF Spec

-----------------------------------------------------------------------------
(* The caller *)

\* A thread from next on is not created yet, a thread before next is joined.
CallerInv ==
  /\ caller = "create" => \A t \in Thread : t >= next => pc[t] = "unborn"
  /\ caller \in {"join", "returned"} =>
       \A t \in Thread : t < next => pc[t] \in {"exited", "absent"}
  /\ caller = "returned" => next = threads

LEMMA CallerInit == Init => CallerInv
BY DEF Init, CallerInv

LEMMA CallerKeeps == TypeOK /\ CallerInv /\ [Next]_vars => CallerInv'
<1> SUFFICES ASSUME TypeOK, CallerInv, [Next]_vars PROVE CallerInv'
  OBVIOUS
<1> USE ParallelAssumption DEF TypeOK, CallerInv, Thread
<1>1. CASE Create
  BY <1>1 DEF Create
<1>2. CASE Join
  BY <1>2 DEF Join, CanJoin
<1>3. CASE Return
  BY <1>3 DEF Return
<1>4. ASSUME NEW t \in Thread, ThreadStep(t)
      PROVE  CallerInv'
  <2>1. /\ UNCHANGED <<caller, next>>
        /\ \A u \in Thread : pc[u] \in {"unborn", "exited", "absent"} =>
             pc'[u] = pc[u]
    BY <1>4 DEF ThreadStep, RowStep, Arrive, Leave, Waiting
  <2> QED
    BY <2>1
<1>5. CASE UNCHANGED vars
  BY <1>5 DEF vars
<1> QED
  BY <1>1, <1>2, <1>3, <1>4, <1>5 DEF Next, CallerStep

LEMMA CallerHolds == Spec => [](TypeOK /\ CallerInv)
<1>1. Init => TypeOK /\ CallerInv
  BY TypeInit, CallerInit
<1>2. TypeOK /\ CallerInv /\ [Next]_vars => (TypeOK /\ CallerInv)'
  BY TypeStep, CallerKeeps
<1> QED
  BY <1>1, <1>2, PTL DEF Spec

\* The caller gets its board back only when no thread can touch it any more.
THEOREM CallerReturnsAlone == Spec => []NothingRunsAfterReturn
<1>1. TypeOK /\ CallerInv => NothingRunsAfterReturn
  BY ParallelAssumption DEF CallerInv, NothingRunsAfterReturn, Thread
<1> QED
  BY <1>1, CallerHolds, PTL

-----------------------------------------------------------------------------
(* The barrier and the steps *)

\* The last thread to arrive finds all the others waiting.
LEMMA EverybodyWaits ==
  ASSUME NEW t \in Thread, LastToArrive(t)
  PROVE  Waiting \cup {t} = Thread
<1>1. IsFiniteSet(Thread) /\ Cardinality(Thread) = threads
  <2>1. /\ IsFiniteSet(0 .. threads - 1)
        /\ Cardinality(0 .. threads - 1) = threads
    BY FS_Interval, ParallelAssumption
  <2> QED
    BY <2>1 DEF Thread
<1>2. Waiting \cup {t} \subseteq Thread
  BY DEF Waiting
<1> QED
  BY <1>1, <1>2, FS_Subset DEF LastToArrive

\* All threads have completed the same number of steps, they stay in their
\* blocks, and those that are done are done.
InStep == \A t, u \in Thread : Completed(t) = Completed(u)
InBlock == \A t \in Thread : start_row(t) <= y[t]
DoneWhenExited == \A t \in Thread : pc[t] = "exited" => step[t] >= steps

StepInv == InStep /\ InBlock /\ DoneWhenExited

LEMMA StepInit == Init => StepInv
<1> SUFFICES ASSUME Init PROVE StepInv
  OBVIOUS
<1>1. InStep
  BY DEF Init, InStep, Completed
<1>2. InBlock
  BY BlockFacts DEF Init, InBlock, RowCounts
<1>3. DoneWhenExited
  BY DEF Init, DoneWhenExited
<1> QED
  BY <1>1, <1>2, <1>3 DEF StepInv

LEMMA StepStep ==
  TypeOK /\ CallerInv /\ StepInv /\ [Next]_vars => StepInv'
<1> SUFFICES ASSUME TypeOK, CallerInv, StepInv, [Next]_vars PROVE StepInv'
  OBVIOUS
<1> USE ParallelAssumption, CallAssumption
    DEF TypeOK, StepInv, InStep, InBlock, DoneWhenExited, Completed
<1>1. CASE Create
  <2>1. UNCHANGED <<step, y>>
    BY <1>1 DEF Create
  <2>2. \A t \in Thread : \/ pc'[t] = pc[t]
                          \/ /\ pc[t] = "unborn" /\ pc'[t] # "released"
                             /\ pc'[t] = "exited" => 0 >= steps
    <3>1. next \in Int /\ \A t \in Thread : t = next => pc[t] = "unborn"
      BY <1>1 DEF Create, CallerInv, Thread
    <3> QED
      BY <1>1, <3>1 DEF Create, LoopTest
  <2> QED
    BY <2>1, <2>2
<1>2. CASE Join
  BY <1>2 DEF Join
<1>3. CASE Return
  BY <1>3 DEF Return
<1>4. ASSUME NEW t \in Thread, RowStep(t)
      PROVE  StepInv'
  <2>1. /\ y' = [y EXCEPT ![t] = @ + 1] /\ UNCHANGED <<pc, step>>
        /\ y[t] \in Int /\ start_row(t) \in Int
    BY <1>4, BlockFacts DEF RowStep, RowCounts
  <2> QED
    BY <2>1
<1>5. ASSUME NEW t \in Thread, Arrive(t)
      PROVE  StepInv'
  <2>1. UNCHANGED <<step, y>>
    BY <1>5 DEF Arrive
  <2>2. CASE LastToArrive(t)
    <3>1. Waiting \cup {t} = Thread
      BY <2>2, EverybodyWaits
    <3>2. \A u \in Thread : pc'[u] = "released" /\ pc[u] # "released"
      BY <1>5, <2>2, <3>1 DEF Arrive, Waiting
    <3> QED
      BY <2>1, <3>2
  <2>3. CASE ~LastToArrive(t)
    BY <1>5, <2>1, <2>3 DEF Arrive
  <2> QED
    BY <2>2, <2>3
<1>6. ASSUME NEW t \in Thread, Leave(t)
      PROVE  StepInv'
  <2>1. /\ step' = [step EXCEPT ![t] = @ + 1]
        /\ pc' = [pc EXCEPT ![t] = LoopTest(step[t] + 1)]
        /\ pc[t] = "released"
        /\ y' = [y EXCEPT ![t] = start_row(t)]
    BY <1>6 DEF Leave
  <2>2. \A u \in Thread : Completed(u)' = Completed(u)
    BY <2>1, LoopTestType
  <2>3. InBlock'
    BY <2>1, BlockFacts DEF RowCounts
  <2>4. DoneWhenExited'
    BY <2>1 DEF LoopTest
  <2> QED
    BY <2>2, <2>3, <2>4
<1>7. CASE UNCHANGED vars
  BY <1>7 DEF vars
<1> QED
  BY <1>1, <1>2, <1>3, <1>4, <1>5, <1>6, <1>7
  DEF Next, CallerStep, ThreadStep

LEMMA StepHolds == Spec => [](TypeOK /\ StepInv)
<1>1. Init => TypeOK /\ CallerInv /\ StepInv
  BY TypeInit, CallerInit, StepInit
<1>2. TypeOK /\ CallerInv /\ StepInv /\ [Next]_vars
      => (TypeOK /\ CallerInv /\ StepInv)'
  BY TypeStep, CallerKeeps, StepStep
<1> QED
  BY <1>1, <1>2, PTL DEF Spec

\* Threads that compute rows at the same time are in the same step, so they
\* read from one board and write to the other, and they write different rows.
LEMMA NoRaceInStep == TypeOK /\ StepInv => NoDataRace
<1> SUFFICES ASSUME TypeOK, StepInv, NEW t \in Thread, NEW u \in Thread,
                    t # u, Computing(t), Computing(u)
             PROVE  Writes(t) \cap (Reads(u) \cup Writes(u)) = {}
  BY DEF NoDataRace
<1> USE DEF TypeOK
<1>1. Even(t) <=> Even(u)
  BY DEF StepInv, InStep, Completed, Computing, Even
<1>2. /\ start_row(t) <= y[t] /\ y[t] < stop_row(t)
      /\ start_row(u) <= y[u] /\ y[u] < stop_row(u)
  BY DEF StepInv, InBlock, Computing
<1>3. y[t] # y[u]
  <2>0. /\ y[t] \in Int /\ y[u] \in Int /\ t \in Int /\ u \in Int
        /\ start_row(t) \in Int /\ start_row(u) \in Int
        /\ stop_row(t) \in Int /\ stop_row(u) \in Int
    BY BlockFacts DEF RowCounts, Thread
  <2>1. height >= 2
    BY <1>2, <2>0, FlatBoard, BoardAssumption
  <2>2. CASE t < u
    BY <2>0, <2>1, <2>2, <1>2, BlocksAreDisjoint
  <2>3. CASE u < t
    BY <2>0, <2>1, <2>3, <1>2, BlocksAreDisjoint
  <2> QED
    BY <2>0, <2>2, <2>3
<1> QED
  BY <1>1, <1>3 DEF Reads, Writes, Even

\* No thread writes a row that another one reads or writes at the same time,
\* for any number of threads, any height and any number of steps.
THEOREM ThreadsDoNotRace == Spec => []NoDataRace
BY StepHolds, NoRaceInStep, PTL

\* If any thread ran, the caller gets its board back after all the steps.
THEOREM CallerGetsAllSteps == Spec => []ReturnsAfterAllSteps
<1>1. TypeOK /\ StepInv /\ NothingRunsAfterReturn => ReturnsAfterAllSteps
  BY DEF StepInv, InStep, DoneWhenExited, Completed, NothingRunsAfterReturn,
         ReturnsAfterAllSteps, TypeOK
<1> QED
  BY <1>1, StepHolds, CallerReturnsAlone, PTL
-----------------------------------------------------------------------------
(* The boards and the rows *)

\* The board of the current generation and the other one, until the return.
EvenGeneration == Completed(0) % 2 = 0
Current == IF EvenGeneration THEN state ELSE other_state
Coming  == IF EvenGeneration THEN other_state ELSE state

\* Where each thread is in its block, and in the loop over the steps.
InLoop == \A t \in Thread :
  /\ y[t] = start_row(t) \/ y[t] <= stop_row(t)
  /\ pc[t] = "unborn" => y[t] = start_row(t) /\ step[t] = 0
  /\ pc[t] = "waiting" => stop_row(t) <= y[t]
  /\ pc[t] \in {"compute", "waiting", "released"} => step[t] < steps
  /\ pc[t] = "exited" => step[t] = steps
  /\ pc[t] = "absent" => t \in MayFail

\* The rows a thread has computed in this step are those of the next
\* generation.
RowsDone ==
  caller # "returned" =>
    \A t \in Thread : pc[t] \in {"compute", "waiting"} =>
      \A c \in Interior : start_row(t) <= c[2] /\ c[2] < y[t] =>
        (c \in Coming <=> Lives(Current, c))

\* Both boards keep the dead edge they come with.
EdgesDead == Edge(state) = {} /\ Edge(other_state) = {}

\* All that is known of a state.
RefineInv == TypeOK /\ CallerInv /\ StepInv /\ InLoop /\ RowsDone /\ EdgesDead

LEMMA ThreadZero == 0 \in Thread
BY ParallelAssumption DEF Thread

LEMMA Parity == \A n \in Nat : (n + 1) % 2 = 0 <=> n % 2 # 0
OBVIOUS

LEMMA LoopInit == Init => InLoop
BY DEF Init, InLoop

LEMMA LoopStep ==
  ASSUME steps \in Nat
  PROVE  TypeOK /\ CallerInv /\ StepInv /\ InLoop /\ [Next]_vars => InLoop'
<1> SUFFICES ASSUME TypeOK, CallerInv, StepInv, InLoop, [Next]_vars
             PROVE  InLoop'
  OBVIOUS
<1> USE ParallelAssumption DEF TypeOK, InLoop
<1>0. \A t \in Thread : /\ start_row(t) \in Int /\ stop_row(t) \in Int
                        /\ y[t] \in Int /\ step[t] \in Nat
  BY BlockFacts DEF RowCounts
<1>1. CASE Create
  <2>1. UNCHANGED <<step, y>>
    BY <1>1 DEF Create
  <2>2. \A t \in Thread :
          \/ pc'[t] = pc[t]
          \/ /\ pc[t] = "unborn"
             /\ \/ pc'[t] = "compute" /\ 0 < steps
                \/ pc'[t] = "exited" /\ steps = 0
                \/ pc'[t] = "absent" /\ t \in MayFail
    <3>1. next \in Int /\ \A t \in Thread : t = next => pc[t] = "unborn"
      BY <1>1 DEF Create, CallerInv, Thread
    <3> QED
      BY <1>1, <3>1 DEF Create, LoopTest
  <2> QED
    BY <2>1, <2>2
<1>2. CASE Join
  BY <1>2 DEF Join
<1>3. CASE Return
  BY <1>3 DEF Return
<1>4. ASSUME NEW t \in Thread, RowStep(t)
      PROVE  InLoop'
  <2>1. /\ y' = [y EXCEPT ![t] = @ + 1] /\ UNCHANGED <<pc, step>>
        /\ pc[t] = "compute" /\ y[t] < stop_row(t)
    BY <1>4 DEF RowStep
  <2> QED
    BY <1>0, <2>1
<1>5. ASSUME NEW t \in Thread, Arrive(t)
      PROVE  InLoop'
  <2>1. /\ UNCHANGED <<step, y>> /\ pc[t] = "compute" /\ stop_row(t) <= y[t]
    BY <1>0, <1>5 DEF Arrive
  <2>2. \A u \in Thread :
          \/ pc'[u] = pc[u]
          \/ /\ pc[u] \in {"compute", "waiting"} /\ pc'[u] = "released"
          \/ u = t /\ pc'[u] = "waiting"
    BY <1>5 DEF Arrive, Waiting
  <2> QED
    BY <2>1, <2>2
<1>6. ASSUME NEW t \in Thread, Leave(t)
      PROVE  InLoop'
  <2>1. /\ step' = [step EXCEPT ![t] = @ + 1]
        /\ pc' = [pc EXCEPT ![t] = LoopTest(step[t] + 1)]
        /\ pc[t] = "released" /\ step[t] < steps
        /\ y' = [y EXCEPT ![t] = start_row(t)]
    BY <1>6 DEF Leave
  <2>2. \/ LoopTest(step[t] + 1) = "compute" /\ step[t] + 1 < steps
        \/ LoopTest(step[t] + 1) = "exited" /\ step[t] + 1 = steps
    BY <1>0, <2>1 DEF LoopTest
  <2> QED
    BY <1>0, <2>1, <2>2
<1>7. CASE UNCHANGED vars
  BY <1>7 DEF vars
<1> QED
  BY <1>1, <1>2, <1>3, <1>4, <1>5, <1>6, <1>7
  DEF Next, CallerStep, ThreadStep

\* While threads compute, the call has not returned.
LEMMA NotReturned ==
  ASSUME TypeOK, CallerInv, NEW t \in Thread, pc[t] \notin {"exited", "absent"}
  PROVE  caller # "returned"
BY ParallelAssumption DEF CallerInv, Thread, TypeOK

\* A thread reads the board of the current generation and writes one row of
\* the other board.
LEMMA RowWritten ==
  ASSUME TypeOK, StepInv, NEW t \in Thread, RowStep(t)
  PROVE  /\ y[t] \in InnerRows
         /\ EvenGeneration' = EvenGeneration
         /\ Current' = Current
         /\ Coming' = ComputeRow(Coming, Current, y[t])
<1>1. y[t] \in InnerRows
  BY BlockFacts DEF RowStep, TypeOK
<1>2. Completed(0)' = Completed(0)
  BY DEF RowStep, Completed
<1>3. Even(t) <=> EvenGeneration
  <2>1. Completed(t) = step[t]
    BY DEF RowStep, Completed, TypeOK
  <2>2. Completed(0) = Completed(t)
    BY ThreadZero DEF StepInv, InStep
  <2> QED
    BY <2>1, <2>2 DEF Even, EvenGeneration
<1>4. EvenGeneration' = EvenGeneration
  BY <1>2 DEF EvenGeneration
<1> QED
  BY <1>1, <1>3, <1>4 DEF Current, Coming, RowStep

\* The row a thread computes is not in the part that another one has done.
LEMMA OtherRows ==
  ASSUME TypeOK, StepInv, InLoop, NEW t \in Thread, RowStep(t),
         NEW u \in Thread, u # t, NEW r \in Int,
         start_row(u) <= r, r < y[u]
  PROVE  r # y[t]
<1>0. /\ start_row(t) \in Int /\ stop_row(t) \in Int /\ y[t] \in Int
      /\ start_row(u) \in Int /\ stop_row(u) \in Int /\ y[u] \in Int
      /\ t \in Int /\ u \in Int /\ height \in Int
  BY BlockFacts, BoardAssumption DEF TypeOK, RowCounts, Thread
<1>1. /\ start_row(t) <= y[t] /\ y[t] < stop_row(t) /\ y[u] <= stop_row(u)
  BY <1>0 DEF StepInv, InBlock, InLoop, RowStep
<1>2. height >= 2
  BY <1>0, <1>1, FlatBoard, BoardAssumption
<1>3. CASE t < u
  <2>1. stop_row(t) <= start_row(u)
    BY <1>2, <1>3, BlocksAreDisjoint
  <2> QED
    BY <1>0, <1>1, <2>1
<1>4. CASE u < t
  <2>1. stop_row(u) <= start_row(t)
    BY <1>2, <1>4, BlocksAreDisjoint
  <2> QED
    BY <1>0, <1>1, <2>1
<1> QED
  BY <1>0, <1>3, <1>4

LEMMA RowsInit == Init => RowsDone
BY DEF Init, RowsDone

LEMMA RowsStep == RefineInv /\ [Next]_vars => RowsDone'
<1> SUFFICES ASSUME RefineInv, [Next]_vars, caller' # "returned",
                    NEW u \in Thread, pc'[u] \in {"compute", "waiting"},
                    NEW c \in Interior, start_row(u) <= c[2], c[2] < y'[u]
             PROVE  c \in Coming' <=> Lives(Current', c)
  BY DEF RowsDone
<1> USE DEF RefineInv
<1>0. /\ c[2] \in Int /\ start_row(u) \in Int /\ y[u] \in Int
  BY RowOfCell, BlockFacts, BoardAssumption DEF InnerRows, TypeOK, RowCounts
<1>1. CASE Create
  <2>1. pc[u] \in {"compute", "waiting"} \/ pc[u] = "unborn"
    <3>1. next \in Int /\ \A t \in Thread : t = next => pc[t] = "unborn"
      BY <1>1 DEF Create, CallerInv, Thread, TypeOK
    <3> QED
      BY <1>1, <3>1 DEF Create, TypeOK
  <2>2. y' = y
    BY <1>1 DEF Create
  <2>3. pc[u] # "unborn"
    BY <1>0, <2>2 DEF InLoop
  <2>4. Completed(0)' = Completed(0)
    <3>1. next \in Int /\ \A t \in Thread : t = next => pc[t] = "unborn"
      BY <1>1 DEF Create, CallerInv, Thread, TypeOK
    <3> QED
      BY <1>1, <3>1, ThreadZero DEF Create, Completed, LoopTest, TypeOK
  <2>5. Current' = Current /\ Coming' = Coming
    BY <1>1, <2>4 DEF Create, Current, Coming, EvenGeneration
  <2>6. caller # "returned"
    BY <1>1 DEF Create
  <2> QED
    BY <2>1, <2>2, <2>3, <2>5, <2>6 DEF RowsDone
<1>2. CASE Join
  BY <1>2 DEF Join, RowsDone, Current, Coming, EvenGeneration, Completed
<1>3. CASE Return
  BY <1>3 DEF Return
<1>4. ASSUME NEW t \in Thread, RowStep(t)
      PROVE  c \in Coming' <=> Lives(Current', c)
  <2>1. /\ y' = [y EXCEPT ![t] = @ + 1] /\ UNCHANGED <<pc, caller>>
        /\ y \in [Thread -> RowCounts]
    BY <1>4 DEF RowStep, TypeOK
  <2>2. /\ y[t] \in InnerRows /\ Current' = Current
        /\ Coming' = ComputeRow(Coming, Current, y[t])
    BY <1>4, RowWritten
  <2>3. ASSUME c[2] < y[u], c[2] # y[t]
        PROVE  c \in Coming' <=> Lives(Current', c)
    <3>1. c \in Coming' <=> c \in Coming
      BY <2>2, <2>3, ComputedRow
    <3>2. c \in Coming <=> Lives(Current, c)
      BY <2>1, <2>3 DEF RowsDone
    <3> QED
      BY <2>2, <3>1, <3>2
  <2>4. CASE u # t
    <3>1. c[2] < y[u]
      BY <2>1, <2>4
    <3>2. c[2] # y[t]
      BY <1>0, <1>4, <2>4, <3>1, OtherRows
    <3> QED
      BY <2>3, <3>1, <3>2
  <2>5. CASE u = t /\ c[2] = y[t]
    <3>1. c \in InnerRow(y[t])
      BY <2>5, RowOfCell
    <3> QED
      BY <2>2, <3>1, ComputedRow
  <2>6. CASE u = t /\ c[2] # y[t]
    <3>1. c[2] < y[u]
      BY <1>0, <2>1, <2>6
    <3> QED
      BY <2>3, <2>6, <3>1
  <2> QED
    BY <2>4, <2>5, <2>6
<1>5. ASSUME NEW t \in Thread, Arrive(t)
      PROVE  c \in Coming' <=> Lives(Current', c)
  <2>1. ~LastToArrive(t)
    <3>1. ASSUME LastToArrive(t) PROVE FALSE
      <4>1. Waiting \cup {t} = Thread
        BY <3>1, EverybodyWaits
      <4> QED
        BY <1>5, <3>1, <4>1 DEF Arrive
    <3> QED
      BY <3>1
  <2>2. /\ pc' = [pc EXCEPT ![t] = "waiting"] /\ pc[t] = "compute"
        /\ UNCHANGED <<state, other_state, caller, step, y>>
    BY <1>5, <2>1 DEF Arrive
  <2>3. Completed(0)' = Completed(0)
    BY <2>2, ThreadZero DEF Completed, TypeOK
  <2>4. Current' = Current /\ Coming' = Coming
    BY <2>2, <2>3 DEF Current, Coming, EvenGeneration
  <2>5. pc[u] \in {"compute", "waiting"}
    BY <2>2 DEF TypeOK
  <2> QED
    BY <2>2, <2>4, <2>5 DEF RowsDone
<1>6. ASSUME NEW t \in Thread, Leave(t)
      PROVE  c \in Coming' <=> Lives(Current', c)
  <2>1. /\ step' = [step EXCEPT ![t] = @ + 1]
        /\ pc' = [pc EXCEPT ![t] = LoopTest(step[t] + 1)]
        /\ pc[t] = "released"
        /\ y' = [y EXCEPT ![t] = start_row(t)]
        /\ UNCHANGED <<state, other_state, caller>>
        /\ step \in [Thread -> Nat] /\ pc \in [Thread -> Locations]
        /\ y \in [Thread -> RowCounts]
    BY <1>6 DEF Leave, TypeOK
  <2>2. u # t
    BY <1>0, <2>1
  <2>3. Completed(0)' = Completed(0)
    BY <2>1, ThreadZero, LoopTestType DEF Completed
  <2>4. Current' = Current /\ Coming' = Coming
    BY <2>1, <2>3 DEF Current, Coming, EvenGeneration
  <2> QED
    BY <2>1, <2>2, <2>4 DEF RowsDone
<1>7. CASE UNCHANGED vars
  BY <1>7 DEF vars, RowsDone, Current, Coming, EvenGeneration, Completed
<1> QED
  BY <1>1, <1>2, <1>3, <1>4, <1>5, <1>6, <1>7
  DEF Next, CallerStep, ThreadStep

LEMMA EdgesInit == DeadEdges /\ Init => EdgesDead
BY DEF DeadEdges, Init, EdgesDead, Edge

LEMMA EdgesStep == TypeOK /\ EdgesDead /\ [Next]_vars => EdgesDead'
<1> SUFFICES ASSUME TypeOK, EdgesDead, [Next]_vars PROVE EdgesDead'
  OBVIOUS
<1>1. ASSUME NEW t \in Thread, RowStep(t)
      PROVE  EdgesDead'
  <2>1. y[t] \in InnerRows
    BY <1>1, BlockFacts DEF RowStep, TypeOK
  <2>2. /\ Edge(ComputeRow(other_state, state, y[t])) = Edge(other_state)
        /\ Edge(ComputeRow(state, other_state, y[t])) = Edge(state)
    BY <2>1, ComputedRow
  <2> QED
    BY <1>1, <2>2 DEF RowStep, EdgesDead
<1>2. CASE Return
  BY <1>2 DEF Return, EdgesDead
<1>3. CASE UNCHANGED <<state, other_state>>
  BY <1>3 DEF EdgesDead
<1> QED
  BY <1>1, <1>2, <1>3
  DEF Next, CallerStep, ThreadStep, Create, Join, Arrive, Leave, vars

-----------------------------------------------------------------------------
(* The refinement *)

\* The abstract specification speaks of the same board.
LEMMA SameBoard == Life!Interior = Interior
BY Zenon DEF Life!Interior, Life!InnerRow, Life!InnerRows,
             Interior, InnerRow, InnerRows

\* The rule of the code is Conway's.
LEMMA ConwaysRule ==
  ASSUME NEW b PROVE Life!Conway(b) = {c \in Interior : Lives(b, c)}
<1>1. \A S : Life!Cardinality(S) = Cardinality(S)
  BY DEF Life!Cardinality, Cardinality
<1> QED
  BY <1>1, SameBoard, WindowCount DEF Life!Conway, Life!Neighbours

\* A step of the abstract specification, or a stutter, in terms of the two
\* boards, while the call has not returned.
LEMMA StutterStep ==
  ASSUME caller # "returned", caller' # "returned",
         Completed(0)' = Completed(0), Current' = Current
  PROVE  UNCHANGED Life!vars
BY DEF Life!vars, CurrentIsState, Current, EvenGeneration

LEMMA GenerationStep ==
  ASSUME caller # "returned", caller' # "returned",
         Completed(0) \in Nat, Completed(0) < steps,
         Completed(0)' = Completed(0) + 1,
         Current' = Coming, Coming = Life!Conway(Current)
  PROVE  Life!Generation
<1>1. /\ (IF CurrentIsState THEN state ELSE other_state) = Current
      /\ (IF CurrentIsState THEN state ELSE other_state)' = Coming
  BY DEF CurrentIsState, Current, Coming, EvenGeneration
<1> QED
  BY <1>1 DEF Life!Generation

LEMMA RefinesInit == Init => Life!Init
<1> SUFFICES ASSUME Init PROVE Life!Init
  OBVIOUS
<1>1. Completed(0) = 0
  BY ThreadZero DEF Init, Completed
<1>2. CurrentIsState
  BY <1>1 DEF CurrentIsState
<1> QED
  BY <1>1, <1>2 DEF Init, Life!Init

\* When the last thread arrives at the barrier, every row is computed.
LEMMA WholeBoard ==
  ASSUME RefineInv, NEW t \in Thread, Arrive(t), LastToArrive(t)
  PROVE  Coming = Life!Conway(Current)
<1> USE DEF RefineInv
<1>1. Waiting \cup {t} = Thread
  BY EverybodyWaits
<1>2. caller # "returned"
  BY NotReturned DEF Arrive
<1>3. \A u \in Thread : pc[u] \in {"compute", "waiting"} /\ stop_row(u) <= y[u]
  BY <1>1, BlockFacts DEF Arrive, Waiting, InLoop, TypeOK, RowCounts
<1>4. ASSUME NEW c \in Interior
      PROVE  c \in Coming <=> Lives(Current, c)
  <2>1. c[2] \in InnerRows
    BY RowOfCell
  <2>2. PICK u \in Thread : start_row(u) <= c[2] /\ c[2] < stop_row(u)
    BY <2>1, BlocksCover
  <2>3. c[2] < y[u]
    BY <1>3, <2>1, <2>2, BlockFacts, BoardAssumption
    DEF InnerRows, TypeOK, RowCounts
  <2> QED
    BY <1>2, <1>3, <2>2, <2>3 DEF RowsDone
<1>5. Edge(Coming) = {}
  BY DEF EdgesDead, Coming
<1> QED
  BY <1>4, <1>5, ConwaysRule DEF Edge

\* The opening of the barrier makes a generation.
LEMMA LastArrival ==
  ASSUME RefineInv, NEW t \in Thread, Arrive(t), LastToArrive(t)
  PROVE  Life!Generation
<1> USE DEF RefineInv
<1>1. Waiting \cup {t} = Thread
  BY EverybodyWaits
<1>2. caller # "returned" /\ caller' # "returned"
  BY NotReturned DEF Arrive
<1>3. /\ \A u \in Thread : pc[u] \in {"compute", "waiting"} /\ pc'[u] = "released"
      /\ UNCHANGED <<state, other_state, step>>
  BY <1>1 DEF Arrive, Waiting
<1>4. step[0] \in Nat /\ step[0] < steps
  BY <1>3, ThreadZero DEF InLoop, TypeOK
<1>5. Completed(0) = step[0] /\ Completed(0)' = step[0] + 1
  BY <1>3, <1>4, ThreadZero DEF Completed
<1>6. EvenGeneration' <=> ~EvenGeneration
  BY <1>4, <1>5, Parity DEF EvenGeneration
<1>7. Current' = Coming
  BY <1>3, <1>6 DEF Current, Coming
<1> QED
  BY <1>2, <1>4, <1>5, <1>7, WholeBoard, GenerationStep

\* The caller returns the board of the last generation.
LEMMA ReturnStutters ==
  ASSUME NEW v \in Thread, v \notin MayFail, steps \in Nat, RefineInv, Return
  PROVE  UNCHANGED Life!vars
<1> USE DEF RefineInv
<1>1. pc[v] = "exited"
  BY ParallelAssumption DEF Return, CallerInv, InLoop, Thread, TypeOK
<1>2. Completed(v) = steps
  BY <1>1 DEF InLoop, Completed, TypeOK
<1>3. Completed(0) = steps /\ Completed(0)' = steps
  BY <1>2, ThreadZero DEF StepInv, InStep, Return, Completed
<1>4. steps % 2 = 0 \/ steps % 2 = 1
  OBVIOUS
<1>5. /\ caller # "returned" /\ caller' = "returned"
      /\ steps % 2 = 1 => state' = other_state /\ other_state' = state
      /\ steps % 2 # 1 => UNCHANGED <<state, other_state>>
  BY DEF Return
<1> QED
  BY <1>3, <1>4, <1>5 DEF Life!vars, CurrentIsState

LEMMA RefinesStep ==
  ASSUME NEW v \in Thread, v \notin MayFail, steps \in Nat
  PROVE  RefineInv /\ [Next]_vars => [Life!Generation]_(Life!vars)
<1> SUFFICES ASSUME RefineInv, [Next]_vars
             PROVE  Life!Generation \/ UNCHANGED Life!vars
  OBVIOUS
<1> USE DEF RefineInv
<1>1. CASE Create
  <2>1. next \in Int /\ \A t \in Thread : t = next => pc[t] = "unborn"
    BY <1>1 DEF Create, CallerInv, Thread, TypeOK
  <2>2. Completed(0)' = Completed(0)
    BY <1>1, <2>1, ThreadZero DEF Create, Completed, LoopTest, TypeOK
  <2>3. Current' = Current
    BY <1>1, <2>2 DEF Create, Current, EvenGeneration
  <2>4. caller # "returned" /\ caller' # "returned"
    BY <1>1 DEF Create
  <2> QED
    BY <2>2, <2>3, <2>4, StutterStep
<1>2. CASE Join
  BY <1>2 DEF Join, Life!vars, CurrentIsState, Completed
<1>3. CASE Return
  BY <1>3, ReturnStutters
<1>4. ASSUME NEW t \in Thread, RowStep(t)
      PROVE  UNCHANGED Life!vars
  <2>1. caller # "returned" /\ caller' # "returned"
    BY <1>4, NotReturned DEF RowStep
  <2>2. Completed(0)' = Completed(0)
    BY <1>4 DEF RowStep, Completed
  <2>3. Current' = Current
    BY <1>4, RowWritten
  <2> QED
    BY <2>1, <2>2, <2>3, StutterStep
<1>5. ASSUME NEW t \in Thread, Arrive(t)
      PROVE  Life!Generation \/ UNCHANGED Life!vars
  <2>1. CASE LastToArrive(t)
    BY <1>5, <2>1, LastArrival
  <2>2. CASE ~LastToArrive(t)
    <3>1. /\ pc' = [pc EXCEPT ![t] = "waiting"] /\ pc[t] = "compute"
          /\ UNCHANGED <<state, other_state, caller, step>>
      BY <1>5, <2>2 DEF Arrive
    <3>2. Completed(0)' = Completed(0)
      BY <3>1, ThreadZero DEF Completed, TypeOK
    <3> QED
      BY <3>1, <3>2 DEF Life!vars, CurrentIsState
  <2> QED
    BY <2>1, <2>2
<1>6. ASSUME NEW t \in Thread, Leave(t)
      PROVE  UNCHANGED Life!vars
  <2>1. /\ step' = [step EXCEPT ![t] = @ + 1]
        /\ pc' = [pc EXCEPT ![t] = LoopTest(step[t] + 1)]
        /\ pc[t] = "released"
        /\ UNCHANGED <<state, other_state, caller>>
        /\ step \in [Thread -> Nat] /\ pc \in [Thread -> Locations]
    BY <1>6 DEF Leave, TypeOK
  <2>2. Completed(0)' = Completed(0)
    BY <2>1, ThreadZero, LoopTestType DEF Completed
  <2> QED
    BY <2>1, <2>2 DEF Life!vars, CurrentIsState
<1>7. CASE UNCHANGED vars
  BY <1>7 DEF vars, Life!vars, CurrentIsState, Completed
<1> QED
  BY <1>1, <1>2, <1>3, <1>4, <1>5, <1>6, <1>7
  DEF Next, CallerStep, ThreadStep

\* simulate_life_parallel makes the generations of Conway's Life, on boards of
\* every size, cut into blocks for any number of threads, if the edges are dead,
\* main.cc's number of steps is not negative and at least one thread is sure to
\* be created.
THEOREM ParallelIsLife ==
  ASSUME DeadEdges, steps \in Nat, NEW v \in Thread, v \notin MayFail
  PROVE  Spec => ImplementsLife
<1>1. Init => RefineInv
  BY TypeInit, CallerInit, StepInit, LoopInit, RowsInit, EdgesInit DEF RefineInv
<1>2. RefineInv /\ [Next]_vars => RefineInv'
  <2>1. RefineInv => TypeOK /\ CallerInv /\ StepInv /\ InLoop /\ EdgesDead
    BY DEF RefineInv
  <2> QED
    BY <2>1, TypeStep, CallerKeeps, StepStep, LoopStep, RowsStep, EdgesStep
    DEF RefineInv
<1>3. RefineInv /\ [Next]_vars => [Life!Generation]_(Life!vars)
  BY RefinesStep
<1> QED
  BY <1>1, <1>2, <1>3, RefinesInit, PTL DEF Spec, ImplementsLife, Life!Spec
=============================================================================
