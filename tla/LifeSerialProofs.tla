--------------------------- MODULE LifeSerialProofs ---------------------------
(***************************************************************************)
(* LifeSerial implements LifeGenerations, for every size of board, every   *)
(* number of steps and every board with a dead edge.                       *)
(***************************************************************************)
EXTENDS LifeSerial, LifeBoardProofs

\* The boards keep their type and the row counter stays on the board.
LEMMA TypeInit == Init => TypeOK
BY BoardAssumption, CallAssumption DEF Init, TypeOK, Boards, RowCounts

LEMMA TypeStep == TypeOK /\ [Next]_vars => TypeOK'
<1> SUFFICES ASSUME TypeOK, [Next]_vars PROVE TypeOK'
  OBVIOUS
<1> USE BoardAssumption DEF TypeOK, RowCounts
<1>1. CASE RowStep
  <2>1. y \in InnerRows /\ y' \in RowCounts
    BY <1>1 DEF RowStep, RowsLeft, InnerRows
  <2>2. next_state' \in Boards
    BY <1>1, <2>1, ComputedBoard DEF RowStep
  <2> QED
    BY <1>1, <2>1, <2>2 DEF RowStep
<1>2. CASE Swap
  BY <1>2 DEF Swap
<1>3. CASE UNCHANGED vars
  BY <1>3 DEF vars
<1> QED
  BY <1>1, <1>2, <1>3 DEF Next

\* The loop over the rows stays on the board.
THEOREM TypeCorrect == Spec => []TypeOK
BY TypeInit, TypeStep, PTL DEF Spec

-----------------------------------------------------------------------------

\* The rows above the row counter are those of the next generation.
RowsDone ==
  \A c \in Interior : c[2] < y => (c \in next_state <=> Lives(state, c))

LEMMA RowsInit == Init => RowsDone
BY RowOfCell DEF Init, RowsDone, InnerRows

LEMMA RowsStep == TypeOK /\ RowsDone /\ [Next]_vars => RowsDone'
<1> SUFFICES ASSUME TypeOK, RowsDone, [Next]_vars PROVE RowsDone'
  OBVIOUS
<1>0. \A c \in Interior : c[2] \in Int /\ c[2] >= 1
  BY RowOfCell DEF InnerRows
<1>1. CASE RowStep
  <2>1. y \in InnerRows /\ y \in Int
    BY <1>1, BoardAssumption DEF RowStep, RowsLeft, InnerRows, TypeOK, RowCounts
  <2>2. /\ y' = y + 1 /\ state' = state
        /\ next_state' = ComputeRow(next_state, state, y)
    BY <1>1 DEF RowStep
  <2> SUFFICES ASSUME NEW c \in Interior, c[2] < y + 1
               PROVE  c \in next_state' <=> Lives(state, c)
    BY <2>2 DEF RowsDone
  <2>3. CASE c[2] = y
    <3>1. c \in InnerRow(y)
      BY <2>3, RowOfCell
    <3> QED
      BY <2>1, <2>2, <3>1, ComputedRow
  <2>4. CASE c[2] < y
    <3>1. c \in next_state' <=> c \in next_state
      BY <1>0, <2>1, <2>2, <2>4, ComputedRow
    <3> QED
      BY <2>4, <3>1 DEF RowsDone
  <2> QED
    BY <1>0, <2>1, <2>3, <2>4
<1>2. CASE Swap
  BY <1>0, <1>2 DEF Swap, RowsDone
<1>3. CASE UNCHANGED vars
  BY <1>3 DEF vars, RowsDone
<1> QED
  BY <1>1, <1>2, <1>3 DEF Next

-----------------------------------------------------------------------------
(* The edges *)

\* Both boards keep the dead edge they come with.
EdgesDead == Edge(state) = {} /\ Edge(next_state) = {}

LEMMA EdgesInit == DeadEdges /\ Init => EdgesDead
BY DEF DeadEdges, Init, EdgesDead, Edge

LEMMA EdgesStep == TypeOK /\ EdgesDead /\ [Next]_vars => EdgesDead'
<1> SUFFICES ASSUME TypeOK, EdgesDead, [Next]_vars PROVE EdgesDead'
  OBVIOUS
<1>1. CASE RowStep
  <2>1. y \in InnerRows
    BY <1>1, BoardAssumption DEF RowStep, RowsLeft, InnerRows, TypeOK, RowCounts
  <2>2. Edge(ComputeRow(next_state, state, y)) = Edge(next_state)
    BY <2>1, ComputedRow
  <2> QED
    BY <1>1, <2>2 DEF RowStep, EdgesDead
<1>2. CASE Swap
  BY <1>2 DEF Swap, EdgesDead
<1>3. CASE UNCHANGED vars
  BY <1>3 DEF vars, EdgesDead
<1> QED
  BY <1>1, <1>2, <1>3 DEF Next

-----------------------------------------------------------------------------
(* The refinement *)

\* The abstract specification speaks of the same board.
LEMMA SameBoard == Life!Interior = Interior
BY Zenon DEF Life!Interior, Life!InnerRow, Life!InnerRows,
             Interior, InnerRow, InnerRows

\* The rule of the code is Conway's.
LEMMA ConwaysRule ==
  ASSUME NEW b PROVE Life!Conway(b) = {c \in Interior : Lives(b, c)}
<1>1. \A S : Life!Cardinality(S) = Cardinality(S)
  BY DEF Life!Cardinality, Cardinality
<1> QED
  BY <1>1, SameBoard, WindowCount DEF Life!Conway, Life!Neighbours

LEMMA RefinesInit == Init => Life!Init
BY DEF Init, Life!Init

LEMMA RefinesStep ==
  TypeOK /\ RowsDone /\ EdgesDead /\ [Next]_vars => [Life!Generation]_(Life!vars)
<1> SUFFICES ASSUME TypeOK, RowsDone, EdgesDead, [Next]_vars
             PROVE  [Life!Generation]_(Life!vars)
  OBVIOUS
<1>1. CASE RowStep
  BY <1>1 DEF RowStep, Life!vars
<1>2. CASE Swap
  <2>1. /\ step < steps /\ step' = step + 1
        /\ state' = next_state /\ next_state' = state
    BY <1>2 DEF Swap
  <2>2. \A c \in Interior : c[2] < y
    BY <1>2, RowOfCell, BoardAssumption
    DEF Swap, RowsLeft, InnerRows, TypeOK, RowCounts
  <2>3. next_state = Life!Conway(state)
    BY <2>2, ConwaysRule DEF RowsDone, EdgesDead, Edge
  <2> QED
    BY <2>1, <2>3 DEF Life!Generation
<1>3. CASE UNCHANGED vars
  BY <1>3 DEF vars, Life!vars
<1> QED
  BY <1>1, <1>2, <1>3 DEF Next

\* simulate_life_serial makes the generations of Conway's Life, on boards of
\* every size whose edges are dead.
THEOREM SerialIsLife ==
  ASSUME DeadEdges
  PROVE  Spec => ImplementsLife
<1>1. Init => TypeOK /\ RowsDone /\ EdgesDead
  BY TypeInit, RowsInit, EdgesInit
<1>2. TypeOK /\ RowsDone /\ EdgesDead /\ [Next]_vars
      => (TypeOK /\ RowsDone /\ EdgesDead)'
  BY TypeStep, RowsStep, EdgesStep
<1> QED
  BY <1>1, <1>2, RefinesInit, RefinesStep, PTL
  DEF Spec, ImplementsLife, Life!Spec
=============================================================================
