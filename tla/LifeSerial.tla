------------------------------ MODULE LifeSerial ------------------------------
(***************************************************************************)
(* simulate_life_serial of src/life/life-serial.cc: every row of the       *)
(* second board is computed from the first, then the two are swapped.      *)
(***************************************************************************)
EXTENDS LifeCall

VARIABLES
  state,       \* the caller's board
  next_state,  \* the second board, all dead at first
  step,        \* generations done
  y            \* the row that is computed next

vars == <<state, next_state, step, y>>

TypeOK ==
  /\ state \in Boards /\ next_state \in Boards
  /\ step \in Nat
  /\ y \in RowCounts

Init ==
  /\ state \in InitialBoards
  /\ next_state = {}
  /\ step = 0
  /\ y = 1

\* The test of the loop over y, and a variant that computes the last row too.
RowsLeftToEdge == y < height
RowsLeft == y < height - 1

RowStep ==
  /\ step < steps /\ RowsLeft
  /\ next_state' = ComputeRow(next_state, state, y)
  /\ y' = y + 1
  /\ UNCHANGED <<state, step>>

\* swap(state, next_state); the next step starts at the first row again.
Swap ==
  /\ step < steps /\ ~RowsLeft
  /\ state' = next_state /\ next_state' = state
  /\ step' = step + 1
  /\ y' = 1

Next == RowStep \/ Swap

Spec == Init /\ [][Next]_vars

-----------------------------------------------------------------------------
(* What the call promises *)

Life == INSTANCE LifeGenerations WITH board <- state, generation <- step

\* Each swap makes one whole generation of Conway's Life.  That takes boards
\* with dead edges: the loops never write an edge, and every swap hands over
\* the one of the other board.
ImplementsLife == Life!Spec
=============================================================================
