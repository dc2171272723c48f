---------------------------- MODULE LifeGenerations ----------------------------
(***************************************************************************)
(* What life.h and the comments of both versions promise: steps            *)
(* generations of Conway's Life, each made from the whole of the one       *)
(* before it, on a board whose edge is dead.                               *)
(***************************************************************************)
EXTENDS LifeBoard

CONSTANTS steps, InitialBoards

VARIABLES
  board,       \* the current generation
  generation   \* how many have been made

vars == <<board, generation>>

Init == board \in InitialBoards /\ generation = 0

Neighbours(c) ==
  ((c[1] - 1 .. c[1] + 1) \X (c[2] - 1 .. c[2] + 1)) \ {c}

\* Birth with three live neighbours, survival with two or three.
Conway(b) == {c \in Interior :
  LET n == Cardinality(b \cap Neighbours(c))
  IN  n = 3 \/ (n = 2 /\ c \in b)}

Generation ==
  /\ generation < steps
  /\ board' = Conway(board)
  /\ generation' = generation + 1

Spec == Init /\ [][Generation]_vars
=============================================================================
