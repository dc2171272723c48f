------------------------------- MODULE LifeBoard -------------------------------
(***************************************************************************)
(* The board of src/life (life.h) and the rule that life-serial.cc and     *)
(* life-parallel.cc both contain.  A board is the set of its live cells, a *)
(* cell is <<x, y>>.  The outermost rows and columns are never written.    *)
(***************************************************************************)
EXTENDS Integers, FiniteSets

CONSTANTS width, height

ASSUME BoardAssumption == width \in Nat \ {0} /\ height \in Nat \ {0}

Cells == (0 .. width - 1) \X (0 .. height - 1)
Boards == SUBSET Cells

\* Of each row, the cells that are computed: x in [1, width - 1).
InnerRow(y) == (1 .. width - 2) \X {y}
InnerRows == 1 .. height - 2
\* The values the row counter of a loop over inner rows can take.
RowCounts == {r \in 1 .. height : r = 1 \/ r < height}
Interior == UNION {InnerRow(y) : y \in InnerRows}
Edge(b) == b \ Interior

\* live_in_window: the live cells of the 3x3 window around a cell, itself
\* included.
live_in_window(b, c) ==
  Cardinality(b \cap ((c[1] - 1 .. c[1] + 1) \X (c[2] - 1 .. c[2] + 1)))

\* Whether a cell lives in the next generation, and a variant that takes the
\* count for one of the neighbours alone.
LivesByNeighbours(b, c) ==
  live_in_window(b, c) = 3 \/ (live_in_window(b, c) = 2 /\ c \in b)
Lives(b, c) ==
  live_in_window(b, c) = 3 \/ (live_in_window(b, c) = 4 /\ c \in b)

\* The inner loop over x: row y of board "to" computed from board "from".
ComputeRow(to, from, y) ==
  (to \ InnerRow(y)) \cup {c \in InnerRow(y) : Lives(from, c)}
=============================================================================
