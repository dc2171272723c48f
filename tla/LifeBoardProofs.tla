---------------------------- MODULE LifeBoardProofs ----------------------------
(***************************************************************************)
(* Lemmas about LifeBoard that both simulations rest on.                   *)
(***************************************************************************)
EXTENDS LifeBoard, FiniteSetTheorems, TLAPS

\* The cells a row step writes are inner cells, on the board.
LEMMA RowsLieInside ==
  /\ Interior \subseteq Cells
  /\ \A r \in InnerRows : InnerRow(r) \subseteq Interior
BY BoardAssumption DEF Interior, InnerRow, InnerRows, Cells

\* Every inner cell is in the row of its second coordinate and in no other.
LEMMA RowOfCell ==
  /\ \A c \in Interior : c[2] \in InnerRows /\ c \in InnerRow(c[2])
  /\ \A r \in InnerRows : \A c \in InnerRow(r) : c[2] = r
BY DEF Interior, InnerRow

LEMMA ComputedBoard ==
  ASSUME NEW to \in Boards, NEW from \in Boards, NEW r \in InnerRows
  PROVE  ComputeRow(to, from, r) \in Boards
BY RowsLieInside DEF ComputeRow, Boards

\* Computing a row leaves the edge and the other rows of the target alone.
LEMMA ComputedRow ==
  ASSUME NEW to, NEW from, NEW r \in InnerRows
  PROVE  /\ Edge(ComputeRow(to, from, r)) = Edge(to)
         /\ \A c \in InnerRow(r) :
              c \in ComputeRow(to, from, r) <=> Lives(from, c)
         /\ \A c \in Interior : c[2] # r =>
              (c \in ComputeRow(to, from, r) <=> c \in to)
<1>1. InnerRow(r) \subseteq Interior
  BY RowsLieInside
<1>2. Edge(ComputeRow(to, from, r)) = Edge(to)
  BY <1>1 DEF Edge, ComputeRow
<1>3. \A c \in InnerRow(r) : c \in ComputeRow(to, from, r) <=> Lives(from, c)
  BY DEF ComputeRow
<1>4. \A c \in Interior : c[2] # r =>
        (c \in ComputeRow(to, from, r) <=> c \in to)
  BY RowOfCell DEF ComputeRow
<1> QED
  BY <1>2, <1>3, <1>4

\* The count of the whole window gives the rule of the game, which counts the
\* neighbours alone.
LEMMA WindowCount ==
  ASSUME NEW b, NEW c \in Interior
  PROVE  LET window == (c[1] - 1 .. c[1] + 1) \X (c[2] - 1 .. c[2] + 1)
             n == Cardinality(b \cap (window \ {c}))
         IN  Lives(b, c) <=> n = 3 \/ (n = 2 /\ c \in b)
<1> DEFINE W == (c[1] - 1 .. c[1] + 1) \X (c[2] - 1 .. c[2] + 1)
           N == b \cap (W \ {c})
<1>1. c[1] \in Int /\ c[2] \in Int /\ c = <<c[1], c[2]>>
  BY DEF Interior, InnerRow, InnerRows
<1>2. c \in W
  BY <1>1
<1>3. IsFiniteSet(W)
  <2>1. /\ IsFiniteSet(c[1] - 1 .. c[1] + 1)
        /\ IsFiniteSet(c[2] - 1 .. c[2] + 1)
    <3>1. /\ c[1] - 1 \in Int /\ c[1] + 1 \in Int
          /\ c[2] - 1 \in Int /\ c[2] + 1 \in Int
      BY <1>1
    <3> QED
      BY <3>1, FS_Interval, Zenon
  <2> QED
    BY <2>1, FS_Product, Zenon
<1>4. IsFiniteSet(N) /\ Cardinality(N) \in Nat
  <2>1. N \subseteq W
    OBVIOUS
  <2> QED
    BY <1>3, <2>1, FS_Subset, FS_CardinalityType
<1>5. CASE c \in b
  <2>1. b \cap W = N \cup {c} /\ c \notin N
    BY <1>2, <1>5
  <2>2. Cardinality(b \cap W) = Cardinality(N) + 1
    BY <1>4, <2>1, FS_AddElement
  <2>3. Lives(b, c) <=> Cardinality(N) = 3 \/ Cardinality(N) = 2
    BY <1>4, <1>5, <2>2 DEF Lives, live_in_window
  <2> QED
    BY <1>5, <2>3
<1>6. CASE c \notin b
  <2>1. b \cap W = N
    BY <1>6
  <2>2. Lives(b, c) <=> Cardinality(N) = 3
    BY <1>4, <1>6, <2>1 DEF Lives, live_in_window
  <2> QED
    BY <1>6, <2>2
<1> QED
  BY <1>5, <1>6
=============================================================================
