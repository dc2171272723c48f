---------------------------- MODULE MCLifeVersions ----------------------------
(***************************************************************************)
(* Boards for LifeVersions, for TLC.                                       *)
(***************************************************************************)
EXTENDS LifeVersions

\* Every board with a dead edge: patterns of all kinds cross the borders of the
\* blocks.
AllPatterns == SUBSET Interior

\* A block in the corner of a board of four rows and columns, with a live cell
\* on the edge above it.
LiveEdge == {{<<1, 0>>, <<1, 1>>, <<2, 1>>, <<1, 2>>, <<2, 2>>}}
=============================================================================
