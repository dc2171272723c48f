------------------------------- MODULE LifeCall -------------------------------
(***************************************************************************)
(* What a call of simulate_life_serial or simulate_life_parallel is given. *)
(***************************************************************************)
EXTENDS LifeBoard

CONSTANTS
  steps,         \* the number of generations asked for, which main.cc reads
                 \* with stoi: it may be negative
  InitialBoards  \* the boards a caller may pass

ASSUME CallAssumption == steps \in Int /\ InitialBoards \subseteq Boards

\* life-serial.cc:6-7, life-parallel.cc:63-65: "we fix the edges to be all 0s".
\* The code leaves the edges alone, which comes to the same on boards that come
\* with dead ones.
DeadEdges == \A b \in InitialBoards : Edge(b) = {}
=============================================================================
