----------------------------- MODULE LifeVersions -----------------------------
(***************************************************************************)
(* The two versions of the game as main.cc and run_and_verify use them:    *)
(* simulate_life_serial makes the expected board from the board of the     *)
(* file, then simulate_life_parallel runs on a copy of that board and the  *)
(* two results are compared.                                               *)
(***************************************************************************)
EXTENDS LifeParallel

VARIABLES
  expected,     \* the board the serial version works on
  serial_next,  \* its second board
  serial_step,  \* its generations done
  serial_y      \* its row counter

serial_vars == <<expected, serial_next, serial_step, serial_y>>

Serial == INSTANCE LifeSerial WITH
  state <- expected, next_state <- serial_next, step <- serial_step, y <- serial_y

\* simulate_life_serial has returned.
SerialDone == serial_step >= steps

VersionsInit == Init /\ Serial!Init /\ expected = state

RunSerial == Serial!Next /\ UNCHANGED vars
RunParallel == SerialDone /\ Next /\ UNCHANGED serial_vars

VersionsNext == RunSerial \/ RunParallel

versions_vars == <<vars, serial_vars>>

VersionsSpec == VersionsInit /\ [][VersionsNext]_versions_vars

\* The main thread runs both calls, and every thread it creates is scheduled.
VersionsFairSpec ==
  /\ VersionsSpec
  /\ WF_versions_vars(RunSerial)
  /\ WF_versions_vars(RunParallel /\ CallerStep)
  /\ \A t \in Thread : WF_versions_vars(RunParallel /\ ThreadStep(t))

-----------------------------------------------------------------------------

\* The row counter of the serial version stays on the board.
SerialTypeOK == Serial!TypeOK

\* Each swap of the serial version makes one generation of Conway's Life.
SerialImplementsLife == Serial!ImplementsLife

\* main.cc:69 reports an error if the results differ: they do not, however the
\* rows are cut into blocks and the threads are scheduled.  A call none of whose
\* threads was created has computed nothing.
VersionsAgree ==
  caller = "returned" /\ (\E t \in Thread : pc[t] = "exited") => state = expected
=============================================================================
