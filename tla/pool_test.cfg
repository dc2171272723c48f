CONSTANTS

  main = main
  NoTask = NoTask  NoThread = NoThread
  Workers = {w1, w2}
  Clients = {main}
  Tasks <- AllTasks
  Names <- AllTasks
  NameOf <- OwnName
  TaskSubmits <- Submitted
  TaskWaits <- Awaited
  MayFail = {}
  ReuseNames = FALSE
  ShareWaits = FALSE
  Tests <- TwoThreadTests
SPECIFICATION TestSpec
INVARIANTS
  TestTypeOK
  ChecksPass
  BarrierHoldsWorkers
PROPERTIES
  TestEnds
CHECK_DEADLOCK FALSE
