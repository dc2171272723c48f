CONSTANTS
  w1 = w1  w2 = w2  c1 = c1  c2 = c2
  k1 = k1  k2 = k2  k3 = k3  n1 = n1  n2 = n2  n3 = n3
  NoTask = NoTask  NoThread = NoThread
  Workers = {w1, w2}
  Clients = {c1, c2}
  Tasks = {k1, k2, k3}
  Names = {n1, n2, n3}
  NameOf <- SharedName
  TaskSubmits <- K1Submits
  TaskWaits <- K1Waits
  MayFail = {}
  ReuseNames = FALSE
  ShareWaits = FALSE
SPECIFICATION FairSpec
INVARIANTS
  TypeOK
  RunningTaskIsOwned
  QueuedNamesAreMapped
  NoTaskIsLost
  NobodyInsideAfterStop
  StopFindsNoWork
PROPERTIES
  ImplementsExecutor
  SubmittedTasksFinish
  StopReturns
CHECK_DEADLOCK FALSE
