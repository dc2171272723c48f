CONSTANTS
  w1 = w1  w2 = w2  c1 = c1  c2 = c2
  k1 = k1  k2 = k2  k3 = k3  n1 = n1  n2 = n2  n3 = n3
  NoTask = NoTask  NoThread = NoThread
  Workers = {w1}
  Clients = {c1}
  Tasks = {k1, k2, k3}
  Names = {n1, n2, n3}
  NameOf <- DistinctNames
  TaskSubmits <- NoSubmits
  TaskWaits <- NoWaits
  MayFail = {}
  ReuseNames = FALSE
  ShareWaits = FALSE
SPECIFICATION Spec
INVARIANTS
  SignalsLiveTask
CHECK_DEADLOCK FALSE
