CONSTANTS
  width = 4
  height = 6
  threads = 3
  steps = 3
  MayFail = {1}
  InitialBoards <- AllPatterns
SPECIFICATION VersionsFairSpec
INVARIANTS
  TypeOK
  SerialTypeOK
  NoDataRace
  NothingRunsAfterReturn
  ReturnsAfterAllSteps
  VersionsAgree
PROPERTIES
  ImplementsLife
  SerialImplementsLife
  CallReturns
CHECK_DEADLOCK FALSE
