CONSTANTS
  width = 4
  height = 4
  threads = 1
  steps = 2
  MayFail = {}
  InitialBoards <- LiveEdge
SPECIFICATION VersionsSpec
PROPERTIES
  SerialImplementsLife
CHECK_DEADLOCK FALSE
