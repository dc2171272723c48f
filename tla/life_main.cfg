CONSTANTS
  K = 3
  MAX_RUNS = 2
  MIN_TEST_CYCLES = 110
  TOLERANCE_NUMERATOR = 3
  TOLERANCE_DENOMINATOR = 2
  UINT64_MAX = 299
  Cycles = {20, 25, 31, 60}
  NoInput = NoInput
  Inputs <- Files
  Iterations <- IterationCounts
  TestFunctions <- Table
SPECIFICATION FairSpec
INVARIANTS
  TypeOK
  TableHoldsFastest
  PicturesAreRead
  VerdictsTellErrors
  FinishedVersionsPass
PROPERTIES
  ProgramExits
CHECK_DEADLOCK FALSE
