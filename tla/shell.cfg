CONSTANTS
  Lines <- TypedLines
  MaxCommands = 3
  OpenFiles = 7
  PipeSize = 1
  MaxWrites = 2
SPECIFICATION FairSpec
INVARIANTS
  TypeOK
  ParsesGrammar
  StdioConnected
  LineLeavesNothing
  RedirectedPipeIsEmpty
PROPERTIES
  LineCompletes
CHECK_DEADLOCK FALSE
