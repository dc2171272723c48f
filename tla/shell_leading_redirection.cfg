CONSTANTS
  Lines <- RedirectionFirst
  MaxCommands = 1
  OpenFiles = 3
  PipeSize = 1
  MaxWrites = 1
SPECIFICATION Spec
INVARIANTS
  RunsEveryLine
CHECK_DEADLOCK FALSE
