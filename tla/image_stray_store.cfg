CONSTANTS
  f1 = f1  f2 = f2  f3 = f3  NoFile = NoFile
  BLOCK_SZ = 2
  Pointers = 2
  InodesPer = 1
  N_DBLOCKS = 1
  N_IBLOCKS = 1
  nblocks = 12
  iblocks = 2
  Files = {f1, f2}
  FileSize <- TwoSizes
  Owners = {1}
  Inputs <- OneUser
  StrayMarks <- SomeMarks
SPECIFICATION Spec
INVARIANTS
  FilesSurvive
CHECK_DEADLOCK FALSE
