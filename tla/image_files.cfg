CONSTANTS
  f1 = f1  f2 = f2  f3 = f3  NoFile = NoFile
  BLOCK_SZ = 2
  Pointers = 2
  InodesPer = 1
  N_DBLOCKS = 1
  N_IBLOCKS = 1
  nblocks = 30
  iblocks = 2
  Files = {f1, f2, f3}
  FileSize <- Sizes
  Owners = {1, 2}
  Inputs <- TwoUsers
  StrayMarks <- SomeMarks
SPECIFICATION Spec
INVARIANTS
  TypeOK
  FilesReadBack
  NoBlockShared
  ExtractReturnsFiles
PROPERTIES
  InsertOnlyAdds
CHECK_DEADLOCK FALSE
