SPECIFICATION Spec
CONSTANTS
  Chunk = 2
  Wide = 4
  Mib = 8
  MaxSize = 34
  MayFail = FALSE
INVARIANT DigestsEveryFile
