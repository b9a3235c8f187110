SPECIFICATION Spec
CONSTANTS
  Block = 2
  MaxBlk = 2
  Lens = {1, 3}
  Gaps = {0, 1}
  UninitBit = 4
  RootCap = 4
  NodeCap = 5
  MaxLevel = 5
  ItBuf = 4
  DirBlock = 32
  Small = 64
  MaxDigit = 11
  Images <- MCImages
INVARIANTS FindsWhatIsThere RightPlace SentAsPromised
PROPERTY OneSweep
