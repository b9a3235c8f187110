SPECIFICATION MCSpec
CONSTANTS
  Chunk = 2
  Wide = 4
  Mib = 8
  MaxSize = 34
  MayFail = TRUE
  Widths = {2, 4, 16}
  MaxLen = 65
  Keys = {0, 1, 5, 6, 12, 21, 37}
  MaxKeys = 5
  Small = 4
  MaxDigit = 2
INVARIANTS SubtreeIsTree HashIsRoot DigestsWhatItRead SortsStably
