SPECIFICATION FairSpec
CONSTANTS
  Small = 2
  MaxDigit = 3
  First = 2
  Cmds <- MCCmds
  Counts <- MCCounts
  Volumes <- MCVolumes
  Hashes <- MCHashes
  ChunkLen = 2
  BufSz = 4
  BulkN = 2
  MaxChanges = 1
INVARIANTS TypeOK ExactWhenQuiet TornFilesDie SeenFindsAll InodeOrder
PROPERTY Terminates
