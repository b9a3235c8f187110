SPECIFICATION FairSpec
CONSTANTS
  Chunk = 2
  Wide = 4
  BufSz = 8
  Align = 2
  Adjacent = 2
  Inputs <- MCInputs
INVARIANTS TypeOK RoomForRead WaitingDataIntact NeverDies
PROPERTIES ImplementsDigests AllRecorded
