SPECIFICATION FairSpec
CONSTANTS
  Main = Main
  Worker = {w1, w2, w3}
  GenMod = 2
  MaxN = 2
  MaxJobs = 2
INVARIANTS TypeOK IInv ExactlyOnce NoStaleTask NoLostWakeup NoUseAfterFree
PROPERTIES RewindIsQuiet CallReturns FreeReturns ImplementsParFor
