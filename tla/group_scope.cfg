\* A group joined in its destructor or by hand; starts may fail; run() joins itself, workers after or before it; ids are used again.
SPECIFICATION FairGroup
CONSTANTS
  w1 = w1
  w2 = w2
  w3 = w3
  w4 = w4
  Tids <- FourWorkers
  Handles <- FourWorkers
  NoTid = NoTid
  Main = Main
  NoHandle = NoHandle
  Order <- InOrder
  Programs <- AllPrograms
  CreateFails = TRUE
INVARIANTS
  GroupTypeOK
  NoUseAfterFree
  AllReaped
  JoinMeansEnded
PROPERTIES
  ForksAndJoins
  Termination
