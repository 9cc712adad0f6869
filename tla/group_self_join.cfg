\* run() joins its own worker before start has stored the pointer.
SPECIFICATION GroupSpec
CONSTANTS
  w1 = w1
  w2 = w2
  w3 = w3
  w4 = w4
  Tids <- FourWorkers
  Handles <- FourWorkers
  NoTid = NoTid
  Main = Main
  NoHandle = NoHandle
  Order <- InOrder
  Programs <- OneProgram
  CreateFails = FALSE
INVARIANTS
  SelfJoinThrows
