\* One producer, three consumers, four messages and a stop message through a queue of size 2.
SPECIFICATION FairProgram
CONSTANTS
  p = p
  c1 = c1
  c2 = c2
  c3 = c3
  Threads <- OneAndThree
  NoThread = NoThread
  Items <- Texts
  NoItem = NoItem
  InitSize = 2
  Sizes <- NoSizes
  IntModulus = 8
  SizeModulus = 8
  CopyThrows = FALSE
  Producer = p
  Messages = 4
INVARIANTS
  ProgramTypeOK
  Conserved
  NothingLeft
  AllConsumed
  NotificationsSuffice
PROPERTIES
  ProgramEnds
