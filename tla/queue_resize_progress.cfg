\* A blocked put is not told that the maximum size was raised.
SPECIFICATION FairSpec
CONSTANTS
  t1 = t1
  t2 = t2
  t3 = t3
  a = a
  b = b
  Threads <- ThreeThreads
  NoThread = NoThread
  Items <- OneItem
  NoItem = NoItem
  InitSize = 1
  Sizes <- Resizes
  IntModulus = 8
  SizeModulus = 8
  CopyThrows = FALSE
PROPERTIES
  PutsProgress
