\* Sizes that change during calls, ints that wrap, copies that throw.
SPECIFICATION Spec
CONSTANTS
  t1 = t1
  t2 = t2
  t3 = t3
  a = a
  b = b
  Threads <- ThreeThreads
  NoThread = NoThread
  Items <- TwoItems
  NoItem = NoItem
  InitSize = 1
  Sizes <- WrapResizes
  IntModulus = 4
  SizeModulus = 8
  CopyThrows = TRUE
INVARIANTS
  TypeOK
  Consistent
PROPERTIES
  Linearizable
  LostOnlyByFailure
