\* Guards, hand-held locks and exceptions; nested locks may hang.
SPECIFICATION FairSpec
CONSTANTS
  t1 = t1
  t2 = t2
  Threads <- TwoThreads
  NoThread = NoThread
  MaxDepth = 2
  MaxValue = 1
  Raises <- Errors
  Catches <- BothFamilies
CHECK_DEADLOCK FALSE
INVARIANTS
  LocksTypeOK
  GuardsMatch
  CopiesCurrent
  NoHang
  OnlyForeignEscapes
PROPERTIES
  CounterProtected
  PreferredServed
