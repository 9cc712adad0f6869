\* read_lock::try_lock succeeds beside another reader.
SPECIFICATION Spec
CONSTANTS
  t1 = t1
  t2 = t2
  Threads <- TwoThreads
  NoThread = NoThread
  MaxDepth = 2
  MaxValue = 1
  Raises <- Errors
  Catches <- BothFamilies
CHECK_DEADLOCK FALSE
PROPERTIES
  TryReadAlone
