\* Two threads with durations of either sign share the deadline, which may be read half-stored.
SPECIFICATION CvSpec
CONSTANTS
  t1 = t1
  t2 = t2
  Threads <- TwoThreads
  NoThread = NoThread
  Timed <- TwoTimed
  Durations <- AllDurations
  Second = 2
  Torn = TRUE
  UsecModulus = 4096
  MaxTime = 4
INVARIANTS
  CvTypeOK
  EarlyOnlyIfOverwritten
  RefusedOnlyIfNegative
SYMMETRY Alike
