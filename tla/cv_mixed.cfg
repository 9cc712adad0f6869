\* Two waiters with different durations share one deadline.
SPECIFICATION CvSpec
CONSTANTS
  t1 = t1
  t2 = t2
  Threads <- TwoThreads
  NoThread = NoThread
  Timed <- TwoTimed
  Durations <- ShortAndLong
  Second = 2
  Torn = FALSE
  UsecModulus = 4096
  MaxTime = 4
INVARIANTS
  NoEarlyTimeout
