\* Wake-ups, progress and polling on a queue of fixed size.
SPECIFICATION FairObserver
CONSTANTS
  t1 = t1
  t2 = t2
  t3 = t3
  a = a
  Threads <- ThreeThreads
  NoThread = NoThread
  Items <- OneItem
  NoItem = NoItem
  InitSize = 2
  Sizes <- NoSizes
  IntModulus = 8
  SizeModulus = 8
  CopyThrows = FALSE
  Poller = t1
  Unread = Unread
INVARIANTS
  NoLostItem
  NoLostRoom
  NoStandoff
  PromiseKept
  PollNeverBlocks
PROPERTIES
  PutRespectsMaxSize
  GetsProgress
  PutsProgress
