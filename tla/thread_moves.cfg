\* One owner that constructs, moves, joins and destroys three objects.
SPECIFICATION ThreadSpec
CONSTANTS
  i1 = i1
  i2 = i2
  i3 = i3
  h1 = h1
  h2 = h2
  h3 = h3
  Tids <- ThreeTids
  Handles <- ThreeHandles
  NoTid = NoTid
  Main = Main
  NoHandle = NoHandle
INVARIANTS
  OneOwner
  StatusMatches
  JoinDefined
PROPERTIES
  NeverDropped
