SPECIFICATION Spec
CONSTANTS
  Cap = 3
  FilterCap = 1
  MaxArrivals = 3
  Texts <- RingTexts
  Deltas <- OneStep
INVARIANTS
  TypeOK
  NewestKept
  FollowsAtBottom
  PausedCountHonest
  MarkerBehindLine
  CacheCoherent
  CopiesAsPromised
PROPERTY
  ImplementsWindow
