SPECIFICATION Spec
CONSTANTS
  Procs = {p, q}
  Versions <- TwoVersions
  First <- One
  Pins <- OnlyOne
  FreshFor = 1
  MaxTime = 1
  MaxFaults = 1
  MaxDeleted = 1
INVARIANTS
  TypeOK
  InstalledWhole
  NoLitter
  NotOlder
SYMMETRY Symmetry
