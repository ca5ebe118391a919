SPECIFICATION Spec
CONSTANTS
  Procs = {p}
  Versions <- TwoVersions
  First <- One
  Pins <- OnlyTwo
  FreshFor = 1
  MaxTime = 1
  MaxFaults = 0
  MaxDeleted = 1
INVARIANT
  RestartFinds
