SPECIFICATION Spec
CONSTANTS
  Apps = {a, b}
  All = All
  Invalid = {bad}
  LineCap = 3
  Backlog = 1
  Pids = {1, 2}
  Lengths <- ShortAndLong
  MaxLogged = 2
  MaxSwitches = 2
  MaxFailures = 1
CHECK_DEADLOCK FALSE
INVARIANTS
  TypeOK
  OneChild
  NoneLeft
  StreamExact
  InOrder
PROPERTIES
  SeenIsShown
  SwitchEnds
