SPECIFICATION Spec
CONSTANTS
  Cap = 1
  FilterCap = 0
  Texts <- OneText
  Keys <- ListKeys
  MaxApps = 2
  SplitRows = 1
  FullRows = 1
  SplitGuess = 1
  MaxArrivals = 1
  Updates <- Outdated
  MaxChanges = 1
INVARIANTS
  TypeOK
  SelectedInList
  TargetShown

  
CHECK_DEADLOCK FALSE
