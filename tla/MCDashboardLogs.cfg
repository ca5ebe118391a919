SPECIFICATION Spec
CONSTANTS
  Cap = 2
  FilterCap = 1
  Texts <- OneText
  Keys <- LogKeys
  MaxApps = 0
  SplitRows = 1
  FullRows = 2
  SplitGuess = 1
  MaxArrivals = 1
  Updates <- Newest
  MaxChanges = 0
INVARIANT
  KeyOnFresh
