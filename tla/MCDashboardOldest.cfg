SPECIFICATION Spec
CONSTANTS
  Cap = 3
  FilterCap = 1
  Texts <- TwoTexts
  Keys <- OldestKeys
  MaxApps = 0
  SplitRows = 1
  FullRows = 1
  SplitGuess = 1
  MaxArrivals = 3
  Updates <- Newest
  MaxChanges = 0
PROPERTY
  OldestShown
