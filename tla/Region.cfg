SPECIFICATION Spec
CONSTANTS
  h1 = h1
  h2 = h2
  i1 = i1
  i2 = i2
  NoHost = NoHost
  Host = {h1, h2}
  Instance = {i1, i2}
  Home <- OneToDrain
  Retired = h2
  StageChoices <- AllOrSome
  DrainedAtFirst = {h2}
  MaxEvents = 3
INVARIANT TypeOK
PROPERTY SettledIsSafe
PROPERTY FinishedIsEmpty
CHECK_DEADLOCK FALSE
