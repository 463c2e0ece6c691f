SPECIFICATION BothSpec
CONSTANTS
  VblankAbove = {0}
  Exposures = {4}
  MaxFaults = 0
  Positions = {512, 777}
  Scenes <- OneScene
  Levels <- TwoLevels
  Starts <- SomeStarts
  MaxFailed = 0
PROPERTIES ReinitialisedAfterCycle
CHECK_DEADLOCK FALSE
