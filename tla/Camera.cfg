SPECIFICATION BothSpec
CONSTANTS
  VblankAbove = {0, 500}
  Exposures = {4, 5000}
  MaxFaults = 2
  Positions = {512, 777}
  Scenes <- AllScenes
  Levels <- TwoLevels
  Starts <- SomeStarts
  MaxFailed = 1
INVARIANTS PowerBalanced RegistersFollow LensTruthful RailReleased NearPeak
PROPERTIES Terminates
CHECK_DEADLOCK FALSE
