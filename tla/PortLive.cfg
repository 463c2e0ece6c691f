SPECIFICATION FairSpec
CONSTANTS
  Silent = 1
  Unsampled = FALSE
  Messages = 2
  HardResets = TRUE
  Waits = TRUE
  TabletSwaps = TRUE
  Sleeps = 2
INVARIANTS HeldOnlyInSwap
PROPERTIES SwapKeepsPartner AttachFound DetachFound
