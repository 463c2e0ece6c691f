SPECIFICATION Spec
CONSTANTS
  Fingers = {0, 1}
  FIFO_MAX = 3
  Backlog = 4
  TouchFaults = 3
  Packets = 2
  PenFaults = 1
  Nights = 1
INVARIANTS TouchPowered NoGhost PenFollows
