SPECIFICATION Spec
CONSTANTS
  Fingers = {0, 1}
  FIFO_MAX = 32
  Backlog = 4
  TouchFaults = 0
  Packets = 1
  PenFaults = 0
  Nights = 0
INVARIANTS ReleasesLift
