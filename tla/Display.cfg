SPECIFICATION Spec
CONSTANTS
  Levels = {0, 900, 2047}
  MaxFaults = 2
  xres = 2560
  yres = 1600
  Hold = 2
  Unplugged = 3
  Lit = 4
  Percents = {2, 60}
  MaxKeys = 2
  MaxGone = 1
INVARIANTS RailsBalanced LitWhenOn GaugeVisible
PROPERTIES EndsAsMeant Decides
CHECK_DEADLOCK FALSE
