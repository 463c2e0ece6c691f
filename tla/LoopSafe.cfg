SPECIFICATION SafeSpec
CONSTANTS
  Packs <- MCDrifting
  Drift = 60
  Currents <- MCCurrents
  Droops <- MCDroops
  Sustain = 10500
  Folded = 8600
  SourceMa <- MCSource
  FixedMa <- MCFixed
  OpCurrent = 4500
  Trouble = TRUE
  HasRtc = TRUE
  Patience = {5, 10, 12}
  Latency = 1
  AgeCap = 13
INVARIANTS HeadroomKept SleepKeepsContract
PROPERTIES ApdoRespected SleepsAgain
