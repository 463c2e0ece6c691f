SPECIFICATION FairSpec
CONSTANTS
  Threads = {"tcpm", "poll"}
  Contracts <- MCContracts
  PpsContracts <- MCOnePps
  PortTypes <- MCDcp
  Temps <- MCTemps
  UseOtg = TRUE
  SlowPack = TRUE
  MaxFaults = 0
INVARIANTS MuicRestored BoostOnlyOnIdleBus
PROPERTIES ChargingResumes ThermalCutoff WarmClamp
