SPECIFICATION Spec
CONSTANTS
  Threads = {"tcpm", "pump", "poll"}
  Contracts <- MCContracts
  PpsContracts <- MCOnePps
  PortTypes <- MCPortTypes
  Temps <- MCCool
  UseOtg = FALSE
  SlowPack = FALSE
  MaxFaults = 0
INVARIANTS PumpOwnsPath
