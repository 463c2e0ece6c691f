SPECIFICATION FairSpec
CONSTANTS
  Threads = {"tcpm", "pump"}
  Contracts <- MCTwoContracts
  PpsContracts <- MCPps
  PortTypes <- MCPortTypes
  Temps <- MCTemps
  UseOtg = FALSE
  SlowPack = FALSE
  MaxFaults = 0
INVARIANTS PumpOwnsPath SwitchingOnFixedBus
PROPERTIES OpsComplete
