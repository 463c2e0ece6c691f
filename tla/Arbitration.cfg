SPECIFICATION Spec
CONSTANTS
  Threads = {"tcpm", "pump", "user"}
  Contracts <- MCContracts
  PpsContracts <- MCOnePps
  PortTypes <- MCPortTypes
  Temps <- MCCool
  UseOtg = TRUE
  SlowPack = FALSE
  MaxFaults = 1
INVARIANTS BoostIsolated HostPathFirst PumpReleased
PROPERTIES ContractLeavesPumpAlone ImplementsPathOwner
