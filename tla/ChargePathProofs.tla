---------------------------- MODULE ChargePathProofs ----------------------------
(***************************************************************************)
(* What ChargePath keeps for every set of threads, contracts, temperatures  *)
(* and number of failing transfers.                                         *)
(***************************************************************************)
EXTENDS ChargePath, TLAPS

--------------------------------------------------------------------------------
(* The decisions of ChargeTable.                                            *)

\* The thermal state machine stays within its three states.
LEMMA ThermalStateType ==
  ASSUME NEW s \in ThermalStates, NEW x \in Int
  PROVE  ChargeThermalState(s, x) \in ThermalStates
BY DEF ChargeThermalState, ThermalStates

\* The currents are natural numbers whatever the contract and the port.
LEMMA CurrentsType ==
  ASSUME NEW mv \in Nat, NEW ma \in Nat, NEW ty, NEW f \in BOOLEAN, NEW s
  PROVE  /\ InputMa(mv, ma, ty, f) \in Nat
         /\ FastMa(mv, ma, ty, f, s) \in Nat
BY DEF InputMa, FastMa, AtMost, Negotiated

--------------------------------------------------------------------------------
(* Types.                                                                   *)

\* Registers hold booleans and natural currents.
LEMMA RegistersStep == TypeOK /\ [Next]_vars => RegistersOK'
<1> SUFFICES ASSUME TypeOK, [Next]_vars PROVE RegistersOK'
  OBVIOUS
<1> USE ThreadsAssumption, ContractsAssumption, RangesAssumption DEF TypeOK,
        RegistersOK, LocalsOK, hw, AllThreads, OtgGoto, OtgUnlockChg, PumpGoto,
        PollGoto, PollDone, DirectQ4Result, CallConfigure,  ConfigureReturn,
        ConfigureGoto, ConfigureQ4Done, NoConf, NoSeen
<1>1. ASSUME NEW t \in Threads, Configure(t) PROVE RegistersOK'
  <2>1. CASE ConfigureLock(t)
    BY <2>1 DEF ConfigureLock
  <2>2. CASE ConfigureCheck(t)
    BY <2>2 DEF ConfigureCheck, ConfigureDecide
  <2>3. CASE ConfigureProgram(t)
    BY <2>3 DEF ConfigureProgram
  <2>4. CASE ConfigureQ4Read(t)
    BY <2>4 DEF ConfigureQ4Read
  <2>5. CASE ConfigureQ4Write(t)
    BY <2>5 DEF ConfigureQ4Write
  <2>6. CASE ConfigureInput(t)
    BY <2>6 DEF ConfigureInput
  <2> QED BY <1>1, <2>1, <2>2, <2>3, <2>4, <2>5, <2>6 DEF Configure
<1>2. ASSUME TcpmContract PROVE RegistersOK'
  BY <1>2 DEF TcpmContract
<1>3. ASSUME TcpmServe PROVE RegistersOK'
  BY <1>3 DEF TcpmServe, TcpmGrantPps, TcpmGrantFixed, TcpmRefuse
<1>4. ASSUME Contract PROVE RegistersOK'
  BY <1>4 DEF Contract, ContractLock, ContractApply, ContractUnlock
<1>5. ASSUME TcpmSource PROVE RegistersOK'
  BY <1>5 DEF TcpmSource
<1>6. ASSUME Otg PROVE RegistersOK'
  BY <1>6 DEF Otg, OtgLock, OtgCheck, OtgLockChg, OtgPath, OtgQ4Read, OtgQ4Write,
         OtgBoost, OtgPublish, OtgUndo, OtgOff, OtgClear, OtgRelease, OtgUnlock
<1>7. ASSUME PumpStart PROVE RegistersOK'
  BY <1>7 DEF PumpStart
<1>8. ASSUME PumpStop PROVE RegistersOK'
  BY <1>8 DEF PumpStop
<1>9. ASSUME Pump PROVE RegistersOK'
  <2>1. CASE PumpInit
    BY <2>1 DEF PumpInit
  <2>2. CASE PumpWait
    BY <2>2 DEF PumpWait
  <2>3. CASE PumpSettle
    BY <2>3 DEF PumpSettle
  <2>4. CASE PumpOn
    BY <2>4 DEF PumpOn
  <2>5. CASE PumpCheck
    BY <2>5 DEF PumpCheck
  <2>6. CASE RestoreOff
    BY <2>6 DEF RestoreOff
  <2>7. CASE RestoreWait
    BY <2>7 DEF RestoreWait
  <2>8. CASE DirectLock
    BY <2>8 DEF DirectLock
  <2>9. CASE DirectClaim
    BY <2>9 DEF DirectClaim
  <2>10. CASE DirectLockChg
    BY <2>10 DEF DirectLockChg
  <2>11. CASE DirectQ4Read
    BY <2>11 DEF DirectQ4Read
  <2>12. CASE DirectQ4Write
    BY <2>12 DEF DirectQ4Write
  <2>13. CASE DirectRelease
    BY <2>13 DEF DirectRelease
  <2>14. CASE DirectOnline
    BY <2>14 DEF DirectOnline
  <2>15. CASE DirectUnlock
    BY <2>15 DEF DirectUnlock
  <2> QED BY <1>9, <2>1, <2>2, <2>3, <2>4, <2>5, <2>6, <2>7, <2>8, <2>9, <2>10, <2>11,
         <2>12, <2>13, <2>14, <2>15 DEF Pump, Direct
<1>10. ASSUME Poll PROVE RegistersOK'
  BY <1>10 DEF Poll, PollReadsStatus, PollStatus, PollOnline, PollTemp, PollCompare, PollAgain,
         PollRecover, PollRead, PollEdge, PollQ4Read, PollQ4Write
<1>11. ASSUME UserToggle PROVE RegistersOK'
  BY <1>11 DEF UserToggle
<1>12. ASSUME Environment PROVE RegistersOK'
  BY <1>12 DEF Environment, Plug, Unplug, SourceCollapse, Heat
<1>13. CASE UNCHANGED vars
  BY <1>13 DEF vars, hw, world, batt, tcpm, locks, locals
<1> QED BY <1>1, <1>2, <1>3, <1>4, <1>5, <1>6, <1>7, <1>8, <1>9, <1>10, <1>11, <1>12,
        <1>13 DEF Next

\* The cable, the pack and the fault count.
LEMMA WorldStep == TypeOK /\ [Next]_vars => WorldOK'
<1> SUFFICES ASSUME TypeOK, [Next]_vars PROVE WorldOK'
  OBVIOUS
<1> USE ThreadsAssumption, ContractsAssumption, RangesAssumption DEF TypeOK, WorldOK,
        world, Works, Fails, AllThreads, OtgGoto, OtgUnlockChg, PumpGoto, PollGoto,
        PollDone, DirectQ4Result, CallConfigure,  ConfigureReturn, ConfigureGoto,
        ConfigureQ4Done, NoConf, NoSeen
<1>1. ASSUME NEW t \in Threads, Configure(t) PROVE WorldOK'
  BY <1>1 DEF Configure, ConfigureLock, ConfigureCheck, ConfigureDecide, ConfigureProgram,
         ConfigureQ4Read, ConfigureQ4Write, ConfigureInput
<1>2. ASSUME TcpmContract PROVE WorldOK'
  BY <1>2 DEF TcpmContract
<1>3. ASSUME TcpmServe PROVE WorldOK'
  <2>1. CASE TcpmGrantPps
    BY <2>1 DEF TcpmGrantPps
  <2>2. CASE TcpmGrantFixed
    BY <2>2 DEF TcpmGrantFixed
  <2>3. CASE TcpmRefuse
    BY <2>3 DEF TcpmRefuse
  <2> QED BY <1>3, <2>1, <2>2, <2>3 DEF TcpmServe
<1>4. ASSUME Contract PROVE WorldOK'
  BY <1>4 DEF Contract, ContractLock, ContractApply, ContractUnlock
<1>5. ASSUME TcpmSource PROVE WorldOK'
  BY <1>5 DEF TcpmSource
<1>6. ASSUME Otg PROVE WorldOK'
  <2>1. CASE OtgLock
    BY <2>1 DEF OtgLock
  <2>2. CASE OtgCheck
    BY <2>2 DEF OtgCheck
  <2>3. CASE OtgLockChg
    BY <2>3 DEF OtgLockChg
  <2>4. CASE OtgPath
    BY <2>4 DEF OtgPath
  <2>5. CASE OtgQ4Read
    BY <2>5 DEF OtgQ4Read
  <2>6. CASE OtgQ4Write
    BY <2>6 DEF OtgQ4Write
  <2>7. CASE OtgBoost
    BY <2>7 DEF OtgBoost
  <2>8. CASE OtgPublish
    BY <2>8 DEF OtgPublish
  <2>9. CASE OtgUndo
    BY <2>9 DEF OtgUndo
  <2>10. CASE OtgOff
    BY <2>10 DEF OtgOff
  <2>11. CASE OtgClear
    BY <2>11 DEF OtgClear
  <2>12. CASE OtgRelease
    BY <2>12 DEF OtgRelease
  <2>13. CASE OtgUnlock
    BY <2>13 DEF OtgUnlock
  <2> QED BY <1>6, <2>1, <2>2, <2>3, <2>4, <2>5, <2>6, <2>7, <2>8, <2>9, <2>10, <2>11,
         <2>12, <2>13 DEF Otg
<1>7. ASSUME PumpStart PROVE WorldOK'
  BY <1>7 DEF PumpStart
<1>8. ASSUME PumpStop PROVE WorldOK'
  BY <1>8 DEF PumpStop
<1>9. ASSUME Pump PROVE WorldOK'
  <2>1. CASE PumpInit
    BY <2>1 DEF PumpInit
  <2>2. CASE PumpWait
    BY <2>2 DEF PumpWait
  <2>3. CASE PumpSettle
    BY <2>3 DEF PumpSettle
  <2>4. CASE PumpOn
    BY <2>4 DEF PumpOn
  <2>5. CASE PumpCheck
    BY <2>5 DEF PumpCheck
  <2>6. CASE RestoreOff
    BY <2>6 DEF RestoreOff
  <2>7. CASE RestoreWait
    BY <2>7 DEF RestoreWait
  <2>8. CASE DirectLock
    BY <2>8 DEF DirectLock
  <2>9. CASE DirectClaim
    BY <2>9 DEF DirectClaim
  <2>10. CASE DirectLockChg
    BY <2>10 DEF DirectLockChg
  <2>11. CASE DirectQ4Read
    BY <2>11 DEF DirectQ4Read
  <2>12. CASE DirectQ4Write
    BY <2>12 DEF DirectQ4Write
  <2>13. CASE DirectRelease
    BY <2>13 DEF DirectRelease
  <2>14. CASE DirectOnline
    BY <2>14 DEF DirectOnline
  <2>15. CASE DirectUnlock
    BY <2>15 DEF DirectUnlock
  <2> QED BY <1>9, <2>1, <2>2, <2>3, <2>4, <2>5, <2>6, <2>7, <2>8, <2>9, <2>10, <2>11,
         <2>12, <2>13, <2>14, <2>15 DEF Pump, Direct
<1>10. ASSUME Poll PROVE WorldOK'
  BY <1>10 DEF Poll, PollReadsStatus, PollStatus, PollOnline, PollTemp, PollCompare, PollAgain,
         PollRecover, PollRead, PollEdge, PollQ4Read, PollQ4Write
<1>11. ASSUME UserToggle PROVE WorldOK'
  BY <1>11 DEF UserToggle
<1>12. ASSUME Environment PROVE WorldOK'
  BY <1>12 DEF Environment, Plug, Unplug, SourceCollapse, Heat
<1>13. CASE UNCHANGED vars
  BY <1>13 DEF vars, hw, world, batt, tcpm, locks, locals
<1> QED BY <1>1, <1>2, <1>3, <1>4, <1>5, <1>6, <1>7, <1>8, <1>9, <1>10, <1>11, <1>12,
        <1>13 DEF Next

\* The fields of the two drivers, and TCPM's side of them.
LEMMA DriverStep == TypeOK /\ [Next]_vars => DriverOK'
<1> SUFFICES ASSUME TypeOK, [Next]_vars PROVE DriverOK'
  OBVIOUS
<1> USE ThreadsAssumption, ContractsAssumption, RangesAssumption DEF TypeOK, DriverOK,
        LocalsOK, WorldOK, batt, tcpm, AllThreads, OtgGoto, OtgUnlockChg, PumpGoto,
        PollGoto, PollDone, DirectQ4Result, CallConfigure,  ConfigureReturn,
        ConfigureGoto, ConfigureQ4Done, NoConf, NoSeen
<1>1. ASSUME NEW t \in Threads, Configure(t) PROVE DriverOK'
  <2>1. CASE ConfigureLock(t)
    BY <2>1, ThermalStateType DEF ConfigureLock
  <2>2. CASE ConfigureCheck(t)
    BY <2>2, ThermalStateType DEF ConfigureCheck, ConfigureDecide
  <2>3. CASE ConfigureProgram(t)
    <3>1. conf[t].state \in ThermalStates
      OBVIOUS
    <3> QED BY <2>3, <3>1 DEF ConfigureProgram
  <2>4. CASE ConfigureQ4Read(t)
    BY <2>4, ThermalStateType DEF ConfigureQ4Read
  <2>5. CASE ConfigureQ4Write(t)
    BY <2>5, ThermalStateType DEF ConfigureQ4Write
  <2>6. CASE ConfigureInput(t)
    BY <2>6, ThermalStateType DEF ConfigureInput
  <2> QED BY <1>1, <2>1, <2>2, <2>3, <2>4, <2>5, <2>6 DEF Configure
<1>2. ASSUME TcpmContract PROVE DriverOK'
  BY <1>2 DEF TcpmContract
<1>3. ASSUME TcpmServe PROVE DriverOK'
  BY <1>3 DEF TcpmServe, TcpmGrantPps, TcpmGrantFixed, TcpmRefuse
<1>4. ASSUME Contract PROVE DriverOK'
  BY <1>4 DEF Contract, ContractLock, ContractApply, ContractUnlock
<1>5. ASSUME TcpmSource PROVE DriverOK'
  BY <1>5 DEF TcpmSource
<1>6. ASSUME Otg PROVE DriverOK'
  <2>1. CASE OtgLock
    BY <2>1 DEF OtgLock
  <2>2. CASE OtgCheck
    BY <2>2 DEF OtgCheck
  <2>3. CASE OtgLockChg
    BY <2>3 DEF OtgLockChg
  <2>4. CASE OtgPath
    BY <2>4 DEF OtgPath
  <2>5. CASE OtgQ4Read
    BY <2>5 DEF OtgQ4Read
  <2>6. CASE OtgQ4Write
    BY <2>6 DEF OtgQ4Write
  <2>7. CASE OtgBoost
    BY <2>7 DEF OtgBoost
  <2>8. CASE OtgPublish
    BY <2>8 DEF OtgPublish
  <2>9. CASE OtgUndo
    BY <2>9 DEF OtgUndo
  <2>10. CASE OtgOff
    BY <2>10 DEF OtgOff
  <2>11. CASE OtgClear
    BY <2>11 DEF OtgClear
  <2>12. CASE OtgRelease
    BY <2>12 DEF OtgRelease
  <2>13. CASE OtgUnlock
    BY <2>13 DEF OtgUnlock
  <2> QED BY <1>6, <2>1, <2>2, <2>3, <2>4, <2>5, <2>6, <2>7, <2>8, <2>9, <2>10, <2>11,
         <2>12, <2>13 DEF Otg
<1>7. ASSUME PumpStart PROVE DriverOK'
  BY <1>7 DEF PumpStart
<1>8. ASSUME PumpStop PROVE DriverOK'
  BY <1>8 DEF PumpStop
<1>9. ASSUME Pump PROVE DriverOK'
  <2>1. CASE PumpInit
    BY <2>1 DEF PumpInit
  <2>2. CASE PumpWait
    BY <2>2 DEF PumpWait
  <2>3. CASE PumpSettle
    BY <2>3 DEF PumpSettle
  <2>4. CASE PumpOn
    BY <2>4 DEF PumpOn
  <2>5. CASE PumpCheck
    BY <2>5 DEF PumpCheck
  <2>6. CASE RestoreOff
    BY <2>6 DEF RestoreOff
  <2>7. CASE RestoreWait
    BY <2>7 DEF RestoreWait
  <2>8. CASE DirectLock
    BY <2>8 DEF DirectLock
  <2>9. CASE DirectClaim
    BY <2>9 DEF DirectClaim
  <2>10. CASE DirectLockChg
    BY <2>10 DEF DirectLockChg
  <2>11. CASE DirectQ4Read
    BY <2>11 DEF DirectQ4Read
  <2>12. CASE DirectQ4Write
    BY <2>12 DEF DirectQ4Write
  <2>13. CASE DirectRelease
    BY <2>13 DEF DirectRelease
  <2>14. CASE DirectOnline
    BY <2>14 DEF DirectOnline
  <2>15. CASE DirectUnlock
    BY <2>15 DEF DirectUnlock
  <2> QED BY <1>9, <2>1, <2>2, <2>3, <2>4, <2>5, <2>6, <2>7, <2>8, <2>9, <2>10, <2>11,
         <2>12, <2>13, <2>14, <2>15 DEF Pump, Direct
<1>10. ASSUME Poll PROVE DriverOK'
  <2>1. CASE PollStatus
    BY <2>1, ThermalStateType DEF PollStatus, PollReadsStatus
  <2>2. CASE PollOnline
    BY <2>2, ThermalStateType DEF PollOnline
  <2>3. CASE PollTemp
    <3>a. temp \in Int /\ thermal_state \in ThermalStates
      OBVIOUS
    <3>b. ChargeThermalState(thermal_state, temp) \in ThermalStates
      BY <3>a, ThermalStateType
    <3>1. thermal_state' \in ThermalStates
      BY <2>3, <3>a, <3>b DEF PollTemp
    <3>2. UNCHANGED <<typec_mv, typec_ma, direct_charging, otg_active, fast_charge, last_online,
                      active, role, req>>
      BY <2>3 DEF PollTemp
    <3> QED BY <3>1, <3>2
  <2>4. CASE PollCompare
    BY <2>4, ThermalStateType DEF PollCompare
  <2>5. CASE PollAgain
    BY <2>5, ThermalStateType DEF PollAgain, PollReadsStatus
  <2>6. CASE PollRecover
    BY <2>6, ThermalStateType DEF PollRecover
  <2>7. CASE PollEdge
    BY <2>7, ThermalStateType DEF PollEdge
  <2>8. CASE PollQ4Read
    BY <2>8, ThermalStateType DEF PollQ4Read
  <2>9. CASE PollQ4Write
    BY <2>9, ThermalStateType DEF PollQ4Write
  <2>10. CASE PollRead
    BY <2>10, ThermalStateType DEF PollRead
  <2> QED BY <1>10, <2>1, <2>2, <2>3, <2>4, <2>5, <2>6, <2>7, <2>8, <2>9, <2>10 DEF Poll
<1>11. ASSUME UserToggle PROVE DriverOK'
  BY <1>11 DEF UserToggle
<1>12. ASSUME Environment PROVE DriverOK'
  BY <1>12 DEF Environment, Plug, Unplug, SourceCollapse, Heat
<1>13. CASE UNCHANGED vars
  BY <1>13 DEF vars, hw, world, batt, tcpm, locks, locals
<1> QED BY <1>1, <1>2, <1>3, <1>4, <1>5, <1>6, <1>7, <1>8, <1>9, <1>10, <1>11, <1>12,
        <1>13 DEF Next

\* What a context carries between its steps.
LEMMA LocalsStep == TypeOK /\ [Next]_vars => LocalsOK'
<1> SUFFICES ASSUME TypeOK, [Next]_vars PROVE LocalsOK'
  OBVIOUS
<1> USE ThreadsAssumption, ContractsAssumption, RangesAssumption DEF TypeOK, LocalsOK,
        DriverOK, WorldOK, locals, AllThreads, OtgGoto, OtgUnlockChg, PumpGoto,
        PollGoto, PollDone, DirectQ4Result, CallConfigure,  ConfigureReturn,
        ConfigureGoto, ConfigureQ4Done, NoConf, NoSeen
<1>1. ASSUME NEW t \in Threads, Configure(t) PROVE LocalsOK'
  <2>1. CASE ConfigureLock(t)
    BY <2>1, ThermalStateType, CurrentsType DEF ConfigureLock, ThermalStates
  <2>2. CASE ConfigureCheck(t)
    BY <2>2, ThermalStateType, CurrentsType DEF ConfigureCheck, ConfigureDecide, ThermalStates
  <2>3. CASE ConfigureProgram(t)
    BY <2>3, ThermalStateType, CurrentsType DEF ConfigureProgram, ThermalStates
  <2>4. CASE ConfigureQ4Read(t)
    BY <2>4, ThermalStateType, CurrentsType DEF ConfigureQ4Read, ThermalStates
  <2>5. CASE ConfigureQ4Write(t)
    BY <2>5, ThermalStateType, CurrentsType DEF ConfigureQ4Write, ThermalStates
  <2>6. CASE ConfigureInput(t)
    BY <2>6, ThermalStateType, CurrentsType DEF ConfigureInput, ThermalStates
  <2> QED BY <1>1, <2>1, <2>2, <2>3, <2>4, <2>5, <2>6 DEF Configure
<1>2. ASSUME TcpmContract PROVE LocalsOK'
  BY <1>2 DEF TcpmContract
<1>3. ASSUME TcpmServe PROVE LocalsOK'
  <2>1. CASE TcpmGrantPps
    BY <2>1, ZenonT(40) DEF TcpmGrantPps
  <2>2. CASE TcpmGrantFixed
    BY <2>2, ZenonT(40) DEF TcpmGrantFixed
  <2>3. CASE TcpmRefuse
    BY <2>3 DEF TcpmRefuse
  <2> QED BY <1>3, <2>1, <2>2, <2>3 DEF TcpmServe
<1>4. ASSUME Contract PROVE LocalsOK'
  <2>1. CASE ContractLock
    BY <2>1 DEF ContractLock
  <2>2. CASE ContractApply
    BY <2>2 DEF ContractApply
  <2>3. CASE ContractUnlock
    BY <2>3 DEF ContractUnlock
  <2> QED BY <1>4, <2>1, <2>2, <2>3 DEF Contract
<1>5. ASSUME TcpmSource PROVE LocalsOK'
  BY <1>5 DEF TcpmSource
<1>6. ASSUME Otg PROVE LocalsOK'
  BY <1>6 DEF Otg, OtgLock, OtgCheck, OtgLockChg, OtgPath, OtgQ4Read, OtgQ4Write,
         OtgBoost, OtgPublish, OtgUndo, OtgOff, OtgClear, OtgRelease, OtgUnlock
<1>7. ASSUME PumpStart PROVE LocalsOK'
  BY <1>7 DEF PumpStart
<1>8. ASSUME PumpStop PROVE LocalsOK'
  BY <1>8 DEF PumpStop
<1>9. ASSUME Pump PROVE LocalsOK'
  BY <1>9 DEF Pump, PumpInit, PumpWait, PumpSettle, PumpOn, PumpCheck, RestoreOff,
         RestoreWait, Direct, DirectLock, DirectClaim, DirectLockChg, DirectQ4Read,
         DirectQ4Write, DirectRelease, DirectOnline, DirectUnlock
<1>10. ASSUME Poll PROVE LocalsOK'
  <2>1. CASE PollStatus
    BY <2>1 DEF PollStatus, PollReadsStatus, Status, ThermalStates
  <2>2. CASE PollOnline
    <3>1. Online \in BOOLEAN
      BY DEF Online, OnlineRaw
    <3>2. thermal_state \in ThermalStates
      OBVIOUS
    <3>3. seen.status \in {"DISCHARGING", "CHARGING", "NOT_CHARGING"}
      OBVIOUS
    <3>4. ASSUME NEW o \in BOOLEAN,
                 seen' = [status |-> seen.status, online |-> o, state |-> thermal_state]
          PROVE  LocalsOK' \/ ~UNCHANGED <<arg, conf>>
      BY <3>2, <3>3, <3>4
    <3>5. CASE seen' = NoSeen
      BY <2>2, <3>5 DEF PollOnline, ThermalStates
    <3> QED BY <2>2, <3>1, <3>4, <3>5 DEF PollOnline
  <2>3. CASE PollTemp
    BY <2>3 DEF PollTemp, Status, ThermalStates
  <2>4. CASE PollCompare
    BY <2>4 DEF PollCompare, Status, ThermalStates
  <2>5. CASE PollAgain
    BY <2>5 DEF PollAgain, PollReadsStatus, Status, ThermalStates
  <2>6. CASE PollRecover
    BY <2>6 DEF PollRecover, Status, ThermalStates
  <2>7. CASE PollEdge
    BY <2>7 DEF PollEdge, Status, ThermalStates
  <2>8. CASE PollQ4Read
    BY <2>8 DEF PollQ4Read, Status, ThermalStates
  <2>9. CASE PollQ4Write
    BY <2>9 DEF PollQ4Write, Status, ThermalStates
  <2>10. CASE PollRead
    BY <2>10 DEF PollRead, Status, ThermalStates
  <2> QED BY <1>10, <2>1, <2>2, <2>3, <2>4, <2>5, <2>6, <2>7, <2>8, <2>9, <2>10 DEF Poll
<1>11. ASSUME UserToggle PROVE LocalsOK'
  BY <1>11 DEF UserToggle
<1>12. ASSUME Environment PROVE LocalsOK'
  BY <1>12 DEF Environment, Plug, Unplug, SourceCollapse, Heat
<1>13. CASE UNCHANGED vars
  BY <1>13 DEF vars, hw, world, batt, tcpm, locks, locals
<1> QED BY <1>1, <1>2, <1>3, <1>4, <1>5, <1>6, <1>7, <1>8, <1>9, <1>10, <1>11, <1>12,
        <1>13 DEF Next

\* The owners of the two mutexes.
LEMMA LocksStep == TypeOK /\ [Next]_vars => LocksOK'
<1> SUFFICES ASSUME TypeOK, [Next]_vars PROVE LocksOK'
  OBVIOUS
<1> USE ThreadsAssumption, ContractsAssumption, RangesAssumption DEF TypeOK, LocksOK,
        locks, Acquire, AllThreads, OtgGoto, OtgUnlockChg, PumpGoto, PollGoto,
        PollDone, DirectQ4Result, CallConfigure,  ConfigureReturn, ConfigureGoto,
        ConfigureQ4Done, NoConf, NoSeen
<1>1. ASSUME NEW t \in Threads, Configure(t) PROVE LocksOK'
  BY <1>1 DEF Configure, ConfigureLock, ConfigureCheck, ConfigureDecide, ConfigureProgram,
         ConfigureQ4Read, ConfigureQ4Write, ConfigureInput
<1>2. ASSUME TcpmContract PROVE LocksOK'
  BY <1>2 DEF TcpmContract
<1>3. ASSUME TcpmServe PROVE LocksOK'
  BY <1>3 DEF TcpmServe, TcpmGrantPps, TcpmGrantFixed, TcpmRefuse
<1>4. ASSUME Contract PROVE LocksOK'
  BY <1>4 DEF Contract, ContractLock, ContractApply, ContractUnlock
<1>5. ASSUME TcpmSource PROVE LocksOK'
  BY <1>5 DEF TcpmSource
<1>6. ASSUME Otg PROVE LocksOK'
  BY <1>6 DEF Otg, OtgLock, OtgCheck, OtgLockChg, OtgPath, OtgQ4Read, OtgQ4Write,
         OtgBoost, OtgPublish, OtgUndo, OtgOff, OtgClear, OtgRelease, OtgUnlock
<1>7. ASSUME PumpStart PROVE LocksOK'
  BY <1>7 DEF PumpStart
<1>8. ASSUME PumpStop PROVE LocksOK'
  BY <1>8 DEF PumpStop
<1>9. ASSUME Pump PROVE LocksOK'
  <2>1. CASE PumpInit
    BY <2>1 DEF PumpInit
  <2>2. CASE PumpWait
    BY <2>2 DEF PumpWait
  <2>3. CASE PumpSettle
    BY <2>3 DEF PumpSettle
  <2>4. CASE PumpOn
    BY <2>4 DEF PumpOn
  <2>5. CASE PumpCheck
    BY <2>5 DEF PumpCheck
  <2>6. CASE RestoreOff
    BY <2>6 DEF RestoreOff
  <2>7. CASE RestoreWait
    BY <2>7 DEF RestoreWait
  <2>8. CASE DirectLock
    BY <2>8 DEF DirectLock
  <2>9. CASE DirectClaim
    BY <2>9 DEF DirectClaim
  <2>10. CASE DirectLockChg
    BY <2>10 DEF DirectLockChg
  <2>11. CASE DirectQ4Read
    BY <2>11 DEF DirectQ4Read
  <2>12. CASE DirectQ4Write
    BY <2>12 DEF DirectQ4Write
  <2>13. CASE DirectRelease
    BY <2>13 DEF DirectRelease
  <2>14. CASE DirectOnline
    BY <2>14 DEF DirectOnline
  <2>15. CASE DirectUnlock
    BY <2>15 DEF DirectUnlock
  <2> QED BY <1>9, <2>1, <2>2, <2>3, <2>4, <2>5, <2>6, <2>7, <2>8, <2>9, <2>10, <2>11,
         <2>12, <2>13, <2>14, <2>15 DEF Pump, Direct
<1>10. ASSUME Poll PROVE LocksOK'
  BY <1>10 DEF Poll, PollReadsStatus, PollStatus, PollOnline, PollTemp, PollCompare, PollAgain,
         PollRecover, PollRead, PollEdge, PollQ4Read, PollQ4Write
<1>11. ASSUME UserToggle PROVE LocksOK'
  BY <1>11 DEF UserToggle
<1>12. ASSUME Environment PROVE LocksOK'
  BY <1>12 DEF Environment, Plug, Unplug, SourceCollapse, Heat
<1>13. CASE UNCHANGED vars
  BY <1>13 DEF vars, hw, world, batt, tcpm, locks, locals
<1> QED BY <1>1, <1>2, <1>3, <1>4, <1>5, <1>6, <1>7, <1>8, <1>9, <1>10, <1>11, <1>12,
        <1>13 DEF Next

\* Every program counter stays in the code of its thread.
LEMMA ControlStep == TypeOK /\ [Next]_vars => ControlOK'
<1> SUFFICES ASSUME TypeOK, [Next]_vars PROVE ControlOK'
  OBVIOUS
<1> USE ThreadsAssumption, ContractsAssumption, RangesAssumption DEF TypeOK, ControlOK,
        locals, Goto, At, Idle, TcpmPc, PumpPc, PollPc, ConfigurePc, ReturnPc,
        AllThreads, OtgGoto, OtgUnlockChg, PumpGoto, PollGoto, PollDone,
        DirectQ4Result, CallConfigure,  ConfigureReturn, ConfigureGoto,
        ConfigureQ4Done, NoConf, NoSeen
<1>1. ASSUME NEW t \in Threads, Configure(t) PROVE ControlOK'
  BY <1>1 DEF Configure, ConfigureLock, ConfigureCheck, ConfigureDecide, ConfigureProgram,
         ConfigureQ4Read, ConfigureQ4Write, ConfigureInput
<1>2. ASSUME TcpmContract PROVE ControlOK'
  BY <1>2 DEF TcpmContract
<1>3. ASSUME TcpmServe PROVE ControlOK'
  <2>1. CASE TcpmGrantPps
    BY <2>1 DEF TcpmGrantPps
  <2>2. CASE TcpmGrantFixed
    BY <2>2 DEF TcpmGrantFixed
  <2>3. CASE TcpmRefuse
    BY <2>3 DEF TcpmRefuse
  <2> QED BY <1>3, <2>1, <2>2, <2>3 DEF TcpmServe
<1>4. ASSUME Contract PROVE ControlOK'
  BY <1>4 DEF Contract, ContractLock, ContractApply, ContractUnlock
<1>5. ASSUME TcpmSource PROVE ControlOK'
  BY <1>5 DEF TcpmSource
<1>6. ASSUME Otg PROVE ControlOK'
  <2>1. CASE OtgLock
    BY <2>1 DEF OtgLock
  <2>2. CASE OtgCheck
    BY <2>2 DEF OtgCheck
  <2>3. CASE OtgLockChg
    BY <2>3 DEF OtgLockChg
  <2>4. CASE OtgPath
    BY <2>4 DEF OtgPath
  <2>5. CASE OtgQ4Read
    BY <2>5 DEF OtgQ4Read
  <2>6. CASE OtgQ4Write
    BY <2>6 DEF OtgQ4Write
  <2>7. CASE OtgBoost
    BY <2>7 DEF OtgBoost
  <2>8. CASE OtgPublish
    BY <2>8 DEF OtgPublish
  <2>9. CASE OtgUndo
    BY <2>9 DEF OtgUndo
  <2>10. CASE OtgOff
    BY <2>10 DEF OtgOff
  <2>11. CASE OtgClear
    BY <2>11 DEF OtgClear
  <2>12. CASE OtgRelease
    BY <2>12 DEF OtgRelease
  <2>13. CASE OtgUnlock
    BY <2>13 DEF OtgUnlock
  <2> QED BY <1>6, <2>1, <2>2, <2>3, <2>4, <2>5, <2>6, <2>7, <2>8, <2>9, <2>10, <2>11,
         <2>12, <2>13 DEF Otg
<1>7. ASSUME PumpStart PROVE ControlOK'
  BY <1>7 DEF PumpStart
<1>8. ASSUME PumpStop PROVE ControlOK'
  BY <1>8 DEF PumpStop
<1>9. ASSUME Pump PROVE ControlOK'
  <2>1. CASE PumpInit
    BY <2>1 DEF PumpInit
  <2>2. CASE PumpWait
    BY <2>2 DEF PumpWait
  <2>3. CASE PumpSettle
    BY <2>3 DEF PumpSettle
  <2>4. CASE PumpOn
    BY <2>4 DEF PumpOn
  <2>5. CASE PumpCheck
    BY <2>5 DEF PumpCheck
  <2>6. CASE RestoreOff
    BY <2>6 DEF RestoreOff
  <2>7. CASE RestoreWait
    BY <2>7 DEF RestoreWait
  <2>8. CASE DirectLock
    BY <2>8 DEF DirectLock
  <2>9. CASE DirectClaim
    BY <2>9 DEF DirectClaim
  <2>10. CASE DirectLockChg
    BY <2>10 DEF DirectLockChg
  <2>11. CASE DirectQ4Read
    BY <2>11 DEF DirectQ4Read
  <2>12. CASE DirectQ4Write
    BY <2>12 DEF DirectQ4Write
  <2>13. CASE DirectRelease
    BY <2>13 DEF DirectRelease
  <2>14. CASE DirectOnline
    BY <2>14 DEF DirectOnline
  <2>15. CASE DirectUnlock
    BY <2>15 DEF DirectUnlock
  <2> QED BY <1>9, <2>1, <2>2, <2>3, <2>4, <2>5, <2>6, <2>7, <2>8, <2>9, <2>10, <2>11,
         <2>12, <2>13, <2>14, <2>15 DEF Pump, Direct
<1>10. ASSUME Poll PROVE ControlOK'
  BY <1>10 DEF Poll, PollReadsStatus, PollStatus, PollOnline, PollTemp, PollCompare, PollAgain,
         PollRecover, PollRead, PollEdge, PollQ4Read, PollQ4Write
<1>11. ASSUME UserToggle PROVE ControlOK'
  BY <1>11 DEF UserToggle
<1>12. ASSUME Environment PROVE ControlOK'
  BY <1>12 DEF Environment, Plug, Unplug, SourceCollapse, Heat
<1>13. CASE UNCHANGED vars
  BY <1>13 DEF vars, hw, world, batt, tcpm, locks, locals
<1> QED BY <1>1, <1>2, <1>3, <1>4, <1>5, <1>6, <1>7, <1>8, <1>9, <1>10, <1>11, <1>12,
        <1>13 DEF Next

\* probe() leaves a well typed state.
LEMMA TypeInit == Init => TypeOK
<1> SUFFICES ASSUME Init PROVE TypeOK
  OBVIOUS
<1> USE RangesAssumption DEF Init, NoConf, NoSeen, ThermalStates
<1>1. RegistersOK /\ WorldOK /\ DriverOK
  BY DEF RegistersOK, WorldOK, DriverOK
<1>2. LocalsOK /\ LocksOK
  BY DEF LocalsOK, LocksOK, AllThreads, Nobody
<1>3. ControlOK
  BY DEF ControlOK, AllThreads, TcpmPc, PumpPc, PollPc, ConfigurePc, ReturnPc
<1> QED BY <1>1, <1>2, <1>3 DEF TypeOK

\* The six conjuncts of TypeOK, put together.
LEMMA TypeStep == TypeOK /\ [Next]_vars => TypeOK'
BY RegistersStep, WorldStep, DriverStep, LocalsStep, LocksStep, ControlStep DEF TypeOK

\* Every reachable state is well typed.
THEOREM TypeCorrect == Spec => []TypeOK
BY TypeInit, TypeStep, PTL DEF Spec

--------------------------------------------------------------------------------
(* The inductive invariant.                                                 *)

ChgPc == (ConfigurePc \ {"c_lock"})
           \cup {"o_path", "o_q4read", "o_q4write", "o_boost", "o_publish", "o_undo",
                 "o_off", "o_clear", "o_release", "d_q4read", "d_q4write"}
GlobalPc == {"t_ma", "t_unlock", "o_check", "o_chg", "o_path", "o_q4read", "o_q4write",
             "o_boost", "o_publish", "o_undo", "o_off", "o_clear", "o_release",
             "o_restore", "o_unlock", "d_claim", "d_chg", "d_q4read", "d_q4write",
             "d_release", "d_online", "d_unlock"}

\* A context between mutex_lock() and mutex_unlock() is the owner.
ChgLockInv == \A t \in AllThreads : pc[t] \in ChgPc => chg_lock = t
GlobalLockInv ==
  \A t \in AllThreads :
    (pc[t] \in GlobalPc \/ (pc[t] \in ConfigurePc /\ after[t] \in {"t_unlock", "d_unlock"}))
       => global_lock = t

\* Under chg_lock the boost is either published or still being published, and
\* whoever is past the check of configure_charging() runs without it.
BoostInv ==
  /\ boost => otg_active \/ pc["tcpm"] = "o_publish"
  /\ pc["tcpm"] = "o_clear" => ~boost
  /\ pc["tcpm"] \in {"o_boost", "o_publish"} => ~enq4fet
  /\ \A t \in AllThreads :
       pc[t] \in ConfigurePc \ {"c_lock", "c_check"} => ~otg_active /\ ~boost
  /\ BoostIsolated

\* set_otg(true) holds the host path from muic_set_otg_path() to publication.
HostInv ==
  /\ pc["tcpm"] = "o_chg" /\ arg.otg => ~otg_active
  /\ pc["tcpm"] \in {"o_path", "o_q4read", "o_q4write", "o_boost", "o_publish",
                     "o_undo", "o_release"} => ~otg_active
  /\ pc["tcpm"] \in {"o_q4read", "o_q4write", "o_boost", "o_publish"} => muic
  /\ HostPathFirst

\* The contract callback programs the charger only while the pump is not the
\* owner, and the pump's own call of configure_charging() comes back to it.
PumpInv ==
  /\ pc["tcpm"] \in ConfigurePc /\ after["tcpm"] = "t_unlock" => ~direct_charging
  /\ pc["pump"] \in ConfigurePc => after["pump"] = "d_unlock"
  /\ PumpReleased

\* From the test of direct_charging to the boost the global lock is held, and the
\* pump cannot put its claim up; the pump opens Q4 under a claim it has put up.
ClaimInv ==
  /\ pc["tcpm"] = "o_chg" /\ arg.otg => ~direct_charging
  /\ pc["tcpm"] \in {"o_path", "o_q4read", "o_q4write", "o_boost"} => ~direct_charging
  /\ pc["pump"] \in {"d_chg", "d_q4read", "d_q4write"} => direct_charging

\* chg_lock has one holder.
LEMMA ChgLockStep == TypeOK /\ ChgLockInv /\ [Next]_vars => ChgLockInv'
<1> SUFFICES ASSUME TypeOK, ChgLockInv, [Next]_vars PROVE ChgLockInv'
  OBVIOUS
<1> USE ThreadsAssumption DEF TypeOK, ControlOK, LocksOK, AllThreads, Nobody,
        ChgLockInv, ChgPc, ConfigurePc, Acquire, locks, Goto, At, Idle, OtgGoto,
        OtgUnlockChg, PumpGoto, PollGoto, PollDone, DirectQ4Result, CallConfigure,
        ConfigureReturn, ConfigureGoto, ConfigureQ4Done
<1>1. ASSUME NEW u \in Threads, Configure(u) PROVE ChgLockInv'
  <2>1. CASE ConfigureLock(u)
    BY <2>1 DEF ConfigureLock
  <2>2. CASE ConfigureCheck(u)
    BY <2>2 DEF ConfigureCheck, ConfigureDecide
  <2>3. CASE ConfigureProgram(u)
    BY <2>3 DEF ConfigureProgram
  <2>4. CASE ConfigureQ4Read(u)
    BY <2>4 DEF ConfigureQ4Read
  <2>5. CASE ConfigureQ4Write(u)
    BY <2>5 DEF ConfigureQ4Write
  <2>6. CASE ConfigureInput(u)
    BY <2>6 DEF ConfigureInput
  <2> QED BY <1>1, <2>1, <2>2, <2>3, <2>4, <2>5, <2>6 DEF Configure
<1>2. ASSUME TcpmContract PROVE ChgLockInv'
  BY <1>2 DEF TcpmContract
<1>3. ASSUME TcpmServe PROVE ChgLockInv'
  <2>1. CASE TcpmGrantPps
    BY <2>1 DEF TcpmGrantPps
  <2>2. CASE TcpmGrantFixed
    BY <2>2 DEF TcpmGrantFixed
  <2>3. CASE TcpmRefuse
    BY <2>3 DEF TcpmRefuse
  <2> QED BY <1>3, <2>1, <2>2, <2>3 DEF TcpmServe
<1>4. ASSUME Contract PROVE ChgLockInv'
  BY <1>4 DEF Contract, ContractLock, ContractApply, ContractUnlock
<1>5. ASSUME TcpmSource PROVE ChgLockInv'
  BY <1>5 DEF TcpmSource
<1>6. ASSUME Otg PROVE ChgLockInv'
  <2>1. CASE OtgLock
    BY <2>1 DEF OtgLock
  <2>2. CASE OtgCheck
    BY <2>2 DEF OtgCheck
  <2>3. CASE OtgLockChg
    BY <2>3 DEF OtgLockChg
  <2>4. CASE OtgPath
    BY <2>4 DEF OtgPath
  <2>5. CASE OtgQ4Read
    BY <2>5 DEF OtgQ4Read
  <2>6. CASE OtgQ4Write
    BY <2>6 DEF OtgQ4Write
  <2>7. CASE OtgBoost
    BY <2>7 DEF OtgBoost
  <2>8. CASE OtgPublish
    BY <2>8 DEF OtgPublish
  <2>9. CASE OtgUndo
    BY <2>9 DEF OtgUndo
  <2>10. CASE OtgOff
    BY <2>10 DEF OtgOff
  <2>11. CASE OtgClear
    BY <2>11 DEF OtgClear
  <2>12. CASE OtgRelease
    BY <2>12 DEF OtgRelease
  <2>13. CASE OtgUnlock
    BY <2>13 DEF OtgUnlock
  <2> QED BY <1>6, <2>1, <2>2, <2>3, <2>4, <2>5, <2>6, <2>7, <2>8, <2>9, <2>10, <2>11,
           <2>12, <2>13 DEF Otg
<1>7. ASSUME PumpStart PROVE ChgLockInv'
  BY <1>7 DEF PumpStart
<1>8. ASSUME PumpStop PROVE ChgLockInv'
  BY <1>8 DEF PumpStop
<1>9. ASSUME Pump PROVE ChgLockInv'
  BY <1>9 DEF Pump, PumpInit, PumpWait, PumpSettle, PumpOn, PumpCheck, RestoreOff,
         RestoreWait, Direct, DirectLock, DirectClaim, DirectLockChg, DirectQ4Read,
         DirectQ4Write, DirectRelease, DirectOnline, DirectUnlock
<1>10. ASSUME Poll PROVE ChgLockInv'
  BY <1>10 DEF Poll, PollReadsStatus, PollStatus, PollOnline, PollTemp, PollCompare, PollAgain,
         PollRecover, PollRead, PollEdge, PollQ4Read, PollQ4Write
<1>11. ASSUME UserToggle PROVE ChgLockInv'
  BY <1>11 DEF UserToggle
<1>12. ASSUME Environment PROVE ChgLockInv'
  BY <1>12 DEF Environment, Plug, Unplug, SourceCollapse, Heat
<1>13. CASE UNCHANGED vars
  BY <1>13 DEF vars, hw, world, batt, tcpm, locks, locals
<1> QED BY <1>1, <1>2, <1>3, <1>4, <1>5, <1>6, <1>7, <1>8, <1>9, <1>10, <1>11, <1>12,
        <1>13 DEF Next

\* global_lock has one holder.
LEMMA GlobalLockStep == TypeOK /\ GlobalLockInv /\ [Next]_vars => GlobalLockInv'
<1> SUFFICES ASSUME TypeOK, GlobalLockInv, [Next]_vars PROVE GlobalLockInv'
  OBVIOUS
<1> USE ThreadsAssumption DEF TypeOK, ControlOK, LocksOK, AllThreads, Nobody,
        GlobalLockInv, GlobalPc, ConfigurePc, Acquire, locals, locks, Goto, At, Idle,
        OtgGoto, OtgUnlockChg, PumpGoto, PollGoto, PollDone, DirectQ4Result,
        CallConfigure, ConfigureReturn, ConfigureGoto, ConfigureQ4Done
<1>1. ASSUME NEW u \in Threads, Configure(u) PROVE GlobalLockInv'
  BY <1>1 DEF Configure, ConfigureLock, ConfigureCheck, ConfigureDecide, ConfigureProgram,
         ConfigureQ4Read, ConfigureQ4Write, ConfigureInput
<1>2. ASSUME TcpmContract PROVE GlobalLockInv'
  BY <1>2 DEF TcpmContract
<1>3. ASSUME TcpmServe PROVE GlobalLockInv'
  <2>1. CASE TcpmGrantPps
    BY <2>1 DEF TcpmGrantPps
  <2>2. CASE TcpmGrantFixed
    BY <2>2 DEF TcpmGrantFixed
  <2>3. CASE TcpmRefuse
    BY <2>3 DEF TcpmRefuse
  <2> QED BY <1>3, <2>1, <2>2, <2>3 DEF TcpmServe
<1>4. ASSUME Contract PROVE GlobalLockInv'
  BY <1>4 DEF Contract, ContractLock, ContractApply, ContractUnlock
<1>5. ASSUME TcpmSource PROVE GlobalLockInv'
  BY <1>5 DEF TcpmSource
<1>6. ASSUME Otg PROVE GlobalLockInv'
  BY <1>6 DEF Otg, OtgLock, OtgCheck, OtgLockChg, OtgPath, OtgQ4Read, OtgQ4Write,
         OtgBoost, OtgPublish, OtgUndo, OtgOff, OtgClear, OtgRelease, OtgUnlock
<1>7. ASSUME PumpStart PROVE GlobalLockInv'
  BY <1>7 DEF PumpStart
<1>8. ASSUME PumpStop PROVE GlobalLockInv'
  BY <1>8 DEF PumpStop
<1>9. ASSUME Pump PROVE GlobalLockInv'
  BY <1>9 DEF Pump, PumpInit, PumpWait, PumpSettle, PumpOn, PumpCheck, RestoreOff,
         RestoreWait, Direct, DirectLock, DirectClaim, DirectLockChg, DirectQ4Read,
         DirectQ4Write, DirectRelease, DirectOnline, DirectUnlock
<1>10. ASSUME Poll PROVE GlobalLockInv'
  BY <1>10 DEF Poll, PollReadsStatus, PollStatus, PollOnline, PollTemp, PollCompare, PollAgain,
         PollRecover, PollRead, PollEdge, PollQ4Read, PollQ4Write
<1>11. ASSUME UserToggle PROVE GlobalLockInv'
  BY <1>11 DEF UserToggle
<1>12. ASSUME Environment PROVE GlobalLockInv'
  BY <1>12 DEF Environment, Plug, Unplug, SourceCollapse, Heat
<1>13. CASE UNCHANGED vars
  BY <1>13 DEF vars, hw, world, batt, tcpm, locks, locals
<1> QED BY <1>1, <1>2, <1>3, <1>4, <1>5, <1>6, <1>7, <1>8, <1>9, <1>10, <1>11, <1>12,
        <1>13 DEF Next

\* The boost stays isolated.
LEMMA BoostStep == TypeOK /\ ChgLockInv /\ BoostInv /\ [Next]_vars => BoostInv'
<1> SUFFICES ASSUME TypeOK, ChgLockInv, BoostInv, [Next]_vars PROVE BoostInv'
  OBVIOUS
<1> USE ThreadsAssumption DEF TypeOK, ControlOK, RegistersOK, AllThreads, ChgLockInv,
        ChgPc, BoostInv, BoostIsolated, ConfigurePc, hw, batt, locks, Goto, At, Idle,
        OtgGoto, OtgUnlockChg, PumpGoto, PollGoto, PollDone, DirectQ4Result,
        CallConfigure, ConfigureReturn, ConfigureGoto, ConfigureQ4Done
<1>1. ASSUME NEW u \in Threads, Configure(u) PROVE BoostInv'
  <2>1. CASE ConfigureLock(u)
    BY <2>1 DEF ConfigureLock
  <2>2. CASE ConfigureCheck(u)
    BY <2>2 DEF ConfigureCheck, ConfigureDecide
  <2>3. CASE ConfigureProgram(u)
    BY <2>3 DEF ConfigureProgram
  <2>4. CASE ConfigureQ4Read(u)
    BY <2>4 DEF ConfigureQ4Read
  <2>5. CASE ConfigureQ4Write(u)
    BY <2>5 DEF ConfigureQ4Write
  <2>6. CASE ConfigureInput(u)
    BY <2>6 DEF ConfigureInput
  <2> QED BY <1>1, <2>1, <2>2, <2>3, <2>4, <2>5, <2>6 DEF Configure
<1>2. ASSUME TcpmContract PROVE BoostInv'
  BY <1>2 DEF TcpmContract
<1>3. ASSUME TcpmServe PROVE BoostInv'
  <2>1. CASE TcpmGrantPps
    BY <2>1 DEF TcpmGrantPps
  <2>2. CASE TcpmGrantFixed
    BY <2>2 DEF TcpmGrantFixed
  <2>3. CASE TcpmRefuse
    BY <2>3 DEF TcpmRefuse
  <2> QED BY <1>3, <2>1, <2>2, <2>3 DEF TcpmServe
<1>4. ASSUME Contract PROVE BoostInv'
  BY <1>4 DEF Contract, ContractLock, ContractApply, ContractUnlock
<1>5. ASSUME TcpmSource PROVE BoostInv'
  BY <1>5 DEF TcpmSource
<1>6. ASSUME Otg PROVE BoostInv'
  <2>1. CASE OtgLock
    BY <2>1 DEF OtgLock
  <2>2. CASE OtgCheck
    BY <2>2 DEF OtgCheck
  <2>3. CASE OtgLockChg
    BY <2>3 DEF OtgLockChg
  <2>4. CASE OtgPath
    BY <2>4 DEF OtgPath
  <2>5. CASE OtgQ4Read
    BY <2>5 DEF OtgQ4Read
  <2>6. CASE OtgQ4Write
    BY <2>6 DEF OtgQ4Write
  <2>7. CASE OtgBoost
    BY <2>7 DEF OtgBoost
  <2>8. CASE OtgPublish
    BY <2>8 DEF OtgPublish
  <2>9. CASE OtgUndo
    BY <2>9 DEF OtgUndo
  <2>10. CASE OtgOff
    BY <2>10 DEF OtgOff
  <2>11. CASE OtgClear
    BY <2>11 DEF OtgClear
  <2>12. CASE OtgRelease
    BY <2>12 DEF OtgRelease
  <2>13. CASE OtgUnlock
    BY <2>13 DEF OtgUnlock
  <2> QED BY <1>6, <2>1, <2>2, <2>3, <2>4, <2>5, <2>6, <2>7, <2>8, <2>9, <2>10, <2>11,
           <2>12, <2>13 DEF Otg
<1>7. ASSUME PumpStart PROVE BoostInv'
  BY <1>7 DEF PumpStart
<1>8. ASSUME PumpStop PROVE BoostInv'
  BY <1>8 DEF PumpStop
<1>9. ASSUME Pump PROVE BoostInv'
  BY <1>9 DEF Pump, PumpInit, PumpWait, PumpSettle, PumpOn, PumpCheck, RestoreOff,
         RestoreWait, Direct, DirectLock, DirectClaim, DirectLockChg, DirectQ4Read,
         DirectQ4Write, DirectRelease, DirectOnline, DirectUnlock
<1>10. ASSUME Poll PROVE BoostInv'
  <2>1. CASE PollStatus
    BY <2>1 DEF PollStatus, PollReadsStatus
  <2>2. CASE PollOnline
    BY <2>2 DEF PollOnline
  <2>3. CASE PollTemp
    BY <2>3 DEF PollTemp
  <2>4. CASE PollCompare
    BY <2>4 DEF PollCompare
  <2>5. CASE PollAgain
    BY <2>5 DEF PollAgain, PollReadsStatus
  <2>6. CASE PollRecover
    BY <2>6 DEF PollRecover
  <2>7. CASE PollEdge
    BY <2>7 DEF PollEdge
  <2>8. CASE PollQ4Read
    BY <2>8 DEF PollQ4Read
  <2>9. CASE PollQ4Write
    BY <2>9 DEF PollQ4Write
  <2>10. CASE PollRead
    BY <2>10 DEF PollRead
  <2> QED BY <1>10, <2>1, <2>2, <2>3, <2>4, <2>5, <2>6, <2>7, <2>8, <2>9, <2>10 DEF Poll
<1>11. ASSUME UserToggle PROVE BoostInv'
  BY <1>11 DEF UserToggle
<1>12. ASSUME Environment PROVE BoostInv'
  BY <1>12 DEF Environment, Plug, Unplug, SourceCollapse, Heat
<1>13. CASE UNCHANGED vars
  BY <1>13 DEF vars, hw, world, batt, tcpm, locks, locals
<1> QED BY <1>1, <1>2, <1>3, <1>4, <1>5, <1>6, <1>7, <1>8, <1>9, <1>10, <1>11, <1>12,
        <1>13 DEF Next

\* The host path stays behind the boost.
LEMMA HostStep == TypeOK /\ HostInv /\ [Next]_vars => HostInv'
<1> SUFFICES ASSUME TypeOK, HostInv, [Next]_vars PROVE HostInv'
  OBVIOUS
<1> USE ThreadsAssumption DEF TypeOK, ControlOK, LocalsOK, AllThreads, HostInv,
        HostPathFirst, hw, batt, locals, locks, Goto, At, Idle, OtgGoto,
        OtgUnlockChg, PumpGoto, PollGoto, PollDone, DirectQ4Result, CallConfigure,
        ConfigureReturn, ConfigureGoto, ConfigureQ4Done
<1>1. ASSUME NEW u \in Threads, Configure(u) PROVE HostInv'
  BY <1>1 DEF Configure, ConfigureLock, ConfigureCheck, ConfigureDecide, ConfigureProgram,
         ConfigureQ4Read, ConfigureQ4Write, ConfigureInput
<1>2. ASSUME TcpmContract PROVE HostInv'
  BY <1>2 DEF TcpmContract
<1>3. ASSUME TcpmServe PROVE HostInv'
  <2>1. CASE TcpmGrantPps
    BY <2>1 DEF TcpmGrantPps
  <2>2. CASE TcpmGrantFixed
    BY <2>2 DEF TcpmGrantFixed
  <2>3. CASE TcpmRefuse
    BY <2>3 DEF TcpmRefuse
  <2> QED BY <1>3, <2>1, <2>2, <2>3 DEF TcpmServe
<1>4. ASSUME Contract PROVE HostInv'
  BY <1>4 DEF Contract, ContractLock, ContractApply, ContractUnlock
<1>5. ASSUME TcpmSource PROVE HostInv'
  BY <1>5 DEF TcpmSource
<1>6. ASSUME Otg PROVE HostInv'
  <2>1. CASE OtgLock
    BY <2>1 DEF OtgLock
  <2>2. CASE OtgCheck
    BY <2>2 DEF OtgCheck, OtgRefused, DriverOK
  <2>3. CASE OtgLockChg
    BY <2>3 DEF OtgLockChg
  <2>4. CASE OtgPath
    BY <2>4 DEF OtgPath
  <2>5. CASE OtgQ4Read
    BY <2>5 DEF OtgQ4Read
  <2>6. CASE OtgQ4Write
    BY <2>6 DEF OtgQ4Write
  <2>7. CASE OtgBoost
    BY <2>7 DEF OtgBoost
  <2>8. CASE OtgPublish
    BY <2>8 DEF OtgPublish
  <2>9. CASE OtgUndo
    BY <2>9 DEF OtgUndo
  <2>10. CASE OtgOff
    BY <2>10 DEF OtgOff
  <2>11. CASE OtgClear
    BY <2>11 DEF OtgClear
  <2>12. CASE OtgRelease
    BY <2>12 DEF OtgRelease
  <2>13. CASE OtgUnlock
    BY <2>13 DEF OtgUnlock
  <2> QED BY <1>6, <2>1, <2>2, <2>3, <2>4, <2>5, <2>6, <2>7, <2>8, <2>9, <2>10, <2>11,
           <2>12, <2>13 DEF Otg
<1>7. ASSUME PumpStart PROVE HostInv'
  BY <1>7 DEF PumpStart
<1>8. ASSUME PumpStop PROVE HostInv'
  BY <1>8 DEF PumpStop
<1>9. ASSUME Pump PROVE HostInv'
  BY <1>9 DEF Pump, PumpInit, PumpWait, PumpSettle, PumpOn, PumpCheck, RestoreOff,
         RestoreWait, Direct, DirectLock, DirectClaim, DirectLockChg, DirectQ4Read,
         DirectQ4Write, DirectRelease, DirectOnline, DirectUnlock
<1>10. ASSUME Poll PROVE HostInv'
  BY <1>10 DEF Poll, PollReadsStatus, PollStatus, PollOnline, PollTemp, PollCompare, PollAgain,
         PollRecover, PollRead, PollEdge, PollQ4Read, PollQ4Write
<1>11. ASSUME UserToggle PROVE HostInv'
  BY <1>11 DEF UserToggle
<1>12. ASSUME Environment PROVE HostInv'
  BY <1>12 DEF Environment, Plug, Unplug, SourceCollapse, Heat
<1>13. CASE UNCHANGED vars
  BY <1>13 DEF vars, hw, world, batt, tcpm, locks, locals
<1> QED BY <1>1, <1>2, <1>3, <1>4, <1>5, <1>6, <1>7, <1>8, <1>9, <1>10, <1>11, <1>12,
        <1>13 DEF Next

\* The flag of the pump comes down with it.
LEMMA PumpStep == TypeOK /\ GlobalLockInv /\ PumpInv /\ [Next]_vars => PumpInv'
<1> SUFFICES ASSUME TypeOK, GlobalLockInv, PumpInv, [Next]_vars PROVE PumpInv'
  OBVIOUS
<1> USE ThreadsAssumption DEF TypeOK, ControlOK, AllThreads, GlobalLockInv, GlobalPc,
        PumpInv, PumpReleased, ConfigurePc, batt, locals, locks, Goto, At, Idle,
        OtgGoto, OtgUnlockChg, PumpGoto, PollGoto, PollDone, DirectQ4Result,
        CallConfigure, ConfigureReturn, ConfigureGoto, ConfigureQ4Done
<1>1. ASSUME NEW u \in Threads, Configure(u) PROVE PumpInv'
  BY <1>1 DEF Configure, ConfigureLock, ConfigureCheck, ConfigureDecide, ConfigureProgram,
         ConfigureQ4Read, ConfigureQ4Write, ConfigureInput
<1>2. ASSUME TcpmContract PROVE PumpInv'
  BY <1>2 DEF TcpmContract
<1>3. ASSUME TcpmServe PROVE PumpInv'
  <2>1. CASE TcpmGrantPps
    BY <2>1 DEF TcpmGrantPps
  <2>2. CASE TcpmGrantFixed
    BY <2>2 DEF TcpmGrantFixed
  <2>3. CASE TcpmRefuse
    BY <2>3 DEF TcpmRefuse
  <2> QED BY <1>3, <2>1, <2>2, <2>3 DEF TcpmServe
<1>4. ASSUME Contract PROVE PumpInv'
  <2>1. CASE ContractLock
    BY <2>1 DEF ContractLock
  <2>2. CASE ContractApply
    BY <2>2 DEF ContractApply, ContractApplies
  <2>3. CASE ContractUnlock
    BY <2>3 DEF ContractUnlock
  <2> QED BY <1>4, <2>1, <2>2, <2>3 DEF Contract
<1>5. ASSUME TcpmSource PROVE PumpInv'
  BY <1>5 DEF TcpmSource
<1>6. ASSUME Otg PROVE PumpInv'
  BY <1>6 DEF Otg, OtgLock, OtgCheck, OtgLockChg, OtgPath, OtgQ4Read, OtgQ4Write,
         OtgBoost, OtgPublish, OtgUndo, OtgOff, OtgClear, OtgRelease, OtgUnlock
<1>7. ASSUME PumpStart PROVE PumpInv'
  BY <1>7 DEF PumpStart
<1>8. ASSUME PumpStop PROVE PumpInv'
  BY <1>8 DEF PumpStop
<1>9. ASSUME Pump PROVE PumpInv'
  <2>1. CASE PumpInit
    BY <2>1 DEF PumpInit
  <2>2. CASE PumpWait
    BY <2>2 DEF PumpWait
  <2>3. CASE PumpSettle
    BY <2>3 DEF PumpSettle
  <2>4. CASE PumpOn
    BY <2>4 DEF PumpOn
  <2>5. CASE PumpCheck
    BY <2>5 DEF PumpCheck
  <2>6. CASE RestoreOff
    BY <2>6 DEF RestoreOff
  <2>7. CASE RestoreWait
    BY <2>7 DEF RestoreWait
  <2>8. CASE DirectLock
    BY <2>8 DEF DirectLock
  <2>9. CASE DirectClaim
    BY <2>9 DEF DirectClaim
  <2>10. CASE DirectLockChg
    BY <2>10 DEF DirectLockChg
  <2>11. CASE DirectQ4Read
    BY <2>11 DEF DirectQ4Read
  <2>12. CASE DirectQ4Write
    BY <2>12 DEF DirectQ4Write
  <2>13. CASE DirectRelease
    BY <2>13 DEF DirectRelease
  <2>14. CASE DirectOnline
    BY <2>14 DEF DirectOnline
  <2>15. CASE DirectUnlock
    BY <2>15 DEF DirectUnlock
  <2> QED BY <1>9, <2>1, <2>2, <2>3, <2>4, <2>5, <2>6, <2>7, <2>8, <2>9, <2>10, <2>11,
           <2>12, <2>13, <2>14, <2>15 DEF Pump, Direct
<1>10. ASSUME Poll PROVE PumpInv'
  BY <1>10 DEF Poll, PollReadsStatus, PollStatus, PollOnline, PollTemp, PollCompare, PollAgain,
         PollRecover, PollRead, PollEdge, PollQ4Read, PollQ4Write
<1>11. ASSUME UserToggle PROVE PumpInv'
  BY <1>11 DEF UserToggle
<1>12. ASSUME Environment PROVE PumpInv'
  BY <1>12 DEF Environment, Plug, Unplug, SourceCollapse, Heat
<1>13. CASE UNCHANGED vars
  BY <1>13 DEF vars, hw, world, batt, tcpm, locks, locals
<1> QED BY <1>1, <1>2, <1>3, <1>4, <1>5, <1>6, <1>7, <1>8, <1>9, <1>10, <1>11, <1>12,
        <1>13 DEF Next

\* The pump's claim stays down while set_otg(true) is on its way to the boost.
LEMMA ClaimStep == TypeOK /\ GlobalLockInv /\ ClaimInv /\ [Next]_vars => ClaimInv'
<1> SUFFICES ASSUME TypeOK, GlobalLockInv, ClaimInv, [Next]_vars PROVE ClaimInv'
  OBVIOUS
<1> USE ThreadsAssumption DEF TypeOK, ControlOK, AllThreads, GlobalLockInv, GlobalPc,
        ClaimInv, LocalsOK, ConfigurePc, batt, locals, locks, Goto, At, Idle,
        OtgGoto, OtgUnlockChg, PumpGoto, PollGoto, PollDone, DirectQ4Result,
        CallConfigure, ConfigureReturn, ConfigureGoto, ConfigureQ4Done
<1>1. ASSUME NEW u \in Threads, Configure(u) PROVE ClaimInv'
  BY <1>1 DEF Configure, ConfigureLock, ConfigureCheck, ConfigureDecide, ConfigureProgram,
         ConfigureQ4Read, ConfigureQ4Write, ConfigureInput
<1>2. ASSUME TcpmContract PROVE ClaimInv'
  BY <1>2 DEF TcpmContract
<1>3. ASSUME TcpmServe PROVE ClaimInv'
  <2>1. CASE TcpmGrantPps
    BY <2>1 DEF TcpmGrantPps
  <2>2. CASE TcpmGrantFixed
    BY <2>2 DEF TcpmGrantFixed
  <2>3. CASE TcpmRefuse
    BY <2>3 DEF TcpmRefuse
  <2> QED BY <1>3, <2>1, <2>2, <2>3 DEF TcpmServe
<1>4. ASSUME Contract PROVE ClaimInv'
  <2>1. CASE ContractLock
    BY <2>1 DEF ContractLock
  <2>2. CASE ContractApply
    BY <2>2 DEF ContractApply, ContractApplies
  <2>3. CASE ContractUnlock
    BY <2>3 DEF ContractUnlock
  <2> QED BY <1>4, <2>1, <2>2, <2>3 DEF Contract
<1>5. ASSUME TcpmSource PROVE ClaimInv'
  BY <1>5 DEF TcpmSource
<1>6. ASSUME Otg PROVE ClaimInv'
  <2>1. CASE OtgLock
    BY <2>1 DEF OtgLock
  <2>2. CASE OtgCheck
    BY <2>2 DEF OtgCheck, OtgRefused, DriverOK
  <2>3. CASE OtgLockChg
    BY <2>3 DEF OtgLockChg
  <2>4. CASE OtgPath
    BY <2>4 DEF OtgPath
  <2>5. CASE OtgQ4Read
    BY <2>5 DEF OtgQ4Read
  <2>6. CASE OtgQ4Write
    BY <2>6 DEF OtgQ4Write
  <2>7. CASE OtgBoost
    BY <2>7 DEF OtgBoost
  <2>8. CASE OtgPublish
    BY <2>8 DEF OtgPublish
  <2>9. CASE OtgUndo
    BY <2>9 DEF OtgUndo
  <2>10. CASE OtgOff
    BY <2>10 DEF OtgOff
  <2>11. CASE OtgClear
    BY <2>11 DEF OtgClear
  <2>12. CASE OtgRelease
    BY <2>12 DEF OtgRelease
  <2>13. CASE OtgUnlock
    BY <2>13 DEF OtgUnlock
  <2> QED BY <1>6, <2>1, <2>2, <2>3, <2>4, <2>5, <2>6, <2>7, <2>8, <2>9, <2>10, <2>11,
           <2>12, <2>13 DEF Otg
<1>7. ASSUME PumpStart PROVE ClaimInv'
  BY <1>7 DEF PumpStart
<1>8. ASSUME PumpStop PROVE ClaimInv'
  BY <1>8 DEF PumpStop
<1>9. ASSUME Pump PROVE ClaimInv'
  <2>1. CASE PumpInit
    BY <2>1 DEF PumpInit
  <2>2. CASE PumpWait
    BY <2>2 DEF PumpWait
  <2>3. CASE PumpSettle
    BY <2>3 DEF PumpSettle
  <2>4. CASE PumpOn
    BY <2>4 DEF PumpOn
  <2>5. CASE PumpCheck
    BY <2>5 DEF PumpCheck
  <2>6. CASE RestoreOff
    BY <2>6 DEF RestoreOff
  <2>7. CASE RestoreWait
    BY <2>7 DEF RestoreWait
  <2>8. CASE DirectLock
    BY <2>8, SMTT(40) DEF DirectLock
  <2>9. CASE DirectClaim
    <3>1. pc["pump"] = "d_claim" /\ pc["tcpm"] \notin GlobalPc
      BY <2>9 DEF DirectClaim
    <3>2. CASE pc' = [pc EXCEPT !["pump"] = "d_chg"] /\ arg' = arg /\ direct_charging' = TRUE
      BY <3>1, <3>2
    <3>3. CASE pc' = [pc EXCEPT !["pump"] = "d_unlock"] /\ arg' = arg /\ direct_charging' = FALSE
      BY <3>1, <3>3
    <3> QED BY <2>9, <3>2, <3>3, ZenonT(40) DEF DirectClaim
  <2>10. CASE DirectLockChg
    BY <2>10 DEF DirectLockChg
  <2>11. CASE DirectQ4Read
    <3>1. pc["pump"] = "d_q4read" /\ pc["tcpm"] \notin GlobalPc
      BY <2>11 DEF DirectQ4Read
    <3>2. CASE /\ pc' = [pc EXCEPT !["pump"] = "d_q4write"] /\ arg' = arg
               /\ UNCHANGED direct_charging
      BY <3>1, <3>2
    <3>3. CASE pc' = [pc EXCEPT !["pump"] = "d_unlock"] /\ arg' = arg
      BY <3>1, <3>3
    <3> QED BY <2>11, <3>2, <3>3 DEF DirectQ4Read
  <2>12. CASE DirectQ4Write
    BY <2>12 DEF DirectQ4Write
  <2>13. CASE DirectRelease
    BY <2>13 DEF DirectRelease
  <2>14. CASE DirectOnline
    BY <2>14 DEF DirectOnline
  <2>15. CASE DirectUnlock
    BY <2>15 DEF DirectUnlock
  <2> QED BY <1>9, <2>1, <2>2, <2>3, <2>4, <2>5, <2>6, <2>7, <2>8, <2>9, <2>10, <2>11,
           <2>12, <2>13, <2>14, <2>15 DEF Pump, Direct
<1>10. ASSUME Poll PROVE ClaimInv'
  BY <1>10 DEF Poll, PollReadsStatus, PollStatus, PollOnline, PollTemp, PollCompare, PollAgain,
         PollRecover, PollRead, PollEdge, PollQ4Read, PollQ4Write
<1>11. ASSUME UserToggle PROVE ClaimInv'
  BY <1>11 DEF UserToggle
<1>12. ASSUME Environment PROVE ClaimInv'
  BY <1>12 DEF Environment, Plug, Unplug, SourceCollapse, Heat
<1>13. CASE UNCHANGED vars
  BY <1>13 DEF vars, hw, world, batt, tcpm, locks, locals
<1> QED BY <1>1, <1>2, <1>3, <1>4, <1>5, <1>6, <1>7, <1>8, <1>9, <1>10, <1>11, <1>12,
        <1>13 DEF Next

OtgPc == {"o_lock", "o_check", "o_chg", "o_path", "o_q4read", "o_q4write", "o_boost",
          "o_publish", "o_undo", "o_off", "o_clear", "o_release", "o_restore", "o_unlock"}
RaisePc == {"o_path", "o_q4read", "o_q4write", "o_boost", "o_publish"}

\* CHG_ON needs a bus.  Until a transfer fails, the bus set_otg(true) found empty
\* stays so for as long as the tablet may drive it, because no source answers a
\* port that presents itself as one; and the host path is up only in between.
HostCycleInv ==
  /\ chg_on => bus # "none"
  /\ faults = 0 =>
     /\ boost \/ otg_active => role = "src" /\ bus = "none"
     /\ pc["tcpm"] \in OtgPc => role = "src"
     /\ pc["tcpm"] # "o_undo"
     /\ pc["tcpm"] = "o_chg" => IF arg.otg THEN bus = "none" ELSE otg_active
     /\ pc["tcpm"] \in {"o_off", "o_clear"} => otg_active
     /\ pc["tcpm"] \in RaisePc => bus = "none" /\ arg.otg
     /\ pc["tcpm"] \in {"o_release", "o_restore"} => bus = "none" /\ ~boost /\ ~otg_active
     /\ pc["tcpm"] = "o_clear" => ~boost
     /\ pc["tcpm"] = "o_unlock" /\ ~arg.otg => ~boost /\ ~otg_active
     /\ muic => otg_active \/ pc["tcpm"] \in (RaisePc \ {"o_path"}) \cup {"o_release"}

\* A step of the charger keeps the host cycle.
LEMMA HostCycleStep == TypeOK /\ BoostInv /\ HostCycleInv /\ [Next]_vars => HostCycleInv'
<1> SUFFICES ASSUME TypeOK, BoostInv, HostCycleInv, [Next]_vars PROVE HostCycleInv'
  OBVIOUS
<1> USE ThreadsAssumption DEF TypeOK, ControlOK, LocalsOK, RegistersOK, WorldOK,
   DriverOK, AllThreads, HostCycleInv, BoostInv, OtgPc, RaisePc, hw, world, batt, tcpm,
   locals, locks, Works, Fails, Goto, At, Idle, OtgGoto, OtgUnlockChg, PumpGoto,
   PollGoto, PollDone, DirectQ4Result, CallConfigure, ConfigureReturn, ConfigureGoto,
   ConfigureQ4Done
<1>1. ASSUME NEW u \in Threads, Configure(u) PROVE HostCycleInv'
  <2>1. CASE ConfigureLock(u)
    BY <2>1 DEF ConfigureLock
  <2>2. CASE ConfigureCheck(u)
    BY <2>2 DEF ConfigureCheck, ConfigureDecide
  <2>3. CASE ConfigureProgram(u)
    BY <2>3 DEF ConfigureProgram
  <2>4. CASE ConfigureQ4Read(u)
    BY <2>4 DEF ConfigureQ4Read
  <2>5. CASE ConfigureQ4Write(u)
    BY <2>5 DEF ConfigureQ4Write
  <2>6. CASE ConfigureInput(u)
    BY <2>6 DEF ConfigureInput
  <2> QED BY <1>1, <2>1, <2>2, <2>3, <2>4, <2>5, <2>6 DEF Configure
<1>2. ASSUME TcpmContract PROVE HostCycleInv'
  BY <1>2 DEF TcpmContract
<1>3. ASSUME TcpmServe PROVE HostCycleInv'
  <2>1. CASE TcpmGrantPps
    BY <2>1 DEF TcpmGrantPps
  <2>2. CASE TcpmGrantFixed
    BY <2>2 DEF TcpmGrantFixed
  <2>3. CASE TcpmRefuse
    BY <2>3 DEF TcpmRefuse
  <2> QED BY <1>3, <2>1, <2>2, <2>3 DEF TcpmServe
<1>4. ASSUME Contract PROVE HostCycleInv'
  <2>1. CASE ContractLock
    BY <2>1 DEF ContractLock
  <2>2. CASE ContractApply
    BY <2>2 DEF ContractApply
  <2>3. CASE ContractUnlock
    BY <2>3 DEF ContractUnlock
  <2> QED BY <1>4, <2>1, <2>2, <2>3 DEF Contract
<1>5. ASSUME TcpmSource PROVE HostCycleInv'
  BY <1>5 DEF TcpmSource
<1>6. ASSUME Otg PROVE HostCycleInv'
  <2>1. CASE OtgLock
    BY <2>1 DEF OtgLock
  <2>2. CASE OtgCheck
    BY <2>2 DEF OtgCheck, OtgRefused, OnlineRaw
  <2>3. CASE OtgLockChg
    BY <2>3 DEF OtgLockChg
  <2>4. CASE OtgPath
    BY <2>4 DEF OtgPath
  <2>5. CASE OtgQ4Read
    BY <2>5 DEF OtgQ4Read
  <2>6. CASE OtgQ4Write
    BY <2>6 DEF OtgQ4Write
  <2>7. CASE OtgBoost
    BY <2>7 DEF OtgBoost
  <2>8. CASE OtgPublish
    BY <2>8 DEF OtgPublish
  <2>9. CASE OtgUndo
    BY <2>9 DEF OtgUndo
  <2>10. CASE OtgOff
    BY <2>10 DEF OtgOff
  <2>11. CASE OtgClear
    BY <2>11 DEF OtgClear
  <2>12. CASE OtgRelease
    BY <2>12 DEF OtgRelease
  <2>13. CASE OtgUnlock
    BY <2>13 DEF OtgUnlock, OnlineRaw
  <2> QED BY <1>6, <2>1, <2>2, <2>3, <2>4, <2>5, <2>6, <2>7, <2>8, <2>9, <2>10, <2>11,
     <2>12, <2>13 DEF Otg
<1>7. ASSUME PumpStart PROVE HostCycleInv'
  BY <1>7 DEF PumpStart
<1>8. ASSUME PumpStop PROVE HostCycleInv'
  BY <1>8 DEF PumpStop
<1>9. ASSUME Pump PROVE HostCycleInv'
  <2>1. CASE PumpInit
    BY <2>1 DEF PumpInit
  <2>2. CASE PumpWait
    BY <2>2 DEF PumpWait
  <2>3. CASE PumpSettle
    BY <2>3 DEF PumpSettle
  <2>4. CASE PumpOn
    BY <2>4 DEF PumpOn
  <2>5. CASE PumpCheck
    BY <2>5 DEF PumpCheck
  <2>6. CASE RestoreOff
    BY <2>6 DEF RestoreOff
  <2>7. CASE RestoreWait
    BY <2>7 DEF RestoreWait
  <2>8. CASE DirectLock
    BY <2>8 DEF DirectLock
  <2>9. CASE DirectClaim
    BY <2>9 DEF DirectClaim
  <2>10. CASE DirectLockChg
    BY <2>10 DEF DirectLockChg
  <2>11. CASE DirectQ4Read
    BY <2>11 DEF DirectQ4Read
  <2>12. CASE DirectQ4Write
    BY <2>12 DEF DirectQ4Write
  <2>13. CASE DirectRelease
    BY <2>13 DEF DirectRelease
  <2>14. CASE DirectOnline
    BY <2>14 DEF DirectOnline
  <2>15. CASE DirectUnlock
    BY <2>15 DEF DirectUnlock
  <2> QED BY <1>9, <2>1, <2>2, <2>3, <2>4, <2>5, <2>6, <2>7, <2>8, <2>9, <2>10, <2>11,
     <2>12, <2>13, <2>14, <2>15 DEF Pump, Direct
<1>10. ASSUME Poll PROVE HostCycleInv'
  <2>1. CASE PollStatus
    BY <2>1 DEF PollStatus, PollReadsStatus
  <2>2. CASE PollOnline
    BY <2>2 DEF PollOnline
  <2>3. CASE PollTemp
    BY <2>3 DEF PollTemp
  <2>4. CASE PollCompare
    BY <2>4 DEF PollCompare
  <2>5. CASE PollAgain
    BY <2>5 DEF PollAgain, PollReadsStatus
  <2>6. CASE PollRecover
    BY <2>6 DEF PollRecover
  <2>7. CASE PollEdge
    BY <2>7 DEF PollEdge
  <2>8. CASE PollQ4Read
    BY <2>8 DEF PollQ4Read
  <2>9. CASE PollQ4Write
    BY <2>9 DEF PollQ4Write
  <2>10. CASE PollRead
    BY <2>10 DEF PollRead
  <2> QED BY <1>10, <2>1, <2>2, <2>3, <2>4, <2>5, <2>6, <2>7, <2>8, <2>9, <2>10 DEF Poll
<1>11. ASSUME UserToggle PROVE HostCycleInv'
  BY <1>11 DEF UserToggle
<1>12. ASSUME Environment PROVE HostCycleInv'
  <2>1. UNCHANGED <<faults, batt, active, tcpm, locks, pc, locals>>
    BY <1>12 DEF Environment
  <2>2. CASE Plug
    BY <2>1, <2>2 DEF Plug
  <2>3. CASE Unplug
    BY <2>1, <2>3 DEF Unplug
  <2>4. CASE SourceCollapse
    BY <2>1, <2>4 DEF SourceCollapse
  <2>5. CASE Heat
    BY <2>1, <2>5 DEF Heat
  <2> QED BY <1>12, <2>2, <2>3, <2>4, <2>5 DEF Environment
<1>13. CASE UNCHANGED vars
  BY <1>13 DEF vars, hw, world, batt, tcpm, locks, locals
<1> QED BY <1>1, <1>2, <1>3, <1>4, <1>5, <1>6, <1>7, <1>8, <1>9, <1>10, <1>11, <1>12,
   <1>13 DEF Next

PumpRuns == \/ pc["pump"] \in {"s_init", "s_wait", "s_settle", "s_on", "s_check", "r_off", "r_wait"}
            \/ pc["pump"] = "idle" /\ active

\* With TCPM and the pump alone on the charger, and until a transfer fails: the
\* pump runs under its claim, nobody closes Q4 under one, CHG_ON is set between
\* PumpOn and RestoreOff only, and the source is away from its fixed contract
\* from the request the pump waits on to the one that ends it.
OwnPathInv == faults = 0 /\ Threads \subseteq {"tcpm", "pump"} =>
  /\ PumpRuns => direct_charging
  /\ pc["pump"] \in ConfigurePc \cup {"d_online"} => ~direct_charging
  /\ direct_charging /\ pc["pump"] \notin {"d_chg", "d_q4read", "d_q4write"} => ~enq4fet
  /\ pc["tcpm"] \in ConfigurePc => after["tcpm"] = "t_unlock"
  /\ chg_on => direct_charging /\ pc["pump"] \in {"idle", "s_check", "r_off"}
  /\ req = "pps" => pc["pump"] = "s_wait"
  /\ req = "fixed" => pc["pump"] = "r_wait"
  /\ req \in {"ok", "err"} => pc["pump"] \in {"s_wait", "r_wait"}
  /\ arg.serve => /\ req \in {"pps", "fixed"}
                  /\ pc["tcpm"] \in {"t_lock", "t_ma", "t_unlock"} \cup ConfigurePc
  /\ bus = "pps" => PumpRuns /\ (pc["pump"] = "r_wait" => req = "fixed" /\ ~arg.serve)

\* A step of the charger keeps the path with its owner.
LEMMA OwnPathStep == TypeOK /\ PumpInv /\ HostCycleInv /\ OwnPathInv /\ [Next]_vars => OwnPathInv'
<1> SUFFICES ASSUME TypeOK, PumpInv, HostCycleInv, OwnPathInv, [Next]_vars PROVE OwnPathInv'
  OBVIOUS
<1> USE ThreadsAssumption DEF TypeOK, ControlOK, LocalsOK, RegistersOK, WorldOK,
   DriverOK, AllThreads, OwnPathInv, PumpRuns, PumpInv, PumpReleased, hw, world, batt,
   tcpm, locals, locks, Works, Fails, Goto, At, Idle, ConfigurePc, OtgGoto,
   OtgUnlockChg, PumpGoto, PollGoto, PollDone, DirectQ4Result, CallConfigure,
   ConfigureReturn, ConfigureGoto, ConfigureQ4Done
<1>1. ASSUME NEW u \in Threads, Configure(u) PROVE OwnPathInv'
  <2>1. CASE ConfigureLock(u)
    BY <2>1 DEF ConfigureLock
  <2>2. CASE ConfigureCheck(u)
    BY <2>2 DEF ConfigureCheck, ConfigureDecide
  <2>3. CASE ConfigureProgram(u)
    BY <2>3 DEF ConfigureProgram
  <2>4. CASE ConfigureQ4Read(u)
    BY <2>4 DEF ConfigureQ4Read
  <2>5. CASE ConfigureQ4Write(u)
    BY <2>5 DEF ConfigureQ4Write
  <2>6. CASE ConfigureInput(u)
    BY <2>6 DEF ConfigureInput
  <2> QED BY <1>1, <2>1, <2>2, <2>3, <2>4, <2>5, <2>6 DEF Configure
<1>2. ASSUME TcpmContract PROVE OwnPathInv'
  BY <1>2 DEF TcpmContract
<1>3. ASSUME TcpmServe PROVE OwnPathInv'
  <2>1. CASE TcpmGrantPps
    BY <2>1 DEF TcpmGrantPps
  <2>2. CASE TcpmGrantFixed
    BY <2>2 DEF TcpmGrantFixed
  <2>3. CASE TcpmRefuse
    BY <2>3 DEF TcpmRefuse
  <2> QED BY <1>3, <2>1, <2>2, <2>3 DEF TcpmServe
<1>4. ASSUME Contract PROVE OwnPathInv'
  <2>1. CASE ContractLock
    BY <2>1 DEF ContractLock
  <2>2. CASE ContractApply
    BY <2>2 DEF ContractApply
  <2>3. CASE ContractUnlock
    BY <2>3 DEF ContractUnlock
  <2> QED BY <1>4, <2>1, <2>2, <2>3 DEF Contract
<1>5. ASSUME TcpmSource PROVE OwnPathInv'
  BY <1>5 DEF TcpmSource
<1>6. ASSUME Otg PROVE OwnPathInv'
  <2>1. CASE OtgLock
    BY <2>1 DEF OtgLock
  <2>2. CASE OtgCheck
    BY <2>2 DEF OtgCheck
  <2>3. CASE OtgLockChg
    BY <2>3 DEF OtgLockChg
  <2>4. CASE OtgPath
    BY <2>4 DEF OtgPath
  <2>5. CASE OtgQ4Read
    BY <2>5 DEF OtgQ4Read
  <2>6. CASE OtgQ4Write
    BY <2>6 DEF OtgQ4Write
  <2>7. CASE OtgBoost
    BY <2>7 DEF OtgBoost
  <2>8. CASE OtgPublish
    BY <2>8 DEF OtgPublish
  <2>9. CASE OtgUndo
    BY <2>9 DEF OtgUndo
  <2>10. CASE OtgOff
    BY <2>10 DEF OtgOff
  <2>11. CASE OtgClear
    BY <2>11 DEF OtgClear
  <2>12. CASE OtgRelease
    BY <2>12 DEF OtgRelease
  <2>13. CASE OtgUnlock
    BY <2>13 DEF OtgUnlock, OnlineRaw, HostCycleInv
  <2> QED BY <1>6, <2>1, <2>2, <2>3, <2>4, <2>5, <2>6, <2>7, <2>8, <2>9, <2>10, <2>11,
     <2>12, <2>13 DEF Otg
<1>7. ASSUME PumpStart PROVE OwnPathInv'
  BY <1>7 DEF PumpStart
<1>8. ASSUME PumpStop PROVE OwnPathInv'
  BY <1>8 DEF PumpStop
<1>9. ASSUME Pump PROVE OwnPathInv'
  <2>1. CASE PumpInit
    BY <2>1 DEF PumpInit
  <2>2. CASE PumpWait
    BY <2>2 DEF PumpWait
  <2>3. CASE PumpSettle
    BY <2>3 DEF PumpSettle
  <2>4. CASE PumpOn
    BY <2>4 DEF PumpOn
  <2>5. CASE PumpCheck
    BY <2>5 DEF PumpCheck
  <2>6. CASE RestoreOff
    BY <2>6 DEF RestoreOff
  <2>7. CASE RestoreWait
    BY <2>7 DEF RestoreWait
  <2>8. CASE DirectLock
    BY <2>8 DEF DirectLock
  <2>9. CASE DirectClaim
    BY <2>9 DEF DirectClaim
  <2>10. CASE DirectLockChg
    BY <2>10 DEF DirectLockChg
  <2>11. CASE DirectQ4Read
    BY <2>11 DEF DirectQ4Read
  <2>12. CASE DirectQ4Write
    BY <2>12 DEF DirectQ4Write
  <2>13. CASE DirectRelease
    BY <2>13 DEF DirectRelease
  <2>14. CASE DirectOnline
    BY <2>14 DEF DirectOnline
  <2>15. CASE DirectUnlock
    BY <2>15 DEF DirectUnlock
  <2> QED BY <1>9, <2>1, <2>2, <2>3, <2>4, <2>5, <2>6, <2>7, <2>8, <2>9, <2>10, <2>11,
     <2>12, <2>13, <2>14, <2>15 DEF Pump, Direct
<1>10. ASSUME Poll PROVE OwnPathInv'
  <2>1. CASE PollStatus
    BY <2>1 DEF PollStatus, PollReadsStatus
  <2>2. CASE PollOnline
    BY <2>2 DEF PollOnline
  <2>3. CASE PollTemp
    BY <2>3 DEF PollTemp
  <2>4. CASE PollCompare
    BY <2>4 DEF PollCompare
  <2>5. CASE PollAgain
    BY <2>5 DEF PollAgain, PollReadsStatus
  <2>6. CASE PollRecover
    BY <2>6 DEF PollRecover
  <2>7. CASE PollEdge
    BY <2>7 DEF PollEdge
  <2>8. CASE PollQ4Read
    BY <2>8 DEF PollQ4Read
  <2>9. CASE PollQ4Write
    BY <2>9 DEF PollQ4Write
  <2>10. CASE PollRead
    BY <2>10 DEF PollRead
  <2> QED BY <1>10, <2>1, <2>2, <2>3, <2>4, <2>5, <2>6, <2>7, <2>8, <2>9, <2>10 DEF Poll
<1>11. ASSUME UserToggle PROVE OwnPathInv'
  BY <1>11 DEF UserToggle
<1>12. ASSUME Environment PROVE OwnPathInv'
  <2>1. UNCHANGED <<faults, batt, active, tcpm, locks, pc, locals>>
    BY <1>12 DEF Environment
  <2>2. CASE Plug
    BY <2>1, <2>2 DEF Plug
  <2>3. CASE Unplug
    BY <2>1, <2>3 DEF Unplug
  <2>4. CASE SourceCollapse
    BY <2>1, <2>4 DEF SourceCollapse
  <2>5. CASE Heat
    BY <2>1, <2>5 DEF Heat
  <2> QED BY <1>12, <2>2, <2>3, <2>4, <2>5 DEF Environment
<1>13. CASE UNCHANGED vars
  BY <1>13 DEF vars, hw, world, batt, tcpm, locks, locals
<1> QED BY <1>1, <1>2, <1>3, <1>4, <1>5, <1>6, <1>7, <1>8, <1>9, <1>10, <1>11, <1>12,
   <1>13 DEF Next

IInv == /\ TypeOK /\ ChgLockInv /\ GlobalLockInv
        /\ BoostInv /\ HostInv /\ PumpInv /\ ClaimInv /\ HostCycleInv /\ OwnPathInv

\* After probe() no lock is held, nothing is in flight and every flag is clear.
LEMMA InvInit == Init => IInv
<1> SUFFICES ASSUME Init PROVE IInv
  OBVIOUS
<1>1. TypeOK
  BY TypeInit
<1>2. ChgLockInv /\ GlobalLockInv
  BY DEF Init, ChgLockInv, GlobalLockInv, ChgPc, GlobalPc, ConfigurePc
<1>3. BoostInv /\ HostInv /\ PumpInv /\ ClaimInv
  BY DEF Init, BoostInv, BoostIsolated, HostInv, HostPathFirst, PumpInv, PumpReleased,
         ClaimInv, ConfigurePc, AllThreads
<1>4. HostCycleInv /\ OwnPathInv
  BY DEF Init, HostCycleInv, OwnPathInv, PumpRuns, OtgPc, RaisePc, ConfigurePc, AllThreads
<1> QED BY <1>1, <1>2, <1>3, <1>4 DEF IInv

\* The invariant is inductive and holds of every reachable state.
THEOREM InvCorrect == Spec => []IInv
<1>1. IInv /\ [Next]_vars => IInv'
  BY TypeStep, ChgLockStep, GlobalLockStep, BoostStep, HostStep, PumpStep, ClaimStep,
     HostCycleStep, OwnPathStep DEF IInv
<1> QED BY InvInit, <1>1, PTL DEF Spec

--------------------------------------------------------------------------------
(* What follows from it.                                                    *)

\* Whatever interleaving of TCPM, pump, poll and sysfs writes, and whatever
\* transfers fail, Q4 is open while the boost drives the connector
\* (sm5714_battery.c:605).
THEOREM BoostAlwaysIsolated == Spec => []BoostIsolated
<1>1. IInv => BoostIsolated
  BY DEF IInv, BoostInv
<1> QED BY InvCorrect, <1>1, PTL

\* Host mode is never published without the D-/D+ path (646-652), whichever
\* of the MUIC's transfers fail.
THEOREM HostPathAlwaysFirst == Spec => []HostPathFirst
<1>1. IInv => HostPathFirst
  BY DEF IInv, HostInv
<1> QED BY InvCorrect, <1>1, PTL

\* No failure on the pump's way up or down leaves direct_charging set behind an
\* idle pump.
THEOREM PumpAlwaysReleased == Spec => []PumpReleased
<1>1. IInv => PumpReleased
  BY DEF IInv, PumpInv
<1> QED BY InvCorrect, <1>1, PTL

\* A contract TCPM reports never closes Q4 behind the pump, because
\* set_pd_contract() and set_direct_charge() exclude each other under
\* sm5714_global_lock until configure_charging() has returned (553-556).
THEOREM ContractAlwaysLeavesPumpAlone == Spec => ContractLeavesPumpAlone
<1>1. IInv => [ (enq4fet' /\ ~enq4fet /\ pc["tcpm"] = "c_q4write" /\ after["tcpm"] = "t_unlock")
                  => ~direct_charging ]_vars
  BY DEF IInv, PumpInv, ConfigurePc
<1> QED BY InvCorrect, <1>1, PTL DEF ContractLeavesPumpAlone

\* Until a transfer fails the boost is never on against an external source nor
\* into a running pump (628-641), whatever the four contexts do: no source puts
\* VBUS on a port that already presents itself as one.
THEOREM BoostOnlyOnIdleBusAlways == Spec => []BoostOnlyOnIdleBus
<1>1. IInv => BoostOnlyOnIdleBus
  BY DEF IInv, HostCycleInv, BoostOnlyOnIdleBus
<1> QED BY InvCorrect, <1>1, PTL

\* Until a transfer fails the MUIC detects again after every host session
\* (241-242).  After a failure nobody tries the release a second time (OtgUndo).
THEOREM MuicRestoredUntilFault == Spec => [](faults = 0 => MuicRestored)
<1>1. IInv => (faults = 0 => MuicRestored)
  BY DEF IInv, HostCycleInv, RaisePc, MuicRestored
<1> QED BY InvCorrect, <1>1, PTL

\* TCPM and the pump, left alone and without a failing transfer, keep the pump on
\* a path it was given: its CHG_ON is set under its claim only, with Q4 open.  The
\* poll and the sysfs file reach configure_charging() without asking for the claim.
THEOREM PumpOwnsPathAlone ==
  ASSUME Threads \subseteq {"tcpm", "pump"}
  PROVE  Spec => [](faults = 0 => PumpOwnsPath)
<1>1. IInv => (faults = 0 => PumpOwnsPath)
  BY DEF IInv, OwnPathInv, PumpOwnsPath
<1> QED BY InvCorrect, <1>1, PTL

\* The order of sm5440_direct.c:525-528, for the same two contexts: VBUS leaves its
\* fixed contract after Q4 is open, and is back at one before Q4 closes.
THEOREM SwitchingOnFixedBusAlone ==
  ASSUME Threads \subseteq {"tcpm", "pump"}
  PROVE  Spec => [](faults = 0 => SwitchingOnFixedBus)
<1>1. IInv => (faults = 0 => SwitchingOnFixedBus)
  <2>1. ASSUME IInv, faults = 0, enq4fet, bus = "pps" PROVE FALSE
    BY <2>1 DEF IInv, OwnPathInv, PumpRuns
  <2> QED BY <2>1 DEF SwitchingOnFixedBus
<1> QED BY InvCorrect, <1>1, PTL

--------------------------------------------------------------------------------
(* The refinement.                                                          *)

\* Each step of the driver is one of PathOwner, or changes none of the three.
LEMMA OwnerStep == IInv /\ [Next]_vars => [Owner!Next]_Owner!vars
<1> SUFFICES ASSUME IInv, [Next]_vars PROVE [Owner!Next]_Owner!vars
  OBVIOUS
<1> DEFINE Same == UNCHANGED <<boost, direct_charging, enq4fet>>
<1>0. Same => [Owner!Next]_Owner!vars
  BY DEF Owner!vars
<1>a. /\ boost \in BOOLEAN /\ enq4fet \in BOOLEAN /\ direct_charging \in BOOLEAN
      /\ BoostInv /\ ClaimInv
  BY DEF IInv, TypeOK, RegistersOK, DriverOK
<1> USE DEF hw, batt, At, Idle
<1>1. ASSUME NEW t \in Threads, Configure(t) PROVE [Owner!Next]_Owner!vars
  <2>1. CASE ConfigureQ4Write(t)
    <3>1. ~boost
      BY <1>a, <2>1, ThreadsAssumption DEF ConfigureQ4Write, BoostInv, ConfigurePc
    <3>2. /\ UNCHANGED <<boost, direct_charging>> /\ enq4fet' \in BOOLEAN
      BY <1>a, <2>1 DEF ConfigureQ4Write
    <3>3. CASE enq4fet' = enq4fet
      BY <3>2, <3>3, <1>0
    <3>4. CASE enq4fet' # enq4fet
      BY <1>a, <3>1, <3>2, <3>4 DEF Owner!Next, Owner!MoveGate
    <3> QED BY <3>3, <3>4
  <2>2. CASE ~ConfigureQ4Write(t)
    <3>1. Same
      BY <1>1, <2>2 DEF Configure, ConfigureLock, ConfigureCheck, ConfigureDecide, ConfigureProgram,
         ConfigureQ4Read, ConfigureInput
    <3> QED BY <3>1, <1>0
  <2> QED BY <2>1, <2>2
<1>2. ASSUME TcpmContract \/ TcpmServe \/ Contract \/ TcpmSource \/ PumpStart \/ PumpStop
             \/ UserToggle \/ Environment
      PROVE [Owner!Next]_Owner!vars
  <2>1. Same
    BY <1>2 DEF TcpmContract, TcpmServe, TcpmGrantPps, TcpmGrantFixed, TcpmRefuse,
       Contract, ContractLock, ContractApply, ContractUnlock, TcpmSource, PumpStart,
       PumpStop, UserToggle, Environment, Plug, Unplug, SourceCollapse, Heat
  <2> QED BY <2>1, <1>0
<1>3. ASSUME Otg PROVE [Owner!Next]_Owner!vars
  <2>1. CASE OtgQ4Write
    <3>1. UNCHANGED <<boost, direct_charging>> /\ (enq4fet' = enq4fet \/ enq4fet' = FALSE)
      BY <2>1 DEF OtgQ4Write
    <3>2. boost => ~enq4fet
      BY <1>a DEF BoostInv, BoostIsolated
    <3> QED BY <1>a, <3>1, <3>2, <1>0 DEF Owner!Next, Owner!MoveGate
  <2>2. CASE OtgBoost
    <3>1. ~direct_charging /\ ~enq4fet
      BY <1>a, <2>2 DEF OtgBoost, BoostInv, ClaimInv
    <3>2. UNCHANGED <<enq4fet, direct_charging>> /\ (boost' = boost \/ boost' = TRUE)
      BY <2>2 DEF OtgBoost
    <3> QED BY <1>a, <3>1, <3>2, <1>0 DEF Owner!Next, Owner!TakeHost
  <2>3. CASE OtgOff
    <3>1. UNCHANGED <<enq4fet, direct_charging>> /\ (boost' = boost \/ boost' = FALSE)
      BY <2>3 DEF OtgOff
    <3> QED BY <1>a, <3>1, <1>0 DEF Owner!Next, Owner!LeaveHost
  <2>4. CASE ~OtgQ4Write /\ ~OtgBoost /\ ~OtgOff
    <3>1. Same
      BY <1>3, <2>4 DEF Otg, OtgLock, OtgCheck, OtgLockChg, OtgPath, OtgQ4Read,
         OtgPublish, OtgUndo, OtgClear, OtgRelease, OtgUnlock
    <3> QED BY <3>1, <1>0
  <2> QED BY <2>1, <2>2, <2>3, <2>4
<1>4. ASSUME Pump PROVE [Owner!Next]_Owner!vars
  <2>1. CASE DirectClaim \/ DirectQ4Read \/ DirectRelease
    <3>1. UNCHANGED <<boost, enq4fet>> /\ direct_charging' \in BOOLEAN
      <4>1. CASE DirectClaim
        BY <1>a, <4>1 DEF DirectClaim
      <4>2. CASE DirectQ4Read
        BY <1>a, <4>2 DEF DirectQ4Read, DirectQ4Result
      <4>3. CASE DirectRelease
        BY <4>3 DEF DirectRelease
      <4> QED BY <2>1, <4>1, <4>2, <4>3
    <3>2. CASE direct_charging' = direct_charging
      BY <3>1, <3>2, <1>0
    <3>3. CASE direct_charging' # direct_charging
      BY <1>a, <3>1, <3>3 DEF Owner!Next, Owner!MoveClaim
    <3> QED BY <3>2, <3>3
  <2>2. CASE DirectQ4Write
    <3>1. direct_charging /\ UNCHANGED boost /\ (boost => ~enq4fet)
      BY <1>a, <2>2 DEF DirectQ4Write, ClaimInv, BoostInv, BoostIsolated
    <3>2. CASE direct_charging' = TRUE /\ enq4fet' = FALSE
      BY <1>a, <3>1, <3>2, <1>0 DEF Owner!Next, Owner!MoveGate
    <3>3. CASE direct_charging' = FALSE /\ enq4fet' = enq4fet
      BY <1>a, <3>1, <3>3 DEF Owner!Next, Owner!MoveClaim
    <3> QED BY <2>2, <3>2, <3>3 DEF DirectQ4Write, DirectQ4Result
  <2>3. CASE ~DirectClaim /\ ~DirectQ4Read /\ ~DirectRelease /\ ~DirectQ4Write
    <3>1. Same
      BY <1>4, <2>3 DEF Pump, PumpInit, PumpWait, PumpSettle, PumpOn, PumpCheck,
         RestoreOff, RestoreWait, Direct, DirectLock, DirectLockChg, DirectOnline,
         DirectUnlock
    <3> QED BY <3>1, <1>0
  <2> QED BY <2>1, <2>2, <2>3
<1>5. ASSUME Poll PROVE [Owner!Next]_Owner!vars
  <2>1. CASE PollQ4Write
    <3>1. UNCHANGED <<boost, direct_charging>> /\ (enq4fet' = enq4fet \/ enq4fet' = FALSE)
      BY <2>1 DEF PollQ4Write
    <3>2. boost => ~enq4fet
      BY <1>a DEF BoostInv, BoostIsolated
    <3> QED BY <1>a, <3>1, <3>2, <1>0 DEF Owner!Next, Owner!MoveGate
  <2>2. CASE ~PollQ4Write
    <3>1. Same
      BY <1>5, <2>2 DEF Poll, PollReadsStatus, PollStatus, PollOnline, PollTemp, PollCompare, PollAgain,
         PollRecover, PollRead, PollEdge, PollQ4Read
    <3> QED BY <3>1, <1>0
  <2> QED BY <2>1, <2>2
<1>6. CASE UNCHANGED vars
  <2>1. Same
    BY <1>6 DEF vars
  <2> QED BY <2>1, <1>0
<1> QED BY <1>1, <1>2, <1>3, <1>4, <1>5, <1>6 DEF Next

\* sm5714_battery.c implements PathOwner: for any threads, contracts and
\* temperatures and any number of failed transfers, host mode starts only on a
\* path without a claim and with Q4 open, and Q4 does not move under it.
THEOREM PathOwnerImplemented == Spec => ImplementsPathOwner
<1>1. Init => Owner!Init
  BY DEF Init, Owner!Init
<1> QED BY <1>1, InvCorrect, OwnerStep, PTL DEF ImplementsPathOwner, Owner!Spec, Spec

================================================================================
