------------------------------- MODULE ChargePath -------------------------------
(***************************************************************************)
(* Who owns the battery path of the tablet.  Four contexts drive the SM5714 *)
(* charger through sm5714_battery.c, under two mutexes, one I2C transfer at *)
(* a time:                                                                  *)
(*   "tcpm"  the TCPM worker: set_pd_contract() and set_otg();              *)
(*   "pump"  the SM5440 work item of sm5440_direct.c, set_direct_charge();  *)
(*   "poll"  the one-second poll work, which takes no lock of its own;      *)
(*   "user"  a write to the fast_charge sysfs file.                         *)
(* The registers that matter are the Q4 FET enable (enq4fet), the boost     *)
(* mode, the MUIC path, the two current limits, and CHG_ON of the SM5440.   *)
(***************************************************************************)
EXTENDS ChargeTable

CONSTANTS
  Threads,       \* the contexts that run, a subset of AllThreads
  Contracts,     \* the <<mv, ma>> TCPM negotiates on a fixed PDO
  PpsContracts,  \* the <<mv, ma>> TCPM reports after a PPS request
  Temps,         \* pack temperatures the thermistor can show
  PortTypes,     \* BC1.2 types the MUIC can detect
  SlowPack,      \* the pack changes temperature only between operations
  UseOtg,        \* whether TCPM ever takes the source role
  MaxFaults      \* bound: I2C or PD transfers that fail in a behaviour

AllThreads == {"tcpm", "pump", "poll", "user"}
Nobody == "nobody"

ASSUME ThreadsAssumption == Threads \subseteq AllThreads
ASSUME ContractsAssumption ==
  /\ Contracts \subseteq Nat \X Nat
  /\ PpsContracts \subseteq Nat \X Nat
  /\ \A c \in Contracts : ContractInRange(c[1], c[2])
ASSUME RangesAssumption ==
  /\ Temps \subseteq Int
  /\ PortTypes \subseteq UsbTypes \ {"PD"}
  /\ UseOtg \in BOOLEAN /\ SlowPack \in BOOLEAN
  /\ MaxFaults \in Nat

VARIABLES
  \* hardware
  enq4fet,     \* SM5714 CNTL1: Q4 closed, the switching charger feeds the pack
  boost,       \* SM5714 CNTL2 in USB_OTG mode: the tablet drives VBUS
  muic,        \* MUIC forced to the host path, BC1.2 off
  vbuscntl,    \* programmed input current, mA
  chgcntl2,    \* programmed battery current, mA
  chg_on,      \* SM5440 CNTL5: the 2:1 pump runs
  bus,         \* what an external source puts on VBUS: none, fixed or pps
  bc12,        \* the BC1.2 type the MUIC detected
  temp,        \* pack thermistor
  faults,      \* transfers that failed so far
  \* struct sm5714_battery and struct sm5440_direct
  typec_mv, typec_ma, thermal_state, direct_charging, otg_active,
  fast_charge, last_online, active,
  \* TCPM, external: its power role and the request the pump waits on
  role, req,
  \* locks and threads
  global_lock, chg_lock, pc,
  after,       \* where configure_charging() returns to
  conf,        \* what configure_charging() decided, per thread
  arg,         \* the arguments of the callback "tcpm" and "pump" are in
  seen         \* locals of poll_work()

hw == <<enq4fet, boost, muic, vbuscntl, chgcntl2, chg_on>>
world == <<bus, bc12, temp>>
batt == <<typec_mv, typec_ma, thermal_state, direct_charging, otg_active,
          fast_charge, last_online>>
tcpm == <<role, req>>
locks == <<global_lock, chg_lock>>
locals == <<after, conf, arg, seen>>
vars == <<hw, world, faults, batt, active, tcpm, locks, pc, locals>>

Idle(t) == t \in Threads /\ pc[t] = "idle"
At(t, l) == t \in Threads /\ pc[t] = l
Goto(t, l) == pc' = [pc EXCEPT ![t] = l]

\* Every bus transfer may fail, at most MaxFaults times in a behaviour.
Works == UNCHANGED faults
Fails == faults < MaxFaults /\ faults' = faults + 1

Acquire(lock, t) == lock = Nobody /\ lock' = t
NoConf == [state |-> "NORMAL", input |-> 0, goal |-> 0]

--------------------------------------------------------------------------------
(* What the driver reads back.                                              *)

\* STATUS1.VBUS_POK is electrical: it also sees the tablet's own boost.
OnlineRaw == bus # "none" \/ boost
Online == ~otg_active /\ OnlineRaw

UsbType == IF ~Online THEN "UNKNOWN" ELSE IF typec_mv > 5000 THEN "PD" ELSE bc12

Status ==
  IF otg_active THEN "DISCHARGING"
  ELSE IF direct_charging
         THEN IF OnlineRaw THEN "CHARGING" ELSE "DISCHARGING"
         ELSE IF enq4fet THEN IF bus # "none" THEN "CHARGING" ELSE "DISCHARGING"
                         ELSE IF OnlineRaw THEN "NOT_CHARGING" ELSE "DISCHARGING"

--------------------------------------------------------------------------------
(* configure_charging(), called by every context.                           *)

ConfigureReturn(t) == /\ chg_lock' = Nobody
                      /\ Goto(t, after[t])
                      /\ conf' = [conf EXCEPT ![t] = NoConf]
                      /\ after' = [after EXCEPT ![t] = "idle"]
                      /\ UNCHANGED <<global_lock, arg, seen>>
ConfigureGoto(t, l) == Goto(t, l) /\ UNCHANGED <<locks, locals>>

ConfigureLock(t) ==
  /\ At(t, "c_lock")
  /\ Acquire(chg_lock, t)
  /\ Goto(t, "c_check")
  /\ UNCHANGED <<hw, world, faults, batt, active, tcpm, global_lock, locals>>

\* Mutant: the boost is not looked at under chg_lock.
ConfigureCheckUnguarded(t) ==
  /\ At(t, "c_check")
  /\ conf' = [conf EXCEPT ![t].input = 500, ![t].goal = 500]
  /\ Goto(t, "c_program")
  /\ UNCHANGED <<hw, world, faults, batt, active, tcpm, locks, after, arg, seen>>

\* Refuse while the boost owns the connector or the port cannot be read; a pack
\* that cannot be read is in the state it was in.
ConfigureDecide(t, state) ==
  /\ conf' = [conf EXCEPT ![t] =
       [state |-> state,
        input |-> InputMa(typec_mv, typec_ma, UsbType, fast_charge),
        goal  |-> FastMa(typec_mv, typec_ma, UsbType, fast_charge, state)]]
  /\ Goto(t, "c_program")
  /\ UNCHANGED <<locks, after, arg, seen>>
ConfigureCheck(t) ==
  /\ At(t, "c_check")
  /\ UNCHANGED <<hw, world, batt, active, tcpm>>
  /\ \/ otg_active /\ Works /\ ConfigureReturn(t)
     \/ ~otg_active /\ Fails /\ ConfigureReturn(t)
     \/ ~otg_active /\ Works /\ ConfigureDecide(t, ChargeThermalState(thermal_state, temp))
     \/ ~otg_active /\ Fails /\ ConfigureDecide(t, thermal_state)

\* Publish the thermal state; unless it is STOP, lower the input limit and
\* program the battery current (and float voltage) before Q4 is touched.
ConfigureProgram(t) ==
  /\ At(t, "c_program")
  /\ thermal_state' = conf[t].state
  /\ UNCHANGED <<enq4fet, boost, muic, chg_on, world, typec_mv, typec_ma,
                 direct_charging, otg_active, fast_charge, last_online, active, tcpm>>
  /\ \/ /\ conf[t].state = "STOP"
        /\ Works /\ UNCHANGED <<vbuscntl, chgcntl2>> /\ ConfigureGoto(t, "c_q4read")
     \/ /\ conf[t].state # "STOP"
        /\ vbuscntl' = 500 /\ chgcntl2' = conf[t].goal
        /\ Works /\ ConfigureGoto(t, "c_q4read")
     \/ /\ conf[t].state # "STOP"
        /\ \/ UNCHANGED <<vbuscntl, chgcntl2>>
           \/ vbuscntl' = 500 /\ UNCHANGED chgcntl2
           \/ vbuscntl' = 500 /\ chgcntl2' = conf[t].goal
        /\ Fails /\ ConfigureReturn(t)

\* update_bits() on CNTL1: a read, then a write only if the bit differs.
ConfigureQ4Done(t) == IF conf[t].state = "STOP" THEN ConfigureReturn(t)
                                                ELSE ConfigureGoto(t, "c_input")
ConfigureQ4Read(t) ==
  /\ At(t, "c_q4read")
  /\ UNCHANGED <<hw, world, batt, active, tcpm>>
  /\ \/ Fails /\ ConfigureReturn(t)
     \/ Works /\ IF enq4fet = (conf[t].state # "STOP")
                   THEN ConfigureQ4Done(t) ELSE ConfigureGoto(t, "c_q4write")

ConfigureQ4Write(t) ==
  /\ At(t, "c_q4write")
  /\ UNCHANGED <<boost, muic, vbuscntl, chgcntl2, chg_on, world, batt, active, tcpm>>
  /\ \/ enq4fet' = (conf[t].state # "STOP") /\ Works /\ ConfigureQ4Done(t)
     \/ UNCHANGED enq4fet /\ Fails /\ ConfigureReturn(t)

ConfigureInput(t) ==
  /\ At(t, "c_input")
  /\ \/ vbuscntl' = conf[t].input /\ Works
     \/ UNCHANGED vbuscntl /\ Fails
  /\ ConfigureReturn(t)
  /\ UNCHANGED <<enq4fet, boost, muic, chgcntl2, chg_on, world, batt, active, tcpm>>

Configure(t) ==
  \/ ConfigureLock(t) \/ ConfigureCheck(t) \/ ConfigureProgram(t)
  \/ ConfigureQ4Read(t) \/ ConfigureQ4Write(t) \/ ConfigureInput(t)

\* Call configure_charging() and come back at l.
CallConfigure(t, l) == Goto(t, "c_lock") /\ after' = [after EXCEPT ![t] = l]

--------------------------------------------------------------------------------
(* TCPM.  It reports a contract, sources VBUS for an accessory, and serves  *)
(* the PPS requests the pump makes through its power supply.  Its policy is *)
(* external: it may decide any of these on a view of the port that is late. *)

\* A fixed contract reached, or the limits cleared when the port is reset.
TcpmContract ==
  /\ Idle("tcpm") /\ role = "snk"
  /\ \E c \in Contracts :
       (c[2] > 0) = (bus # "none") /\ arg' = [arg EXCEPT !.contract = c]
  /\ Goto("tcpm", "t_lock")
  /\ UNCHANGED <<hw, world, faults, batt, active, tcpm, locks, after, conf, seen>>

\* POWER_SUPPLY_PROP_ONLINE = 2 and the values that follow it: the source ramps
\* to the programmable contract, then TCPM reports it like any other.  What
\* set_pd_contract() answers -ERANGE to leaves the driver as it was.
TcpmGrantPps ==
  /\ Idle("tcpm") /\ req = "pps" /\ role = "snk" /\ bus # "none"
  /\ bus' = "pps"
  /\ \E c \in PpsContracts :
       IF ContractInRange(c[1], c[2])
         THEN /\ arg' = [arg EXCEPT !.contract = c, !.serve = TRUE]
              /\ Goto("tcpm", "t_lock") /\ UNCHANGED req
         ELSE req' = "ok" /\ UNCHANGED <<arg, pc>>
  /\ UNCHANGED <<hw, bc12, temp, faults, batt, active, role, locks, after, conf, seen>>

\* ONLINE = 1: back to the fixed contract.
TcpmGrantFixed ==
  /\ Idle("tcpm") /\ req = "fixed" /\ bus = "pps"
  /\ bus' = "fixed"
  /\ \E c \in Contracts :
       c[2] > 0 /\ arg' = [arg EXCEPT !.contract = c, !.serve = TRUE]
  /\ Goto("tcpm", "t_lock")
  /\ UNCHANGED <<hw, bc12, temp, faults, batt, active, tcpm, locks, after, conf, seen>>

TcpmRefuse ==
  /\ Idle("tcpm") /\ req \in {"pps", "fixed"}
  /\ \/ (IF req = "pps" THEN role = "src" \/ bus = "none" ELSE bus # "pps") /\ Works
     \/ Fails
  /\ req' = "err"
  /\ UNCHANGED <<hw, world, batt, active, role, locks, pc, locals>>

TcpmServe == TcpmGrantPps \/ TcpmGrantFixed \/ TcpmRefuse

\* sm5714_battery_set_pd_contract()
ContractLock ==
  /\ At("tcpm", "t_lock")
  /\ Acquire(global_lock, "tcpm")
  /\ typec_mv' = arg.contract[1]
  /\ Goto("tcpm", "t_ma")
  /\ UNCHANGED <<hw, world, faults, typec_ma, thermal_state, direct_charging, otg_active,
                 fast_charge, last_online, active, tcpm, chg_lock, locals>>

\* Mutant: a contract is applied whoever owns the path.
ContractAppliesAlways == arg.contract[2] > 0 /\ Online

ContractApplies == /\ arg.contract[1] > 0 /\ arg.contract[2] > 0
                   /\ Online /\ ~direct_charging

\* With STATUS1 unreadable get_online() is not positive either.
ContractApply ==
  /\ At("tcpm", "t_ma")
  /\ typec_ma' = arg.contract[2]
  /\ \/ ContractApplies /\ Works /\ CallConfigure("tcpm", "t_unlock")
     \/ ~ContractApplies /\ Works /\ Goto("tcpm", "t_unlock") /\ UNCHANGED after
     \/ Fails /\ Goto("tcpm", "t_unlock") /\ UNCHANGED after
  /\ UNCHANGED <<hw, world, typec_mv, thermal_state, direct_charging, otg_active,
                 fast_charge, last_online, active, tcpm, locks, conf, arg, seen>>

ContractUnlock ==
  /\ At("tcpm", "t_unlock")
  /\ global_lock' = Nobody
  /\ Goto("tcpm", "idle")
  /\ req' = IF arg.serve THEN "ok" ELSE req
  /\ arg' = [arg EXCEPT !.contract = <<0, 0>>, !.serve = FALSE]
  /\ UNCHANGED <<hw, world, faults, batt, active, role, chg_lock, after, conf, seen>>

Contract == ContractLock \/ ContractApply \/ ContractUnlock

--------------------------------------------------------------------------------
(* sm5714_battery_set_otg()                                                 *)

\* set_vbus(): the tablet becomes, or stops being, the source of the port.
TcpmSource ==
  /\ UseOtg /\ Idle("tcpm")
  /\ \E on \in BOOLEAN : /\ role = (IF on THEN "snk" ELSE "src")
                         /\ arg' = [arg EXCEPT !.otg = on]
  /\ role' = "src"
  /\ Goto("tcpm", "o_lock")
  /\ UNCHANGED <<hw, world, faults, batt, active, req, locks, after, conf, seen>>

OtgGoto(l) == Goto("tcpm", l) /\ UNCHANGED <<locks, locals>>
OtgUnlockChg == /\ chg_lock' = Nobody /\ Goto("tcpm", "o_unlock")
                /\ UNCHANGED <<global_lock, locals>>

OtgLock ==
  /\ At("tcpm", "o_lock")
  /\ Acquire(global_lock, "tcpm")
  /\ Goto("tcpm", "o_check")
  /\ UNCHANGED <<hw, world, faults, batt, active, tcpm, chg_lock, locals>>

\* Mutant: no look at VBUS before the boost.
OtgRefusedBlind == arg.otg = otg_active \/ (arg.otg /\ direct_charging)

\* Nothing to do, -EBUSY for the pump or for a source on VBUS, or go ahead.
OtgRefused == \/ arg.otg = otg_active
              \/ arg.otg /\ (direct_charging \/ OnlineRaw)
OtgCheck ==
  /\ At("tcpm", "o_check")
  /\ \/ OtgRefused /\ Works /\ OtgGoto("o_unlock")
     \/ ~OtgRefused /\ Works /\ OtgGoto("o_chg")
     \/ arg.otg /\ ~otg_active /\ ~direct_charging /\ Fails /\ OtgGoto("o_unlock")
  /\ UNCHANGED <<hw, world, batt, active, tcpm>>

OtgLockChg ==
  /\ At("tcpm", "o_chg")
  /\ Acquire(chg_lock, "tcpm")
  /\ Goto("tcpm", IF arg.otg THEN "o_path" ELSE "o_off")
  /\ UNCHANGED <<hw, world, faults, batt, active, tcpm, global_lock, locals>>

\* Mutant: the result of muic_set_otg_path() is dropped.
OtgPathUnchecked ==
  /\ At("tcpm", "o_path")
  /\ \/ muic' = TRUE /\ Works
     \/ UNCHANGED muic /\ Fails
  /\ OtgGoto("o_q4read")
  /\ UNCHANGED <<enq4fet, boost, vbuscntl, chgcntl2, chg_on, world, batt, active, tcpm>>

\* Host path first; a path that failed half-way may leave BC1.2 off.
OtgPath ==
  /\ At("tcpm", "o_path")
  /\ \/ muic' = TRUE /\ Works /\ OtgGoto("o_q4read")
     \/ (muic' = TRUE \/ UNCHANGED muic) /\ Fails /\ OtgGoto("o_undo")
  /\ UNCHANGED <<enq4fet, boost, vbuscntl, chgcntl2, chg_on, world, batt, active, tcpm>>

OtgQ4Read ==
  /\ At("tcpm", "o_q4read")
  /\ \/ Works /\ OtgGoto(IF enq4fet THEN "o_q4write" ELSE "o_boost")
     \/ Fails /\ OtgGoto("o_undo")
  /\ UNCHANGED <<hw, world, batt, active, tcpm>>

OtgQ4Write ==
  /\ At("tcpm", "o_q4write")
  /\ \/ enq4fet' = FALSE /\ Works /\ OtgGoto("o_boost")
     \/ UNCHANGED enq4fet /\ Fails /\ OtgGoto("o_undo")
  /\ UNCHANGED <<boost, muic, vbuscntl, chgcntl2, chg_on, world, batt, active, tcpm>>

\* BSTCNTL1, then CNTL2 to USB_OTG.
OtgBoost ==
  /\ At("tcpm", "o_boost")
  /\ \/ boost' = TRUE /\ Works /\ OtgGoto("o_publish")
     \/ UNCHANGED boost /\ Fails /\ OtgGoto("o_undo")
  /\ UNCHANGED <<enq4fet, muic, vbuscntl, chgcntl2, chg_on, world, batt, active, tcpm>>

OtgPublish ==
  /\ At("tcpm", "o_publish")
  /\ otg_active' = TRUE
  /\ OtgUnlockChg
  /\ UNCHANGED <<hw, world, faults, typec_mv, typec_ma, thermal_state, direct_charging,
                 fast_charge, last_online, active, tcpm>>

\* The MUIC back to automatic: after a failed start, and after a stop.
OtgUndo ==
  /\ At("tcpm", "o_undo")
  /\ \/ muic' = FALSE /\ Works
     \/ UNCHANGED muic /\ Fails
  /\ OtgUnlockChg
  /\ UNCHANGED <<enq4fet, boost, vbuscntl, chgcntl2, chg_on, world, batt, active, tcpm>>

OtgOff ==
  /\ At("tcpm", "o_off")
  /\ \/ boost' = FALSE /\ Works /\ OtgGoto("o_clear")
     \/ UNCHANGED boost /\ Fails /\ OtgUnlockChg
  /\ UNCHANGED <<enq4fet, muic, vbuscntl, chgcntl2, chg_on, world, batt, active, tcpm>>

OtgClear ==
  /\ At("tcpm", "o_clear")
  /\ otg_active' = FALSE
  /\ OtgGoto("o_release")
  /\ UNCHANGED <<hw, world, faults, typec_mv, typec_ma, thermal_state, direct_charging,
                 fast_charge, last_online, active, tcpm>>

\* Mutant: the stop forgets the MUIC.
OtgReleaseForgets ==
  /\ At("tcpm", "o_release")
  /\ chg_lock' = Nobody /\ Goto("tcpm", "o_restore")
  /\ UNCHANGED <<hw, world, faults, batt, active, tcpm, global_lock, locals>>

OtgRelease ==
  /\ At("tcpm", "o_release")
  /\ \/ /\ muic' = FALSE /\ Works
        /\ chg_lock' = Nobody /\ Goto("tcpm", "o_restore")
        /\ UNCHANGED <<global_lock, locals>>
     \/ UNCHANGED muic /\ Fails /\ OtgUnlockChg
  /\ UNCHANGED <<enq4fet, boost, vbuscntl, chgcntl2, chg_on, world, batt, active, tcpm>>

\* Leave: configure_charging() only after a clean stop that finds VBUS, and
\* only once the global lock is dropped.
OtgUnlock ==
  /\ pc["tcpm"] \in {"o_unlock", "o_restore"} /\ "tcpm" \in Threads
  /\ global_lock' = Nobody
  /\ role' = IF arg.otg THEN "src" ELSE "snk"
  /\ arg' = [arg EXCEPT !.otg = FALSE]
  /\ \/ /\ pc["tcpm"] = "o_restore" /\ OnlineRaw /\ Works
        /\ CallConfigure("tcpm", "idle")
     \/ /\ pc["tcpm"] = "o_unlock" \/ ~OnlineRaw
        /\ Works /\ Goto("tcpm", "idle") /\ UNCHANGED after
     \/ /\ pc["tcpm"] = "o_restore"
        /\ Fails /\ Goto("tcpm", "idle") /\ UNCHANGED after
  /\ UNCHANGED <<hw, world, batt, active, req, chg_lock, conf, seen>>

Otg == \/ OtgLock \/ OtgCheck \/ OtgLockChg \/ OtgPath \/ OtgQ4Read \/ OtgQ4Write
       \/ OtgBoost \/ OtgPublish \/ OtgUndo \/ OtgOff \/ OtgClear \/ OtgRelease
       \/ OtgUnlock

--------------------------------------------------------------------------------
(* The pump: sm5440_direct.c, and sm5714_battery_set_direct_charge().       *)

PumpGoto(l) == Goto("pump", l) /\ UNCHANGED <<locks, locals>>

\* sm5440_eligible() holds, then sm5440_start() asks for the battery path.
PumpStart ==
  /\ Idle("pump") /\ ~active
  /\ role = "snk" /\ bus # "none" /\ fast_charge /\ temp \in 100..419
  /\ arg' = [arg EXCEPT !.direct = TRUE]
  /\ Goto("pump", "d_lock")
  /\ UNCHANGED <<hw, world, faults, batt, active, tcpm, locks, after, conf, seen>>

\* Mutant: the claim is made without the global lock.
DirectLockSkipped ==
  /\ At("pump", "d_lock")
  /\ Goto("pump", IF arg.direct THEN "d_claim" ELSE "d_release")
  /\ UNCHANGED <<hw, world, faults, batt, active, tcpm, locks, locals>>

DirectLock ==
  /\ At("pump", "d_lock")
  /\ Acquire(global_lock, "pump")
  /\ Goto("pump", IF arg.direct THEN "d_claim" ELSE "d_release")
  /\ UNCHANGED <<hw, world, faults, batt, active, tcpm, chg_lock, locals>>

\* Claim the path, unless the pack is out of range or cannot be read: the flag
\* goes up before Q4 is opened, and comes down again if Q4 could not be.
DirectClaim ==
  /\ At("pump", "d_claim")
  /\ \/ temp \in 100..419 /\ Works /\ direct_charging' = TRUE /\ PumpGoto("d_chg")
     \/ /\ (temp \notin 100..419 /\ Works) \/ Fails
        /\ UNCHANGED direct_charging /\ PumpGoto("d_unlock")
  /\ UNCHANGED <<hw, world, typec_mv, typec_ma, thermal_state, otg_active,
                 fast_charge, last_online, active, tcpm>>

DirectLockChg ==
  /\ At("pump", "d_chg")
  /\ Acquire(chg_lock, "pump")
  /\ Goto("pump", "d_q4read")
  /\ UNCHANGED <<hw, world, faults, batt, active, tcpm, global_lock, locals>>

DirectQ4Result(ok) == /\ direct_charging' = ok
                      /\ chg_lock' = Nobody /\ Goto("pump", "d_unlock")
                      /\ UNCHANGED <<global_lock, locals>>
DirectQ4Read ==
  /\ At("pump", "d_q4read")
  /\ \/ ~enq4fet /\ Works /\ DirectQ4Result(TRUE)
     \/ enq4fet /\ Works /\ PumpGoto("d_q4write") /\ UNCHANGED direct_charging
     \/ Fails /\ DirectQ4Result(FALSE)
  /\ UNCHANGED <<hw, world, typec_mv, typec_ma, thermal_state, otg_active,
                 fast_charge, last_online, active, tcpm>>

DirectQ4Write ==
  /\ At("pump", "d_q4write")
  /\ \/ enq4fet' = FALSE /\ Works /\ DirectQ4Result(TRUE)
     \/ UNCHANGED enq4fet /\ Fails /\ DirectQ4Result(FALSE)
  /\ UNCHANGED <<boost, muic, vbuscntl, chgcntl2, chg_on, world, typec_mv, typec_ma,
                 thermal_state, otg_active, fast_charge, last_online, active, tcpm>>

\* Give the path back: flag down, then configure_charging() if VBUS is there.
DirectRelease ==
  /\ At("pump", "d_release")
  /\ direct_charging' = FALSE
  /\ Goto("pump", "d_online")
  /\ UNCHANGED <<hw, world, faults, typec_mv, typec_ma, thermal_state, otg_active,
                 fast_charge, last_online, active, tcpm, locks, locals>>

DirectOnline ==
  /\ At("pump", "d_online")
  /\ \/ Online /\ Works /\ CallConfigure("pump", "d_unlock")
     \/ ~Online /\ Works /\ Goto("pump", "d_unlock") /\ UNCHANGED after
     \/ Fails /\ Goto("pump", "d_unlock") /\ UNCHANGED after
  /\ UNCHANGED <<hw, world, batt, active, tcpm, locks, conf, arg, seen>>

\* Mutant: the global lock is kept while the pump runs.
DirectUnlockKeeps ==
  /\ At("pump", "d_unlock")
  /\ global_lock' = (IF direct_charging THEN "pump" ELSE Nobody)
  /\ arg' = [arg EXCEPT !.direct = FALSE]
  /\ Goto("pump", IF direct_charging THEN "s_init" ELSE "idle")
  /\ active' = (active /\ direct_charging)
  /\ UNCHANGED <<hw, world, faults, batt, tcpm, chg_lock, after, conf, seen>>

\* After a claim that held, bring the pump up; after a release, retry later.
DirectUnlock ==
  /\ At("pump", "d_unlock")
  /\ global_lock' = Nobody
  /\ arg' = [arg EXCEPT !.direct = FALSE]
  /\ Goto("pump", IF direct_charging THEN "s_init" ELSE "idle")
  /\ active' = (active /\ direct_charging)
  /\ UNCHANGED <<hw, world, faults, batt, tcpm, chg_lock, after, conf, seen>>

\* Mutant: a failed hw_init() returns without restoring the switching path.
PumpInitReturns ==
  /\ At("pump", "s_init")
  /\ \/ chg_on' = FALSE /\ req' = "pps" /\ Works /\ PumpGoto("s_wait")
     \/ UNCHANGED <<chg_on, req>> /\ Fails /\ PumpGoto("idle")
  /\ UNCHANGED <<enq4fet, boost, muic, vbuscntl, chgcntl2, world, batt, active, role>>

\* sm5440_hw_init() resets the chip, then request_pps() waits for TCPM.
PumpInit ==
  /\ At("pump", "s_init")
  /\ \/ chg_on' = FALSE /\ req' = "pps" /\ Works /\ PumpGoto("s_wait")
     \/ (chg_on' = FALSE \/ UNCHANGED chg_on) /\ UNCHANGED req /\ Fails /\ PumpGoto("r_off")
  /\ UNCHANGED <<enq4fet, boost, muic, vbuscntl, chgcntl2, world, batt, active, role>>

PumpWait ==
  /\ At("pump", "s_wait") /\ req \in {"ok", "err"}
  /\ req' = "none"
  /\ PumpGoto(IF req = "ok" THEN "s_settle" ELSE "r_off")
  /\ UNCHANGED <<hw, world, faults, batt, active, role>>

\* CHG_ON only once the ADC shows the programmed voltage within four seconds, but
\* for 700 mV; a fixed contract of nine volts may pass for it.
PumpSettle ==
  /\ At("pump", "s_settle")
  /\ \/ /\ bus = "pps" \/ (bus = "fixed" /\ typec_mv >= 7500)
        /\ Works /\ PumpGoto("s_on")
     \/ bus # "pps" /\ Works /\ PumpGoto("r_off")
     \/ Fails /\ PumpGoto("r_off")
  /\ UNCHANGED <<hw, world, batt, active, tcpm>>

\* The chip does not hold CHG_ON without a bus.
PumpOn ==
  /\ At("pump", "s_on")
  /\ \/ chg_on' = (bus # "none") /\ Works /\ PumpGoto("s_check")
     \/ UNCHANGED chg_on /\ Fails /\ PumpGoto("r_off")
  /\ UNCHANGED <<enq4fet, boost, muic, vbuscntl, chgcntl2, world, batt, active, tcpm>>

PumpCheck ==
  /\ At("pump", "s_check")
  /\ \/ bus # "none" /\ Works /\ active' = TRUE /\ PumpGoto("idle")
     \/ bus = "none" /\ Works /\ UNCHANGED active /\ PumpGoto("r_off")
     \/ Fails /\ UNCHANGED active /\ PumpGoto("r_off")
  /\ UNCHANGED <<hw, world, batt, tcpm>>

\* sm5440_work() while active: the conditions modelled here oblige it to stop,
\* capacity, die temperature, CV taper and refresh failures allow it to.
PumpMustStop == Idle("pump") /\ active /\ (temp >= 440 \/ ~chg_on \/ bus = "none")
\* Mutant: the path is given back before CHG_ON is cleared.
PumpStopRunning == /\ Idle("pump") /\ active
                   /\ PumpGoto("d_lock")
                   /\ UNCHANGED <<hw, world, faults, batt, active, tcpm>>

PumpStop == /\ Idle("pump") /\ active
            /\ PumpGoto("r_off")
            /\ UNCHANGED <<hw, world, faults, batt, active, tcpm>>

\* Mutant: the fixed contract is not asked for on the way back.
RestoreOffOnPps ==
  /\ At("pump", "r_off")
  /\ chg_on' = FALSE
  /\ PumpGoto("d_lock")
  /\ UNCHANGED <<enq4fet, boost, muic, vbuscntl, chgcntl2, world, faults, batt, active, tcpm>>

\* sm5440_restore_switching(): no step of it looks at the result of another.
RestoreOff ==
  /\ At("pump", "r_off")
  /\ \/ chg_on' = FALSE /\ Works
     \/ UNCHANGED chg_on /\ Fails
  /\ req' = "fixed"
  /\ PumpGoto("r_wait")
  /\ UNCHANGED <<enq4fet, boost, muic, vbuscntl, chgcntl2, world, batt, active, role>>

RestoreWait ==
  /\ At("pump", "r_wait") /\ req \in {"ok", "err"}
  /\ req' = "none"
  /\ PumpGoto("d_lock")
  /\ UNCHANGED <<hw, world, faults, batt, active, role>>

Direct == \/ DirectLock \/ DirectClaim \/ DirectLockChg \/ DirectQ4Read \/ DirectQ4Write
          \/ DirectRelease \/ DirectOnline \/ DirectUnlock
Pump == \/ PumpInit \/ PumpWait \/ PumpSettle \/ PumpOn \/ PumpCheck
        \/ RestoreOff \/ RestoreWait \/ Direct

--------------------------------------------------------------------------------
(* sm5714_poll_work().  It reads, decides and programs without a lock.      *)

NoSeen == [status |-> "DISCHARGING", online |-> FALSE, state |-> "NORMAL"]
PollGoto(l) == Goto("poll", l) /\ UNCHANGED <<locks, locals>>

\* A status that cannot be read is not NOT_CHARGING, which is all that is asked.
PollReadsStatus == /\ \/ seen' = [seen EXCEPT !.status = Status] /\ Works
                      \/ seen' = [seen EXCEPT !.status = "DISCHARGING"] /\ Fails
                   /\ UNCHANGED <<hw, world, batt, active, tcpm, locks, after, conf, arg>>
PollStatus == Idle("poll") /\ PollReadsStatus /\ Goto("poll", "p_online")

\* A STATUS1 that cannot be read makes this pass do nothing.
PollOnline ==
  /\ At("poll", "p_online")
  /\ \/ /\ seen' = [status |-> seen.status, online |-> Online, state |-> thermal_state]
        /\ Works
        /\ Goto("poll", IF Online THEN "p_temp" ELSE "p_edge")
     \/ seen' = NoSeen /\ Fails /\ Goto("poll", "idle")
  /\ UNCHANGED <<hw, world, batt, active, tcpm, locks, after, conf, arg>>

PollTemp ==
  /\ At("poll", "p_temp")
  /\ \/ thermal_state' = ChargeThermalState(thermal_state, temp) /\ Works
     \/ UNCHANGED thermal_state /\ Fails
  /\ PollGoto("p_compare")
  /\ UNCHANGED <<hw, world, typec_mv, typec_ma, direct_charging, otg_active,
                 fast_charge, last_online, active, tcpm>>

\* Mutant: the transition into STOP is only recorded.
PollCompareRecords ==
  /\ At("poll", "p_compare")
  /\ IF thermal_state \notin {seen.state, "STOP"}
       THEN CallConfigure("poll", "p_again")
       ELSE Goto("poll", "p_recover") /\ UNCHANGED after
  /\ UNCHANGED <<hw, world, faults, batt, active, tcpm, locks, conf, arg, seen>>

\* A thermal transition reprograms the charger, and the status is read again.
PollCompare ==
  /\ At("poll", "p_compare")
  /\ IF thermal_state # seen.state
       THEN CallConfigure("poll", "p_again")
       ELSE Goto("poll", "p_recover") /\ UNCHANGED after
  /\ UNCHANGED <<hw, world, faults, batt, active, tcpm, locks, conf, arg, seen>>

PollAgain == At("poll", "p_again") /\ PollReadsStatus /\ Goto("poll", "p_recover")

\* Mutant: Q4 is recovered only on the pass that sees the cable inserted.
PollRecoversOnce == /\ ~direct_charging /\ seen.status = "NOT_CHARGING"
                    /\ thermal_state # "STOP" /\ ~last_online

\* A source is present, nobody charges directly and the pack is not too hot ...
PollRecovers == /\ ~direct_charging /\ seen.status = "NOT_CHARGING"
                /\ thermal_state # "STOP"
PollRecover ==
  /\ At("poll", "p_recover")
  /\ PollGoto(IF PollRecovers THEN "p_read" ELSE "p_edge")
  /\ UNCHANGED <<hw, world, faults, batt, active, tcpm>>
\* ... and Q4 is found open.
PollRead ==
  /\ At("poll", "p_read")
  /\ \/ ~enq4fet /\ Works /\ CallConfigure("poll", "p_edge")
     \/ enq4fet /\ Works /\ Goto("poll", "p_edge") /\ UNCHANGED after
     \/ Fails /\ Goto("poll", "p_edge") /\ UNCHANGED after
  /\ UNCHANGED <<hw, world, batt, active, tcpm, locks, conf, arg, seen>>

\* The unplug edge opens Q4 by an update_bits() that takes no lock.
PollDone(l) == /\ Goto("poll", l) /\ UNCHANGED <<locks, after, conf, arg>>
               /\ seen' = NoSeen
PollEdge ==
  /\ At("poll", "p_edge")
  /\ last_online' = seen.online
  /\ PollDone(IF last_online /\ ~seen.online THEN "p_q4read" ELSE "idle")
  /\ UNCHANGED <<hw, world, faults, typec_mv, typec_ma, thermal_state, direct_charging,
                 otg_active, fast_charge, active, tcpm>>

PollQ4Read ==
  /\ At("poll", "p_q4read")
  /\ \/ Works /\ PollGoto(IF enq4fet THEN "p_q4write" ELSE "idle")
     \/ Fails /\ PollGoto("idle")
  /\ UNCHANGED <<hw, world, batt, active, tcpm>>

PollQ4Write ==
  /\ At("poll", "p_q4write")
  /\ \/ enq4fet' = FALSE /\ Works
     \/ UNCHANGED enq4fet /\ Fails
  /\ PollGoto("idle")
  /\ UNCHANGED <<boost, muic, vbuscntl, chgcntl2, chg_on, world, batt, active, tcpm>>

Poll == \/ PollStatus \/ PollOnline \/ PollTemp \/ PollCompare \/ PollAgain
        \/ PollRecover \/ PollRead \/ PollEdge \/ PollQ4Read \/ PollQ4Write

--------------------------------------------------------------------------------
\* fast_charge_store(): flip the switch and reprogram the charger.
UserToggle ==
  /\ Idle("user")
  /\ fast_charge' = ~fast_charge
  /\ CallConfigure("user", "idle")
  /\ UNCHANGED <<hw, world, faults, typec_mv, typec_ma, thermal_state, direct_charging,
                 otg_active, last_online, active, tcpm, locks, conf, arg, seen>>

--------------------------------------------------------------------------------
(* The cable, the source and the pack.                                      *)

\* A source drives VBUS only while the tablet presents itself as a sink.
Plug == /\ bus = "none" /\ role = "snk"
        /\ bus' = "fixed" /\ bc12' \in PortTypes
        /\ UNCHANGED <<hw, temp>>
\* The pump clears CHG_ON on its own when VBUS goes, or drops out of PPS.
Unplug == /\ bus # "none"
          /\ bus' = "none" /\ chg_on' = FALSE
          /\ UNCHANGED <<enq4fet, boost, muic, vbuscntl, chgcntl2, bc12, temp>>
SourceCollapse == /\ bus = "pps"
                  /\ bus' = "fixed" /\ chg_on' = FALSE
                  /\ UNCHANGED <<enq4fet, boost, muic, vbuscntl, chgcntl2, bc12, temp>>
Heat == /\ SlowPack => \A t \in Threads : pc[t] = "idle"
        /\ temp' \in Temps \ {temp}
        /\ UNCHANGED <<hw, bus, bc12>>

Environment == /\ Plug \/ Unplug \/ SourceCollapse \/ Heat
               /\ UNCHANGED <<faults, batt, active, tcpm, locks, pc, locals>>

--------------------------------------------------------------------------------
\* After probe on a cold boot without a cable: Samsung's shutdown left Q4 open.
Init ==
  /\ enq4fet = FALSE /\ boost = FALSE /\ muic = FALSE /\ chg_on = FALSE
  /\ vbuscntl = 0 /\ chgcntl2 = 0
  /\ bus = "none" /\ bc12 \in PortTypes /\ temp \in Temps /\ faults = 0
  /\ typec_mv = 0 /\ typec_ma = 0 /\ thermal_state = "NORMAL"
  /\ direct_charging = FALSE /\ otg_active = FALSE /\ fast_charge = TRUE
  /\ last_online = FALSE /\ active = FALSE
  /\ role = "snk" /\ req = "none"
  /\ global_lock = Nobody /\ chg_lock = Nobody
  /\ pc = [t \in AllThreads |-> "idle"]
  /\ after = [t \in AllThreads |-> "idle"]
  /\ conf = [t \in AllThreads |-> NoConf]
  /\ arg = [contract |-> <<0, 0>>, serve |-> FALSE, otg |-> FALSE, direct |-> FALSE]
  /\ seen = NoSeen

Next ==
  \/ \E t \in Threads : Configure(t)
  \/ TcpmContract \/ TcpmServe \/ Contract
  \/ TcpmSource \/ Otg
  \/ PumpStart \/ PumpStop \/ Pump
  \/ Poll
  \/ UserToggle
  \/ Environment

Spec == Init /\ [][Next]_vars

--------------------------------------------------------------------------------
(* Fairness.  Every context that has begun an operation is scheduled until  *)
(* it is done, the poll reschedules itself, TCPM answers the pump, and the  *)
(* active pump's own one-second work notices a reason to stop.  Kernel      *)
(* mutexes hand over to their waiters, so a lock that is free again and     *)
(* again is eventually taken, and the TCPM worker does not pass over the    *)
(* pump's request for ever: strong fairness on those steps only.            *)

TakesLock(t) == pc[t] \in {"c_lock", "t_lock", "o_lock", "o_chg", "d_lock", "d_chg"}
Work(t) == \/ Configure(t)
           \/ t = "tcpm" /\ (Contract \/ Otg \/ TcpmServe)
           \/ t = "pump" /\ (Pump \/ (PumpMustStop /\ PumpStop))
           \/ t = "poll" /\ Poll
Fairness == \A t \in Threads : /\ WF_vars(Work(t))
                               /\ SF_vars(TakesLock(t) /\ Work(t))
FairSpec == Spec /\ Fairness /\ ("tcpm" \in Threads => SF_vars(TcpmServe))

--------------------------------------------------------------------------------
(* Properties                                                               *)

TcpmPc == {"idle", "t_lock", "t_ma", "t_unlock", "o_lock", "o_check", "o_chg", "o_path",
           "o_q4read", "o_q4write", "o_boost", "o_publish", "o_undo", "o_off", "o_clear",
           "o_release", "o_restore", "o_unlock"}
PumpPc == {"idle", "d_lock", "d_claim", "d_chg", "d_q4read", "d_q4write", "d_release",
           "d_online", "d_unlock", "s_init", "s_wait", "s_settle", "s_on", "s_check",
           "r_off", "r_wait"}
PollPc == {"idle", "p_online", "p_temp", "p_compare", "p_again", "p_recover", "p_read", "p_edge",
           "p_q4read", "p_q4write"}
ConfigurePc == {"c_lock", "c_check", "c_program", "c_q4read", "c_q4write", "c_input"}

RegistersOK ==
  /\ enq4fet \in BOOLEAN /\ boost \in BOOLEAN /\ muic \in BOOLEAN /\ chg_on \in BOOLEAN
  /\ vbuscntl \in Nat /\ chgcntl2 \in Nat
WorldOK == /\ bus \in {"none", "fixed", "pps"} /\ bc12 \in PortTypes /\ temp \in Temps
           /\ faults \in Nat
DriverOK ==
  /\ typec_mv \in Nat /\ typec_ma \in Nat /\ thermal_state \in ThermalStates
  /\ direct_charging \in BOOLEAN /\ otg_active \in BOOLEAN /\ fast_charge \in BOOLEAN
  /\ last_online \in BOOLEAN /\ active \in BOOLEAN
  /\ role \in {"snk", "src"} /\ req \in {"none", "pps", "fixed", "ok", "err"}
LocalsOK ==
  /\ conf \in [AllThreads -> [state : ThermalStates, input : Nat, goal : Nat]]
  /\ arg \in [contract : Nat \X Nat, serve : BOOLEAN, otg : BOOLEAN, direct : BOOLEAN]
  /\ seen \in [status : {"DISCHARGING", "CHARGING", "NOT_CHARGING"},
               online : BOOLEAN, state : ThermalStates]
LocksOK == /\ global_lock \in AllThreads \cup {Nobody}
           /\ chg_lock \in AllThreads \cup {Nobody}
ReturnPc == {"idle", "t_unlock", "d_unlock", "p_again", "p_edge"}
ControlOK ==
  /\ pc \in [AllThreads -> TcpmPc \cup PumpPc \cup PollPc \cup ConfigurePc]
  /\ after \in [AllThreads -> ReturnPc]
  /\ pc["tcpm"] \in TcpmPc \cup ConfigurePc /\ after["tcpm"] \in {"idle", "t_unlock"}
  /\ pc["pump"] \in PumpPc \cup ConfigurePc /\ after["pump"] \in {"idle", "d_unlock"}
  /\ pc["poll"] \in PollPc \cup ConfigurePc /\ after["poll"] \in {"idle", "p_again", "p_edge"}
  /\ pc["user"] \in {"idle"} \cup ConfigurePc /\ after["user"] = "idle"

\* Every variable has its type: registers and flags of the two drivers, lock
\* owners, and a program counter in the code of its thread.
TypeOK == RegistersOK /\ WorldOK /\ DriverOK /\ LocalsOK /\ LocksOK /\ ControlOK

\* sm5714_battery.c:605: "Q4 must remain open while the boost drives the
\* connector".  The poll and the sysfs write call configure_charging() with no
\* lock of their own, so only the order of set_otg()'s steps under chg_lock and
\* the re-check of otg_active inside it keep the two apart.
BoostIsolated == boost => ~enq4fet

\* The boost is never on against an external source, nor into a running pump:
\* what the raw VBUS check and the -EBUSY of set_otg() are for (628-641).  Until a
\* transfer fails: a boost that could not be turned off stays on (680-684), and
\* nobody tries again.
BoostOnlyOnIdleBus == (boost /\ faults = 0) => bus = "none" /\ ~chg_on

\* The charger implements PathOwner: host mode starts only on a path that the
\* pump has not claimed and whose Q4 is open, and until the boost is off Q4 stays
\* as it is.  set_otg() tests the claim long before it boosts (628-641), with a
\* lock released and taken in between; only sm5714_global_lock keeps
\* set_direct_charge() out for the whole of that time.
Owner == INSTANCE PathOwner WITH host <- boost, pump <- direct_charging, gate <- enq4fet
ImplementsPathOwner == Owner!Spec

\* Host mode is published only over a connected D-/D+ path (646-652).
HostPathFirst == otg_active => muic

\* Whatever failed on the way, a pump that is neither running nor being started
\* has given the path back: a leaked flag would stop every later recovery.
PumpReleased == (pc["pump"] = "idle" /\ ~active) => ~direct_charging

\* "or a later TCPM PPS update" (sm5714_battery.c:553-556): the contract
\* callback never closes Q4 behind the pump.
ContractLeavesPumpAlone ==
  [][ (enq4fet' /\ ~enq4fet /\ pc["tcpm"] = "c_q4write" /\ after["tcpm"] = "t_unlock")
        => ~direct_charging ]_vars

\* The pump runs only on a path it was given, with Q4 open behind it.
PumpOwnsPath == chg_on => direct_charging /\ ~enq4fet

\* sm5440_direct.c:525-528: Q4 is opened while VBUS is at its fixed contract,
\* and only then may VBUS be programmed above 9 V; and so back again.
SwitchingOnFixedBus == enq4fet => bus # "pps"

\* Once nothing is in flight and host mode is off, the MUIC detects again
\* (sm5714_battery.c:241-242).
MuicRestored == (pc["tcpm"] = "idle" /\ ~otg_active) => ~muic

\* Every operation returns: no cycle between the two mutexes, and the pump
\* waits for TCPM without holding what TCPM needs.
OpsComplete == \A t \in Threads : pc[t] # "idle" ~> pc[t] = "idle"

\* A pack that stays at 50.0 C or more on a source ends with Q4 open.
ThermalCutoff == <>[](temp >= 500 /\ bus # "none") => <>[](~enq4fet)

\* A pack that stays in the warm band is not asked for more than 2.1 A for long.
WarmClamp == <>[](temp \in 460..499 /\ bus # "none") => <>[](enq4fet => chgcntl2 <= 2100)

\* A source that stays, with nobody else owning the path, ends up charging.
ChargingResumes ==
  <>[](bus = "fixed" /\ temp < 460 /\ ~direct_charging /\ ~otg_active /\ ~boost)
     => <>[]enq4fet
================================================================================
