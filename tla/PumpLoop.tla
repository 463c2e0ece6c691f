-------------------------------- MODULE PumpLoop --------------------------------
(***************************************************************************)
(* The regulation loop of the 2:1 direct charger: sm5440_work() while the   *)
(* system is awake.  Once a second it reads the pack, the bus and the input *)
(* current, decides whether the pump may go on, moves the PPS request       *)
(* towards the current the step table aims for, and renews the Request      *)
(* every other tick.  The hand-over of the battery path is ChargePath's     *)
(* subject; here it is one step.  target_ma is computed anew before every   *)
(* Request and no state of the model.  Voltages are mV and currents mA.     *)
(***************************************************************************)
EXTENDS Integers

CONSTANTS
  Packs,       \* voltages the fuel gauge can show
  Drift,       \* how far the pack moves in one tick
  Currents,    \* input currents the ADC can show
  Droops,      \* how far below the contract the VBUS ADC may read
  Sustain,     \* the highest contract cable and source can hold up
  Folded,      \* what VBUS falls to beyond it
  SourceMa,    \* APDO currents the source may advertise
  FixedMa,     \* currents of its fixed contract
  OpCurrent,   \* module parameter pps_op_curr_ma, already clamped
  Trouble      \* whether stop conditions and failing requests occur

ASSUME PacksAssumption == Packs \subseteq 3400..4450 /\ Drift \in Nat
ASSUME LinkAssumption ==
  /\ Droops \subseteq 0..2000 /\ Currents \subseteq 0..5120
  /\ Sustain \in Nat /\ Folded \in 4096..10800
ASSUME SourceAssumption == SourceMa \subseteq Nat /\ FixedMa \subseteq Nat
                           /\ OpCurrent \in 1000..5000
                           /\ Trouble \in BOOLEAN

VARIABLES
  attached,    \* a source with a PPS APDO is on the port
  pack,        \* pack voltage
  src_ma,      \* the current its APDO advertises now
  contract,    \* the PPS contract in force, mv = 0 for none
  chg_on,      \* the pump runs
  fast_charge, \* the sysfs switch of sm5714_battery.c
  active, target_mv, last_vbus, pps_ticks, cv_ticks, sat_ticks,
  \* history, read by properties only
  pegged,      \* ticks in a row short of current with the request at its ceiling
  asked        \* the operating current last asked of TCPM, and whether it is of a reading

port == <<attached, src_ma, fast_charge>>
ticks == <<pps_ticks, cv_ticks, sat_ticks, last_vbus>>
vars == <<attached, pack, src_ma, contract, chg_on, fast_charge, active, target_mv,
          last_vbus, pps_ticks, cv_ticks, sat_ticks, pegged, asked>>
history == <<pegged, asked>>

--------------------------------------------------------------------------------
(* What the loop computes.                                                  *)

DivUp(a, b) == (a + b - 1) \div b
AtMost(a, b) == IF a <= b THEN a ELSE b
AtLeast(a, b) == IF a >= b THEN a ELSE b
\* The kernel's clamp(): the ceiling wins if the two cross.
Clamp(x, lo, hi) == IF x >= hi THEN hi ELSE AtLeast(x, lo)

FloorMv(v) == Clamp(DivUp(2 * v + 1100, 20) * 20, 8200, 10500)
CeilMv(v) == AtMost(2 * v + 2000, 10500)

\* The step table: as the pack fills, the aim goes down.
AimMa(v) == IF v < 4130 THEN 4330 ELSE IF v < 4250 THEN 3710 ELSE 2970

\* The knob within what the APDO offers, but never below 15 W at mv.
RequestMa(mv, source) ==
  LET floor == DivUp(DivUp(15000000, mv), 50) * 50
      want == AtLeast(OpCurrent, floor)
  IN AtLeast(IF source > 0 THEN AtMost(want, (source \div 50) * 50) ELSE want, floor)

\* One step of the closed loop, before the clamp: too much current, a bus that
\* folds back under the request, too little current, or on aim.
Above(v, ibus) == ibus > AimMa(v) + 200
Sagged(vbus) == last_vbus # 0 /\ vbus < last_vbus - 300
Short(v, ibus) == ibus < AimMa(v) - 200
Saturated(v) == target_mv >= CeilMv(v) /\ sat_ticks + 1 >= 8

\* Mutant: once started, the bounds are those of the whole range.
RegulateUnclamped(v, ibus, vbus) ==
  IF Above(v, ibus) THEN target_mv - 40
  ELSE IF Short(v, ibus) THEN Clamp(target_mv + 40, 8200, 10500)
  ELSE target_mv

Regulate(v, ibus, vbus) ==
  LET ease == Clamp(vbus + 40, FloorMv(v), CeilMv(v))
      next == IF Above(v, ibus) THEN target_mv - 40
              ELSE IF Sagged(vbus) \/ (Short(v, ibus) /\ Saturated(v)) THEN ease
              ELSE IF Short(v, ibus) /\ target_mv < CeilMv(v) THEN target_mv + 40
              ELSE target_mv
  IN Clamp(next, FloorMv(v), CeilMv(v))

CountSat(v, ibus, vbus) ==
  IF ~Above(v, ibus) /\ ~Sagged(vbus) /\ Short(v, ibus) /\ target_mv >= CeilMv(v)
     /\ ~Saturated(v)
    THEN sat_ticks + 1 ELSE 0

--------------------------------------------------------------------------------
(* The cable and the chip.                                                  *)

Near == {v \in Packs : v - pack \in (-Drift)..Drift}
BusReadings == IF contract.mv > Sustain THEN {Folded}
               ELSE {contract.mv - d : d \in Droops}
NoContract == [mv |-> 0, ma |-> 0]
\* CURRENT_MAX, that TCPM may fail to give or give as nothing.
Readings(ma) == {ma} \cup (IF Trouble THEN {0} ELSE {})
Ask(ma, r) == [ma |-> ma, read |-> r > 0]

Plug == /\ ~attached /\ attached' = TRUE /\ src_ma' \in SourceMa
        /\ UNCHANGED <<pack, contract, chg_on, fast_charge, active, target_mv,
                       ticks, history>>
\* The contract and CHG_ON go with the cable.
Unplug == /\ Trouble /\ attached /\ attached' = FALSE /\ src_ma' = 0
          /\ contract' = NoContract /\ chg_on' = FALSE
          /\ UNCHANGED <<pack, fast_charge, active, target_mv, ticks, history>>
\* The source lowers its APDO under load.
Trim == /\ attached
        /\ \E m \in SourceMa : m < src_ma /\ src_ma' = m
        /\ UNCHANGED <<attached, pack, contract, chg_on, fast_charge, active, target_mv,
                       ticks, history>>
\* REVBLK, over-voltage, watchdog: the part clears CHG_ON on its own.
ChipStops == /\ Trouble /\ chg_on /\ chg_on' = FALSE
             /\ UNCHANGED <<port, pack, contract, active, target_mv, ticks, history>>
\* fast_charge_store(); what it does to the switching path is in ChargePath.
SwitchOff == /\ fast_charge /\ fast_charge' = FALSE
             /\ UNCHANGED <<attached, src_ma, pack, contract, chg_on, active, target_mv,
                            ticks, history>>

--------------------------------------------------------------------------------
(* sm5440_work(), not yet active.                                           *)

Eligible == attached /\ fast_charge /\ pack \in 3500..4349

\* sm5440_start().  TCPM refuses an operating current above the APDO's, which
\* it shows as CURRENT_MAX only once PPS is active: until then that is the
\* current of the fixed contract.  A start that fails restores the old path.
Start ==
  /\ ~active /\ Eligible
  /\ \E f \in FixedMa : \E r \in Readings(f) :
       asked' = Ask(RequestMa(FloorMv(pack), r), r)
  /\ asked'.ma <= src_ma
  /\ active' = TRUE /\ chg_on' = TRUE /\ target_mv' = FloorMv(pack)
  /\ contract' = [mv |-> target_mv', ma |-> asked'.ma]
  /\ pps_ticks' = 0 /\ cv_ticks' = 0 /\ sat_ticks' = 0 /\ last_vbus' = 0 /\ pegged' = 0
  /\ pack' \in Near
  /\ UNCHANGED port

StartFails ==
  /\ ~active /\ Eligible
  /\ \/ \E f \in FixedMa : \E r \in Readings(f) :
          /\ asked' = Ask(RequestMa(FloorMv(pack), r), r)
          /\ asked'.ma > src_ma \/ Trouble
     \/ UNCHANGED asked /\ Trouble
  /\ contract' = NoContract /\ chg_on' = FALSE
  /\ pps_ticks' = 0 /\ cv_ticks' = 0 /\ sat_ticks' = 0 /\ last_vbus' = 0 /\ pegged' = 0
  /\ pack' \in Near
  /\ UNCHANGED <<port, active, target_mv>>

--------------------------------------------------------------------------------
(* sm5440_work(), active.                                                   *)

\* sm5440_restore_switching(): the way out of every stop.
Restore ==
  /\ active' = FALSE /\ chg_on' = FALSE /\ contract' = NoContract
  /\ pps_ticks' = 0 /\ cv_ticks' = 0 /\ sat_ticks' = 0 /\ last_vbus' = 0 /\ pegged' = 0

\* A limit was crossed, or a reading failed: capacity, pack and die temperature
\* come in as Trouble.
MustStop(vbus) == ~chg_on \/ ~attached \/ vbus > 10800
Stop ==
  /\ active
  /\ Trouble \/ \E vbus \in BusReadings : MustStop(vbus)
  /\ Restore /\ pack' \in Near
  /\ UNCHANGED <<port, target_mv, asked>>

\* The pack at the float ceiling, or an input current tapered three ticks long.
Tapered(ibus) == ibus * 2 < 2000
HandsOff(ibus) == pack >= 4430 \/ (Tapered(ibus) /\ cv_ticks + 1 >= 3)
HandOff ==
  /\ active /\ chg_on /\ attached
  /\ \E vbus \in BusReadings, ibus \in Currents : ~MustStop(vbus) /\ HandsOff(ibus)
  /\ Restore /\ pack' \in Near
  /\ UNCHANGED <<port, target_mv, asked>>

RefreshDue == pps_ticks + 1 >= 2

\* What a tick that goes on does before it talks to the source again.
Regulated(ibus, vbus) ==
  /\ ~MustStop(vbus) /\ ~HandsOff(ibus)
  /\ target_mv' = Regulate(pack, ibus, vbus)
  /\ sat_ticks' = CountSat(pack, ibus, vbus)
  /\ cv_ticks' = (IF Tapered(ibus) THEN cv_ticks + 1 ELSE 0)
  /\ last_vbus' = vbus
  /\ pegged' = IF Short(pack, ibus) /\ target_mv' = CeilMv(pack)
                 THEN AtMost(pegged + 1, 9) ELSE 0

TickQuiet ==
  /\ active /\ ~RefreshDue
  /\ \E vbus \in BusReadings, ibus \in Currents : Regulated(ibus, vbus)
  /\ pps_ticks' = pps_ticks + 1 /\ pack' \in Near
  /\ UNCHANGED <<port, contract, active, chg_on, asked>>

\* The source may trim its APDO while the Request is under way.
TrimsInFlight == \E m \in SourceMa : m <= src_ma /\ src_ma' = m

\* sm5440_refresh_pps() succeeds, or does once the APDO it collided with has
\* been read again.  TCPM refuses a current above the APDO's.
TickRefresh ==
  /\ active /\ RefreshDue
  /\ \E vbus \in BusReadings, ibus \in Currents : Regulated(ibus, vbus)
  /\ TrimsInFlight
  /\ \E r \in Readings(src_ma') :
       asked' = Ask(RequestMa(target_mv', r), r)
  /\ asked'.ma <= src_ma'
  /\ contract' = [mv |-> target_mv', ma |-> asked'.ma]
  /\ pps_ticks' = 0 /\ pack' \in Near
  /\ UNCHANGED <<attached, fast_charge, active, chg_on>>

\* Mutant: the retry does not read the APDO again.
TickLostStale ==
  /\ active
  /\ \E vbus \in BusReadings, ibus \in Currents :
       /\ ~MustStop(vbus) /\ ~HandsOff(ibus)
       /\ target_mv' = Regulate(pack, ibus, vbus)
  /\ IF RefreshDue THEN /\ TrimsInFlight
                        /\ \E r \in Readings(src_ma) : asked' = Ask(RequestMa(target_mv', r), r)
                   ELSE UNCHANGED <<src_ma, asked>>
  /\ Trouble \/ (RefreshDue /\ asked'.ma > src_ma')
  /\ Restore /\ pack' \in Near
  /\ UNCHANGED <<attached, fast_charge>>

\* Both attempts failed, or the watchdog could not be fed: switching charger.
TickLost ==
  /\ active
  /\ \E vbus \in BusReadings, ibus \in Currents :
       /\ ~MustStop(vbus) /\ ~HandsOff(ibus)
       /\ target_mv' = Regulate(pack, ibus, vbus)
  /\ IF RefreshDue THEN /\ TrimsInFlight
                        /\ \E r \in Readings(src_ma') : asked' = Ask(RequestMa(target_mv', r), r)
                   ELSE UNCHANGED <<src_ma, asked>>
  /\ Trouble \/ (RefreshDue /\ asked'.ma > src_ma')
  /\ Restore /\ pack' \in Near
  /\ UNCHANGED <<attached, fast_charge>>

\* Nothing to do but look again in 30 seconds.
Rest == /\ ~active /\ ~Eligible /\ pack' \in Near
        /\ UNCHANGED <<port, contract, chg_on, active, target_mv, ticks, history>>

Work == Start \/ StartFails \/ Stop \/ HandOff \/ TickQuiet \/ TickRefresh \/ TickLost \/ Rest
Next == Work \/ Plug \/ Unplug \/ Trim \/ ChipStops \/ SwitchOff

Init ==
  /\ attached = FALSE /\ pack \in Packs /\ src_ma = 0 /\ contract = NoContract
  /\ chg_on = FALSE /\ fast_charge = TRUE /\ active = FALSE
  /\ target_mv = 0 /\ last_vbus = 0
  /\ pps_ticks = 0 /\ cv_ticks = 0 /\ sat_ticks = 0
  /\ pegged = 0 /\ asked = Ask(0, 0)

Spec == Init /\ [][Next]_vars
\* The work item queues itself again on every path.
FairSpec == Spec /\ WF_vars(Work)

--------------------------------------------------------------------------------
(* Properties                                                               *)

TypeOK ==
  /\ attached \in BOOLEAN /\ chg_on \in BOOLEAN /\ fast_charge \in BOOLEAN
  /\ active \in BOOLEAN /\ pack \in Packs /\ src_ma \in Nat
  /\ contract \in [mv : Nat, ma : Nat] /\ target_mv \in Nat
  /\ last_vbus \in Int /\ pps_ticks \in 0..1 /\ cv_ticks \in 0..2 /\ sat_ticks \in 0..7
  /\ pegged \in 0..9 /\ asked \in [ma : Nat, read : BOOLEAN]

\* sm5440_direct.c:301-304: twice the pack plus the drop, "computed every tick,
\* not remembered".  The contract in force follows the moving pack: never so low
\* that the pump conducts backwards, never more than the headroom above it.
HeadroomKept ==
  (active /\ contract.mv # 0) =>
     /\ contract.mv + 4 * Drift >= 2 * pack + 1100 \/ contract.mv = 10500
     /\ contract.mv <= 2 * pack + 2000 + 4 * Drift
     /\ contract.mv <= 10500

\* 809-811: "once the request is pegged at the ceiling and the current still
\* will not come, ease it back": never pegged for more than SM5440_SAT_TICKS.
\* The code does not keep it (README, Divergences): a reading that wanders by a
\* millivolt moves the ceiling and restarts the count.
AntiWindup == pegged <= 8

\* 282-289: the request is "never above what the source's own APDO advertises", and
\* a source that trims its APDO while a Request is under way is asked for no more
\* than it still offers (856-868), whether the retry gets through or not.
\* An APDO that still offers the fifteen watts and the fixed contract's current
\* is assumed: below them the floor of 293-298 asks for more, and so does a
\* Request for which CURRENT_MAX could not be read (296); TCPM refuses both.
ApdoRespected == [][asked' # asked /\ asked'.read => asked'.ma <= src_ma']_vars

\* sm5714_battery.c:1164: "Off keeps the tablet on the fixed 9 V contract", so switching
\* it off must end a programmable contract that is up.
\* The code does not keep it under FairSpec (README, Divergences).
OffMeansFixed == ~fast_charge ~> contract.mv = 0
================================================================================
