------------------------------- MODULE CameraLens -------------------------------
(***************************************************************************)
(* dw9808_vcm.c on the rail of CameraSensor: the autofocus actuator, opened *)
(* by a program, resumed and parked by runtime PM, and re-initialised when  *)
(* the rail has been down.  Runtime PM and the regulator core are external: *)
(* a disable the lens's consumer does not own changes nothing, and an error *)
(* from a suspend makes every later resume fail.                            *)
(***************************************************************************)
EXTENDS CameraSensor

CONSTANT Positions  \* focus positions programs ask for

ASSUME PositionsAssumption == Positions \subseteq 1..1023

VARIABLES
  alone,    \* the chip answers while only the lens holds the rail
  opened,   \* a program has the sub-device open
  pm,       \* runtime PM: active, suspended, or in one of the callbacks
  broken,   \* runtime_error
  position, inited,  \* struct dw9808_device
  focusing, \* how far dw9808_set_control() is
  vcm,      \* the actuator: initialised since power-up, and where it stands
  cycled    \* history: the rail has been down since the driver last looked, inited set
actuator == <<alone, opened, pm, broken, position, inited, focusing, vcm, cycled>>
vars == <<sensor, actuator, faults>>

Users == {"sensor", "lens"}
RailOn == rail["sensor"] > 0 \/ rail["lens"] > 0
\* The chip acknowledges (112-115: while the sensor keeps the rail up).
Answers == rail["sensor"] > 0 \/ (rail["lens"] > 0 /\ alone)
VcmOff == [ready |-> FALSE, at |-> 0]
camera == <<variant, clk, lines, desc, probe, stream, streaming, ctl, chip, early>>
\* Every sensor step may take the rail down, and the actuator with it.
SensorStep == /\ SensorNext
              /\ LET down == rail'["sensor"] = 0 /\ rail["lens"] = 0 IN
                 /\ vcm' = IF down THEN VcmOff ELSE vcm
                 /\ cycled' = (cycled \/ (down /\ inited))
              /\ UNCHANGED <<alone, opened, pm, broken, position, inited, focusing>>

\* regulator_disable() by the lens.
Disable(at) == LET hold == IF rail["lens"] > 0 THEN rail["lens"] - 1 ELSE 0 IN
               /\ rail' = [rail EXCEPT !["lens"] = hold]
               /\ vcm' = IF rail["sensor"] > 0 \/ hold > 0 THEN [vcm EXCEPT !.at = at] ELSE VcmOff

--------------------------------------------------------------------------------
(* Runtime PM.                                                              *)

\* dw9808_open() and the start of dw9808_resume().  A failed enable is a failed
\* resume, which runtime PM remembers.
Open == /\ variant = "rear" /\ probe = "bound" /\ ~opened /\ ~broken
        /\ \/ /\ pm = "active" /\ opened' = TRUE /\ UNCHANGED <<pm, rail, broken, faults>>
           \/ /\ pm = "suspended" /\ opened' = TRUE /\ pm' = "resuming"
              /\ rail' = [rail EXCEPT !["lens"] = @ + 1] /\ UNCHANGED <<broken, faults>>
           \/ /\ pm = "suspended" /\ Fault /\ broken' = TRUE /\ UNCHANGED <<opened, pm, rail>>
        /\ UNCHANGED <<camera, alone, position, inited, focusing, vcm, cycled>>

\* The chip is initialised, unless it is already, and ramped to the position,
\* or the rail is let go; either way the open succeeds.  The ramp stops at a
\* write that fails.
Resume ==
  /\ pm = "resuming" /\ pm' = "active"
  /\ \/ /\ Answers /\ inited' = TRUE /\ UNCHANGED rail
        /\ LET ready == vcm.ready \/ ~inited IN
           \/ vcm' = [ready |-> ready, at |-> IF ready THEN position ELSE vcm.at] /\ UNCHANGED faults
           \/ vcm' = [ready |-> ready, at |-> IF ready THEN position % 16 ELSE vcm.at] /\ Fault
     \/ /\ ~inited /\ ((Answers /\ Fault) \/ (~Answers /\ UNCHANGED faults))
        /\ Disable(vcm.at) /\ UNCHANGED inited
  /\ UNCHANGED <<camera, alone, opened, broken, position, focusing, cycled>>

\* What a failed park leaves: runtime PM tries again after -EBUSY, an actuator still
\* moving, and never again after any other error.
ParkFails == \/ Answers /\ Fault /\ broken' \in BOOLEAN
             \/ ~Answers /\ broken' = TRUE /\ UNCHANGED faults
\* Nobody has it open: the suspend starts when the PM core gets to it.
SuspendChecks == /\ pm = "active" /\ ~opened /\ ~broken
                 /\ IF RailOn THEN pm' = "parking" /\ UNCHANGED <<inited, cycled>>
                              ELSE pm' = "suspended" /\ inited' = FALSE /\ cycled' = FALSE
                 /\ UNCHANGED <<camera, rail, alone, opened, broken, position, focusing, vcm, faults>>
\* Mutant: the error return comes before the rail is let go.
SuspendParksHolding ==
  /\ pm = "parking" /\ inited' = FALSE /\ cycled' = FALSE
  /\ \/ Answers /\ Disable(0) /\ pm' = "suspended" /\ UNCHANGED <<broken, faults>>
     \/ ParkFails /\ pm' = "active" /\ UNCHANGED <<rail, vcm>>
  /\ UNCHANGED <<camera, alone, opened, position, focusing>>
\* Ramp to zero, power down, rail: a transfer that fails on the way is returned,
\* and runtime PM takes the device for active.
SuspendParks ==
  /\ pm = "parking" /\ inited' = FALSE /\ cycled' = FALSE
  /\ \/ Answers /\ Disable(0) /\ pm' = "suspended" /\ UNCHANGED <<broken, faults>>
     \/ ParkFails /\ Disable(vcm.at) /\ pm' = "active"
  /\ UNCHANGED <<camera, alone, opened, position, focusing>>
\* A program ends and its descriptor is closed.
Close == /\ opened /\ pm = "active" /\ focusing = "idle" /\ opened' = FALSE
         /\ UNCHANGED <<camera, rail, alone, pm, broken, position, inited, focusing, vcm, cycled, faults>>
RuntimePm == Open \/ Resume \/ SuspendChecks \/ SuspendParks \/ Close

--------------------------------------------------------------------------------
(* dw9808_set_control(): the program holds the device active.               *)

\* Mutant: a rail found down leaves the driver's flag alone.
FocusTrusts ==
  /\ opened /\ pm = "active" /\ focusing = "idle"
  /\ \E want \in Positions \ {position}:
       /\ position' = want /\ cycled' = (cycled /\ RailOn) /\ UNCHANGED inited
       /\ focusing' = IF ~RailOn THEN "idle" ELSE IF inited THEN "move" ELSE "init"
  /\ UNCHANGED <<camera, rail, alone, opened, pm, broken, vcm, faults>>
\* The control core drops a value equal to the last.  A rail that is down is
\* noticed; one that went down and came back is not.
Focus ==
  /\ opened /\ pm = "active" /\ focusing = "idle"
  /\ \E want \in Positions \ {position}:
       /\ position' = want
       /\ inited' = (inited /\ RailOn) /\ cycled' = (cycled /\ RailOn)
       /\ focusing' = IF ~RailOn THEN "idle" ELSE IF inited THEN "move" ELSE "init"
  /\ UNCHANGED <<camera, rail, alone, opened, pm, broken, vcm, faults>>
FocusInits ==
  /\ focusing = "init"
  /\ \/ /\ Answers /\ vcm' = [vcm EXCEPT !.ready = TRUE] /\ inited' = TRUE
        /\ focusing' = "move" /\ UNCHANGED faults
     \/ /\ (Answers /\ Fault) \/ (~Answers /\ UNCHANGED faults)
        /\ focusing' = "idle" /\ UNCHANGED <<inited, vcm>>
  /\ UNCHANGED <<camera, rail, alone, opened, pm, broken, position, cycled>>
\* A chip that lost its initialisation does not follow.
FocusMoves ==
  /\ focusing = "move" /\ focusing' = "idle"
  /\ \/ /\ Answers /\ UNCHANGED faults
        /\ vcm' = [vcm EXCEPT !.at = IF vcm.ready THEN position ELSE @]
     \/ /\ (Answers /\ Fault) \/ (~Answers /\ UNCHANGED faults)
        /\ UNCHANGED vcm
  /\ UNCHANGED <<camera, rail, alone, opened, pm, broken, position, inited, cycled>>
SetControl == Focus \/ FocusInits \/ FocusMoves

Init == /\ SensorInit /\ alone \in BOOLEAN /\ opened = FALSE /\ pm = "suspended"
        /\ broken = FALSE /\ position = 512 /\ inited = FALSE /\ focusing = "idle"
        /\ vcm = VcmOff /\ cycled = FALSE
Next == SensorStep \/ RuntimePm \/ SetControl
Spec == Init /\ [][Next]_vars

--------------------------------------------------------------------------------
(* Properties.                                                              *)

\* The driver never takes a bare actuator for an initialised one, unless the rail
\* went down and came back between two of its looks (dw9808_ensure_ready()); while
\* the lens holds the rail itself, no sensor step can make that happen.
LensTruthful == /\ inited /\ ~cycled => vcm.ready
                /\ rail["lens"] = 1 => ~cycled

\* The comment on dw9808_ensure_ready() (112-116): a power cycle is detected, so that the
\* next write re-initialises: only a chip that is initialised gets a position at once.
ReinitialisedAfterCycle ==
  [][focusing = "idle" /\ focusing' = "move" /\ Answers => vcm.ready]_vars

\* The sensor's and the lens's books of the shared rail stay apart: with the
\* lens closed and parked, or its suspend failed for good, it holds nothing, so
\* that the rail goes down with the last stream.
RailReleased == ~opened /\ (pm = "suspended" \/ broken) => rail["lens"] = 0
================================================================================
