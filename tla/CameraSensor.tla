------------------------------- MODULE CameraSensor -------------------------------
(***************************************************************************)
(* hi1337_gts9.c: the HI1337 behind either camera.  Probe powers the module *)
(* to read its identity, set_stream() owns it afterwards, and the controls  *)
(* are written through while it streams.  The control core (which clips a   *)
(* value and skips an unchanged one) and the I2C, clock, GPIO and regulator *)
(* cores are external.  A register table is one write; the analogue gain is *)
(* left out, nothing else depends on it.                                    *)
(***************************************************************************)
EXTENDS Integers

CONSTANTS
  VblankAbove,  \* blanking an application asks for, above the mode's own
  Exposures,    \* exposures an application asks for
  MaxFaults     \* bound: transfers and requests that fail

ASSUME RequestsAssumption == VblankAbove \subseteq Nat /\ Exposures \subseteq Nat
ASSUME SensorBoundsAssumption == MaxFaults \in Nat

VARIABLES
  variant,   \* "rear" or "front", from the device tree
  \* struct hi1337 and what the cores hold for it
  rail,      \* per consumer, how often it holds the 1.8 V camera rail
  clk,       \* prepare-enable count of MCLK
  lines,     \* GPIO lines requested from the controller
  desc,      \* those of them the driver has a descriptor of
  probe,     \* how far hi1337_probe() is
  stream,    \* how far a set_stream(1) is, with the mutex held
  streaming,
  ctl,       \* control values, the exposure's ceiling and a VBLANK under way;
             \* history: controls refused since an application last set them
  chip,      \* the sensor: power state, frame length and exposure registers
  early,     \* somebody streamed between the registration and the end of probe
  faults     \* faults so far

power == <<rail, clk, lines, desc>>
sensor == <<variant, power, probe, stream, streaming, ctl, chip, early>>

--------------------------------------------------------------------------------
(* Modes and the control core.                                              *)

Mode == [rear  |-> [height |-> 3096, frame_length |-> 3264],
         front |-> [height |-> 1524, frame_length |-> 1621]]
Height == Mode[variant].height
FrameLength == Mode[variant].frame_length
Margin == 4
ExposureMin == 4
NoChange == -1  \* no VBLANK under way
VblankMin == FrameLength - Height
VblankMax == 32767 - Height

\* hi1337_set_ctrl(): the longest exposure a frame of this blanking takes.
Ceiling(vblank) == Height + vblank - Margin

Clip(value, low, high) == IF value < low THEN low ELSE IF value > high THEN high ELSE value
Fault == faults < MaxFaults /\ faults' = faults + 1
Lines == IF variant = "rear" THEN {"reset"} ELSE {"enable", "reset"}
FreshCtl == [vblank |-> VblankMin, exposure |-> FrameLength - Margin,
             max |-> FrameLength - Margin, next |-> NoChange, refused |-> {}]
ChipOff == [state |-> "off", frame |-> 0, exposure |-> 0]
\* Nobody holds sensor->mutex.
Unlocked == stream = "idle" /\ ctl.next = NoChange

--------------------------------------------------------------------------------
(* Power.                                                                   *)

\* hi1337_power_on(): supplies, GPIO lines, MCLK, reset.
PowerOn == /\ lines = {}
           /\ rail' = [rail EXCEPT !["sensor"] = @ + 1] /\ clk' = clk + 1
           /\ lines' = Lines /\ desc' = Lines
           /\ chip' = [ChipOff EXCEPT !.state = "standby"] /\ UNCHANGED faults

\* A supply, a line or the clock fails: what was taken so far is given back.
\* A line that is still requested is busy, and the error path forgets the
\* descriptor the other owner of the structure stored.
PowerOnFails == /\ \/ lines = {} /\ Fault /\ UNCHANGED desc
                   \/ lines # {} /\ UNCHANGED faults
                      /\ desc' = IF "enable" \in lines THEN desc \ {"enable"} ELSE {}
                /\ UNCHANGED <<rail, clk, lines, chip>>

\* hi1337_power_off(): nothing without the descriptor of the reset line.
PowerOff == IF "reset" \notin desc THEN UNCHANGED <<power, chip>>
            ELSE /\ rail' = [rail EXCEPT !["sensor"] = @ - 1] /\ clk' = clk - 1
                 /\ lines' = lines \ desc /\ desc' = {} /\ chip' = ChipOff

--------------------------------------------------------------------------------
(* Probe and remove.                                                        *)

\* The sub-device is registered: applications can reach it.
Reachable == probe \in {"registered", "bound"}

ProbePowers == /\ probe = "unbound" /\ stream = "idle"
               /\ \/ PowerOn /\ probe' = "powered"
                  \/ PowerOnFails /\ probe' = "unbound"
               /\ UNCHANGED <<variant, stream, streaming, ctl, early>>
\* hi1337_identify(): both reads are made before either result is looked at.
ProbeIdentifies == /\ probe = "powered"
                   /\ \/ probe' = "identified" /\ UNCHANGED <<power, chip, faults>>
                      \/ probe' = "unbound" /\ Fault /\ PowerOff
                   /\ UNCHANGED <<variant, stream, streaming, ctl, early>>
\* Mutant: a failed registration returns without powering the module off.
ProbeRegistersLit == /\ probe = "identified" /\ ctl' = FreshCtl /\ streaming' = FALSE
                     /\ \/ probe' = "registered" /\ UNCHANGED <<power, chip, faults>>
                        \/ probe' = "unbound" /\ Fault /\ UNCHANGED <<power, chip>>
                     /\ UNCHANGED <<variant, stream, early>>
\* The controls, the media entity and the registration, or the error labels.
ProbeRegisters == /\ probe = "identified" /\ ctl' = FreshCtl /\ streaming' = FALSE
                  /\ \/ probe' = "registered" /\ UNCHANGED <<power, chip, faults>>
                     \/ probe' = "unbound" /\ Fault /\ PowerOff
                  /\ UNCHANGED <<variant, stream, early>>
\* power_off() after the registration, without the mutex: one step here, so that a
\* stream that runs into it comes wholly before or after.
ProbeEnds == /\ probe = "registered" /\ probe' = "bound" /\ PowerOff
             /\ UNCHANGED <<variant, stream, streaming, ctl, early, faults>>
\* The last reference is gone, or the driver is unbound under a stream.
Remove == /\ probe = "bound" /\ Unlocked /\ probe' = "unbound" /\ streaming' = FALSE
          /\ IF streaming THEN PowerOff ELSE UNCHANGED <<power, chip>>
          /\ UNCHANGED <<variant, stream, ctl, early, faults>>
Probe == ProbePowers \/ ProbeIdentifies \/ ProbeRegisters \/ ProbeEnds \/ Remove

--------------------------------------------------------------------------------
(* set_stream().                                                            *)

StreamPowers == /\ Reachable /\ Unlocked /\ ~streaming
                /\ \/ PowerOn /\ stream' = "powered"
                   \/ PowerOnFails /\ stream' = "idle"
                /\ early' = (early \/ probe = "registered")
                /\ UNCHANGED <<variant, probe, streaming, ctl>>
\* Tables, every control, MODE_SELECT.
StreamStarts ==
  /\ stream = "powered" /\ stream' = "idle" /\ streaming' = TRUE
  /\ chip' = [state |-> "live", frame |-> Height + ctl.vblank, exposure |-> ctl.exposure]
  /\ UNCHANGED <<variant, power, probe, ctl, early, faults>>
StreamFails == /\ stream = "powered" /\ stream' = "idle" /\ streaming' = FALSE /\ Fault
               /\ PowerOff /\ UNCHANGED <<variant, probe, ctl, early>>
\* The standby write may fail: its result is returned and the power goes anyway.
StreamStops == /\ Reachable /\ Unlocked /\ streaming /\ streaming' = FALSE /\ PowerOff
               /\ UNCHANGED <<variant, probe, stream, ctl, early, faults>>
Stream == StreamPowers \/ StreamStarts \/ StreamFails \/ StreamStops

--------------------------------------------------------------------------------
(* hi1337_set_ctrl(), under the mutex.                                      *)

\* A register write is taken or fails, which does not say whether the sensor took it
\* (hi1337_write_reg()); a control refused keeps its old value.
Writes(after, taken) ==
  IF ~streaming THEN taken /\ UNCHANGED <<chip, faults>>
  ELSE IF taken THEN chip' = after /\ UNCHANGED faults
  ELSE Fault /\ chip' \in {chip, after}
WritesExposure(value, taken) == Writes([chip EXCEPT !.exposure = value], taken)
WritesFrame(value, taken) == Writes([chip EXCEPT !.frame = value], taken)

SetExposure ==
  /\ Reachable /\ Unlocked
  /\ \E want \in Exposures, taken \in BOOLEAN:
       LET value == Clip(want, ExposureMin, ctl.max) IN
       /\ value # ctl.exposure /\ WritesExposure(value, taken)
       /\ ctl' = IF taken THEN [ctl EXCEPT !.exposure = value, !.refused = @ \ {"exposure"}]
                 ELSE [ctl EXCEPT !.refused = @ \union {"exposure"}]
  /\ UNCHANGED <<variant, power, probe, stream, streaming, early>>

\* Mutant: the exposure's range is left to the next set of the exposure.
VblankClipsLater ==
  /\ Reachable /\ Unlocked
  /\ \E above \in VblankAbove:
       LET next == Clip(VblankMin + above, VblankMin, VblankMax) IN
       /\ next # ctl.vblank /\ ctl' = [ctl EXCEPT !.max = Ceiling(next), !.next = next]
       /\ UNCHANGED <<chip, faults>>
  /\ UNCHANGED <<variant, power, probe, stream, streaming, early>>
\* The exposure's range follows first; what the clip's write returns is ignored.
VblankClips ==
  /\ Reachable /\ Unlocked
  /\ \E above \in VblankAbove, taken \in BOOLEAN:
       LET next == Clip(VblankMin + above, VblankMin, VblankMax)
           exposure == Clip(ctl.exposure, ExposureMin, Ceiling(next)) IN
       /\ next # ctl.vblank
       /\ ctl' = [ctl EXCEPT !.max = Ceiling(next), !.next = next,
                             !.exposure = IF taken THEN exposure ELSE @,
                             !.refused = IF taken THEN @ ELSE @ \union {"exposure"}]
       /\ IF exposure = ctl.exposure THEN taken /\ UNCHANGED <<chip, faults>>
                                     ELSE WritesExposure(exposure, taken)
  /\ UNCHANGED <<variant, power, probe, stream, streaming, early>>
\* Then the frame length.  A refused one leaves the range where it was put.
VblankWrites ==
  /\ ctl.next # NoChange
  /\ \E taken \in BOOLEAN:
       /\ WritesFrame(Height + ctl.next, taken)
       /\ ctl' = [ctl EXCEPT !.vblank = IF taken THEN ctl.next ELSE @, !.next = NoChange,
                             !.refused = IF taken THEN @ \ {"frame"} ELSE @ \union {"frame"}]
  /\ UNCHANGED <<variant, power, probe, stream, streaming, early>>
SetCtrl == SetExposure \/ VblankClips \/ VblankWrites

SensorInit == /\ variant \in DOMAIN Mode
              /\ rail = [user \in {"sensor", "lens"} |-> 0] /\ clk = 0
              /\ lines = {} /\ desc = {} /\ probe = "unbound" /\ stream = "idle"
              /\ streaming = FALSE /\ ctl = FreshCtl /\ chip = ChipOff /\ early = FALSE
              /\ faults = 0
SensorNext == Probe \/ Stream \/ SetCtrl

--------------------------------------------------------------------------------
(* Properties.                                                              *)

\* hi1337_power_on() and hi1337_power_off() keep each other's books over probe,
\* set_stream(), their error paths and remove: rail, clock and GPIO lines are
\* held exactly once while the module is in use, and not at all otherwise,
\* unless a stream ran into the end of probe, which does not take the mutex.
InUse == probe \in {"powered", "identified", "registered"} \/ stream = "powered" \/ streaming
PowerBalanced ==
  ~early => /\ rail["sensor"] = clk /\ clk = (IF InUse THEN 1 ELSE 0)
            /\ lines = desc /\ desc = (IF InUse THEN Lines ELSE {})

\* A live sensor runs with the frame length and the exposure its controls report,
\* but for a control whose write was refused and that nobody set since; and while
\* neither was refused, the exposure fits the frame at every instant of a change
\* of VBLANK.
RegistersFollow ==
  /\ streaming = (chip.state = "live")
  /\ chip.state = "live" =>
       /\ "exposure" \notin ctl.refused => chip.exposure = ctl.exposure
       /\ "frame" \notin ctl.refused => chip.frame = Height + ctl.vblank
       /\ ctl.refused = {} => chip.exposure <= chip.frame - Margin
================================================================================
