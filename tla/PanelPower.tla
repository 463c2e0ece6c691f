-------------------------------- MODULE PanelPower --------------------------------
(***************************************************************************)
(* panel-samsung-ana38407-x716.c: the callbacks by which the DRM core wakes *)
(* the panel and puts it to sleep, and the backlight.  A command sequence   *)
(* stops at its first failed transfer.  The panel and backlight cores, with *)
(* the flags they keep of their own, are external, and so is the program    *)
(* that blanks the screen and sets the brightness; each callback runs under *)
(* ctx->lock, and brightness may be written between any two of them.        *)
(***************************************************************************)
EXTENDS Integers

CONSTANTS
  Levels,     \* brightness values a program writes, zero for dark
  MaxFaults   \* bound: transfers and regulators that fail

ASSUME LevelsAssumption == 0 \in Levels /\ Levels \subseteq 0..2047
ASSUME PanelBoundsAssumption == MaxFaults \in Nat

VARIABLES
  \* struct ana38407_x716
  prepared, enabled, user_brightness,
  rails,     \* supplies the driver holds
  reset,     \* level of the reset line
  ddic,      \* the panel: set up, display on, the brightness it shows
  core,      \* drm_panel's own prepared and enabled
  bl,        \* the backlight device: powered, brightness
  commit,    \* what the DRM commit under way calls next
  wanted,    \* the screen a program asked for last
  quiet,     \* whole commits since the last fault, at most two
  faults     \* faults so far
driver == <<prepared, enabled, user_brightness, rails, reset, ddic>>
panel == <<driver, core, bl, commit, wanted, quiet, faults>>

Supplies == {"vddio", "vdd", "vci", "avdd"}
Asleep == [ready |-> FALSE, on |-> FALSE, level |-> 0]

Fault == faults < MaxFaults /\ faults' = faults + 1

--------------------------------------------------------------------------------
(* The driver's callbacks: ok is what they return.                          *)

\* Mutant: the error path of the command sequence lets go of vddio only.
PrepareForgets(ok) ==
  IF prepared THEN ok /\ UNCHANGED <<driver, faults>>
  ELSE IF ok THEN /\ prepared' = TRUE /\ rails' = Supplies /\ reset' = 1 /\ UNCHANGED faults
                  /\ ddic' = [ready |-> TRUE, on |-> FALSE, level |-> user_brightness]
                  /\ UNCHANGED <<enabled, user_brightness>>
  ELSE /\ Fault /\ UNCHANGED <<prepared, enabled, user_brightness, ddic>>
       /\ \/ UNCHANGED <<rails, reset>>
          \/ rails' = Supplies \ {"vddio"} /\ reset' = 0
\* Supplies, reset, the start-up sequence; an error gives everything back.
Prepare(ok) ==
  IF prepared THEN ok /\ UNCHANGED <<driver, faults>>
  ELSE IF ok THEN /\ prepared' = TRUE /\ rails' = Supplies /\ reset' = 1 /\ UNCHANGED faults
                  /\ ddic' = [ready |-> TRUE, on |-> FALSE, level |-> user_brightness]
                  /\ UNCHANGED <<enabled, user_brightness>>
  ELSE /\ Fault /\ UNCHANGED <<prepared, enabled, user_brightness, rails>> /\ ddic' = Asleep
       /\ reset' \in {reset, 0}

\* Not prepared: -EPIPE.  The unlock, the display-on or the relock may fail.
Enable(ok) ==
  IF ~prepared THEN ~ok /\ UNCHANGED <<driver, faults>>
  ELSE IF enabled THEN ok /\ UNCHANGED <<driver, faults>>
  ELSE /\ enabled' = ok /\ UNCHANGED <<prepared, user_brightness, rails, reset>>
       /\ IF ok THEN ddic' = [ddic EXCEPT !.on = TRUE] /\ UNCHANGED faults
                ELSE \E on \in BOOLEAN: ddic' = [ddic EXCEPT !.on = on] /\ Fault

\* The flag goes whatever the transfer did.
Disable(ok) ==
  IF ~enabled THEN ok /\ UNCHANGED <<driver, faults>>
  ELSE /\ enabled' = FALSE /\ UNCHANGED <<prepared, user_brightness, rails, reset>>
       /\ IF ok THEN ddic' = [ddic EXCEPT !.on = FALSE] /\ UNCHANGED faults ELSE UNCHANGED ddic /\ Fault

\* Reset and rails go whatever the sleep-in command did.
Unprepare(ok) ==
  IF ~prepared THEN ok /\ UNCHANGED <<driver, faults>>
  ELSE /\ prepared' = FALSE /\ enabled' = FALSE /\ rails' = {} /\ reset' = 0
       /\ ddic' = Asleep /\ UNCHANGED user_brightness
       /\ IF ok THEN UNCHANGED faults ELSE Fault

\* Mutant: the value kept is written before the new one is stored.
UpdateStale(brightness) ==
  /\ user_brightness' = brightness /\ UNCHANGED <<prepared, enabled, rails, reset>>
  /\ \/ ~prepared /\ UNCHANGED <<ddic, faults>>
     \/ prepared /\ ddic' = [ddic EXCEPT !.level = user_brightness] /\ UNCHANGED faults
     \/ prepared /\ UNCHANGED ddic /\ Fault
\* bl_update: kept for the next start-up, and written if the panel is up.
Update(brightness) ==
  /\ user_brightness' = brightness /\ UNCHANGED <<prepared, enabled, rails, reset>>
  /\ \/ ~prepared /\ UNCHANGED <<ddic, faults>>
     \/ prepared /\ ddic' = [ddic EXCEPT !.level = brightness] /\ UNCHANGED faults
     \/ prepared /\ UNCHANGED ddic /\ Fault
--------------------------------------------------------------------------------
(* The DRM panel core, which calls them and keeps flags of its own: a       *)
(* callback that fails leaves its flag as it was.                           *)

\* Bookkeeping of a step that may have failed and may end its commit.
Then(next) ==
  /\ commit' = next
  /\ quiet' = IF faults' # faults THEN IF next = "none" THEN 0 ELSE -1
              ELSE IF next # "none" \/ commit = "none" THEN quiet
              ELSE IF quiet < 2 THEN quiet + 1 ELSE 2

PrepareStep == /\ commit = "prepare" /\ UNCHANGED <<bl, wanted>>
               /\ IF core.prepared THEN UNCHANGED <<driver, core, faults>>
                  ELSE \E ok \in BOOLEAN: Prepare(ok) /\ core' = [core EXCEPT !.prepared = ok]
               /\ Then("enable")
EnableStep == /\ commit = "enable" /\ UNCHANGED <<bl, wanted>>
              /\ IF core.enabled THEN UNCHANGED <<driver, core, faults>> /\ Then("none")
                 ELSE \E ok \in BOOLEAN: /\ Enable(ok) /\ core' = [core EXCEPT !.enabled = ok]
                                         /\ Then(IF ok THEN "light" ELSE "none")
\* backlight_enable() and backlight_disable(): their result is not looked at.
LightStep == /\ commit = "light" /\ bl' = [bl EXCEPT !.on = TRUE] /\ Update(bl.brightness)
             /\ UNCHANGED <<core, wanted>> /\ Then("none")
DimStep == /\ commit = "dim" /\ UNCHANGED <<core, wanted>>
           /\ IF core.enabled
              THEN bl' = [bl EXCEPT !.on = FALSE] /\ Update(0) /\ Then("disable")
              ELSE UNCHANGED <<driver, bl, faults>> /\ Then("unprepare")
DisableStep == /\ commit = "disable" /\ UNCHANGED <<bl, wanted>>
               /\ \E ok \in BOOLEAN: Disable(ok) /\ core' = [core EXCEPT !.enabled = ~ok]
               /\ Then("unprepare")
UnprepareStep == /\ commit = "unprepare" /\ UNCHANGED <<bl, wanted>>
                 /\ IF core.prepared
                    THEN \E ok \in BOOLEAN: Unprepare(ok) /\ core' = [core EXCEPT !.prepared = ~ok]
                    ELSE UNCHANGED <<driver, core, faults>>
                 /\ Then("none")
Commit == \/ PrepareStep \/ EnableStep \/ LightStep
          \/ DimStep \/ DisableStep \/ UnprepareStep

\* A blank or an unblank, and a write of the backlight's brightness file.
Blank(on) == /\ commit = "none" /\ wanted # on /\ wanted' = on
             /\ commit' = (IF on THEN "prepare" ELSE "dim")
             /\ UNCHANGED <<driver, core, bl, quiet, faults>>
Store(level) == /\ bl' = [bl EXCEPT !.brightness = level] /\ Update(IF bl.on THEN level ELSE 0)
                /\ quiet' = (IF faults' # faults THEN IF commit = "none" THEN 0 ELSE -1 ELSE quiet)
                /\ UNCHANGED <<core, commit, wanted>>

\* Probe: full brightness for the first start-up; the DRM core wakes the panel.
PanelInit == /\ prepared = FALSE /\ enabled = FALSE /\ user_brightness = 2047
             /\ rails = {} /\ reset = 1 /\ ddic = Asleep
             /\ core = [prepared |-> FALSE, enabled |-> FALSE]
             /\ bl = [on |-> TRUE, brightness |-> 2047]
             /\ commit = "prepare" /\ wanted = TRUE /\ quiet = 2 /\ faults = 0

--------------------------------------------------------------------------------
(* Properties.                                                              *)

\* Every supply is held while the panel is prepared and none otherwise, and a
\* panel put to sleep is without power even if every command of the commit
\* failed: prepare, its error paths and unprepare balance over both cores' flags.
RailsBalanced == /\ rails = (IF prepared THEN Supplies ELSE {})
                 /\ enabled => prepared
                 /\ ddic.on => prepared
                 /\ commit = "none" /\ ~wanted => ~prepared

\* A transfer lost on the way down leaves a flag of the core standing and the
\* next wake dark; no fault costs more than that.  Two commits after the last
\* fault a woken panel is on, at the brightness last written, whatever writes
\* came between the callbacks.
LitWhenOn == commit = "none" /\ wanted /\ quiet = 2 =>
               ddic.ready /\ ddic.on /\ ddic.level = bl.brightness
================================================================================
