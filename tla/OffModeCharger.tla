------------------------------ MODULE OffModeCharger ------------------------------
(***************************************************************************)
(* gts9-charger.c on the panel of PanelPower: the loop that reads the keys, *)
(* the battery and the charger, lights the gauge, and ends in a boot or in  *)
(* a power-off.  A turn of the loop takes no time when a key woke it, and   *)
(* one tick of half a second otherwise.  The user, the charger, the device  *)
(* nodes and the gauge's drivers are external; so is the desktop that uses  *)
(* the panel instead once the tablet has booted.                            *)
(***************************************************************************)
EXTENDS PanelPower, GaugeLayout, Sequences

CONSTANTS
  Hold, Unplugged, Lit,  \* HOLD_MS, UNPLUG_MS and SCREEN_MS, in ticks
  Percents,              \* charges the battery reports
  MaxKeys,               \* bound: keys pressed
  MaxGone                \* bound: input devices that vanish

ASSUME TicksAssumption == Hold \in Nat /\ Unplugged \in Nat /\ Lit \in Nat
ASSUME KeysAssumption == Percents \subseteq 0..100 /\ MaxKeys \in Nat /\ MaxGone \in Nat

VARIABLES
  user,      \* who uses the panel: this program or the desktop
  \* main(): ages in ticks, None while the time is not set
  press_at, last_key, unplug_at, lit, last_lit, last_pct,
  known,     \* the battery's files were found at start
  pc,        \* in the loop, or in screen()
  outcome,   \* running, boot, off
  gauge,     \* what the framebuffer shows
  \* the world
  queue,     \* key events not read yet
  held,      \* ticks the power key has been down, or None
  absent,    \* ticks the program has seen no charger
  charger, pct, keys, gone
clocks == <<press_at, last_key, unplug_at, lit, last_lit, last_pct>>
world == <<queue, held, absent, charger, pct, keys, gone>>
vars == <<panel, user, clocks, known, pc, outcome, gauge, world>>

None == -1
MIN_BOOT_PCT == 3
Aged(age, dt, cap) == IF age = None THEN None ELSE IF age + dt > cap THEN cap ELSE age + dt
Running == user = "charger" /\ outcome = "running"
Capacity == IF known THEN pct ELSE 0

--------------------------------------------------------------------------------
(* One turn of the loop.                                                    *)

\* Mutant: any key starts the hold.
LastAny(event) ==
  queue # <<>> /\ queue[Len(queue)] \in (IF event = "press" THEN {"press", "volume"} ELSE {event})
\* The power key's last event among those not read yet.
Last(event) == \E i \in DOMAIN queue : /\ queue[i] = event
                                       /\ \A j \in i + 1..Len(queue) : queue[j] = "volume"
\* The reads of a turn: a key that goes down lights the screen, and the power key
\* starts and ends a hold.
Heard(dt) == [lit |-> lit \/ \E i \in DOMAIN queue : queue[i] # "release",
              press |-> IF Last("press") THEN 0 ELSE IF Last("release") THEN None
                        ELSE Aged(press_at, dt, Hold),
              key |-> IF queue # <<>> THEN 0 ELSE Aged(last_key, dt, Lit)]
HeldOn(k) == k.press = Hold /\ k.lit /\ Capacity >= MIN_BOOT_PCT
\* Mutant: unplug_at is set anew on every turn without a charger.
AwayRestarts(dt) == IF charger THEN None ELSE 0
\* How long there has been no charger, as unplug_at has it.
Away(dt) == IF charger THEN None ELSE IF unplug_at = None THEN 0 ELSE Aged(unplug_at, dt, Unplugged)

\* The world's own clocks, for the properties.
Passes(dt) == /\ held' = Aged(held, dt, Hold)
              /\ absent' = IF charger THEN None ELSE IF absent = None THEN 0 ELSE Aged(absent, dt, Unplugged)
              /\ queue' = <<>> /\ UNCHANGED <<charger, pct, keys, gone>>
Turn(dt) == Running /\ pc = "loop" /\ dt \in 0..1 /\ (queue = <<>> => dt = 1) /\ Passes(dt)

\* The screen is asked for, and the initramfs goes on.
Boots(dt) == /\ Turn(dt) /\ HeldOn(Heard(dt)) /\ outcome' = "boot"
             /\ UNCHANGED <<panel, user, clocks, known, pc, gauge>>
PowersOff(dt) == /\ Turn(dt) /\ ~HeldOn(Heard(dt)) /\ Away(dt) = Unplugged /\ outcome' = "off"
                 /\ UNCHANGED <<panel, user, clocks, known, pc, gauge>>

\* Mutant: a wake with the same figures redraws nothing.
RedrawsChanged(now) == now /\ Capacity # last_pct
\* The gauge is drawn when it differs, and always at a wake.
Redraws(now) == now /\ (last_lit # 1 \/ Capacity # last_pct)
GoesOn(dt) ==
  LET k == Heard(dt)
      now == k.lit /\ k.key < Lit IN
  /\ Turn(dt) /\ ~HeldOn(k) /\ Away(dt) # Unplugged
  /\ press_at' = k.press /\ last_key' = k.key /\ unplug_at' = Away(dt) /\ lit' = now
  /\ IF Redraws(now) THEN last_pct' = Capacity /\ gauge' = Capacity
                     ELSE UNCHANGED <<last_pct, gauge>>
  /\ last_lit' = (IF now THEN 1 ELSE 0)
  /\ pc' = (IF last_lit' # last_lit THEN "brightness" ELSE "loop")
  /\ UNCHANGED <<panel, user, known, outcome>>

\* screen(): the backlight first, then the blank, whose result is ignored.
ScreenStores == /\ Running /\ pc = "brightness" /\ commit = "none" /\ pc' = "blank"
                /\ Store(IF lit THEN 2047 \div 5 ELSE 0)
                /\ UNCHANGED <<user, clocks, known, outcome, gauge, world>>
ScreenBlanks == /\ Running /\ pc = "blank"
                /\ \/ Blank(lit)
                   \/ commit = "none" /\ wanted = lit /\ UNCHANGED panel
                /\ pc' = (IF commit' = "none" THEN "loop" ELSE "commit")
                /\ gauge' = IF lit THEN gauge ELSE None
                /\ UNCHANGED <<user, clocks, known, outcome, world>>
Program == \/ \E dt \in 0..1: Boots(dt) \/ PowersOff(dt) \/ GoesOn(dt)
           \/ ScreenStores \/ ScreenBlanks

\* The panel's commit, whoever asked for it; the program waits for the ioctl.
Commits == /\ Commit /\ pc' = (IF pc = "commit" /\ commit' = "none" THEN "loop" ELSE pc)
           /\ UNCHANGED <<user, clocks, known, outcome, gauge, world>>

--------------------------------------------------------------------------------
(* The world.                                                               *)

Alike == UNCHANGED <<panel, user, clocks, known, pc, outcome, gauge>>
Press == /\ Running /\ keys < MaxKeys /\ keys' = keys + 1 /\ held = None /\ held' = 0
         /\ queue' = Append(queue, "press") /\ Alike /\ UNCHANGED <<absent, charger, pct, gone>>
Release == /\ Running /\ held # None /\ held' = None /\ queue' = Append(queue, "release")
           /\ Alike /\ UNCHANGED <<absent, charger, pct, keys, gone>>
Volume == /\ Running /\ keys < MaxKeys /\ keys' = keys + 1 /\ queue' = Append(queue, "volume")
          /\ Alike /\ UNCHANGED <<held, absent, charger, pct, gone>>
\* The power key's device goes, with what was not read of it and its release.
DeviceGoes == /\ Running /\ gone < MaxGone /\ gone' = gone + 1 /\ queue' = <<>> /\ held' = None
              /\ Alike /\ UNCHANGED <<absent, charger, pct, keys>>
Cable == /\ Running /\ charger' = ~charger
         /\ Alike /\ UNCHANGED <<queue, held, absent, pct, keys, gone>>
Charges == /\ Running /\ charger /\ pct' \in {p \in Percents: p > pct}
           /\ Alike /\ UNCHANGED <<queue, held, absent, charger, keys, gone>>
World == Press \/ Release \/ Volume \/ DeviceGoes \/ Cable \/ Charges

\* The desktop blanks the screen and writes the brightness at any time.
Desktop == /\ user = "desktop"
           /\ \/ \E on \in BOOLEAN: Blank(on)
              \/ \E level \in Levels: Store(level)
           /\ UNCHANGED <<user, clocks, known, pc, outcome, gauge, world>>

Init == /\ PanelInit /\ user \in {"charger", "desktop"}
        /\ press_at = None /\ last_key = 0 /\ unplug_at = None /\ lit = TRUE
        /\ last_lit = None /\ last_pct = -2 /\ known \in BOOLEAN /\ pc = "brightness"
        /\ outcome = "running" /\ gauge = None /\ queue = <<>> /\ held = None /\ absent = None
        /\ charger = TRUE /\ pct \in Percents /\ keys = 0 /\ gone = 0
Next == Program \/ Commits \/ World \/ Desktop
Fairness == WF_vars(Program) /\ WF_vars(Commits)
Spec == Init /\ [][Next]_vars /\ Fairness

--------------------------------------------------------------------------------
(* Properties.                                                              *)

\* "Redraw before the panel is switched on" (522-527), and the panel "dark most of
\* the time" (6): between two turns, without a fault, a lit screen is on and
\* shows the charge last read, and a dark one has no supply left.
GaugeVisible ==
  Running /\ pc = "loop" /\ faults = 0 /\ last_lit # None =>
    IF last_lit = 1 THEN ddic.on /\ ddic.level = 2047 \div 5 /\ gauge = last_pct
                    ELSE rails = {}

\* Only a power key down for the whole hold starts the boot, and the tablet is
\* only switched off when no charger was seen for all of UNPLUG_MS.  (A device
\* that vanishes takes the release with it: then a stale hold may boot.)
EndsAsMeant == [][ /\ outcome' = "boot" => gone > 0 \/ held' = Hold
                   /\ outcome' = "off" => absent' = Unplugged ]_outcome

\* A key held on a lit screen with enough charge boots, and a tablet whose
\* charger stays away does not stay on.
Decides == /\ (Running /\ press_at # None /\ held # None /\ lit /\ known /\ pct >= MIN_BOOT_PCT)
                ~> (~Running \/ held = None \/ gone > 0)
           /\ (user = "charger" /\ <>[]~charger) => <>(outcome # "running")
================================================================================
