# Verification of the Galaxy Tab S9 (gts9) mainline port

This directory holds TLA+ models of the drivers and programs of this repository, the
TLC instances that check them and TLAPS proofs about them. The order of the work was
set by how much harm an error does: **who feeds the battery, and from what**, came
first (`src/kernel/drivers/sm5714_battery.c`, `sm5440_direct.c`, `sm5714_usbpd.c` share
one battery path and one USB-C connector, run in four kernel contexts, and meet in two
mutexes and a handful of flags that are read without either); then the link, the panel,
the camera, the inputs, and the two user-space programs that carry logic of their own.

| module | code | content |
|---|---|---|
| `ChargeTable` | `sm5714_battery.c` | thermal state, input and battery current |
| `ChargePath` | `sm5714_battery.c`, `sm5440_direct.c` | the arbitration of the path: TCPM callbacks, pump, poll, sysfs switch, transfer by transfer |
| `PathOwner` | `sm5714_battery.c` | abstract: what the arbitration promises; `ChargePath` implements it |
| `PumpLoop` | `sm5440_direct.c` | the one-second regulation loop of the 2:1 pump |
| `PumpSleep` | `sm5440_direct.c` | the pump over suspend: keepalive alarm, wakeup source, contract age, watchdog |
| `TypeCPort` | `sm5714_usbpd.c` | attach discovery, CC pins, power role swap, hold over suspend |
| `PdTransport` | `sm5714_usbpd.c` | transmission and reception of PD messages, with transfers that fail |
| `Retimer` | `ps5169.c` | redriver and PHY through attachments, data swaps and DP modes |
| `PanelPower` | `panel-samsung-ana38407-x716.c` | rails, reset, commands and backlight under the DRM core |
| `OffModeCharger` | `gts9-charger.c` | the off-mode charging loop, on top of `PanelPower` |
| `GaugeLayout` | `gts9-charger.c` | the rectangles it draws |
| `CameraSensor` | `hi1337_gts9.c` | probe, power, streaming, exposure and blanking |
| `CameraLens` | `dw9808_vcm.c` | the lens on the sensor's rail, on top of `CameraSensor` |
| `Autofocus` | `gts9-autofocus.c` | exposure, sweep and refinement |
| `TouchEvents` | `touchscreen-fts1ba90a-x716.c` | power-up with retries, FIFO drain, slots |
| `PenEvents` | `touchscreen-wacom-wez01-x716.c` | pen packets over a sleep |
| `MC*.tla`, `*.cfg` | | finite instances for TLC |
| `*Proofs.tla` | | theorems and proofs, section 5 |
| `PROJECT.json` | | components, runs, mutants, map to the source, findings, hazards, theorems |

Run a check with `tlc -config Arbitration.cfg MCChargePath.tla`, and a proof with
`tlapm PumpProofs.tla` (each module takes from ten seconds to three minutes).

## 1. Inventory

**SM5714 charger, MUIC, fuel gauge** (`sm5714_battery.c`). State: the registers CNTL1.Q4
(switching path to the pack), CNTL2 mode (boost to the connector), VBUSCNTL and
CHGCNTL2 (current limits), the MUIC's CNTL.BC12OFF and MANUAL_SW; in memory
`typec_mv/ma`, `thermal_state`, `direct_charging`, `otg_active`, `fast_charge`,
`last_online`. Operations: `configure_charging()` under `chg_lock`;
`set_pd_contract()`, `set_direct_charge()` and `set_otg()` under `sm5714_global_lock`;
the poll (once a second, no lock of its own); `fast_charge_store()`; `get_property()`.
*Correct when*: Q4 is open while the boost or the pump owns the other end of it; no
failure leaves host mode without its data path or the path without an owner; a hot
pack ends with Q4 open and a warm one with less current; charging comes back.

**SM5440 2:1 direct charger** (`sm5440_direct.c`). State: `active`, `target_mv/ma`, the
tick counters, the PPS contract of the source, CHG_ON, `keepalive_pending`, the alarm,
the wakeup source. One work item, an RTC alarm, suspend and resume. *Correct when*: the
request stays between the reverse-blocking margin and the heat limit while the pack
moves, is renewed in time awake and asleep, and asks a source for no more than it
offers; the path changes hands in the order Q4 – PPS – CHG_ON and back.

**SM5714 Type-C and PD** (`sm5714_usbpd.c`). State: CC control and status, the interrupt
latches, the transmit registers and the receive window, `pr_swap_*`, `irq_saw_attach`,
`watch_saw_attach`. Contexts: the interrupt thread, two CC works, TCPM's callbacks,
prepare/complete. *Correct when*: what is in the connector reaches TCPM even if the chip
never announces it, a role swap keeps its partner, the CC pins are not left frozen, and
messages pass whole, once and in order.

**PS5169 redriver** (`ps5169.c`). State: `orientation`, `mode`, the chip's registers, the
PHY behind it. Two callbacks from TCPM and the alternate mode driver. *Correct when*:
chip and PHY agree with the port between two events, and the PHY never runs ahead.

**ANA38407 panel** (`panel-samsung-ana38407-x716.c`). State: `prepared`, `enabled`,
`user_brightness`, supplies, reset. Callbacks from the DRM panel core and the backlight
core, which keep flags of their own. *Correct when*: supplies balance on every path, and
a woken panel shows what was asked for.

**Camera: HI1337 sensor, DW9808 lens** (`hi1337_gts9.c`, `dw9808_vcm.c`). State: rail and
clock counts, GPIO descriptors, streaming, control values; `inited`, `position` and
runtime PM of the lens, which shares the sensor's 1.8 V rail. *Correct when*: everything
taken is given back, the chip holds what the controls say, and the lens driver knows an
actuator that lost its power for one.

**Inputs: FTS1BA90A touch, WEZ01 pen**. State: rails, the event FIFO, slots; the pen's
`prox` and the keys reported. *Correct when*: no finger is down that was never there, a
failed power-up gives back its rails, and the pen's keys follow the pen over a sleep.

**Off-mode charging screen** (`gts9-charger.c`), a single loop over keys, uevents and the
battery; **autofocus** (`gts9-autofocus.c`), a search over noisy measurements.

How they interact: TCPM calls `set_vbus()` and `set_current_limit()` of the PD driver,
which call `set_otg()` and `set_pd_contract()` of the charger; the pump calls
`set_direct_charge()` of the charger and, through the TCPM power supply, asks TCPM for
PPS, which comes back as `set_pd_contract()` in TCPM's thread while the pump waits.
TCPM drives the redriver through the mux callbacks. The charging screen drives the panel
through the framebuffer's blank and the backlight file. Sensor and lens share a
regulator. Where a module needs another component's state it extends that module
(`OffModeCharger` on `PanelPower`, `CameraLens` on `CameraSensor`); components that share
nothing but a run (`MCLink`, `MCInput`, `MCPumpLoop`) move one at a time.

### Hard behaviours

The list at source lines is `PROJECT.json` "hazards". In groups: unlocked flags read
before and used after a lock (the poll's `direct_charging`); sequences of transfers one
of which fails (host mode, thermal cutoff, panel sleep, a refused VBLANK, the lens's
suspend); the lock order between TCPM's callbacks and a pump that waits for TCPM; a
request that walks for thousands of ticks on noisy readings; interrupts the chip does
not raise; flags of a role swap that outlive it; suspend against a contract that
expires; a release that arrives in the same drain as the move before it; an input device
that vanishes under a held key.

## 2. The models

Data is cut to what the properties tell apart; every guard, early return and error path
is kept. A step is what happens between two points where another context can run, or
where a failure leaves something behind.

**ChargeTable, ChargePath.** `ChargeTable` translates `sm5714_charge_thermal_state()` with
its hysteresis and the current tables literally (mA, 0.1 C). `ChargePath` has one
action per lock, register transfer or store to a flag. `pc[t]` is the place in the code
of each of the four contexts (`t_*` contract, `o_*` OTG, `d_*` direct charge, `s_*`/`r_*`
the pump's start and restore, `p_*` the poll, `c_*` configure_charging, which all of them
call and which returns to `after[t]`). `conf`, `arg` and `seen` are their locals. A
read-modify-write is two steps, because only `chg_lock` protects it and the poll's last
one (1106) is outside it. `Fails` counts failing transfers up to `MaxFaults`; an
action has an alternative for them where the code has an error path, and transfers of one
action that fail alike share one. The environment plugs a source, heats and
cools the pack, lets a source fall out of PPS; TCPM may act on a late view of the port.
Abstracted: capacity and the other read-only properties, float voltage and top-off
(written with the battery current), `otg_ma`, notifications.

**PathOwner.** Three booleans: the boost, the pump's claim, the gate to the pack. The
mapping is in `ChargePath` (`ImplementsPathOwner`). It allows the pump to claim a path
that host mode has, because `set_direct_charge()` does not look at `otg_active`.

**PumpLoop.** One step per tick of `sm5440_work()`, with every branch, in real millivolts
with the driver's roundings. Readings are inputs: `Currents`, and VBUS as the contract
less a `Droop`, or `Folded` above what the cable can `Sustain`. The pack moves by `Drift`
a tick within `Packs`. `pegged` and `asked` are history. Temperatures,
capacity and failing reads are `Trouble`; the frequency derate is left out. `CURRENT_MAX`
of the TCPM supply is the fixed contract's current until PPS is active: hence `FixedMa`
in `Start`; it may fail to be read, or read as nothing (`Readings`). The source may trim
its APDO between the tick that computes a Request and TCPM's answer (`TrimsInFlight`), with
success or without. `ApdoRespected` is about what is asked, not what TCPM lets through, and
assumes an APDO that still offers what the fixed contract does: below that
`sm5440_request_ma()` asks for more than is offered, TCPM refuses, and the pack goes back to
the switching charger.

**PumpSleep.** Time in seconds: a work item with its delay, the alarm, the wakeup source,
the age of the contract and of the last watchdog service. The freezable queue stands
still while asleep, so the delay left at suspend is still due after the wake; that is
why `queue_delayed_work(0)` of resume does nothing. `Tick` is the work item after the
keepalive tail. A source that hears nothing for longer than its `patience` drops to 5 V; the
comments give two figures for it (section 4), so it is any of a set. `Latency` bounds what
freezing before the alarm is armed and thawing after it has fired take together.

**TypeCPort.** The chip (`cc`, `cntl`, `hold`, `ints`, `rx`), the driver's flags, and TCPM's
states as far as they decide which callback comes next. The interrupt thread is two
steps: the locked read with `sm5714_usbpd_receive()`, and the tail that writes
`irq_saw_attach` and calls TCPM after the unlock. Times that order events are guards:
the port reset of TCPM outlasts the chip's detach (942-943), the resync outlasts the port
reset, the watchdog starts after the resync (962-965), a hand is slower than TCPM's
worker while the tablet is awake. Asleep the interrupt is off (1002-1015): an accessory may
go and another come, and both edges are latched together. `hold` tells what a swap holds or
freezes from what a hard reset freezes outside one ("stray"). `own` (a swap of the tablet's
own) and `exchanged` (an accessory of the other role attached while TCPM still had the old
one) are history.

**PdTransport.** A transmission is header, payload, request, each a transfer that may fail,
under the lock; its end comes in an interrupt, and TCPM stops waiting after 100 ms. A
reception is the read of the latches, the reads of header, payload and origin, the
hand-over and the acknowledgement. A failing write may have reached the chip, a failing
read of the latches may have cleared them. A message is its number.

**Retimer.** The register sequences of `ps5169_program()` are written field by field, so a
failing transfer leaves any prefix; the calls TCPM makes for one event are a queue that
the first error ends. `tainted` marks the histories after a failed call that no safe
state in the right orientation has healed yet.

**PanelPower, OffModeCharger, GaugeLayout.** A commit of the DRM core is a chain of driver
callbacks; a callback that returns an error leaves the core's own flag standing, as the
panel core does. `quiet` counts commits since the last fault. The charging screen's loop
is one step per turn (no time if a key woke it, half a second otherwise), then
`screen()`'s backlight write and blank. `GaugeLayout` has `fill()`'s clipping and
`draw()`'s stack for any screen; a glyph is its cell.

**CameraSensor, CameraLens.** Rail, clock and lines are counts, so a release too many or
too few shows. Probe is split where the registration makes the device reachable before
its power is released without the mutex (633); `early` marks those histories. The
control core's clip and its treatment of a refused write are external but modelled, as
`hi1337_set_ctrl()` relies on them; a failed register write may have reached the chip
(133-142), and `ctl.refused` names the controls last refused. `hi1337_power_off()` at the end
of probe is one step: a stream falls before or after it, not into its middle. The lens's
suspend checks, parks and lets go in separate steps, because the sensor may cycle the rail
between them; a failed park may be tried again (-EBUSY) or stay runtime PM's last word.
`cycled` is history: the rail has been down since the driver last looked.

**Autofocus.** The scene is a peak with two slopes; light and exposure give a measurement
that is too dark, too bright or a sharpness. Any transfer may fail, the last `set_focus()` (513)
included, whose result nobody reads. All of it is integer arithmetic as in C. Program and
camera drivers share a run and move one at a time (`MCCamera`).

**TouchEvents, PenEvents.** One drain of the FIFO is one input frame: the first event, the
announced rest, at most `FIFO_MAX`. Power-up has its three attempts with the rails of
each. For the pen, the input core releases keys before the driver's own suspend.

## 3. Runs

| run | instance | shows |
|---|---|---|
| `Arbitration` | TCPM, pump and the user's switch, host mode, one failing transfer, a 9 V and a PPS contract | Q4 is open under the boost; host mode only over its data path; no failure leaks `direct_charging`; a contract never closes Q4 behind the pump; `PathOwner` is implemented |
| `Handoff` | TCPM and pump, three temperatures, two fixed and two PPS contracts (one in `set_pd_contract()`'s range, one beyond) | the pump runs only on a path it owns; Q4 is never closed on a PPS bus; every operation returns, so the pump's wait for TCPM and the two mutexes cannot block each other |
| `Live` | TCPM and poll, host mode, 30/46/50 C | BC1.2 is back after host mode; the boost never meets a source; a source that stays ends up charging; a pack that stays hot ends with Q4 open, one that stays warm with 2.1 A at most |
| `LoopSafe` | a pack drifting 60 mV a tick, four currents, two droops, a trimmed APDO, every failure; any number of suspends and wakes, a second of latency, sources that wait 5, 10 and 12 s | the request follows the pack between both bounds; a current computed from a reading of the APDO is never more than it offers by then; no Request gets older than eight seconds, two and the latency, and a source that waits so long keeps its contract (of the three the one of 12 s); awake none gets older than two, which is enough for all; the wakeup source is always dropped |
| `PortLive` | one silent attachment; two of: swap request of the partner, accepted or not, hard reset, swap of the tablet's own; two suspends with the accessory unplugged, replugged or exchanged in them | TCPM ends where the connector is, in both directions, where CC does not stay frozen and no accessory of the other role came while the interrupt was off (section 4); what a swap holds is let go with it; a swap the partner asked for keeps it attached |
| `Link` | four port events with two failing writes; three transmissions, two receptions, two failing transfers, one suspend | redriver and PHY match the port; what TCPM takes for sent was sent as asked; messages are handed on once and in order |
| `Camera` | sensor and lens, two faults anywhere, rebinding; the search over all 1024 peaks, three pairs of slopes, dark, glaring and noisy scenes, one failed transfer | power is balanced; registers follow controls, but for a refused one; the lens driver trusts an actuator without initialisation only after a power cycle that fell between two of its looks, and lets go of the rail; the search ends, at most two positions from the peak, and calls nothing with slopes of three and more flat |
| `Display` | a desktop that blanks and dims at any moment, or the charging screen; two lost transfers | supplies balance; two commits after a fault the panel is lit as asked; the gauge is visible when lit; boot and power-off only after their full times, and then they do come |
| `Input` | two fingers, a FIFO of three with a backlog of four, three faults; a pen, one night, one lost packet | rails balance over probe; no ghost finger; the pen's keys follow the pen |

Three more runs show where a comment and the code part; their lines are in `PROJECT.json`
"findings".

| run | property | what happens |
|---|---|---|
| `Q4Race` | `PumpOwnsPath` | the poll reads `direct_charging` as false, the pump claims the path and starts, the poll closes Q4 behind it |
| `LensCycle` | `ReinitialisedAfterCycle` | a program opens the lens, whose chip does not answer on its own consumer of the rail; a stream initialises it, ends and begins again: the rail was down, `inited` is still set, and the next position goes to a chip that knows nothing of it |
| `TouchStuck` | `ReleasesLift` | a move and the release of one finger in one drain: the move refreshes the slot, the release does not lift it, and the finger stays down until the next event |

**Bounds.** One failing transfer reaches every single-failure path of the arbitration, two
reach a failure during the recovery from another (panel, camera, link). Two contracts
(none, one) decide each branch of `set_pd_contract()`; the numbers only reach the tables.
Temperatures are one per band of `ChargeThermalState`, edges included (50.0 C is STOP).
`Packs` lie in the first step of the profile; other steps change only the aim, and
`PumpProofs` covers every pack. One silent attachment, two messages and two suspends suffice
for each loss in `TypeCPort` (a refused swap and the hard reset after it; three messages
show nothing more). The sources of `LoopSafe` lie below the keepalive's budget of eleven
seconds (5, 10) and above it (12). A FIFO of three with a backlog of four makes a drain end with
events left, as 32 does in the driver (`TouchStuck` has 32). Two key presses and one
vanishing device are a hold, its interruption and a second hold. `Hold`, `Unplugged` and
`Lit` are ticks small enough to interleave and ordered as in the code. With `SlowPack`
(in `Live`) the temperature changes between operations only: without it a transition that
another context records between the poll's read and compare (1071-1074) is not
programmed, which is the hazard listed there. `PumpSleep`, `CameraSensor`'s controls and
`OffModeCharger`'s clocks have finite state without a bound on time.

**Fairness.** `ChargePath`: a context that began an operation is scheduled; the poll
reschedules itself (1122); kernel mutexes hand over to waiters, so steps that take a lock
have strong fairness; the TCPM worker reaches the pump's request in its queue. Nothing
obliges TCPM to make a contract, a user to toggle, or a source to be plugged.
`PumpSleep`: time passes, and a due work item runs. `TypeCPort`: the chip detects, the
works and the interrupt thread run, TCPM's worker handles its queue and its timers end a
swap that hangs. `OffModeCharger`: the program is scheduled and the panel's commit
returns; no key, cable or battery event is obliged to come. `Autofocus`: the program runs.

**Mutants.** Every property of a passing run has one: a definition beside the modelled one,
marked `Mutant`, that changes it the way a plausible slip would (a check dropped, a flag
not reset, a release forgotten), under which TLC refutes the property on that instance.

**Deadlock** is not checked where the system ends: the search is over, the tablet boots or
powers off, the bounded messages and events are used up (`Camera`, `LensCycle`, `Display`,
`Link`).

## 4. Divergences

Beside the three violation runs, these are places where the code does not keep what it or
its comments suggest. Each shows on an instance obtained by the change of constants named
here; the passing runs leave that change out, and say so in their properties.

- `sm5714_battery.c:1074-1078`: the thermal state is stored before the charger is
  programmed. `Live` with `MaxFaults = 1`: one failed transfer at 50 C and no further
  transition is seen; `ThermalCutoff` fails.
- `sm5440_direct.c:809-838`: the saturation count restarts whenever the ceiling moves.
  `PumpLoop` with `Packs = {3700, 3701}`: `AntiWindup` fails.
- `sm5714_battery.c:1164`, `sm5440_direct.c:636`: switching `fast_charge` off does not stop a
  running pump; `OffMeansFixed` fails under `FairSpec`.
- `sm5714_usbpd.c:186`: unplugged and replugged between two samples with only the DETACH
  announced, `watch_saw_attach` keeps the watchdog silent. `PortLive` with
  `Unsampled = TRUE`: `AttachFound` fails.
- `sm5714_usbpd.c:556`: a swap request that is refused, or not carried out, leaves its flag
  set; a hard reset then freezes CC on a live connector, against the "before removing VBUS in
  a Source-to-Sink PR_SWAP" of 551-554. Nothing lets go of it until TCPM opens CC or toggles,
  and it does neither for a partner it cannot see go. In `PortLive` that freeze is "stray";
  `HeldOnlyInSwap` with it counted fails, and so do `DetachFound` and `AttachFound` without
  the premise that it does not last.
- `sm5714_usbpd.c:800-810`: both edges read together after a sleep count as a detach and tell
  TCPM once. If the new accessory has the other role, TCPM finds its old one gone, toggles,
  and no edge is left to tell it of the new one; the watchdog may have seen it already.
  `AttachFound` without `~exchanged` fails.
- `sm5714_usbpd.c:387`: a swap the tablet asks for sets neither flag, so the CC pins are forced
  and the chip may see its partner gone, the partner's own request crossing it or following it
  included. `PortLive` without `~own`: `SwapKeepsPartner` fails; when only the partner asks
  for swaps it is a theorem.
- `sm5440_direct.c:851-854`, `986-994`: the comments disagree on how long a source waits for a
  Request: an EP-T4510 fell back "about 5 s after the contract", the keepalive counts on "about
  10 s". Over a sleep a Request gets up to eight seconds, two and the latency of suspend and
  resume old. `SleepKeepsContract` asks that a source with that much patience keep its
  contract; one of 5 s loses it on every sleep, and one of exactly 10 s has no slack for the
  latency. Awake the two seconds between Requests are enough for either.
- `sm5714_battery.c:685`: a MUIC path that could not be restored is not restored later, for the
  early return at 624 finds host mode already over. `Live` with `MaxFaults = 1`: `MuicRestored`
  fails.
- `sm5440_direct.c:423`: the way back to the switching charger ignores whether the fixed
  contract came. `Handoff` with `MaxFaults = 1`: `SwitchingOnFixedBus` fails, and with a CHG_ON
  that could not be cleared so does `PumpOwnsPath`.
- `dw9808_vcm.c:117`: the power cycle of the `LensCycle` run. `LensTruthful` excepts it by
  `cycled`, and shows that nothing else, and no step of the sensor while the lens holds the
  rail itself, makes the driver trust a bare chip.
- `hi1337_gts9.c:277-293`: a refused VBLANK write leaves the exposure's range where the new
  frame would have put it; an exposure set after it may outlast the frame the chip still has.
  A refused exposure write likewise leaves control and chip apart. `RegistersFollow` excepts
  a refused control until it is set again, and asks for the fit only while none is refused.
- `gts9-charger.c:488`: an input device that goes away under a held power key takes the
  release with it, and the hold ends in a boot: hence `gone` in `EndsAsMeant`.
- `touchscreen-wacom-wez01-x716.c:295`: a packet handled between the input core's suspend and
  the driver's reports keys the core has just let go of: hence `missed` in `PenFollows`.
- `sm5440_direct.c:1062`: resume's `queue_delayed_work(0)` leaves a pending item as it is. A
  wake that is not the alarm's, followed at once by a suspend, lets the contract reach
  14 s of age: hence `~interrupted` in `SleepKeepsContract`.
- `sm5714_usbpd.c:708`, `766`: a failed read of a header, or a failed acknowledgement, leaves
  the receive window unacknowledged, and nothing tries again. `PdTransport` states what
  was handed on, not that messages keep coming.
- `sm5714_usbpd.c:784-789`: the end of a transmission TCPM no longer waits for is reported as
  the end of the next one: hence `stale` in `SentAsAsked`.
- `gts9-autofocus.c:18-19`, `518`: the lens is said to be left at the best position; closing the
  device lets `dw9808_suspend()` park it at 0.
- `gts9-autofocus.c:470`: a failed measurement (-1) becomes the sweep's worst value, and any
  scene is called flat: hence `failed = 0` in `NearPeak`.
- `hi1337_gts9.c:633`: a program that streams before probe ends loses its power: hence `early`
  in `PowerBalanced`.
- `panel-samsung-ana38407-x716.c:332-411`: a transfer lost on the way down costs the next wake:
  hence `quiet` in `LitWhenOn`.

## 5. Proofs

Each theorem holds for every value of the constants that meets the ASSUMEs of its module.
Where a theorem says more than its run needs, or less than the property alone says, its
hypothesis is named here; each was found by TLC on an instance that breaks it.

**`ChargePathProofs`**, for any subset of the four contexts, any contracts in range, any
set of temperatures and any number of failing transfers: `TypeCorrect`, `InvCorrect`,
`BoostAlwaysIsolated`, `HostPathAlwaysFirst`, `PumpAlwaysReleased`,
`ContractAlwaysLeavesPumpAlone`, `BoostOnlyOnIdleBusAlways` and the refinement
`PathOwnerImplemented`. `BoostIsolated` is not inductive: nothing in it says why a
`configure_charging()` that is about to close Q4 cannot overlap the boost. `IInv` adds that
whoever is between lock and unlock is the owner, that past the check of `otg_active` under
`chg_lock` there is no boost and no host mode, that the boost is published or still being
published, that the host path is up from `muic_set_otg_path()` to publication, and that a
contract being applied excludes a pump that owns the path. The refinement adds that a claim
is only put up by a pump that is starting and that host mode is entered past the test for
one. Two groups hold until a transfer fails (`faults = 0`): the host cycle (`HostCycleInv`),
from which `BoostOnlyOnIdleBus` and `MuicRestoredUntilFault` follow; and, for TCPM and the
pump alone (`Threads \subseteq {"tcpm", "pump"}`), the hand-over of the path (`OwnPathInv`),
from which `PumpOwnsPathAlone` and `SwitchingOnFixedBusAlone` follow: a request for PPS is in
the air only while the pump waits for it, and the pump waits only with Q4 open. The last two
do not hold with the poll, which is the finding of `Q4Race`, nor with failures.

**`PumpProofs`**, awake: `HeadroomKeptAlways`, `ApdoRespectedAlways`, for
every pack in 3.4..4.45 V, drift, cable, APDO and fault. A contract is at most two ticks old,
so its distance from the pack is bounded by how far the pack moves in as many ticks
(`Slack`); a fresh one is clamped between bounds that never cross (`Bounds`, `Clamped`).
Nothing the loop remembers between ticks is needed, which is what the comment at 301-304
claims. The request stays within the APDO where the APDO has room for fifteen watts (1850 mA)
and for the fixed contract's current (`OfferSuffices`); below that the floor of 293-298 asks
for more than is offered, and TCPM refuses. Asleep: `SleepKeepsContractAlways`, for every
latency and every patience a source may have. The invariant is a budget: age of the contract
plus remaining alarm plus the frozen delay never exceed eight seconds, two and the latency; a
wakeup source held until the tail has run keeps a new sleep from starting in debt (`Held`).

**`TypeCPortProofs`**, for any number of messages, hard resets, sleeps and silent attachments.
`HeldOnlyInSwapAlways`, whoever asks for a swap: what a swap holds was remembered and TCPM is
in it, and TCPM has the new source's PS_RDY only once the flag is down (`HoldInv`).
`SwapKeepsPartnerAlways`, for behaviours in which only the partner asks for swaps
(`[][~TcpmAsks]_vars`): a swap that TCPM carries out was remembered by the interrupt thread for
the role the tablet has (`Remembered`), the chip shows a partner in place (`Settled`) unless it
is another one, put in during a sleep, that has said nothing yet (`Replaced`), and what may be
in the receive window depends on TCPM's state (`Mail`). Section 4 says what the excluded steps
do.

**`LinkProofs`**. `LinkMatchesAlways` and `RedriverAlwaysFirst`, for any number of events and
failing writes: what is left of the calls for one event is one of a few sequences (`Queue`), and
they either pass through the safe state or start where nothing of the old mode is in the way
(`Asked`, `Clean`), so `ps5169_program()` ends with the same registers whatever was in them
before. `SentAlways`, `HandedAlways`, for any number of messages, hard resets, suspends and
failing transfers. Outwards, the end of a transmission is in one place at a time, the wire, a
latch, the thread or TCPM's completion (`OneEnd`), until one is lost or comes late (`stale`);
the lock keeps the thread away from half-written registers (`Apart`). Inwards, a message that is
still to be read is the last one the chip took, and all before it were handed on or spoiled
(`Window`, `Passed`).

**`DisplayProofs`**, for all faults and brightness levels. `RailsBalancedAlways`: the panel's
`prepared` never runs ahead of the core's flag (`prepared => core.prepared`), and a commit only
goes the way the screen was asked for (`OneWay`); so the last callback of a commit down always
reaches the supplies. `LitWhenOnAlways`: a whole commit down takes the core's flags with it
whatever they were, and a whole commit up from there skips nothing (`QuietInv`), for any number
of faults before. `GaugeVisibleAlways` (`ScreenInv`): between two turns of the charging screen
the panel is where its last call of `screen()` left it. `EndsAsMeantAlways`: the hold the
program counts is no longer than the hold there is, given what still waits in the event queue
(`HoldInv`), and `unplug_at` is as old as the time without a charger (`AwayInv`).
`FillInside` (no pixel outside the framebuffer for any rectangle) and `GaugeStacked` (on screens
of 200 pixels a side or more nothing overlaps or runs off, the battery's terminal included, for
any percentage and text), which
is the comment at 313-317.

**`CameraProofs`**: `PowerBalancedAlways`, `RegistersFollowAlways`, `RailReleasedAlways`,
`LensTruthfulAlways`. The books (`Books`) say what each stage of probe and stream holds;
the registers need the range of the exposure beside its value, because a clipped write
may be refused, and the fit of exposure and frame holds only while none was; the lens needs
what the rail count implies for the actuator in each state of its runtime PM, and `cycled`
for the time it holds nothing.

**`InputProofs`**: `PenFollowsAlways`, for any number of packets, sleeps and failures: the last
packet that waits says where the pen is (`Latest`), the driver may think a pen near whose keys
the input core let go and never the other way round (`Near`), and nothing is down asleep
(`LetGo`). `TouchPoweredAlways`: the retries and the ways out of probe balance. `NoGhostAlways`,
for any fingers, backlog and length of a drain: a finger that is reported and no longer on the
glass has a lift in what is still to be read (`Lifts`). The scan of a controller that starts
again reports its fingers in some order, and that it misses none is a counting argument
(`OrderCovers`).

**`AutofocusProofs`**: `NearPeakAlways`, for every peak, pair of slopes and exposure. The sweep
holds a sharpest of the coarse points behind it and no more than the dullest (`Swept`), which
are more than 5 % apart where both slopes are 3 or more (flatter scenes may be called flat, as
466-470 mean it). The climb keeps no invariant about its steps but the last
one: whatever the wider brackets chose, the bracket of step 4 has looked two positions to
either side of its best (`Climbed`), and a point no duller than both its neighbours is beside
the peak.

Model-checked only: liveness, which is out of the prover's reach as it rests on fairness, that
is `OpsComplete`, `ChargingResumes`, `ThermalCutoff`, `WarmClamp`, `SleepsAgain`, `AttachFound`,
`DetachFound`, `Terminates`, `Decides`. Every safety property of a passing run is stated by a
theorem, under the hypotheses above where it has any. Not proved is the tables' content
(`ChargeTable` is proved to be typed, `LoopSafe` and `Live` check what it does to a pack), and
that TCPM, the panel core, the control core and the input core do what their modules say: they
are written from how the drivers use them.

Three models are shaped for the proofs: a sequence of writes leaves each field the value
written to it (`Written`), the last key in the queue is the one a program knows of (`Last`), and
the scan's order is any rising sequence of the fingers (`InOrder`). These are first-order
statements of what was a fold over the sequence, with the same reachable states.

## 6. Not modelled

Of modelled components: the fuel gauge's readings, capacity and health; suspend and
resume of the charger's poll; polarity and VCONN of the Type-C driver; gain, formats and
frame intervals of the camera; the pump's thermal frequency derate; remove paths other
than the camera's and the touch controller's; coordinates and pressure; fonts and colours;
registration order of probes where nothing can run yet.

Whole components: register tables (`hi1337_gts9_tables.h`, panel initialisation: data);
device tree and kernel configuration (data; their limits are constants here); patches to
the mainline kernel (fragments of code that is not in the repository; TCPM is external);
boot log and ramoops glue (registration only); boot loader overlay (straight-line);
packaging (`nixos`, `buildroot`, `specs`); `gts9wifi-fedora` (older copies of the same
drivers) and `third_party`; camera launcher and relays (process supervision in shell and
Python around libcamera); host-side build, flash and backup scripts, and the boot and
resume scripts (batch programs; grow-rootfs and wifi-recover, which can be cut off between
two steps, are the ones worth a model next).

## 7. Plan

1. Proofs: `PumpOwnsPath` with all four contexts, from a hypothesis on the poll alone (that
   no other context moves between its read of `direct_charging` and its write of Q4);
   `LitWhenOn` with a bound on the commits a failed transfer costs.
2. Failing transfers in `TypeCPort`'s callbacks, and its composition with `ChargePath` at
   `set_vbus()`; the suspended poll of the charger beside `PumpSleep`.
3. The boot scripts with a crash between two steps (grow-rootfs, wifi-recover,
   bt-provision), and the order of backup, verification and flash.
