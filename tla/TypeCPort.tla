-------------------------------- MODULE TypeCPort --------------------------------
(***************************************************************************)
(* The Type-C side of sm5714_usbpd.c: how an attachment the SM5714 detects  *)
(* reaches TCPM, through the interrupt thread, the attach watchdog and the  *)
(* one resync after probe, and what the driver does to the CC pins when the *)
(* partner asks for a power role swap.  TCPM's policy, the partner and the  *)
(* detection engine of the chip are external; register transfers succeed.   *)
(***************************************************************************)
EXTENDS Integers

CONSTANTS
  Silent,      \* bound: attachments the chip detects and does not announce
  Unsampled,   \* an unannounced attachment may fall between two samples of the
               \* watchdog (4 s apart) that both see something attached
  Messages,    \* bound: swaps and hard resets in a behaviour
  HardResets,  \* whether the partner sends hard resets
  Waits,       \* whether TCPM may answer a swap request with Wait
  TabletSwaps, \* whether TCPM itself may start a swap
  Sleeps       \* bound: suspends in a behaviour

ASSUME BoundsAssumption == Silent \in Nat /\ Messages \in Nat /\ Sleeps \in Nat
ASSUME PolicyAssumption ==
  {Unsampled, HardResets, Waits, TabletSwaps} \subseteq BOOLEAN

VARIABLES
  partner,   \* what is in the connector, by its power role
  \* SM5714
  cc,        \* CC_STATUS, the attach field
  cntl,      \* CC_CNTL1/3: autonomous DRP, forced sink or source, or off
  hold,      \* CC_CNTL3[5:4]: the detected state is held or frozen; "stray" is
             \* frozen too, by a hard reset after a swap that was not carried out
  ints,      \* latched interrupts
  rx,        \* the PD message in the receive window
  boost,     \* VBUS sourced through sm5714_battery_set_otg()
  \* struct sm5714_usbpd
  pr_swap_src_to_snk, pr_swap_snk_to_src, irq_saw_attach, watch_saw_attach,
  resync,    \* cc_resync_work is still to run
  irq,       \* the latches the interrupt thread has read and not yet acted on
  awake,     \* between complete() and prepare()
  \* TCPM, external
  tcpm,      \* its state
  event,     \* it was told that CC changed
  pd,        \* the message it was handed
  missed, sent, slept,
  \* history, read by properties only
  own,       \* a swap of the tablet's own since TCPM last toggled
  exchanged  \* attached while TCPM still had a partner of the other role

chip == <<cc, cntl, hold, ints, rx>>
swap == <<pr_swap_src_to_snk, pr_swap_snk_to_src>>
seen == <<irq_saw_attach, watch_saw_attach, resync>>
count == <<missed, sent, slept, own, exchanged>>
vars == <<partner, chip, boost, swap, seen, irq, awake, tcpm, event, pd, count>>

Swapping == {"to_snk_off", "to_snk_cc", "to_snk_on", "to_src_off", "to_src_cc", "to_src_on"}
Attached == cc # "open"

--------------------------------------------------------------------------------
(* The connector and the chip.                                              *)

\* What the pull in force lets the chip see of the partner.
Detectable == IF cntl = "drp" \/ cntl = partner THEN partner ELSE "open"

\* By hand: TCPM is through with the old partner, or sleeps and is not swapping.
Insert == /\ partner = "open" /\ partner' \in {"source", "sink"}
          /\ pd = "none" /\ irq = {} /\ cc = "open"
          /\ \/ ints = {} /\ tcpm = "toggling"
             \/ ~awake /\ tcpm \in {"toggling", "snk", "src"}
          /\ UNCHANGED <<chip, boost, swap, seen, irq, awake, tcpm, event, pd, count>>
Remove == /\ partner # "open" /\ partner' = "open" /\ rx' = "none"
          /\ UNCHANGED <<cc, cntl, hold, ints, boost, swap, seen, irq, awake, tcpm, event, pd, count>>

\* Measured on this board (153-157): the chip may update CC_STATUS and raise no
\* ATTACH interrupt.  A held or frozen CC state is not updated at all.
\* A new attachment is debounced for longer than the driver takes to see the
\* last one go; while the interrupt is disabled both edges are latched.
Detect ==
  /\ hold = "none" /\ cc # Detectable
  /\ \/ Attached
     \/ "detach" \notin ints \cup irq /\ ~event
     \/ ~awake
  /\ cc' = (IF Attached THEN "open" ELSE Detectable)
  /\ exchanged' = (~Attached /\ tcpm \in IF cc' = "source" THEN {"src", "reset_off"} ELSE {"snk"})
  /\ \/ ints' = ints \cup {IF Attached THEN "detach" ELSE "attach"} /\ UNCHANGED missed
     \/ /\ ~Attached /\ missed < Silent /\ (Unsampled \/ ~watch_saw_attach)
        /\ missed' = missed + 1 /\ UNCHANGED ints
  /\ UNCHANGED <<partner, cntl, hold, rx, boost, swap, seen, irq, awake, tcpm, event, pd, sent, slept, own>>

\* The partner asks for a swap, or resets the link: it does so under a contract,
\* which TCPM makes once it is attached in the role the partner leaves it.
Sends == /\ sent < Messages /\ sent' = sent + 1
         /\ partner # "open" /\ cc = partner
         /\ tcpm = (IF partner = "source" THEN "snk" ELSE "src")
PartnerSwaps == /\ Sends /\ rx = "none" /\ rx' = "pr_swap"
                /\ UNCHANGED <<partner, cc, cntl, hold, ints, boost, swap, seen, irq, awake, tcpm,
                               event, pd, missed, slept, own, exchanged>>
PartnerResets == /\ Sends /\ HardResets /\ ints' = ints \cup {"hard_reset"}
                 /\ UNCHANGED <<partner, cc, cntl, hold, rx, boost, swap, seen, irq, awake, tcpm,
                                event, pd, missed, slept, own, exchanged>>
\* Its half of an accepted swap: it sources VBUS, or has stopped doing so, and
\* says PS_RDY.
PartnerReady == /\ partner # "open" /\ rx = "none" /\ pd = "none"
                /\ \/ tcpm = "to_snk_on" /\ partner = "sink" /\ partner' = "source"
                   \/ tcpm = "to_src_off" /\ partner = "source" /\ UNCHANGED partner
                /\ rx' = "ps_rdy"
                /\ UNCHANGED <<cc, cntl, hold, ints, boost, swap, seen, irq, awake, tcpm, event, pd,
                               count>>

--------------------------------------------------------------------------------
(* The interrupt thread, the watchdog and the resync.                       *)

\* Mutant: the PS_RDY of the new source does not release the CC pins.
ReceivedHolds ==
  /\ rx' = "none"
  /\ pr_swap_src_to_snk' = (pr_swap_src_to_snk \/ (rx = "pr_swap" /\ cc = "sink"))
  /\ pr_swap_snk_to_src' = (pr_swap_snk_to_src \/ (rx = "pr_swap" /\ cc = "source"))
  /\ UNCHANGED hold

\* sm5714_usbpd_receive(): remember a swap request by the role the partner has,
\* let go of CC on the PS_RDY that ends a Source-to-Sink swap, hand on.
Received ==
  /\ rx' = "none"
  /\ pr_swap_src_to_snk' = CASE rx = "pr_swap" /\ cc = "sink" -> TRUE
                             [] rx = "ps_rdy" -> FALSE
                             [] OTHER -> pr_swap_src_to_snk
  /\ pr_swap_snk_to_src' = (pr_swap_snk_to_src \/ (rx = "pr_swap" /\ cc = "source"))
  /\ hold' = IF rx = "ps_rdy" /\ pr_swap_src_to_snk THEN "none" ELSE hold

\* sm5714_usbpd_irq(), under the lock: read and clear the latches, hand TCPM the
\* message and the hard reset.
IrqRead ==
  /\ awake /\ irq = {} /\ pd = "none"
  /\ ints # {} \/ rx # "none"
  /\ irq' = ints \cup {"rx"} /\ ints' = {}
  /\ Received
  /\ pd' = IF "hard_reset" \in ints THEN "hard_reset" ELSE rx
  /\ UNCHANGED <<partner, cc, cntl, boost, seen, awake, tcpm, event, count>>

\* Mutant: a CC edge that comes with a hard reset is dropped.
IrqTailElse ==
  /\ irq # {} /\ irq' = {}
  /\ irq_saw_attach' = ("detach" \notin irq /\ ("attach" \in irq \/ irq_saw_attach))
  /\ event' = (event \/ (irq \cap {"attach", "detach"} # {} /\ "hard_reset" \notin irq))
  /\ UNCHANGED <<partner, chip, boost, swap, watch_saw_attach, resync, awake, tcpm, pd, count>>

\* ... and after it: with both edges latched, DETACH has the last word.
IrqTail ==
  /\ irq # {} /\ irq' = {}
  /\ irq_saw_attach' = ("detach" \notin irq /\ ("attach" \in irq \/ irq_saw_attach))
  /\ event' = (event \/ irq \cap {"attach", "detach"} # {})
  /\ UNCHANGED <<partner, chip, boost, swap, watch_saw_attach, resync, awake, tcpm, pd, count>>

\* Mutant: the watchdog only looks.
WatchWorkMute ==
  /\ awake /\ ~resync
  /\ watch_saw_attach' = Attached
  /\ UNCHANGED <<partner, chip, boost, swap, irq_saw_attach, resync, irq, awake, tcpm, event, pd,
                 count>>

\* sm5714_usbpd_cc_watch_work(), first queued behind the resync (962-965).
WatchWork ==
  /\ awake /\ ~resync
  /\ event' = (event \/ (Attached /\ ~irq_saw_attach /\ ~watch_saw_attach))
  /\ watch_saw_attach' = Attached
  /\ UNCHANGED <<partner, chip, boost, swap, irq_saw_attach, resync, irq, awake, tcpm, pd, count>>

\* sm5714_usbpd_cc_resync_work(), queued once by probe, to outlast the port reset.
ResyncWork ==
  /\ awake /\ resync /\ tcpm # "reset" /\ resync' = FALSE /\ event' = TRUE
  /\ UNCHANGED <<partner, chip, boost, swap, irq_saw_attach, watch_saw_attach, irq, awake, tcpm, pd,
                 count>>

\* prepare() waits for the interrupt thread; complete() lets it replay.  TCPM's
\* worker is not frozen and has looked at the last CC change by then.
Suspend == /\ awake /\ irq = {} /\ ~event /\ awake' = FALSE
           /\ slept < Sleeps /\ slept' = slept + 1
           /\ UNCHANGED <<partner, chip, boost, swap, seen, irq, tcpm, event, pd, missed, sent, own, exchanged>>
Resume == /\ ~awake /\ awake' = TRUE
          /\ UNCHANGED <<partner, chip, boost, swap, seen, irq, tcpm, event, pd, count>>

--------------------------------------------------------------------------------
(* The callbacks TCPM makes.                                                *)

\* set_cc(OPEN) and start_toggling() drop what was remembered of a swap.
SetCcOpen == /\ pr_swap_src_to_snk' = FALSE /\ pr_swap_snk_to_src' = FALSE
             /\ hold' = "none" /\ cntl' = "off"
             /\ UNCHANGED <<cc, ints, rx>>

StartToggling == /\ pr_swap_src_to_snk' = FALSE /\ pr_swap_snk_to_src' = FALSE
                 /\ hold' = "none" /\ cntl' = "drp"
                 /\ UNCHANGED <<cc, ints, rx>>

\* Mutant: Rd is forced although a swap is under way.
SetCcRdForces == /\ IF cc = "source" THEN UNCHANGED <<cc, cntl, hold>>
                    ELSE cntl' = "source" /\ hold' = "none" /\ UNCHANGED cc
                 /\ UNCHANGED <<ints, rx, swap>>

\* set_cc(RD): a natural sink attachment is left alone, a Source-to-Sink swap
\* turns the pull round in place (CC_CNTL7) behind a hold, anything else forces.
SetCcRd == /\ \/ cc = "source" /\ UNCHANGED <<cc, cntl, hold>>
              \/ /\ cc # "source" /\ pr_swap_src_to_snk
                 /\ hold' = "held" /\ cc' = "source" /\ UNCHANGED cntl
              \/ /\ cc # "source" /\ ~pr_swap_src_to_snk
                 /\ cntl' = "source" /\ hold' = "none" /\ UNCHANGED cc
           /\ UNCHANGED <<ints, rx, swap>>

\* set_cc(RP), and the partner's Rd that follows it within the debounce.
SetCcRp == /\ \/ cc = "sink" /\ UNCHANGED <<cc, cntl, hold>>
              \/ /\ cc # "sink" /\ pr_swap_snk_to_src
                 /\ cc' = "sink" /\ UNCHANGED <<cntl, hold>>
              \/ /\ cc # "sink" /\ ~pr_swap_snk_to_src
                 /\ cntl' = "sink" /\ hold' = "none" /\ UNCHANGED cc
           /\ UNCHANGED <<ints, rx, swap>>

\* set_vbus(): off freezes CC first if a Source-to-Sink swap was asked for.
SetVbusOn == /\ boost' = TRUE /\ pr_swap_snk_to_src' = FALSE
             /\ UNCHANGED <<chip, pr_swap_src_to_snk>>
SetVbusOff == /\ boost' = FALSE
              /\ hold' = IF ~pr_swap_src_to_snk THEN hold
                         ELSE IF tcpm \in Swapping THEN "frozen" ELSE "stray"
              /\ UNCHANGED <<cc, cntl, ints, rx, swap>>

--------------------------------------------------------------------------------
(* TCPM.                                                                    *)

Proceeds == awake /\ UNCHANGED <<seen, irq, awake, missed, sent, slept, exchanged>>
Runs == Proceeds /\ UNCHANGED own

\* A CC change is read back with get_cc(): a partner found, a partner gone, or
\* nothing new.  The states of a swap and of a reset let it pass.
TcpmFinds == /\ Runs /\ event /\ tcpm = "toggling" /\ event' = FALSE
             /\ \/ cc = "source" /\ tcpm' = "snk" /\ UNCHANGED <<chip, swap, boost>>
                \/ cc = "sink" /\ tcpm' = "src" /\ SetVbusOn
                \/ cc = "open" /\ UNCHANGED <<tcpm, chip, swap, boost>>
             /\ UNCHANGED <<partner, pd>>
\* set_vbus(off), and at once start_toggling(), which releases what it froze.
TcpmLoses == /\ Proceeds /\ own' = FALSE /\ event /\ event' = FALSE
             /\ \/ tcpm = "snk" /\ cc # "source"
                \/ tcpm = "src" /\ cc # "sink"
             /\ boost' = FALSE /\ StartToggling /\ tcpm' = "toggling" /\ pd' = "none"
             /\ UNCHANGED partner
TcpmIgnores == /\ Runs /\ event /\ event' = FALSE
               /\ \/ tcpm \notin {"toggling", "snk", "src"}
                  \/ tcpm = "snk" /\ cc = "source"
                  \/ tcpm = "src" /\ cc = "sink"
               /\ UNCHANGED <<partner, chip, boost, swap, tcpm, pd>>
\* PORT_RESET lasts a second (942-943): the chip has seen the pins opened.
TcpmToggles == /\ Proceeds /\ own' = FALSE /\ tcpm = "reset" /\ tcpm' = "toggling"
               /\ cc = "open" /\ "detach" \notin ints \cup irq /\ ~event
               /\ StartToggling /\ boost' = FALSE /\ pd' = "none"
               /\ UNCHANGED <<partner, event>>

\* A swap request is accepted, answered with Wait, or dropped.
TcpmSwap == /\ Runs /\ pd = "pr_swap" /\ pd' = "none"
            /\ \/ tcpm = "src" /\ tcpm' = "to_snk_off"
               \/ tcpm = "snk" /\ tcpm' = "to_src_off"
               \/ (Waits \/ tcpm \notin {"src", "snk"}) /\ UNCHANGED tcpm
            /\ UNCHANGED <<partner, chip, boost, swap, event>>
\* A swap the tablet asks for and the partner accepts.
TcpmAsks == /\ TabletSwaps /\ awake /\ pd = "none" /\ Sends
            /\ tcpm' = (IF tcpm = "src" THEN "to_snk_off" ELSE "to_src_off")
            /\ own' = TRUE
            /\ UNCHANGED <<partner, chip, boost, swap, seen, irq, awake, event, pd, missed, slept,
                           exchanged>>
ToSnkOff == /\ Runs /\ tcpm = "to_snk_off" /\ tcpm' = "to_snk_cc"
            /\ SetVbusOff /\ UNCHANGED <<partner, event, pd>>
ToSnkCc == /\ Runs /\ tcpm = "to_snk_cc" /\ tcpm' = "to_snk_on"
           /\ SetCcRd /\ UNCHANGED <<partner, boost, event, pd>>
ToSnkOn == /\ Runs /\ tcpm = "to_snk_on" /\ pd = "ps_rdy" /\ pd' = "none" /\ tcpm' = "snk"
           /\ event' = TRUE
           /\ UNCHANGED <<partner, chip, boost, swap>>
ToSrcOff == /\ Runs /\ tcpm = "to_src_off" /\ pd = "ps_rdy" /\ pd' = "none" /\ tcpm' = "to_src_cc"
            /\ UNCHANGED <<partner, chip, boost, swap, event>>
ToSrcCc == /\ Runs /\ tcpm = "to_src_cc" /\ tcpm' = "to_src_on"
           /\ SetCcRp /\ partner' = (IF partner = "source" THEN "sink" ELSE partner)
           /\ UNCHANGED <<boost, event, pd>>
ToSrcOn == /\ Runs /\ tcpm = "to_src_on" /\ tcpm' = "src"
           /\ SetVbusOn /\ event' = TRUE /\ UNCHANGED <<partner, pd>>

\* A step of the swap that does not come in time, or a hard reset in it: error
\* recovery opens CC.
TcpmRecovers == /\ Runs /\ tcpm \in Swapping /\ tcpm' = "reset"
                /\ SetCcOpen /\ pd' = (IF pd = "hard_reset" THEN "none" ELSE pd)
                /\ UNCHANGED <<partner, boost, event>>

\* A hard reset: as a source VBUS goes off and on again.
TcpmResets == /\ Runs /\ pd = "hard_reset" /\ tcpm \notin Swapping /\ pd' = "none"
              /\ \/ tcpm = "src" /\ SetVbusOff /\ tcpm' = "reset_off"
                 \/ tcpm # "src" /\ UNCHANGED <<chip, boost, swap, tcpm>>
              /\ UNCHANGED <<partner, event>>
TcpmRestarts == /\ Runs /\ tcpm = "reset_off" /\ tcpm' = "src" /\ event' = TRUE
                /\ SetVbusOn /\ UNCHANGED <<partner, pd>>
\* A PS_RDY nobody waits for.
TcpmDrops == /\ Runs /\ pd = "ps_rdy" /\ tcpm \notin {"to_snk_on", "to_src_off"} /\ pd' = "none"
             /\ UNCHANGED <<partner, chip, boost, swap, tcpm, event>>

Tcpm == \/ TcpmFinds \/ TcpmLoses \/ TcpmIgnores \/ TcpmToggles \/ TcpmSwap
        \/ ToSnkOff \/ ToSnkCc \/ ToSnkOn \/ ToSrcOff \/ ToSrcCc \/ ToSrcOn
        \/ TcpmRecovers \/ TcpmResets \/ TcpmRestarts \/ TcpmDrops
Driver == IrqRead \/ IrqTail \/ WatchWork \/ ResyncWork \/ Suspend \/ Resume
World == Insert \/ Remove \/ Detect \/ PartnerSwaps \/ PartnerResets \/ PartnerReady

\* After probe: the latches are cleared, a retained dock has been detached, and
\* TCPM is in its port reset.
Init ==
  /\ partner \in {"open", "source", "sink"} /\ cc \in {"open", partner}
  /\ cntl = "off" /\ hold = "none" /\ ints = {} /\ rx = "none" /\ boost = FALSE
  /\ pr_swap_src_to_snk = FALSE /\ pr_swap_snk_to_src = FALSE
  /\ irq_saw_attach = FALSE /\ watch_saw_attach = FALSE /\ resync = TRUE
  /\ irq = {} /\ awake = TRUE /\ tcpm = "reset" /\ event = FALSE /\ pd = "none"
  /\ missed = 0 /\ sent = 0 /\ slept = 0
  /\ own = FALSE /\ exchanged = FALSE

Next == World \/ Driver \/ Tcpm \/ TcpmAsks
Spec == Init /\ [][Next]_vars

\* The chip detects, the works and the interrupt thread are scheduled, TCPM's
\* worker runs its queue, and its timers end a swap that hangs.
FairSpec ==
  /\ Spec
  /\ WF_vars(Detect) /\ WF_vars(IrqRead) /\ WF_vars(IrqTail)
  /\ WF_vars(WatchWork) /\ WF_vars(ResyncWork) /\ WF_vars(Resume)
  /\ WF_vars(TcpmFinds \/ TcpmLoses \/ TcpmIgnores) /\ WF_vars(Tcpm)

--------------------------------------------------------------------------------
(* Properties                                                               *)

\* 389-391: forcing CC in a swap "briefly opens both CC pins and the powered dock
\* disappears before TCPM can complete the swap": while a swap the partner asked
\* for goes on and the partner is in place, no detach is detected.  A swap of the
\* tablet's own does force CC, and what it forced stays until TCPM toggles again.
SwapKeepsPartner ==
  [][ (/\ tcpm \in Swapping /\ (pr_swap_src_to_snk \/ pr_swap_snk_to_src) /\ ~own
       /\ partner # "open" /\ cc = partner /\ partner' = partner)
        => cc' # "open" ]_vars

\* 551-554: the CC state is frozen "before removing VBUS in a Source-to-Sink
\* PR_SWAP" and held until the new source is ready: the chip is kept from seeing
\* the connector only while a swap goes on.  The code does not keep it where a
\* swap is asked for, not carried out, and a hard reset takes VBUS away: the CC
\* state is frozen outside a swap, "stray" (README, Divergences).
HeldOnlyInSwap == hold \notin {"none", "stray"} => tcpm \in Swapping

\* 150-161: an accessory that stays in the connector reaches TCPM, announced or
\* not, asleep or not, and in the role it has; unless CC is left frozen by such a
\* hard reset for good.  One that takes the place of an accessory of the other role
\* while the interrupt is off is not always found (README, Divergences): both edges
\* are read together (800-803), TCPM drops the old one, and no edge is left.
AttachFound ==
  \A p \in {"source", "sink"} :
    <>[](partner = p /\ ~exchanged) /\ []<>(hold # "stray")
      => <>[](tcpm = IF p = "source" THEN "snk" ELSE "src")

\* A partner that leaves for good is noticed, and the boost goes with it; unless
\* CC is left frozen by such a hard reset for good.
DetachFound ==
  <>[](partner = "open") /\ []<>(hold # "stray") => <>[](tcpm = "toggling" /\ ~boost)
================================================================================
