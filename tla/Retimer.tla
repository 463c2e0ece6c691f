--------------------------------- MODULE Retimer ---------------------------------
(***************************************************************************)
(* ps5169.c: the redriver between the connector and the USB/DP PHY.  The    *)
(* Type-C core tells it the orientation and the mode, it programs its chip  *)
(* register by register and passes both on to the PHY.  TCPM and the DP     *)
(* alternate mode, whose calls come one after the other and stop at the     *)
(* first that fails, the PHY and the USB controller are external.           *)
(* The equalizer registers never change and are left out.                   *)
(***************************************************************************)
EXTENDS Integers, Sequences

CONSTANTS
  LinkFaults,  \* bound: register writes and calls into the PHY that fail
  Events       \* bound: attachments, swaps and mode changes

ASSUME LinkAssumption == LinkFaults \in Nat /\ Events \in Nat

VARIABLES
  bound,       \* the switches are registered
  orientation, mode,  \* struct ps5169; the svid is part of the mode
  chip,        \* registers 0x40 (mode and side), 0xa0, 0xa1, 0x04, and 0x8d with 0x90
  phy,         \* what the downstream switch and mux were last set to
  role, next_role,    \* the USB controller's role, and the one it is changing to
  \* the port: what is attached, which side up, in what mode, and the calls TCPM
  \* and the alternate mode still make for it
  attached, side, use, calls,
  tainted,     \* history: a call failed, and since then the chip has not been safe
               \* with the orientation of the port known
  events, linkfaults
ps == <<orientation, mode>>
controller == <<role, next_role>>
port == <<attached, side, use>>
retimer == <<bound, ps, chip, phy, controller, port, calls, tainted, events, linkfaults>>

Sides == {"normal", "reverse"}
DpModes == {"dp4", "dp2"}  \* states C and E; D and F, with USB beside DP
Registers == [mode |-> "safe", side |-> "normal", a0 |-> "usb", aux |-> FALSE,
              dir |-> "host", link |-> FALSE]

LinkFault == linkfaults < LinkFaults /\ linkfaults' = linkfaults + 1

--------------------------------------------------------------------------------
(* Register sequences.                                                      *)

W(field, value) == [field |-> field, value |-> value]
\* No sequence writes a register twice: their order counts where one fails only.
Written(regs, writes) ==
  [f \in DOMAIN regs |->
     IF \E i \in DOMAIN writes : writes[i].field = f
     THEN writes[CHOOSE i \in DOMAIN writes : writes[i].field = f].value ELSE regs[f]]

\* Mutant: the safe state leaves the AUX register alone.
SafeWritesNoAux == <<W("mode", "safe"), W("side", "normal"), W("a0", "usb"),
                     W("dir", "host"), W("link", FALSE)>>
SafeWrites == <<W("mode", "safe"), W("side", "normal"), W("a0", "usb"), W("aux", FALSE),
                W("dir", "host"), W("link", FALSE)>>

\* ps5169_program(): what it writes; a mode it does not know writes nothing.
Safe(o, m) == o = "none" \/ m = "safe"
Writes(o, m) ==
  CASE Safe(o, m) -> SafeWrites
    [] ~Safe(o, m) /\ m = "usb" ->
         <<W("mode", "usb"), W("side", o), W("a0", "usb"),
           W("dir", IF role = "host" THEN "host" ELSE "device"), W("link", TRUE)>>
    [] ~Safe(o, m) /\ m = "dp4" ->
         <<W("mode", "dp4"), W("side", o), W("a0", "dp"), W("aux", TRUE)>>
    [] ~Safe(o, m) /\ m = "dp2" ->
         <<W("mode", "dp2"), W("side", o), W("a0", "dp"), W("aux", TRUE),
           W("dir", "host"), W("link", TRUE)>>
    [] OTHER -> <<>>
\* The mode register holds the side as well: the two go out together.
Programs(o, m, ok) ==
  LET w == Writes(o, m) IN
  IF w = <<>> THEN ~ok /\ UNCHANGED <<chip, linkfaults>>
  ELSE IF ok THEN chip' = Written(chip, w) /\ UNCHANGED linkfaults
  ELSE LinkFault /\ \E k \in {0} \cup 2..(Len(w) - 1) : chip' = Written(chip, SubSeq(w, 1, k))
Taints(o, m, ok) == tainted' = (~ok \/ (tainted /\ ~(Safe(o, m) /\ o = side)))

--------------------------------------------------------------------------------
(* The callbacks.  ok is what they return.                                  *)

\* ps5169_switch_set(): the PHY first; its failure ends the call.
SwitchSet(o, ok) ==
  \/ /\ ~ok /\ LinkFault /\ tainted' = TRUE /\ UNCHANGED <<ps, chip, phy>>
  \/ /\ phy' = [phy EXCEPT !.side = o] /\ orientation' = o /\ UNCHANGED mode
     /\ Programs(o, mode, ok) /\ Taints(o, mode, ok)

\* Mutant: the mode goes to the PHY before the redriver.
RetimerSetPhyFirst(m, ok) ==
  \/ /\ ~ok /\ LinkFault /\ tainted' = TRUE /\ UNCHANGED <<ps, chip, phy>>
  \/ /\ phy' = [phy EXCEPT !.mode = m] /\ mode' = m /\ UNCHANGED orientation
     /\ Programs(orientation, m, ok) /\ Taints(orientation, m, ok)
\* ps5169_retimer_set(): the mode is kept whatever becomes of it; the PHY's mux
\* follows the redriver, and may refuse.
RetimerSet(m, ok) ==
  /\ mode' = m /\ UNCHANGED orientation
  /\ \/ /\ ~ok /\ Programs(orientation, m, FALSE) /\ UNCHANGED phy /\ tainted' = TRUE
     \/ /\ ok /\ Programs(orientation, m, TRUE) /\ phy' = [phy EXCEPT !.mode = m]
        /\ Taints(orientation, m, TRUE)
     \/ /\ ~ok /\ Writes(orientation, m) # <<>> /\ LinkFault /\ tainted' = TRUE
        /\ chip' = Written(chip, Writes(orientation, m)) /\ UNCHANGED phy

--------------------------------------------------------------------------------
(* Probe: the reset and the register defaults, then the registrations.      *)

HwInit == /\ ~bound /\ orientation' = "none" /\ mode' = "safe" /\ chip' = Registers
          /\ \/ bound' = TRUE /\ tainted' = FALSE /\ UNCHANGED linkfaults
             \/ LinkFault /\ UNCHANGED <<bound, tainted>>
          /\ UNCHANGED <<phy, controller, port, calls, events>>

--------------------------------------------------------------------------------
(* The port.                                                                *)

Call(what, value) == [what |-> what, value |-> value]
\* tcpm_mux_set(): orientation, role, mode.
MuxSet(o, r, m) == <<Call("side", o), Call("role", r), Call("mode", m)>>
Asks(s) == /\ bound /\ calls = <<>> /\ calls' = s
           /\ UNCHANGED <<bound, ps, chip, phy, controller, tainted, linkfaults>>
Counts == events < Events /\ events' = events + 1

Attach == /\ ~attached /\ Counts /\ attached' = TRUE /\ side' \in Sides /\ use' = "usb"
          /\ \E r \in {"host", "device"} : Asks(MuxSet(side', r, "usb"))
Detach == /\ attached /\ attached' = FALSE /\ side' = "none" /\ use' = "safe"
          /\ Asks(MuxSet("none", "none", "safe")) /\ UNCHANGED events
DataSwap == /\ attached /\ use = "usb" /\ Counts /\ UNCHANGED port
            /\ Asks(MuxSet(side, IF next_role = "host" THEN "device" ELSE "host", "usb"))
\* Entering and leaving a mode goes through the safe state.
Enter == /\ attached /\ use \in {"usb", "safe"} /\ Counts /\ UNCHANGED <<attached, side>>
         /\ use' \in DpModes \cup {"other"} /\ Asks(<<Call("mode", "safe"), Call("mode", use')>>)
Leave == /\ attached /\ use \in DpModes \cup {"other"} /\ Counts /\ UNCHANGED <<attached, side>>
         /\ use' = "usb" /\ Asks(<<Call("mode", "safe"), Call("mode", "usb")>>)

Makes(ok) == /\ calls # <<>> /\ calls' = (IF ok THEN Tail(calls) ELSE <<>>)
             /\ UNCHANGED <<bound, port, events>>
\* The controller changes its role in a work item of its own.
CallsRole == /\ Makes(TRUE) /\ Head(calls).what = "role" /\ next_role' = Head(calls).value
             /\ UNCHANGED <<ps, chip, phy, role, tainted, linkfaults>>
CallsSwitch == \E ok \in BOOLEAN :
  /\ Makes(ok) /\ Head(calls).what = "side" /\ SwitchSet(Head(calls).value, ok)
  /\ UNCHANGED controller
CallsRetimer == \E ok \in BOOLEAN :
  /\ Makes(ok) /\ Head(calls).what = "mode" /\ RetimerSet(Head(calls).value, ok)
  /\ UNCHANGED controller
RoleSettles == /\ role # next_role /\ role' = next_role
               /\ UNCHANGED <<bound, ps, chip, phy, next_role, port, calls, tainted, events, linkfaults>>

Init ==
  /\ bound = FALSE /\ orientation = "none" /\ mode = "safe" /\ chip = Registers
  /\ phy = [side |-> "none", mode |-> "safe"] /\ role = "none" /\ next_role = "none"
  /\ attached = FALSE /\ side = "none" /\ use = "safe" /\ calls = <<>>
  /\ tainted = FALSE /\ events = 0 /\ linkfaults = 0
Next == \/ HwInit \/ Attach \/ Detach \/ DataSwap \/ Enter \/ Leave
        \/ CallsRole \/ CallsSwitch \/ CallsRetimer \/ RoleSettles
Spec == Init /\ [][Next]_retimer

--------------------------------------------------------------------------------
(* Properties.                                                              *)

\* Between two events every register is what the port's mode and side want: AUX
\* only for DP, the link only for USB, nothing left of the mode before.  A call
\* that failed may leave any of them behind, and the orientation unknown; one
\* safe state reached with the right orientation heals all of it (53-156).
LinkMatches ==
  bound /\ calls = <<>> /\ ~tainted =>
    /\ phy = [side |-> side, mode |-> use] /\ chip.mode = use
    /\ chip.side = (IF use = "safe" THEN "normal" ELSE side)
    /\ (chip.aux <=> use \in DpModes) /\ (chip.a0 = "dp" <=> chip.aux)
    /\ (chip.link <=> use \in {"usb", "dp2"}) /\ (use # "usb" => chip.dir = "host")

\* The PHY never enters or leaves a mode the redriver has not: a sequence that
\* fails keeps the mode from the PHY, whatever failed before (172-177).  Only a
\* port whose orientation is not known gets its mode past a safe redriver.
RedriverFirst ==
  [][phy'.mode # phy.mode => chip'.mode = phy'.mode \/ orientation = "none"]_retimer
================================================================================
