------------------------------- MODULE LinkProofs -------------------------------
(***************************************************************************)
(* The Type-C link, for any number of events and faults.  The redriver's    *)
(* registers follow the port: the chip always holds what orientation and    *)
(* mode ask for, and every queue of calls the port makes either passes      *)
(* through the safe state or starts where nothing of the old mode is in the *)
(* way.  PD messages pass whole, once and in order.  On the way out the end *)
(* of a transmission is in one place at a time: on the wire, latched, read, *)
(* or with TCPM.  On the way in a message is either still to be read, and   *)
(* then it is the last one, or it was handed on or given up.                *)
(***************************************************************************)
EXTENDS Retimer, PdTransport, TLAPS

Modes == {"safe", "usb", "other"} \cup DpModes
Fields == {"mode", "side", "a0", "aux", "dir", "link"}
Full(bank) == bank = [f \in Fields |-> bank[f]]
RetimerTypes ==
  /\ bound \in BOOLEAN /\ attached \in BOOLEAN /\ tainted \in BOOLEAN
  /\ mode \in Modes /\ use \in Modes
  /\ side \in Sides \cup {"none"} /\ orientation \in Sides \cup {"none"}
  /\ Full(chip)
  /\ phy = [side |-> orientation, mode |-> phy.mode]
Port ==
  /\ attached <=> side # "none"
  /\ attached <=> use # "safe"
  /\ ~bound => /\ orientation = "none" /\ mode = "safe" /\ phy.mode = "safe"
               /\ ~attached /\ calls = <<>> /\ chip = Registers /\ ~tainted
\* What is left of the calls for one event.
Queue ==
  \/ calls \in {<<>>, <<Call("mode", use)>>, <<Call("mode", "safe"), Call("mode", use)>>}
  \/ \E r \in {"none", "host", "device"} :
       calls \in {<<Call("role", r), Call("mode", use)>>, MuxSet(side, r, use)}

\* The registers LinkMatches asks for, of a side and a mode.
Programmed(c, o, m) ==
  /\ c.mode = m /\ c.side = (IF m = "safe" THEN "normal" ELSE o)
  /\ (c.aux <=> m \in DpModes) /\ (c.a0 = "dp" <=> c.aux)
  /\ (c.link <=> m \in {"usb", "dp2"}) /\ (m # "usb" => c.dir = "host")
Effective(o, m) == IF Safe(o, m) THEN "safe" ELSE m
\* Writing m now leaves nothing of the mode before.
Clean(m) == m = "safe" \/ Safe(orientation, mode) \/ (mode = "usb" /\ m = "usb")
Known ==
  /\ Programmed(chip, orientation, Effective(orientation, mode))
  /\ Safe(orientation, mode) \/ mode # "other"
Asked ==
  IF calls = <<>> THEN orientation = side /\ mode = use /\ phy.mode = use
  ELSE IF calls[1].what = "side"
    THEN use = "safe" \/ mode = "safe" \/ (mode = "usb" /\ use = "usb" /\ orientation = side)
  ELSE orientation = side /\ (calls[1] # Call("mode", "safe") => Clean(use))
Sync == ~tainted => Known /\ Asked
LinkInv == RetimerTypes /\ Port /\ Queue /\ Sync

--------------------------------------------------------------------------------
(* What a sequence of writes leaves in the registers.                       *)

LEMMA WrittenOnce ==
  ASSUME NEW bank, NEW writes, NEW f \in DOMAIN bank, NEW i \in DOMAIN writes,
         writes[i].field = f, \A j \in DOMAIN writes : writes[j].field = f => j = i
  PROVE Written(bank, writes)[f] = writes[i].value
BY DEF Written

LEMMA Unwritten ==
  ASSUME NEW bank, NEW writes, NEW f \in DOMAIN bank, \A j \in DOMAIN writes : writes[j].field # f
  PROVE Written(bank, writes)[f] = bank[f]
BY DEF Written

LEMMA WrittenFields ==
  ASSUME NEW bank, NEW writes, Full(bank)
  PROVE Full(Written(bank, writes))
BY DEF Full, Written

LEMMA SafeWritten ==
  ASSUME NEW bank, Full(bank)
  PROVE /\ Written(bank, SafeWrites).mode = "safe" /\ Written(bank, SafeWrites).side = "normal"
        /\ Written(bank, SafeWrites).a0 = "usb" /\ ~Written(bank, SafeWrites).aux
        /\ Written(bank, SafeWrites).dir = "host" /\ ~Written(bank, SafeWrites).link
<1> DEFINE w == SafeWrites
<1>1. DOMAIN w = 1..6 /\ \A i \in 1..6 : i = 1 \/ i = 2 \/ i = 3 \/ i = 4 \/ i = 5 \/ i = 6
  BY DEF SafeWrites
<1>2. /\ w[1].field = "mode" /\ w[2].field = "side" /\ w[3].field = "a0"
      /\ w[4].field = "aux" /\ w[5].field = "dir" /\ w[6].field = "link"
      /\ w[1].value = "safe" /\ w[2].value = "normal" /\ w[3].value = "usb"
      /\ w[4].value = FALSE /\ w[5].value = "host" /\ w[6].value = FALSE
  BY DEF SafeWrites, W
<1> HIDE DEF w
<1>3. DOMAIN bank = Fields
  BY DEF Full
<1>4. Written(bank, w)["mode"] = w[1].value
  BY <1>1, <1>2, <1>3, WrittenOnce DEF Fields
<1>5. Written(bank, w)["side"] = w[2].value
  BY <1>1, <1>2, <1>3, WrittenOnce DEF Fields
<1>6. Written(bank, w)["a0"] = w[3].value
  BY <1>1, <1>2, <1>3, WrittenOnce DEF Fields
<1>7. Written(bank, w)["aux"] = w[4].value
  BY <1>1, <1>2, <1>3, WrittenOnce DEF Fields
<1>8. Written(bank, w)["dir"] = w[5].value
  BY <1>1, <1>2, <1>3, WrittenOnce DEF Fields
<1>9. Written(bank, w)["link"] = w[6].value
  BY <1>1, <1>2, <1>3, WrittenOnce DEF Fields
<1> QED BY <1>2, <1>4, <1>5, <1>6, <1>7, <1>8, <1>9 DEF w
LEMMA UsbWritten ==
  ASSUME NEW bank, Full(bank), NEW o, NEW m, ~Safe(o, m), m = "usb",
         NEW r, r = Written(bank, Writes(o, m))
  PROVE /\ r.mode = m
        /\ r.side = o
        /\ r.a0 = "usb"
        /\ r.aux <=> bank.aux
        /\ r.dir = (IF role = "host" THEN "host" ELSE "device")
        /\ r.link
<1> DEFINE w == Writes(o, m)
<1>1. DOMAIN w = 1..5 /\ \A i \in 1..5 : i = 1 \/ i = 2 \/ i = 3 \/ i = 4 \/ i = 5
  BY DEF Writes
<1>2. /\ w[1].field = "mode" /\ w[1].value = "usb"
      /\ w[2].field = "side" /\ w[2].value = o
      /\ w[3].field = "a0" /\ w[3].value = "usb"
      /\ w[4].field = "dir" /\ w[4].value = (IF role = "host" THEN "host" ELSE "device")
      /\ w[5].field = "link" /\ w[5].value = TRUE
  BY DEF Writes, W
<1> HIDE DEF w
<1>3. DOMAIN bank = Fields
  BY DEF Full
<1>4. Written(bank, w)["mode"] = "usb"
  BY <1>1, <1>2, <1>3, WrittenOnce DEF Fields
<1>5. Written(bank, w)["side"] = o
  BY <1>1, <1>2, <1>3, WrittenOnce DEF Fields
<1>6. Written(bank, w)["a0"] = "usb"
  BY <1>1, <1>2, <1>3, WrittenOnce DEF Fields
<1>7. Written(bank, w)["aux"] = bank["aux"]
  BY <1>1, <1>2, <1>3, Unwritten DEF Fields
<1>8. Written(bank, w)["dir"] = (IF role = "host" THEN "host" ELSE "device")
  BY <1>1, <1>2, <1>3, WrittenOnce DEF Fields
<1>9. Written(bank, w)["link"] = TRUE
  BY <1>1, <1>2, <1>3, WrittenOnce DEF Fields
<1> QED BY <1>4, <1>5, <1>6, <1>7, <1>8, <1>9 DEF w

LEMMA Dp4Written ==
  ASSUME NEW bank, Full(bank), NEW o, NEW m, ~Safe(o, m), m = "dp4",
         NEW r, r = Written(bank, Writes(o, m))
  PROVE /\ r.mode = m
        /\ r.side = o
        /\ r.a0 = "dp"
        /\ r.aux
        /\ r.dir = bank.dir
        /\ r.link <=> bank.link
<1> DEFINE w == Writes(o, m)
<1>1. DOMAIN w = 1..4 /\ \A i \in 1..4 : i = 1 \/ i = 2 \/ i = 3 \/ i = 4
  BY DEF Writes
<1>2. /\ w[1].field = "mode" /\ w[1].value = "dp4"
      /\ w[2].field = "side" /\ w[2].value = o
      /\ w[3].field = "a0" /\ w[3].value = "dp"
      /\ w[4].field = "aux" /\ w[4].value = TRUE
  BY DEF Writes, W
<1> HIDE DEF w
<1>3. DOMAIN bank = Fields
  BY DEF Full
<1>4. Written(bank, w)["mode"] = "dp4"
  BY <1>1, <1>2, <1>3, WrittenOnce DEF Fields
<1>5. Written(bank, w)["side"] = o
  BY <1>1, <1>2, <1>3, WrittenOnce DEF Fields
<1>6. Written(bank, w)["a0"] = "dp"
  BY <1>1, <1>2, <1>3, WrittenOnce DEF Fields
<1>7. Written(bank, w)["aux"] = TRUE
  BY <1>1, <1>2, <1>3, WrittenOnce DEF Fields
<1>8. Written(bank, w)["dir"] = bank["dir"]
  BY <1>1, <1>2, <1>3, Unwritten DEF Fields
<1>9. Written(bank, w)["link"] = bank["link"]
  BY <1>1, <1>2, <1>3, Unwritten DEF Fields
<1> QED BY <1>4, <1>5, <1>6, <1>7, <1>8, <1>9 DEF w

LEMMA Dp2Written ==
  ASSUME NEW bank, Full(bank), NEW o, NEW m, ~Safe(o, m), m = "dp2",
         NEW r, r = Written(bank, Writes(o, m))
  PROVE /\ r.mode = m
        /\ r.side = o
        /\ r.a0 = "dp"
        /\ r.aux
        /\ r.dir = "host"
        /\ r.link
<1> DEFINE w == Writes(o, m)
<1>1. DOMAIN w = 1..6 /\ \A i \in 1..6 : i = 1 \/ i = 2 \/ i = 3 \/ i = 4 \/ i = 5 \/ i = 6
  BY DEF Writes
<1>2. /\ w[1].field = "mode" /\ w[1].value = "dp2"
      /\ w[2].field = "side" /\ w[2].value = o
      /\ w[3].field = "a0" /\ w[3].value = "dp"
      /\ w[4].field = "aux" /\ w[4].value = TRUE
      /\ w[5].field = "dir" /\ w[5].value = "host"
      /\ w[6].field = "link" /\ w[6].value = TRUE
  BY DEF Writes, W
<1> HIDE DEF w
<1>3. DOMAIN bank = Fields
  BY DEF Full
<1>4. Written(bank, w)["mode"] = "dp2"
  BY <1>1, <1>2, <1>3, WrittenOnce DEF Fields
<1>5. Written(bank, w)["side"] = o
  BY <1>1, <1>2, <1>3, WrittenOnce DEF Fields
<1>6. Written(bank, w)["a0"] = "dp"
  BY <1>1, <1>2, <1>3, WrittenOnce DEF Fields
<1>7. Written(bank, w)["aux"] = TRUE
  BY <1>1, <1>2, <1>3, WrittenOnce DEF Fields
<1>8. Written(bank, w)["dir"] = "host"
  BY <1>1, <1>2, <1>3, WrittenOnce DEF Fields
<1>9. Written(bank, w)["link"] = TRUE
  BY <1>1, <1>2, <1>3, WrittenOnce DEF Fields
<1> QED BY <1>4, <1>5, <1>6, <1>7, <1>8, <1>9 DEF w

LEMMA ProgramsKeeps ==
  ASSUME RetimerTypes, NEW o, NEW m, NEW ok \in BOOLEAN, Programs(o, m, ok)
  PROVE Full(chip')
BY WrittenFields DEF RetimerTypes, Programs

\* What a callback that returns 0 leaves in the chip.
LEMMA ProgramsMatches ==
  ASSUME RetimerTypes, NEW o \in Sides \cup {"none"}, NEW m \in Modes, Programs(o, m, TRUE),
         \/ Safe(o, m)
         \/ ~chip.aux /\ (m = "dp4" => ~chip.link /\ chip.dir = "host")
  PROVE Programmed(chip', o, Effective(o, m)) /\ (Safe(o, m) \/ m # "other")
<1>1. Full(chip)
  BY DEF RetimerTypes
<1>2. Writes(o, m) # <<>> /\ chip' = Written(chip, Writes(o, m))
  BY DEF Programs
<1>3. CASE Safe(o, m)
  <2>1. Writes(o, m) = SafeWrites
    BY <1>3 DEF Writes
  <2>2. /\ chip'.mode = "safe" /\ chip'.side = "normal" /\ chip'.a0 = "usb"
        /\ ~chip'.aux /\ chip'.dir = "host" /\ ~chip'.link
    BY <1>1, <1>2, <2>1, SafeWritten
  <2>3. Programmed(chip', o, "safe")
    BY <2>2 DEF Programmed, DpModes
  <2> QED BY <1>3, <2>3 DEF Effective
<1>4. CASE ~Safe(o, m)
  <2>1. m \in {"usb", "dp4", "dp2"}
    BY <1>2, <1>4 DEF Writes, Modes, DpModes, Safe
  <2>2. ASSUME m = "usb" PROVE Programmed(chip', o, m)
    <3>1. /\ chip'.mode = m /\ chip'.side = o /\ chip'.a0 = "usb"
          /\ ~chip'.aux /\ chip'.link
      BY <1>1, <1>2, <1>4, <2>2, UsbWritten
    <3>2. Programmed(chip', o, "usb")
      BY <2>2, <3>1 DEF Programmed, DpModes
    <3> QED BY <2>2, <3>2
  <2>3. ASSUME m = "dp4" PROVE Programmed(chip', o, m)
    <3>1. /\ chip'.mode = m /\ chip'.side = o /\ chip'.a0 = "dp"
          /\ chip'.aux /\ ~chip'.link /\ chip'.dir = "host"
      BY <1>1, <1>2, <1>4, <2>3, Dp4Written
    <3>2. Programmed(chip', o, "dp4")
      BY <2>3, <3>1 DEF Programmed, DpModes
    <3> QED BY <2>3, <3>2
  <2>4. ASSUME m = "dp2" PROVE Programmed(chip', o, m)
    <3>1. /\ chip'.mode = m /\ chip'.side = o /\ chip'.a0 = "dp"
          /\ chip'.aux /\ chip'.link /\ chip'.dir = "host"
      BY <1>1, <1>2, <1>4, <2>4, Dp2Written
    <3>2. Programmed(chip', o, "dp2")
      BY <2>4, <3>1 DEF Programmed, DpModes
    <3> QED BY <2>4, <3>2
  <2> QED BY <1>4, <2>1, <2>2, <2>3, <2>4 DEF Effective
<1> QED BY <1>3, <1>4

\* A callback that returns 0 leaves the chip in its mode, whatever failed before.
LEMMA ProgramsMode ==
  ASSUME RetimerTypes, NEW o \in Sides \cup {"none"}, NEW m \in Modes, Programs(o, m, TRUE),
         o # "none"
  PROVE chip'.mode = m
<1>1. Full(chip) /\ Writes(o, m) # <<>> /\ chip' = Written(chip, Writes(o, m))
  BY DEF RetimerTypes, Programs
<1>2. ASSUME m = "safe" PROVE chip'.mode = m
  <2>1. Writes(o, m) = SafeWrites
    BY <1>2 DEF Writes, Safe
  <2> QED BY <1>1, <1>2, <2>1, SafeWritten
<1>3. ASSUME m # "safe" PROVE chip'.mode = m
  <2>1. ~Safe(o, m)
    BY <1>3 DEF Safe
  <2>2. m \in {"usb", "dp4", "dp2"}
    BY <1>1, <2>1 DEF Writes, Modes, DpModes, Safe
  <2> QED BY <1>1, <2>1, <2>2, UsbWritten, Dp4Written, Dp2Written
<1> QED BY <1>2, <1>3

\* The next call, and what is left after it.
LEMMA Popped ==
  ASSUME Queue, calls # <<>>
  PROVE /\ Head(calls) = calls[1]
        /\ \/ /\ calls[1] = Call("side", side)
              /\ \E r \in {"none", "host", "device"} :
                   Tail(calls) = <<Call("role", r), Call("mode", use)>>
           \/ calls[1].what = "role" /\ Tail(calls) = <<Call("mode", use)>>
           \/ calls[1] = Call("mode", "safe") /\ Tail(calls) = <<Call("mode", use)>>
           \/ calls[1] = Call("mode", use) /\ Tail(calls) = <<>>
<1>1. CASE calls = <<Call("mode", use)>>
  BY <1>1
<1>2. CASE calls = <<Call("mode", "safe"), Call("mode", use)>>
  BY <1>2
<1>3. ASSUME NEW r \in {"none", "host", "device"}, calls = <<Call("role", r), Call("mode", use)>>
      PROVE Head(calls) = calls[1] /\ calls[1].what = "role" /\ Tail(calls) = <<Call("mode", use)>>
  BY <1>3 DEF Call
<1>4. ASSUME NEW r \in {"none", "host", "device"}, calls = MuxSet(side, r, use)
      PROVE /\ Head(calls) = calls[1] /\ calls[1] = Call("side", side)
            /\ Tail(calls) = <<Call("role", r), Call("mode", use)>>
  BY <1>4 DEF MuxSet
<1> QED BY <1>1, <1>2, <1>3, <1>4 DEF Queue

--------------------------------------------------------------------------------
(* The invariant.                                                           *)

LEMMA LinkStarts == ASSUME Init PROVE LinkInv
BY DEF Init, LinkInv, RetimerTypes, Port, Queue, Sync, Known, Asked, Programmed, Effective,
       Safe, Modes, DpModes, Full, Fields, Registers

\* Nothing the invariant reads has changed.
LEMMA LinkStutters ==
  ASSUME LinkInv, UNCHANGED <<bound, ps, chip, phy, port, calls, tainted>>
  PROVE LinkInv'
BY DEF LinkInv, RetimerTypes, Port, Queue, Sync, Known, Asked, Programmed, Effective,
       Clean, Safe, Full, ps, port

LEMMA HwInitKeeps == ASSUME LinkInv, HwInit PROVE LinkInv'
<1>1. /\ ~bound /\ ~attached /\ calls = <<>> /\ ~tainted /\ side = "none" /\ use = "safe"
      /\ orientation = "none" /\ phy = [side |-> "none", mode |-> "safe"]
  BY DEF LinkInv, RetimerTypes, Port, HwInit
<1>2. /\ orientation' = "none" /\ mode' = "safe" /\ chip' = Registers /\ tainted' = FALSE
      /\ bound' \in BOOLEAN /\ phy' = phy /\ attached' = attached /\ side' = side /\ use' = use
      /\ calls' = calls
  BY <1>1 DEF LinkInv, RetimerTypes, HwInit, port
<1>3. RetimerTypes' /\ Port' /\ Queue'
  <2>1. Full(Registers)
    BY DEF Full, Fields, Registers
  <2>2. mode' \in Modes /\ use' \in Modes /\ attached' = FALSE /\ calls' = <<>>
    BY <1>1, <1>2 DEF Modes, LinkInv, RetimerTypes
  <2> QED BY <1>1, <1>2, <2>1, <2>2 DEF RetimerTypes, Port, Queue
<1>4. Known' /\ Asked'
  BY <1>1, <1>2 DEF Known, Asked, Programmed, Effective, Safe, Registers, DpModes
<1> QED BY <1>3, <1>4 DEF LinkInv, Sync

\* What the port asks for is a whole queue, and starts where the last one ended.
LEMMA AsksKeeps ==
  ASSUME LinkInv, NEW s, Asks(s),
         attached' \in BOOLEAN, side' \in Sides \cup {"none"}, use' \in Modes,
         (attached' <=> side' # "none") /\ (attached' <=> use' # "safe"),
         \/ /\ \E r \in {"none", "host", "device"} : s = MuxSet(side', r, use')
            /\ \/ use = "safe" \/ use' = "safe"
               \/ use = "usb" /\ use' = "usb" /\ side' = side
         \/ s = <<Call("mode", "safe"), Call("mode", use')>> /\ side' = side
  PROVE LinkInv'
<1>1. /\ bound /\ calls = <<>> /\ calls' = s
      /\ bound' = bound /\ orientation' = orientation /\ mode' = mode /\ chip' = chip
      /\ phy' = phy /\ tainted' = tainted
  BY DEF Asks, ps
<1>2. RetimerTypes' /\ Port' /\ Queue'
  BY <1>1 DEF LinkInv, RetimerTypes, Port, Queue, Full
<1>3. ASSUME ~tainted PROVE Known' /\ Asked'
  <2>1. Known /\ orientation = side /\ mode = use
    BY <1>1, <1>3 DEF LinkInv, Sync, Asked
  <2>2. Known'
    BY <1>1, <2>1 DEF Known, Programmed, Effective, Safe
  <2>3. CASE \E r \in {"none", "host", "device"} : s = MuxSet(side', r, use')
    <3>1. calls'[1] = Call("side", side') /\ calls' # <<>>
      BY <1>1, <2>3 DEF MuxSet
    <3>2. calls'[1].what = "side"
      BY <3>1 DEF Call
    <3> QED BY <1>1, <2>1, <2>2, <2>3, <3>1, <3>2 DEF Asked, MuxSet
  <2>4. CASE s = <<Call("mode", "safe"), Call("mode", use')>> /\ side' = side
    <3>1. calls'[1] = Call("mode", "safe") /\ calls' # <<>>
      BY <1>1, <2>4
    <3>2. calls'[1].what # "side"
      BY <3>1 DEF Call
    <3> QED BY <1>1, <2>1, <2>2, <2>4, <3>1, <3>2 DEF Asked
  <2> QED BY <2>3, <2>4
<1> QED BY <1>1, <1>2, <1>3 DEF LinkInv, Sync

LEMMA PortKeeps ==
  ASSUME LinkInv, Attach \/ Detach \/ DataSwap \/ Enter \/ Leave
  PROVE LinkInv'
<1> USE DEF LinkInv, RetimerTypes, Port
<1>1. CASE Attach
  <2>1. PICK r \in {"host", "device"} : Asks(MuxSet(side', r, "usb"))
    BY <1>1 DEF Attach
  <2>2. /\ ~attached /\ use = "safe" /\ attached' = TRUE /\ side' \in Sides /\ use' = "usb"
        /\ side' # "none" /\ use' \in Modes
    BY <1>1 DEF Attach, Sides, Modes
  <2>3. \E q \in {"none", "host", "device"} : MuxSet(side', r, "usb") = MuxSet(side', q, use')
    BY <2>1, <2>2
  <2> QED BY <2>1, <2>2, <2>3, AsksKeeps
<1>2. CASE Detach
  <2>1. Asks(MuxSet("none", "none", "safe"))
    BY <1>2 DEF Detach
  <2>2. attached' = FALSE /\ side' = "none" /\ use' = "safe" /\ use' \in Modes
    BY <1>2 DEF Detach, Modes
  <2>3. \E q \in {"none", "host", "device"} :
          MuxSet("none", "none", "safe") = MuxSet(side', q, use')
    BY <2>2
  <2> QED BY <2>1, <2>2, <2>3, AsksKeeps
<1>3. CASE DataSwap
  <2>1. PICK r \in {"host", "device"} : Asks(MuxSet(side, r, "usb"))
    BY <1>3 DEF DataSwap
  <2>2. attached /\ use = "usb" /\ attached' = attached /\ side' = side /\ use' = use
    BY <1>3 DEF DataSwap, port
  <2>3. \E q \in {"none", "host", "device"} : MuxSet(side, r, "usb") = MuxSet(side', q, use')
    BY <2>1, <2>2
  <2> QED BY <2>1, <2>2, <2>3, AsksKeeps
<1>4. CASE Enter \/ Leave
  <2>1. Asks(<<Call("mode", "safe"), Call("mode", use')>>)
    BY <1>4 DEF Enter, Leave
  <2>2. /\ attached /\ attached' = attached /\ side' = side /\ use' # "safe" /\ use' \in Modes
    BY <1>4 DEF Enter, Leave, Modes, DpModes
  <2> QED BY <2>1, <2>2, AsksKeeps
<1> QED BY <1>1, <1>2, <1>3, <1>4

\* A call that failed: whatever it left is not relied on any more.
LEMMA FailureKeeps ==
  ASSUME LinkInv, bound, UNCHANGED <<bound, port>>, calls' = <<>>, tainted' = TRUE, Full(chip'),
         orientation' \in Sides \cup {"none"}, mode' \in Modes,
         phy' = [side |-> orientation', mode |-> phy'.mode]
  PROVE LinkInv'
<1>1. bound' = bound /\ attached' = attached /\ side' = side /\ use' = use
  BY DEF port
<1>2. RetimerTypes' /\ Port' /\ Queue'
  BY <1>1 DEF LinkInv, RetimerTypes, Port, Queue
<1> QED BY <1>2 DEF LinkInv, Sync

LEMMA CallsRoleKeeps == ASSUME LinkInv, CallsRole PROVE LinkInv'
<1>1. /\ calls # <<>> /\ calls' = Tail(calls) /\ Head(calls).what = "role"
      /\ bound' = bound /\ attached' = attached /\ side' = side /\ use' = use
      /\ orientation' = orientation /\ mode' = mode /\ chip' = chip /\ phy' = phy
      /\ tainted' = tainted
  BY DEF CallsRole, Makes, ps, port
<1>2. bound
  BY <1>1 DEF LinkInv, Port
<1>3. calls[1].what = "role" /\ calls' = <<Call("mode", use)>>
  BY <1>1, Popped DEF LinkInv, Call
<1>4. RetimerTypes' /\ Port' /\ Queue'
  BY <1>1, <1>2, <1>3 DEF LinkInv, RetimerTypes, Port, Queue, Full
<1>5. ASSUME ~tainted PROVE Known' /\ Asked'
  <2>1. Known /\ orientation = side /\ Clean(use)
    BY <1>1, <1>3, <1>5 DEF LinkInv, Sync, Asked, Call
  <2>2. calls' # <<>> /\ calls'[1] = Call("mode", use) /\ calls'[1].what = "mode"
    BY <1>3 DEF Call
  <2>3. Known' /\ Clean(use)'
    BY <1>1, <2>1 DEF Known, Programmed, Effective, Safe, Clean
  <2> QED BY <1>1, <2>1, <2>2, <2>3 DEF Asked, Clean
<1> QED BY <1>1, <1>4, <1>5 DEF LinkInv, Sync

LEMMA CallsSwitchKeeps == ASSUME LinkInv, CallsSwitch PROVE LinkInv'
<1>1. PICK ok \in BOOLEAN :
        Makes(ok) /\ Head(calls).what = "side" /\ SwitchSet(Head(calls).value, ok)
  BY DEF CallsSwitch
<1>2. /\ calls # <<>> /\ calls' = (IF ok THEN Tail(calls) ELSE <<>>)
      /\ bound' = bound /\ attached' = attached /\ side' = side /\ use' = use
  BY <1>1 DEF Makes, port
<1>3. PICK r \in {"none", "host", "device"} :
        Head(calls) = Call("side", side) /\ Tail(calls) = <<Call("role", r), Call("mode", use)>>
  BY <1>1, <1>2, Popped DEF LinkInv, Call
<1>4. bound /\ calls[1] = Head(calls) /\ Head(calls).value = side
  BY <1>2, <1>3, Popped DEF LinkInv, Port, Call
<1>5. CASE ~ok /\ tainted' = TRUE /\ UNCHANGED <<ps, chip, phy>>
  BY <1>2, <1>4, <1>5, FailureKeeps DEF LinkInv, RetimerTypes, ps, port, Full
<1>6. ASSUME phy' = [phy EXCEPT !.side = side], orientation' = side, mode' = mode,
             Programs(side, mode, ok), Taints(side, mode, ok)
      PROVE LinkInv'
  <2>1. Full(chip')
    BY <1>6, ProgramsKeeps DEF LinkInv
  <2>2. phy' = [side |-> orientation', mode |-> phy'.mode] /\ phy'.mode = phy.mode
    BY <1>6 DEF LinkInv, RetimerTypes
  <2>3. side \in Sides \cup {"none"} /\ mode \in Modes
    BY DEF LinkInv, RetimerTypes
  <2>4. CASE ~ok
    <3>1. tainted' = TRUE
      BY <1>6, <2>4 DEF Taints
    <3> QED BY <1>2, <1>4, <1>6, <2>1, <2>2, <2>3, <2>4, <3>1, FailureKeeps DEF port
  <2>5. CASE ok
    <3>1. calls' = <<Call("role", r), Call("mode", use)>>
      BY <1>2, <1>3, <2>5
    <3>2. RetimerTypes' /\ Port' /\ Queue'
      <4>1. tainted' \in BOOLEAN
        BY <1>6 DEF Taints
      <4> QED BY <1>2, <1>4, <1>6, <2>1, <2>2, <2>3, <3>1, <4>1
              DEF LinkInv, RetimerTypes, Port, Queue
    <3>3. ASSUME ~tainted' PROVE Known' /\ Asked'
      <4>1. ~tainted \/ Safe(side, mode)
        BY <1>6, <2>5, <3>3 DEF Taints
      <4>2. ASSUME ~tainted, ~Safe(side, mode)
            PROVE mode = "usb" /\ use = "usb" /\ orientation = side /\ ~chip.aux
        <5>1. /\ Known
              /\ \/ use = "safe" \/ mode = "safe"
                 \/ mode = "usb" /\ use = "usb" /\ orientation = side
          BY <1>2, <1>3, <1>4, <4>2 DEF LinkInv, Sync, Asked, Call
        <5>2. use # "safe" /\ mode # "safe"
          BY <4>2 DEF LinkInv, Port, Safe
        <5>3. Effective(orientation, mode) \notin DpModes
          BY <5>1, <5>2 DEF Effective, DpModes
        <5> QED BY <5>1, <5>2, <5>3 DEF Known, Programmed
      <4>3. Programmed(chip', side, Effective(side, mode)) /\ (Safe(side, mode) \/ mode # "other")
        BY <1>6, <2>3, <2>5, <4>1, <4>2, ProgramsMatches DEF LinkInv
      <4>4. Known'
        BY <1>6, <4>3 DEF Known, Effective, Safe
      <4>5. /\ calls' # <<>> /\ calls'[1] = Call("role", r) /\ calls'[1].what = "role"
            /\ calls'[1] # Call("mode", "safe")
        BY <3>1 DEF Call
      <4>6. Clean(use)'
        BY <1>2, <1>6, <4>1, <4>2 DEF Clean, Safe
      <4> QED BY <1>2, <1>6, <4>4, <4>5, <4>6 DEF Asked, Clean
    <3> QED BY <3>2, <3>3 DEF LinkInv, Sync
  <2> QED BY <1>1, <2>4, <2>5
<1> QED BY <1>1, <1>4, <1>5, <1>6 DEF SwitchSet

LEMMA CallsRetimerKeeps == ASSUME LinkInv, CallsRetimer PROVE LinkInv'
<1>1. PICK ok \in BOOLEAN :
        Makes(ok) /\ Head(calls).what = "mode" /\ RetimerSet(Head(calls).value, ok)
  BY DEF CallsRetimer
<1> DEFINE m == Head(calls).value
<1>2. /\ calls # <<>> /\ calls' = (IF ok THEN Tail(calls) ELSE <<>>)
      /\ bound' = bound /\ attached' = attached /\ side' = side /\ use' = use
      /\ mode' = m /\ orientation' = orientation
  BY <1>1 DEF Makes, port, RetimerSet
<1>3. /\ calls[1] = Head(calls) /\ calls[1] = Call("mode", m)
      /\ \/ m = "safe" /\ Tail(calls) = <<Call("mode", use)>>
         \/ m = use /\ Tail(calls) = <<>>
  BY <1>1, <1>2, Popped DEF LinkInv, Call
<1>4. /\ bound /\ m \in Modes /\ orientation \in Sides \cup {"none"}
      /\ calls[1].what # "side" /\ (m # "safe" => calls[1] # Call("mode", "safe"))
  BY <1>2, <1>3 DEF LinkInv, RetimerTypes, Port, Modes, Call
<1> HIDE DEF m
<1>5. CASE ~ok
  <2>1. phy' = phy /\ tainted' = TRUE
    BY <1>1, <1>5 DEF RetimerSet, m
  <2>2. Full(chip')
    <3>1. CASE Programs(orientation, m, FALSE)
      BY <3>1, ProgramsKeeps DEF LinkInv
    <3>2. CASE chip' = Written(chip, Writes(orientation, m))
      BY <3>2, WrittenFields DEF LinkInv, RetimerTypes
    <3> QED BY <1>1, <1>5, <3>1, <3>2 DEF RetimerSet, m
  <2>3. phy' = [side |-> orientation', mode |-> phy'.mode]
    BY <1>2, <2>1 DEF LinkInv, RetimerTypes
  <2> QED BY <1>2, <1>4, <1>5, <2>1, <2>2, <2>3, FailureKeeps DEF port
<1>6. CASE ok
  <2>1. /\ Programs(orientation, m, TRUE) /\ phy' = [phy EXCEPT !.mode = m]
        /\ Taints(orientation, m, TRUE)
    BY <1>1, <1>6 DEF RetimerSet, m
  <2>2. phy' = [side |-> orientation', mode |-> phy'.mode] /\ phy'.mode = m
    BY <1>2, <2>1 DEF LinkInv, RetimerTypes
  <2>3. RetimerTypes' /\ Port' /\ Queue'
    <3>1. tainted' \in BOOLEAN /\ Full(chip')
      BY <2>1, ProgramsKeeps DEF Taints, LinkInv
    <3>2. calls' \in {<<>>, <<Call("mode", use)>>}
      BY <1>2, <1>3, <1>6
    <3> QED BY <1>2, <1>4, <2>2, <3>1, <3>2 DEF LinkInv, RetimerTypes, Port, Queue
  <2>4. ASSUME ~tainted' PROVE Known' /\ Asked'
    <3>1. orientation = side /\ (tainted => Safe(orientation, m))
      BY <1>2, <1>4, <2>1, <2>4 DEF Taints, LinkInv, Sync, Asked
    <3>2. ASSUME ~Safe(orientation, m)
          PROVE ~chip.aux /\ (m = "dp4" => ~chip.link /\ chip.dir = "host")
      <4>1. Known /\ Clean(m) /\ m # "safe" /\ orientation # "none"
        BY <1>2, <1>3, <1>4, <3>1, <3>2 DEF LinkInv, Sync, Asked, Safe
      <4>2. CASE Safe(orientation, mode)
        <5>1. Effective(orientation, mode) = "safe"
          BY <4>2 DEF Effective
        <5> QED BY <4>1, <5>1 DEF Known, Programmed, DpModes
      <4>3. CASE ~Safe(orientation, mode) /\ mode = "usb" /\ m = "usb"
        <5>1. Effective(orientation, mode) = "usb"
          BY <4>3 DEF Effective
        <5> QED BY <4>1, <4>3, <5>1 DEF Known, Programmed, DpModes
      <4> QED BY <4>1, <4>2, <4>3 DEF Clean
    <3>3. /\ Programmed(chip', orientation, Effective(orientation, m))
          /\ Safe(orientation, m) \/ m # "other"
      BY <1>4, <2>1, <3>2, ProgramsMatches DEF LinkInv
    <3>4. Known'
      BY <1>2, <3>3 DEF Known, Effective, Safe
    <3>5. CASE m = use /\ Tail(calls) = <<>>
      BY <1>2, <1>6, <2>2, <3>1, <3>4, <3>5 DEF Asked
    <3>6. CASE m = "safe" /\ Tail(calls) = <<Call("mode", use)>>
      <4>1. calls' = <<Call("mode", use)>>
        BY <1>2, <1>6, <3>6
      <4>2. calls' # <<>> /\ calls'[1] = Call("mode", use) /\ calls'[1].what = "mode"
        BY <4>1 DEF Call
      <4>3. Clean(use)'
        BY <1>2, <3>6 DEF Clean, Safe
      <4> QED BY <1>2, <3>1, <3>4, <4>1, <4>2, <4>3 DEF Asked, Clean
    <3> QED BY <1>3, <3>5, <3>6
  <2> QED BY <2>3, <2>4 DEF LinkInv, Sync
<1> QED BY <1>5, <1>6

LEMMA LinkStep == ASSUME LinkInv, [Next]_retimer PROVE LinkInv'
<1>1. ASSUME RoleSettles \/ UNCHANGED retimer PROVE LinkInv'
  BY <1>1, LinkStutters DEF RoleSettles, retimer, ps, port
<1> QED BY <1>1, HwInitKeeps, PortKeeps, CallsRoleKeeps, CallsSwitchKeeps, CallsRetimerKeeps
        DEF Next

LEMMA LinkHolds == ASSUME LinkInv PROVE LinkMatches
<1>1. ASSUME bound, calls = <<>>, ~tainted
      PROVE Programmed(chip, side, use) /\ phy = [side |-> side, mode |-> use]
  <2>1. Known /\ orientation = side /\ mode = use /\ phy.mode = use
    BY <1>1 DEF LinkInv, Sync, Asked
  <2>2. Effective(side, use) = use
    BY DEF LinkInv, Port, Effective, Safe
  <2> QED BY <2>1, <2>2 DEF Known, LinkInv, RetimerTypes
<1> QED BY <1>1 DEF LinkMatches, Programmed

\* Between two events the registers of the redriver and the PHY are what the port's
\* side and mode want, for any number of events and failing writes, unless a call
\* failed since the chip was last safe with the orientation known.
THEOREM LinkMatchesAlways == Spec => []LinkMatches
<1>1. Init => LinkInv
  BY LinkStarts
<1>2. LinkInv /\ [Next]_retimer => LinkInv'
  BY LinkStep
<1>3. LinkInv => LinkMatches
  BY LinkHolds
<1> QED BY <1>1, <1>2, <1>3, PTL DEF Spec

\* Whatever failed before, the PHY enters a mode only with the redriver in it or
\* with the orientation unknown.
THEOREM RedriverAlwaysFirst == Spec => RedriverFirst
<1> DEFINE First == phy'.mode # phy.mode => chip'.mode = phy'.mode \/ orientation = "none"
<1>1. Init => LinkInv
  BY LinkStarts
<1>2. LinkInv /\ [Next]_retimer => LinkInv'
  BY LinkStep
<1>3. ASSUME LinkInv, [Next]_retimer, phy'.mode # phy.mode, orientation # "none"
      PROVE chip'.mode = phy'.mode
  <2>1. CASE CallsSwitch
    <3>1. PICK o, ok : SwitchSet(o, ok)
      BY <2>1 DEF CallsSwitch
    <3> QED BY <1>3, <3>1 DEF SwitchSet, LinkInv, RetimerTypes
  <2>2. CASE CallsRetimer
    <3>1. PICK ok \in BOOLEAN :
            Makes(ok) /\ Head(calls).what = "mode" /\ RetimerSet(Head(calls).value, ok)
      BY <2>2 DEF CallsRetimer
    <3> DEFINE m == Head(calls).value
    <3>2. m \in Modes
      <4>1. calls # <<>> /\ Queue /\ use \in Modes
        BY <1>3, <3>1 DEF Makes, LinkInv, RetimerTypes
      <4>2. m \in {"safe", use}
        BY <3>1, <4>1, Popped DEF Call
      <4> QED BY <4>1, <4>2 DEF Modes
    <3> HIDE DEF m
    <3>3. phy' = [phy EXCEPT !.mode = m] /\ Programs(orientation, m, TRUE)
      BY <1>3, <3>1 DEF RetimerSet, m
    <3>4. phy'.mode = m
      BY <1>3, <3>3 DEF LinkInv, RetimerTypes
    <3> QED BY <1>3, <3>2, <3>3, <3>4, ProgramsMode DEF LinkInv, RetimerTypes
  <2>3. ASSUME \/ HwInit \/ Attach \/ Detach \/ DataSwap \/ Enter \/ Leave
               \/ CallsRole \/ RoleSettles \/ UNCHANGED retimer
        PROVE phy' = phy
    BY <2>3 DEF HwInit, Attach, Detach, DataSwap, Enter, Leave, Asks, CallsRole, RoleSettles,
               retimer
  <2> QED BY <1>3, <2>1, <2>2, <2>3 DEF Next
<1>4. LinkInv /\ [Next]_retimer => First
  BY <1>3
<1> QED BY <1>1, <1>2, <1>4, PTL DEF Spec, RedriverFirst

--------------------------------------------------------------------------------
(* PD messages.                                                             *)

\* The end of a transmission is not among these latches.
NoEnd(s) == s \cap Ends = {}
Nowhere == wire = Idle /\ NoEnd(latches) /\ NoEnd(intr)
\* The lock keeps the thread out of pd_transmit().
Apart == /\ lock # "irq" => intr = {}
         /\ call \in {"header", "payload", "request"} => lock = "transmit"

\* What pd_transmit() has written when it goes on to the next transfer.
Told ==
  /\ call = "payload" => regs.header = asked /\ asked \notin Controls
  /\ call = "request" => /\ regs.header = asked
                         /\ asked \in Controls \/ regs.payload = asked
\* Unless some end was lost or may come too late.
OneEnd ==
  /\ call # "waiting" => Nowhere
  /\ call \notin {"waiting", "over"} => completion = "none"
  /\ call = "waiting" =>
       /\ wire # Idle => wire = Whole(asked) /\ NoEnd(latches) /\ NoEnd(intr)
       /\ ~NoEnd(latches) => NoEnd(intr)
       /\ completion # "none" => Nowhere
       /\ "done" \in latches \/ "done" \in intr \/ completion = "done" => sent = Whole(asked)
Judged ==
  /\ call # "over" => verdict.message < asked
  /\ verdict.message <= asked
  /\ call = "over" /\ verdict.status = "done" /\ verdict.message = asked => sent = Whole(asked)
SendTypes ==
  /\ asked \in Nat /\ regs \in [header : Nat, payload : Nat]
  /\ verdict \in [message : Nat, status : {"none", "done", "discard", "error"}]
  /\ completion \in {"none", "done", "discard", "error"}
SendInv == SendTypes /\ Apart /\ Told /\ (~stale => OneEnd) /\ (~stale => Judged)

\* A message still to be read is the last one the chip took.
Pending == "rx" \in latches \/ "rx" \in intr
Seen(s) == {s[i] : i \in DOMAIN s}
Rising(s) == \A i \in 1..Len(s) - 1 : s[i] < s[i + 1]
Window ==
  /\ accepted \in Nat /\ window \in {None, accepted}
  /\ "ack" \notin latches /\ ~("rx" \in latches /\ "rx" \in intr)
  /\ Pending \/ "ack" \in intr => window = accepted /\ accepted # None
  /\ "ack" \in intr => ~Pending
Passed ==
  /\ handed \in Seq(Nat) /\ Rising(handed) /\ Seen(handed) \cap spoiled = {}
  /\ Seen(handed) \cup spoiled = 1..(IF Pending THEN accepted - 1 ELSE accepted)
HandInv == Apart /\ Window /\ Passed

--------------------------------------------------------------------------------
(* The way out.                                                             *)

LEMMA SendStarts == ASSUME TransportInit PROVE SendInv
BY TransportAssumption DEF TransportInit, SendInv, SendTypes, Apart, Told, OneEnd, Judged,
     Nowhere, NoEnd, Idle, Whole,
   None

LEMMA SendKept == ASSUME SendInv, TransportNext PROVE SendInv'
<1> USE DEF SendInv
<1>1. CASE TcpmTransmits
  BY <1>1 DEF TcpmTransmits, SendTypes, Apart, Told, OneEnd, Judged, Nowhere, NoEnd, Idle,
       txchip
<1>2. CASE Locks
  BY <1>2 DEF Locks, SendTypes, Apart, Told, OneEnd, Judged, Nowhere, NoEnd, Idle, txchip
<1>3. CASE WritesHeader
  BY <1>3 DEF WritesHeader, Breaks, SendTypes, Apart, Told, OneEnd, Judged, Nowhere, NoEnd,
       Idle
<1>4. CASE WritesPayload
  BY <1>4 DEF WritesPayload, Breaks, SendTypes, Apart, Told, OneEnd, Judged, Nowhere,
       NoEnd, Idle
<1>5. CASE Requests
  <2>1. Loaded = Whole(asked)
    BY <1>5 DEF Requests, Loaded, Whole, Told, SendTypes
  <2>2. /\ call = "request" /\ UNCHANGED <<asked, completion, verdict, intr, regs, sent, latches>>
        /\ \/ wire' = Whole(asked) /\ call' = "waiting" /\ lock' = "free" /\ stale' = stale
           \/ call' = "over" /\ lock' = "free" /\ stale' = TRUE
           \/ call' = "over" /\ lock' = "free" /\ stale' = stale /\ wire' = wire
    BY <1>5, <2>1 DEF Requests, Breaks
  <2>3. SendTypes' /\ Apart' /\ Told'
    BY <2>2 DEF SendTypes, Apart, Told
  <2>4. ~stale' => OneEnd' /\ Judged'
    <3> SUFFICES ASSUME ~stale' PROVE OneEnd' /\ Judged'
      OBVIOUS
    <3>1. ~stale /\ OneEnd /\ Judged /\ verdict.message \in Nat /\ asked \in Nat
      BY <2>2 DEF SendTypes
    <3>2. Nowhere /\ completion = "none" /\ verdict.message < asked
      BY <2>2, <3>1 DEF OneEnd, Judged
    <3>3. OneEnd'
      BY <2>2, <3>2 DEF OneEnd, Nowhere, NoEnd, Ends
    <3>4. Judged'
      BY <2>2, <3>1, <3>2 DEF Judged
    <3> QED BY <3>3, <3>4
  <2> QED BY <2>3, <2>4
<1>6. CASE SendsHardReset
  <2>1. /\ call = "header" /\ UNCHANGED <<asked, completion, verdict, intr, regs, sent, latches>>
        /\ \/ wire' = Whole(asked) /\ call' = "waiting" /\ lock' = "free" /\ stale' = stale
           \/ call' = "over" /\ lock' = "free" /\ stale' = TRUE
           \/ call' = "over" /\ lock' = "free" /\ stale' = stale /\ wire' = wire
    BY <1>6 DEF SendsHardReset, Breaks
  <2>2. SendTypes' /\ Apart' /\ Told'
    BY <2>1 DEF SendTypes, Apart, Told
  <2>3. ~stale' => OneEnd' /\ Judged'
    <3> SUFFICES ASSUME ~stale' PROVE OneEnd' /\ Judged'
      OBVIOUS
    <3>1. ~stale /\ OneEnd /\ Judged /\ verdict.message \in Nat /\ asked \in Nat
      BY <2>1 DEF SendTypes
    <3>2. Nowhere /\ completion = "none" /\ verdict.message < asked
      BY <2>1, <3>1 DEF OneEnd, Judged
    <3>3. OneEnd'
      BY <2>1, <3>2 DEF OneEnd, Nowhere, NoEnd, Ends
    <3>4. Judged'
      BY <2>1, <3>1, <3>2 DEF Judged
    <3> QED BY <3>3, <3>4
  <2> QED BY <2>2, <2>3
<1>7. CASE TcpmTakes
  BY <1>7 DEF TcpmTakes, txchip, SendTypes, Apart, Told, OneEnd, Judged, Nowhere, NoEnd, Idle
<1>8. CASE TcpmTimesOut
  BY <1>8 DEF TcpmTimesOut, txchip, SendTypes, Apart, Told
<1>9. CASE WireEnds
  BY <1>9 DEF WireEnds, tcpm, SendTypes, Apart, Told, OneEnd, Judged, Nowhere, NoEnd, Ends
<1>10. CASE PartnerSends
  BY <1>10 DEF PartnerSends, tcpm, txchip, SendTypes, Apart, Told, OneEnd, Judged, Nowhere,
       NoEnd, Ends
<1>11. CASE PartnerHardResets
  BY <1>11 DEF PartnerHardResets, tcpm, SendTypes, Apart, Told, OneEnd, Judged, Nowhere,
       NoEnd, Ends
<1>12. CASE IrqReads
  <2>1. /\ lock = "free" /\ UNCHANGED <<asked, call, completion, verdict, regs, wire, sent>>
        /\ \/ lock' = "irq" /\ intr' = latches /\ latches' = {} /\ stale' = stale
           \/ UNCHANGED <<lock, intr, latches, stale>>
           \/ /\ UNCHANGED <<lock, intr>> /\ latches' = {}
              /\ stale' = (stale \/ latches \cap Ends # {})
    BY <1>12 DEF IrqReads, tcpm, txchip
  <2>2. SendTypes' /\ Apart' /\ Told'
    BY <2>1 DEF SendTypes, Apart, Told
  <2>3. intr = {}
    BY <2>1 DEF Apart
  <2>4. CASE lock' = "irq" /\ intr' = latches /\ latches' = {} /\ stale' = stale
    BY <2>1, <2>2, <2>3, <2>4 DEF OneEnd, Judged, Nowhere, NoEnd
  <2>5. CASE UNCHANGED <<lock, intr, latches, stale>>
    BY <2>1, <2>2, <2>5 DEF OneEnd, Judged, Nowhere, NoEnd
  <2>6. CASE UNCHANGED <<lock, intr>> /\ latches' = {} /\ stale' = (stale \/ latches \cap Ends # {})
    BY <2>1, <2>2, <2>6 DEF OneEnd, Judged, Nowhere, NoEnd, Ends
  <2> QED BY <2>1, <2>4, <2>5, <2>6
<1>13. CASE IrqReceives
  BY <1>13 DEF IrqReceives, txchip, SendTypes, Apart, Told, OneEnd, Judged, Nowhere, NoEnd,
       Ends
<1>14. CASE IrqAcknowledges
  BY <1>14 DEF IrqAcknowledges, tcpm, txchip, SendTypes, Apart, Told, OneEnd, Judged,
       Nowhere, NoEnd, Ends
<1>15. CASE IrqCompletes
  BY <1>15 DEF IrqCompletes, txchip, SendTypes, Apart, Told, OneEnd, Judged, Nowhere,
       NoEnd, Ends
<1>16. CASE Prepare \/ Complete
  BY <1>16 DEF Prepare, Complete, tcpm, txchip, SendTypes, Apart, Told, OneEnd, Judged,
       Nowhere
<1> QED
  BY <1>1, <1>2, <1>3, <1>4, <1>5, <1>6, <1>7, <1>8, <1>9, <1>10, <1>11, <1>12, <1>13, <1>14,
       <1>15,
     <1>16 DEF TransportNext, Transmit, Irq

\* A transmission TCPM takes for done went out as it was asked for, however many
\* transfers fail, unless the end of one was lost or came too late.
THEOREM SentAlways == TransportSpec => []SentAsAsked
<1>1. SendInv => SentAsAsked
  BY DEF SendInv, Judged, SentAsAsked
<1>2. SendInv /\ UNCHANGED transport => SendInv'
  BY DEF SendInv, SendTypes, Apart, Told, OneEnd, Judged, Nowhere, NoEnd, Idle, transport,
       tcpm, txchip
<1> QED BY <1>1, <1>2, SendStarts, SendKept, PTL DEF TransportSpec

--------------------------------------------------------------------------------
(* The way in.                                                              *)

\* A message behind all those handed on keeps them in order.
LEMMA HandedOn ==
  ASSUME NEW s \in Seq(Nat), NEW k \in Nat, Rising(s), \A i \in DOMAIN s : s[i] < k
  PROVE  /\ Append(s, k) \in Seq(Nat) /\ Rising(Append(s, k))
         /\ Seen(Append(s, k)) = Seen(s) \cup {k}
<1> DEFINE t == Append(s, k)
<1>1. /\ t \in Seq(Nat) /\ Len(s) \in Nat /\ Len(t) = Len(s) + 1 /\ DOMAIN s = 1..Len(s)
      /\ DOMAIN t = 1..Len(s) + 1 /\ t[Len(s) + 1] = k /\ \A i \in 1..Len(s) : t[i] = s[i]
  OBVIOUS
<1> HIDE DEF t
<1>2. Rising(t)
  <2> SUFFICES ASSUME NEW i \in 1..Len(t) - 1 PROVE t[i] < t[i + 1]
    BY DEF Rising
  <2>1. i \in 1..Len(s) /\ t[i] = s[i]
    BY <1>1
  <2>2. CASE i = Len(s)
    BY <1>1, <2>1, <2>2
  <2>3. CASE i # Len(s)
    <3>1. i \in 1..Len(s) - 1 /\ i + 1 \in 1..Len(s)
      <4>1. Len(s) \in Nat
        BY <1>1
      <4> QED BY <2>1, <2>3, <4>1
    <3>2. s[i] < s[i + 1] /\ t[i + 1] = s[i + 1]
      BY <1>1, <3>1 DEF Rising
    <3> QED BY <2>1, <3>2
  <2> QED BY <2>2, <2>3
<1>3. Seen(t) = Seen(s) \cup {k}
  <2>1. ASSUME NEW x \in Seen(t) PROVE x \in Seen(s) \cup {k}
    BY <1>1 DEF Seen
  <2>2. ASSUME NEW x \in Seen(s) PROVE x \in Seen(t)
    BY <1>1 DEF Seen
  <2>3. k \in Seen(t)
    BY <1>1 DEF Seen
  <2> QED BY <2>1, <2>2, <2>3
<1> QED BY <1>1, <1>2, <1>3 DEF t

LEMMA HandStarts == ASSUME TransportInit PROVE HandInv
BY DEF TransportInit, HandInv, Apart, Window, Passed, Pending, Seen, Rising, None

LEMMA HandKept == ASSUME HandInv, TransportNext PROVE HandInv'
<1> USE DEF HandInv
<1>1. CASE TcpmTransmits \/ TcpmTakes \/ TcpmTimesOut \/ Prepare \/ Complete
  BY <1>1 DEF TcpmTransmits, TcpmTakes, TcpmTimesOut, Prepare, Complete, rxchip, tcpm, Apart,
       Window, Passed, Pending
<1>2. CASE Transmit
  BY <1>2 DEF Transmit, Locks, WritesHeader, WritesPayload, Requests, SendsHardReset, Breaks,
       rxchip, Apart, Window, Passed, Pending
<1>3. CASE WireEnds \/ PartnerHardResets
  <2>1. ("rx" \in latches' <=> "rx" \in latches) /\ ("ack" \in latches' <=> "ack" \in latches)
    BY <1>3 DEF WireEnds, PartnerHardResets
  <2>2. UNCHANGED <<handed, lock, intr, rxchip>>
    BY <1>3 DEF WireEnds, PartnerHardResets, tcpm
  <2>3. Apart'
    BY <1>3, <2>2 DEF Apart, WireEnds, PartnerHardResets, tcpm
  <2>4. Window' /\ Passed'
    BY <2>1, <2>2 DEF rxchip, Window, Passed, Pending
  <2> QED BY <2>3, <2>4
<1>4. CASE PartnerSends
  BY <1>4 DEF PartnerSends, tcpm, Apart, Window, Passed, Pending, None
<1>5. CASE IrqReads
  BY <1>5 DEF IrqReads, tcpm, Apart, Window, Passed, Pending, None
<1>6. CASE IrqReceives
  <2>1. /\ lock = "irq" /\ "rx" \in intr /\ Pending /\ "ack" \notin intr
        /\ "rx" \notin latches /\ window = accepted /\ accepted \in Nat /\ accepted # 0
        /\ UNCHANGED <<lock, call, latches, window, accepted>>
    BY <1>6 DEF IrqReceives, Pending, Window, None
  <2>2. \/ /\ handed' = Append(handed, accepted) /\ spoiled' = spoiled
           /\ intr' = (intr \ {"rx"}) \cup {"ack"}
        \/ /\ handed' = handed /\ spoiled' = spoiled \cup {accepted}
           /\ intr' = intr \ {"rx"} \/ intr' = (intr \ {"rx"}) \cup {"ack"}
    BY <1>6, <2>1 DEF IrqReceives
  <2>3. Apart' /\ Window' /\ ~Pending'
    BY <2>1, <2>2 DEF Apart, Window, Pending, None
  <2>4. Passed /\ Seen(handed) \cup spoiled = 1..accepted - 1
    BY <2>1 DEF Passed
  <2>5. /\ (Seen(handed) \cup spoiled) \cup {accepted} = 1..accepted
        /\ accepted \notin Seen(handed) \cup spoiled
    BY <2>1, <2>4
  <2>6. CASE handed' = Append(handed, accepted) /\ spoiled' = spoiled
    <3>1. \A i \in DOMAIN handed : handed[i] < accepted
      BY <2>1, <2>4 DEF Seen
    <3>2. /\ handed' \in Seq(Nat) /\ Rising(handed') /\ Seen(handed') = Seen(handed) \cup {accepted}
      BY <2>1, <2>4, <2>6, <3>1, HandedOn DEF Passed
    <3> QED BY <2>1, <2>3, <2>4, <2>5, <2>6, <3>2 DEF Passed
  <2>7. CASE handed' = handed /\ spoiled' = spoiled \cup {accepted}
    BY <2>1, <2>3, <2>4, <2>5, <2>7 DEF Passed
  <2> QED BY <2>2, <2>3, <2>6, <2>7
<1>7. CASE IrqAcknowledges
  BY <1>7 DEF IrqAcknowledges, tcpm, Apart, Window, Passed, Pending, None
<1>8. CASE IrqCompletes
  BY <1>8 DEF IrqCompletes, rxchip, Apart, Window, Passed, Pending, None
<1> QED
  BY <1>1, <1>2, <1>3, <1>4, <1>5, <1>6, <1>7, <1>8 DEF TransportNext, Irq

\* Every message the chip took is handed on once and in order, those a failed
\* transfer spoiled excepted, however many there are.
THEOREM HandedAlways == TransportSpec => []HandedOnce
<1>1. HandInv => HandedOnce
  BY DEF HandInv, Apart, Passed, Pending, Rising, Seen, HandedOnce
<1>2. HandInv /\ UNCHANGED transport => HandInv'
  BY DEF HandInv, Apart, Window, Passed, Pending, transport, tcpm, rxchip
<1> QED BY <1>1, <1>2, HandStarts, HandKept, PTL DEF TransportSpec
================================================================================
