------------------------------ MODULE CameraProofs ------------------------------
(***************************************************************************)
(* The camera module's supplies, its registers and the lens on the same     *)
(* rail, for every number of failures, exposure and focus position.         *)
(***************************************************************************)
EXTENDS CameraLens, TLAPS

Controls == [vblank : Int, exposure : Int, max : Int, next : Int,
             refused : SUBSET {"exposure", "frame"}]
Types ==
  /\ variant \in {"rear", "front"} /\ rail \in [Users -> Int] /\ clk \in Int
  /\ probe \in {"unbound", "powered", "identified", "registered", "bound"}
  /\ stream \in {"idle", "powered"} /\ streaming \in BOOLEAN /\ early \in BOOLEAN
  /\ faults \in Nat
  /\ ctl \in Controls
  /\ chip \in [state : {"off", "standby", "live"}, frame : Int, exposure : Int]

\* While no stream has run into the end of probe, the books balance, and probe
\* has the module to itself until it ends.
Books == ~early =>
  /\ rail["sensor"] = clk /\ clk = (IF InUse THEN 1 ELSE 0)
  /\ lines = desc /\ desc = (IF InUse THEN Lines ELSE {})
  /\ probe # "bound" => stream = "idle" /\ ~streaming

\* One that has cannot start: a line is requested and its descriptor forgotten,
\* so that no power-off gives it back and every power-on finds it busy.
Stuck == early => /\ \E line \in lines : line \notin desc
                  /\ stream = "idle" /\ ~streaming

Streams == stream = "powered" => ~streaming /\ ctl.next = NoChange

\* The ceiling of the exposure is that of the blanking under way, or of the one in
\* force unless its frame was refused; the exposure keeps below it unless its own
\* write was refused; and with neither refused it fits the frame in force as well.
Ranges ==
  /\ ctl.vblank \in VblankMin..VblankMax
  /\ ctl.next \in VblankMin..VblankMax \union {NoChange}
  /\ ctl.max >= ExposureMin
  /\ ctl.next # NoChange => ctl.max = Ceiling(ctl.next)
  /\ ctl.next = NoChange /\ "frame" \notin ctl.refused => ctl.max = Ceiling(ctl.vblank)
  /\ "exposure" \notin ctl.refused => ExposureMin <= ctl.exposure /\ ctl.exposure <= ctl.max
  /\ ctl.refused = {} => ctl.exposure <= Ceiling(ctl.vblank)

SensorInv == Types /\ Books /\ Stuck /\ Streams /\ Ranges /\ RegistersFollow

LensInv ==
  /\ rail["lens"] \in 0..1 /\ inited \in BOOLEAN /\ broken \in BOOLEAN /\ cycled \in BOOLEAN
  /\ vcm \in [ready : BOOLEAN, at : Int] /\ position \in Int
  /\ pm = "suspended" => rail["lens"] = 0 /\ ~inited
  /\ cycled => inited
  /\ pm = "resuming" => rail["lens"] = 1 /\ ~broken
  /\ broken => rail["lens"] = 0
  /\ pm = "parking" => ~broken
  /\ focusing # "idle" => opened /\ pm = "active"

--------------------------------------------------------------------------------
(* Numbers.                                                                 *)

\* What the formulas of the ranges come to for a mode's height and frame length.
LEMMA RangeNumbers ==
  ASSUME NEW height \in Int, NEW frame \in Int,
         height >= 1524, height <= 3096, frame - height >= 97, frame - height <= 168
  PROVE  /\ height \in 1524..3096 /\ frame \in Nat
         /\ frame - height \in 97..168 /\ 32767 - height \in 29671..31243
         /\ height + (frame - height) - 4 = frame - 4
         /\ frame - 4 \in 1617..3260 /\ frame - 4 \in Int /\ frame - 4 >= 4
<1>1. height \in 1524..3096 /\ frame \in Nat
  OBVIOUS
<1>2. frame - height \in 97..168
  OBVIOUS
<1>3. 32767 - height \in 29671..31243
  OBVIOUS
<1>4. height + (frame - height) - 4 = frame - 4
  OBVIOUS
<1>5. frame - 4 \in 1617..3260 /\ frame - 4 \in Int /\ frame - 4 >= 4
  OBVIOUS
<1> QED BY <1>1, <1>2, <1>3, <1>4, <1>5

LEMMA RearSizes == ASSUME variant = "rear" PROVE Height = 3096 /\ FrameLength = 3264
BY DEF Height, FrameLength, Mode

LEMMA FrontSizes == ASSUME variant = "front" PROVE Height = 1524 /\ FrameLength = 1621
BY DEF Height, FrameLength, Mode

\* The sizes of the modes, in the form RangeNumbers takes them.
LEMMA ModeSizes ==
  ASSUME variant \in {"rear", "front"}
  PROVE  /\ Height \in Int /\ FrameLength \in Int /\ Height >= 1524 /\ Height <= 3096
         /\ FrameLength - Height >= 97 /\ FrameLength - Height <= 168
<1>1. \/ Height = 3096 /\ FrameLength = 3264
      \/ Height = 1524 /\ FrameLength = 1621
  BY RearSizes, FrontSizes
<1>2. ASSUME NEW height, NEW frame,
             \/ height = 3096 /\ frame = 3264
             \/ height = 1524 /\ frame = 1621
      PROVE  /\ height \in Int /\ frame \in Int /\ height >= 1524 /\ height <= 3096
             /\ frame - height >= 97 /\ frame - height <= 168
  BY <1>2
<1> QED BY <1>1, <1>2

\* The modes of both sensors leave room for an exposure.
LEMMA ModeNumbers ==
  ASSUME variant \in {"rear", "front"}
  PROVE  /\ Height \in 1524..3096 /\ FrameLength \in Nat
         /\ VblankMin \in 97..168 /\ VblankMax \in 29671..31243
         /\ Ceiling(VblankMin) = FrameLength - Margin
         /\ FrameLength - Margin \in 1617..3260
         /\ Height \in Int /\ FrameLength - Margin \in Int /\ FrameLength - Margin >= ExposureMin
         /\ NoChange = -1 /\ ExposureMin = 4 /\ Margin = 4
<1>1. Margin = 4 /\ ExposureMin = 4 /\ NoChange = -1
  BY DEF Margin, ExposureMin, NoChange
<1>2. /\ VblankMin = FrameLength - Height /\ VblankMax = 32767 - Height
      /\ Ceiling(VblankMin) = Height + (FrameLength - Height) - 4
  BY <1>1 DEF VblankMin, VblankMax, Ceiling
<1>3. /\ Height \in Int /\ FrameLength \in Int /\ Height >= 1524 /\ Height <= 3096
      /\ FrameLength - Height >= 97 /\ FrameLength - Height <= 168
  BY ModeSizes
<1>4. Height \in 1524..3096 /\ FrameLength \in Nat
  BY <1>3, RangeNumbers
<1>5. VblankMin \in 97..168 /\ VblankMax \in 29671..31243
  BY <1>2, <1>3, RangeNumbers
<1>6. Ceiling(VblankMin) = FrameLength - Margin
  BY <1>1, <1>2, <1>3, RangeNumbers
<1>7. /\ FrameLength - Margin \in 1617..3260 /\ FrameLength - Margin \in Int
      /\ FrameLength - Margin >= ExposureMin
  BY <1>1, <1>3, RangeNumbers
<1> QED BY <1>1, <1>3, <1>4, <1>5, <1>6, <1>7

\* The same from the types, with those of the controls.
LEMMA ModeIntegers ==
  ASSUME Types
  PROVE  /\ Height \in Int /\ Height \in 1524..3096 /\ FrameLength - Margin \in Int
         /\ FrameLength - Margin >= ExposureMin /\ Ceiling(VblankMin) = FrameLength - Margin
         /\ VblankMin \in 97..168 /\ VblankMax \in 29671..31243
         /\ NoChange = -1 /\ ExposureMin = 4 /\ Margin = 4
         /\ ctl.vblank \in Int /\ ctl.exposure \in Int /\ ctl.max \in Int /\ ctl.next \in Int
<1>1. variant \in {"rear", "front"}
  BY DEF Types
<1>2. /\ Height \in Int /\ Height \in 1524..3096 /\ FrameLength - Margin \in Int
      /\ FrameLength - Margin >= ExposureMin
      /\ Ceiling(VblankMin) = FrameLength - Margin
      /\ VblankMin \in 97..168 /\ VblankMax \in 29671..31243
      /\ NoChange = -1 /\ ExposureMin = 4 /\ Margin = 4
  BY <1>1, ModeNumbers
<1>3. ctl.vblank \in Int /\ ctl.exposure \in Int /\ ctl.max \in Int /\ ctl.next \in Int
  BY DEF Types, Controls
<1> QED BY <1>2, <1>3

LEMMA BlankNumbers ==
  ASSUME variant \in {"rear", "front"}
  PROVE  VblankMin \in Int /\ VblankMax \in Int /\ VblankMin \in VblankMin..VblankMax
<1>1. VblankMin \in 97..168 /\ VblankMax \in 29671..31243
  BY ModeNumbers
<1> QED BY <1>1

\* Clipping ends inside the range.
LEMMA ClipRange ==
  ASSUME NEW v \in Int, NEW low \in Int, NEW high \in Int, low <= high
  PROVE  /\ Clip(v, low, high) \in low..high
         /\ v >= low => Clip(v, low, high) <= v
BY DEF Clip

\* A step that leaves the controls alone leaves their ranges alone.
LEMMA SameControls ==
  ASSUME Ranges, variant' = variant, ctl' = ctl
  PROVE  Ranges'
<1>1. /\ VblankMin' = VblankMin /\ VblankMax' = VblankMax
      /\ \A v : Ceiling(v)' = Ceiling(v)
  BY DEF VblankMin, VblankMax, Ceiling, FrameLength, Height
<1> QED BY <1>1 DEF Ranges, ExposureMin, NoChange

\* Registers that follow their controls keep the exposure inside the frame.
LEMMA Fits ==
  ASSUME Types', Ranges', streaming' = (chip'.state = "live"),
         chip'.state = "live" =>
           /\ "exposure" \notin ctl'.refused => chip'.exposure = ctl'.exposure
           /\ "frame" \notin ctl'.refused => chip'.frame = Height' + ctl'.vblank
  PROVE  RegistersFollow'
<1>1. variant' \in {"rear", "front"}
  BY DEF Types
<1>2. Height' \in Int
  <2>1. ASSUME NEW v \in {"rear", "front"} PROVE Mode[v].height \in Int
    BY DEF Mode
  <2> QED BY <1>1, <2>1 DEF Height
<1>3. ctl'.vblank \in Int /\ ctl'.exposure \in Int
  BY DEF Types, Controls
<1>4. ctl'.refused = {} /\ chip'.state = "live" => chip'.exposure <= chip'.frame - 4
  <2> SUFFICES ASSUME ctl'.refused = {}, chip'.state = "live"
               PROVE  chip'.exposure <= chip'.frame - 4
    OBVIOUS
  <2>1. ctl'.exposure <= Height' + ctl'.vblank - 4
    BY DEF Ranges, Ceiling, Margin
  <2>2. chip'.exposure = ctl'.exposure /\ chip'.frame = Height' + ctl'.vblank
    OBVIOUS
  <2> QED BY <1>2, <1>3, <2>1, <2>2
<1> QED BY <1>4 DEF RegistersFollow, Margin

\* Outside of a stream the registers have nothing to follow.
LEMMA Dark == ASSUME ~streaming', streaming' \in BOOLEAN, chip'.state # "live" PROVE RegistersFollow'
BY DEF RegistersFollow

--------------------------------------------------------------------------------
(* Power.                                                                   *)

LEMMA OffChip == /\ ChipOff \in [state : {"off", "standby", "live"}, frame : Int, exposure : Int]
                 /\ ChipOff.state = "off"
BY DEF ChipOff

LEMMA PowerOnResult ==
  ASSUME Types, PowerOn
  PROVE  /\ rail' \in [Users -> Int] /\ rail'["sensor"] = rail["sensor"] + 1
         /\ rail'["lens"] = rail["lens"] /\ clk' = clk + 1
         /\ lines = {} /\ lines' = Lines /\ desc' = Lines /\ faults' = faults
         /\ chip' \in [state : {"off", "standby", "live"}, frame : Int, exposure : Int]
         /\ chip'.state = "standby"
<1>1. rail' = [rail EXCEPT !["sensor"] = @ + 1] /\ chip' = [ChipOff EXCEPT !.state = "standby"]
  BY DEF PowerOn
<1>2. /\ rail' \in [Users -> Int] /\ rail'["sensor"] = rail["sensor"] + 1
      /\ rail'["lens"] = rail["lens"]
  BY <1>1 DEF Types, Users
<1>3. /\ chip' \in [state : {"off", "standby", "live"}, frame : Int, exposure : Int]
      /\ chip'.state = "standby"
  BY <1>1, OffChip
<1> QED BY <1>2, <1>3 DEF PowerOn

LEMMA PowerOnFailsResult ==
  ASSUME Types, PowerOnFails
  PROVE  /\ UNCHANGED <<rail, clk, lines, chip>> /\ faults' \in {faults, faults + 1}
         /\ \/ lines = {} /\ desc' = desc
            \/ lines # {} /\ desc' = IF "enable" \in lines THEN desc \ {"enable"} ELSE {}
BY DEF PowerOnFails, Fault, Types

LEMMA PowerOffResult ==
  ASSUME Types, PowerOff
  PROVE  /\ rail' \in [Users -> Int] /\ clk' \in Int /\ rail'["lens"] = rail["lens"]
         /\ chip' \in [state : {"off", "standby", "live"}, frame : Int, exposure : Int]
         /\ chip'.state \in {chip.state, "off"}
         /\ lines' \in {lines, lines \ desc} /\ desc' \in {desc, {}}
         /\ "reset" \in desc => /\ rail'["sensor"] = rail["sensor"] - 1 /\ clk' = clk - 1
                                /\ lines' = lines \ desc /\ desc' = {} /\ chip'.state = "off"
<1>1. CASE "reset" \notin desc
  BY <1>1 DEF PowerOff, power, Types
<1>2. CASE "reset" \in desc
  <2>1. rail' = [rail EXCEPT !["sensor"] = @ - 1] /\ chip' = ChipOff
    BY <1>2 DEF PowerOff
  <2>2. /\ rail' \in [Users -> Int] /\ rail'["sensor"] = rail["sensor"] - 1
        /\ rail'["lens"] = rail["lens"]
    BY <2>1 DEF Types, Users
  <2> QED BY <1>2, <2>1, <2>2, OffChip DEF PowerOff, Types
<1> QED BY <1>1, <1>2

\* The module in use has its reset line, and off it has none to give back.
LEMMA HasReset == Lines # {} /\ "reset" \in Lines /\ Lines \subseteq {"enable", "reset"}
BY DEF Lines

\* A stuck line stays stuck, whatever the power functions do.
LEMMA StuckStays ==
  ASSUME \E line \in lines : line \notin desc,
         lines' \in {lines, lines \ desc}, desc' \subseteq desc
  PROVE  \E line \in lines' : line \notin desc'
OBVIOUS
LEMMA StuckPower ==
  ASSUME Types, \E line \in lines : line \notin desc, PowerOnFails \/ PowerOff
  PROVE  \E line \in lines' : line \notin desc'
<1>1. CASE PowerOnFails
  <2>1. lines' = lines /\ desc' \subseteq desc
    BY <1>1, PowerOnFailsResult
  <2> QED BY <2>1, StuckStays
<1>2. CASE PowerOff
  <2>1. lines' \in {lines, lines \ desc} /\ desc' \subseteq desc
    BY <1>2, PowerOffResult
  <2> QED BY <2>1, StuckStays
<1> QED BY <1>1, <1>2

--------------------------------------------------------------------------------
(* Probe and remove.                                                        *)

LEMMA InitSensor == Init => SensorInv
<1> SUFFICES ASSUME Init PROVE SensorInv
  OBVIOUS
<1>1. /\ variant \in {"rear", "front"} /\ faults = 0 /\ clk = 0 /\ early = FALSE
      /\ rail = [user \in {"sensor", "lens"} |-> 0] /\ lines = {} /\ desc = {}
      /\ probe = "unbound" /\ stream = "idle" /\ streaming = FALSE
      /\ ctl = FreshCtl /\ chip = ChipOff
  BY DEF Init, SensorInit, Mode
<1>2. /\ ctl \in Controls
      /\ ctl.vblank = VblankMin /\ ctl.next = NoChange
      /\ ctl.max = FrameLength - Margin /\ ctl.exposure = FrameLength - Margin
      /\ ctl.refused = {}
  BY <1>1, ModeNumbers DEF FreshCtl, NoChange, Margin, Controls
<1>3. Types
  <2>1. /\ rail \in [Users -> Int]
    BY <1>1 DEF Users
  <2>2. chip \in [state : {"off", "standby", "live"}, frame : Int, exposure : Int]
    BY <1>1, OffChip
  <2>3. streaming \in BOOLEAN /\ early \in BOOLEAN
    BY <1>1, Zenon
  <2> QED BY <1>1, <1>2, <2>1, <2>2, <2>3 DEF Types
<1>4. Books /\ Stuck /\ Streams
  BY <1>1 DEF Books, Stuck, Streams, InUse
<1>5. Ranges
  <2>1. /\ ctl.vblank \in VblankMin..VblankMax
        /\ ctl.max = Ceiling(ctl.vblank) /\ ctl.exposure = Ceiling(ctl.vblank)
        /\ ctl.exposure >= ExposureMin /\ Ceiling(ctl.vblank) \in Int
    <3>0. variant \in {"rear", "front"}
      BY <1>1
    <3>1. VblankMin \in VblankMin..VblankMax
      BY <3>0, BlankNumbers
    <3>2. /\ FrameLength - Margin \in Int /\ FrameLength - Margin >= ExposureMin
          /\ Ceiling(VblankMin) = FrameLength - Margin
      BY <1>3, ModeIntegers
    <3> QED BY <1>1, <1>2, <3>1, <3>2
  <2> QED BY <1>2, <2>1 DEF Ranges
<1>6. RegistersFollow
  BY <1>1, OffChip DEF RegistersFollow
<1> QED BY <1>3, <1>4, <1>5, <1>6 DEF SensorInv

LEMMA ProbePowersKeeps == SensorInv /\ ProbePowers => SensorInv'
<1> SUFFICES ASSUME SensorInv, ProbePowers PROVE SensorInv'
  OBVIOUS
<1>1. /\ probe = "unbound" /\ stream = "idle" /\ Types
      /\ UNCHANGED <<variant, stream, streaming, ctl, early>>
  BY DEF ProbePowers, SensorInv
<1>2. ~streaming /\ chip.state # "live"
  BY <1>1 DEF SensorInv, Books, Stuck, RegistersFollow
<1>3. Lines' = Lines
  BY <1>1 DEF Lines
<1>4. CASE PowerOn /\ probe' = "powered"
  <2>1. /\ rail' \in [Users -> Int] /\ rail'["sensor"] = rail["sensor"] + 1 /\ clk' = clk + 1
        /\ lines = {} /\ lines' = Lines /\ desc' = Lines /\ faults' = faults
        /\ chip' \in [state : {"off", "standby", "live"}, frame : Int, exposure : Int]
        /\ chip'.state = "standby"
    BY <1>1, <1>4, PowerOnResult
  <2>2. Types'
    BY <1>1, <1>4, <2>1 DEF Types
  <2>3. ~early
    BY <2>1 DEF SensorInv, Stuck
  <2>4. Books' /\ Stuck' /\ Streams'
    BY <1>1, <1>2, <1>3, <1>4, <2>1, <2>3 DEF SensorInv, Books, Stuck, Streams, InUse
  <2>5. Ranges' /\ RegistersFollow'
    BY <1>1, <1>2, <2>1, SameControls, Dark DEF SensorInv, Types
  <2> QED BY <2>2, <2>4, <2>5 DEF SensorInv
<1>5. CASE PowerOnFails /\ probe' = "unbound"
  <2>1. /\ UNCHANGED <<rail, clk, lines, chip>> /\ faults' \in {faults, faults + 1}
        /\ lines = {} => desc' = desc
    BY <1>1, <1>5, PowerOnFailsResult
  <2>2. Types'
    BY <1>1, <1>5, <2>1 DEF Types
  <2>3. ~early => lines = {}
    BY <1>1, <1>2 DEF SensorInv, Books, InUse
  <2>4. Books' /\ Streams'
    BY <1>1, <1>2, <1>5, <2>1, <2>3 DEF SensorInv, Books, Streams, InUse
  <2>5. Stuck'
    BY <1>1, <1>2, <1>5, StuckPower DEF SensorInv, Stuck
  <2>6. Ranges' /\ RegistersFollow'
    BY <1>1, <1>2, <2>1, SameControls, Dark DEF SensorInv, Types
  <2> QED BY <2>2, <2>4, <2>5, <2>6 DEF SensorInv
<1> QED BY <1>4, <1>5 DEF ProbePowers

\* What follows a power-off outside of a stream: the module is not in use.
LEMMA PowerOffKeeps ==
  ASSUME SensorInv, PowerOff, Types', ~InUse', InUse \/ early, ~streaming', stream' = "idle",
         UNCHANGED <<variant, early>>, Ranges'
  PROVE  SensorInv'
<1>1. Types
  BY DEF SensorInv
<1>2. /\ chip'.state \in {chip.state, "off"}
      /\ "reset" \in desc => /\ rail'["sensor"] = rail["sensor"] - 1 /\ clk' = clk - 1
                             /\ lines' = lines \ desc /\ desc' = {} /\ chip'.state = "off"
  BY <1>1, PowerOffResult
<1>3. Books'
  <2>1. CASE early
    BY <2>1 DEF Books
  <2>2. CASE ~early
    <3>1. rail["sensor"] = clk /\ clk = 1 /\ lines = desc /\ desc = Lines
      BY <2>2 DEF SensorInv, Books
    <3> QED BY <1>2, <3>1, HasReset DEF Books
  <2> QED BY <2>1, <2>2
<1>4. Stuck'
  BY <1>1, StuckPower DEF SensorInv, Stuck
<1>5. chip'.state # "live"
  <2>1. CASE early
    BY <1>2, <2>1 DEF SensorInv, Stuck, RegistersFollow
  <2>2. CASE ~early
    BY <1>2, <2>2, HasReset DEF SensorInv, Books
  <2> QED BY <2>1, <2>2
<1>6. RegistersFollow' /\ Streams'
  BY <1>5, Dark DEF Types, Streams
<1> QED BY <1>3, <1>4, <1>6 DEF SensorInv

LEMMA ProbeIdentifiesKeeps == SensorInv /\ ProbeIdentifies => SensorInv'
<1> SUFFICES ASSUME SensorInv, ProbeIdentifies PROVE SensorInv'
  OBVIOUS
<1>1. /\ probe = "powered" /\ Types /\ UNCHANGED <<variant, stream, streaming, ctl, early>>
  BY DEF ProbeIdentifies, SensorInv
<1>2. stream = "idle" /\ ~streaming
  BY <1>1 DEF SensorInv, Books, Stuck
<1>3. CASE probe' = "identified" /\ UNCHANGED <<power, chip, faults>>
  <2>1. Lines' = Lines /\ InUse' = InUse
    BY <1>1, <1>3 DEF Lines, InUse
  <2>2. Types' /\ Books' /\ Stuck' /\ Streams' /\ RegistersFollow'
    BY <1>1, <1>2, <1>3, <2>1
       DEF SensorInv, power, Types, Books, Stuck, Streams, RegistersFollow
  <2> QED BY <1>1, <1>3, <2>2, SameControls DEF SensorInv
<1>4. CASE probe' = "unbound" /\ Fault /\ PowerOff
  <2>1. faults' = faults + 1 /\ faults' \in Nat
    BY <1>1, <1>4 DEF Fault, Types
  <2>2. Types'
    BY <1>1, <1>4, <2>1, PowerOffResult DEF Types
  <2>3. Ranges' /\ InUse /\ ~InUse'
    BY <1>1, <1>2, <1>4, <2>1, SameControls DEF SensorInv, InUse
  <2> QED BY <1>1, <1>2, <1>4, <2>2, <2>3, PowerOffKeeps
<1> QED BY <1>3, <1>4 DEF ProbeIdentifies

LEMMA ProbeRegistersKeeps == SensorInv /\ ProbeRegisters => SensorInv'
<1> SUFFICES ASSUME SensorInv, ProbeRegisters PROVE SensorInv'
  OBVIOUS
<1>1. /\ probe = "identified" /\ Types /\ UNCHANGED <<variant, stream, early>>
      /\ ctl' = FreshCtl /\ streaming' = FALSE
  BY DEF ProbeRegisters, SensorInv
<1>2. stream = "idle" /\ ~streaming
  BY <1>1 DEF SensorInv, Books, Stuck
<1>3. /\ ctl' \in Controls
      /\ ctl'.vblank = VblankMin /\ ctl'.next = NoChange
      /\ ctl'.max = FrameLength - Margin /\ ctl'.exposure = FrameLength - Margin
      /\ ctl'.refused = {}
  BY <1>1, ModeNumbers DEF FreshCtl, NoChange, Margin, Types, Controls
<1>4. Ranges'
  <2>1. /\ VblankMin' = VblankMin /\ VblankMax' = VblankMax
        /\ \A v : Ceiling(v)' = Ceiling(v)
    BY <1>1 DEF VblankMin, VblankMax, Ceiling, FrameLength, Height
  <2>2. FrameLength - Margin >= ExposureMin /\ Ceiling(VblankMin) = FrameLength - Margin
    BY <1>1, ModeIntegers
  <2>3. VblankMin \in VblankMin..VblankMax /\ FrameLength - Margin \in Int
    <3>1. VblankMin \in 97..168 /\ VblankMax \in 29671..31243 /\ FrameLength - Margin \in Int
      BY <1>1, ModeIntegers
    <3> QED BY <3>1
  <2>4. /\ ctl'.vblank \in VblankMin..VblankMax
        /\ ctl'.max = Ceiling(ctl'.vblank) /\ ctl'.exposure = Ceiling(ctl'.vblank)
        /\ ctl'.exposure >= ExposureMin /\ Ceiling(ctl'.vblank) \in Int
    BY <1>3, <2>2, <2>3
  <2> QED BY <1>1, <1>3, <2>4
         DEF Ranges, VblankMin, VblankMax, Ceiling, FrameLength, Height
<1>5. CASE probe' = "registered" /\ UNCHANGED <<power, chip, faults>>
  <2>1. Lines' = Lines /\ InUse' = InUse
    BY <1>1, <1>2, <1>5 DEF Lines, InUse, Types
  <2>2. Types' /\ Books' /\ Stuck' /\ Streams'
    BY <1>1, <1>2, <1>3, <1>5, <2>1 DEF SensorInv, power, Types, Books, Stuck, Streams
  <2>3. RegistersFollow'
    BY <1>1, <1>2, <1>5, Dark DEF SensorInv, RegistersFollow
  <2> QED BY <1>4, <2>2, <2>3 DEF SensorInv
<1>6. CASE probe' = "unbound" /\ Fault /\ PowerOff
  <2>1. faults' \in Nat
    BY <1>1, <1>6 DEF Fault, Types
  <2>2. Types'
    BY <1>1, <1>3, <1>6, <2>1, PowerOffResult DEF Types
  <2>3. InUse /\ ~InUse'
    BY <1>1, <1>2, <1>6 DEF InUse
  <2> QED BY <1>1, <1>2, <1>4, <1>6, <2>2, <2>3, PowerOffKeeps
<1> QED BY <1>5, <1>6 DEF ProbeRegisters

LEMMA ProbeEndsKeeps == SensorInv /\ ProbeEnds => SensorInv'
<1> SUFFICES ASSUME SensorInv, ProbeEnds PROVE SensorInv'
  OBVIOUS
<1>1. /\ probe = "registered" /\ probe' = "bound" /\ Types /\ PowerOff
      /\ UNCHANGED <<variant, stream, streaming, ctl, early, faults>>
  BY DEF ProbeEnds, SensorInv
<1>2. stream = "idle" /\ ~streaming
  BY <1>1 DEF SensorInv, Books, Stuck
<1>3. Types'
  BY <1>1, PowerOffResult DEF Types
<1>4. Ranges' /\ InUse /\ ~InUse'
  BY <1>1, <1>2, SameControls DEF SensorInv, InUse
<1> QED BY <1>1, <1>2, <1>3, <1>4, PowerOffKeeps

LEMMA RemoveKeeps == SensorInv /\ Remove => SensorInv'
<1> SUFFICES ASSUME SensorInv, Remove PROVE SensorInv'
  OBVIOUS
<1>1. /\ probe = "bound" /\ stream = "idle" /\ probe' = "unbound" /\ streaming' = FALSE /\ Types
      /\ UNCHANGED <<variant, stream, ctl, early, faults>>
  BY DEF Remove, SensorInv, Unlocked
<1>2. ~InUse' /\ Ranges'
  BY <1>1, SameControls DEF SensorInv, InUse
<1>3. CASE streaming
  <2>1. PowerOff /\ InUse
    BY <1>3 DEF Remove, InUse
  <2>2. Types'
    BY <1>1, <2>1, PowerOffResult DEF Types
  <2> QED BY <1>1, <1>2, <2>1, <2>2, PowerOffKeeps
<1>4. CASE ~streaming
  <2>1. UNCHANGED <<power, chip>>
    BY <1>4 DEF Remove
  <2>2. Lines' = Lines /\ ~InUse
    BY <1>1, <1>4 DEF Lines, InUse
  <2>3. Types' /\ Books' /\ Stuck' /\ Streams'
    BY <1>1, <1>2, <1>4, <2>1, <2>2 DEF SensorInv, power, Types, Books, Stuck, Streams
  <2>4. RegistersFollow'
    BY <1>1, <1>4, <2>1, Dark DEF SensorInv, RegistersFollow
  <2> QED BY <1>2, <2>3, <2>4 DEF SensorInv
<1> QED BY <1>3, <1>4

--------------------------------------------------------------------------------
(* set_stream().                                                            *)

LEMMA StreamPowersKeeps == SensorInv /\ StreamPowers => SensorInv'
<1> SUFFICES ASSUME SensorInv, StreamPowers PROVE SensorInv'
  OBVIOUS
<1>1. /\ probe \in {"registered", "bound"} /\ stream = "idle" /\ ~streaming /\ Types
      /\ ctl.next = NoChange /\ early' = (early \/ probe = "registered")
      /\ UNCHANGED <<variant, probe, streaming, ctl>>
  BY DEF StreamPowers, Reachable, Unlocked, SensorInv
<1>2. chip.state # "live" /\ Lines' = Lines
  BY <1>1 DEF SensorInv, RegistersFollow, Lines
<1>3. CASE PowerOn /\ stream' = "powered"
  <2>1. /\ rail' \in [Users -> Int] /\ rail'["sensor"] = rail["sensor"] + 1 /\ clk' = clk + 1
        /\ lines = {} /\ lines' = Lines /\ desc' = Lines /\ faults' = faults
        /\ chip' \in [state : {"off", "standby", "live"}, frame : Int, exposure : Int]
        /\ chip'.state = "standby"
    BY <1>1, <1>3, PowerOnResult
  <2>2. ~early /\ probe = "bound"
    BY <1>1, <2>1, HasReset DEF SensorInv, Stuck, Books, InUse
  <2>3. Types'
    BY <1>1, <1>3, <2>1, <2>2 DEF Types
  <2>4. Books'
    <3>1. ~InUse /\ InUse'
      BY <1>1, <1>3, <2>2 DEF InUse
    <3>2. rail["sensor"] = clk /\ clk = 0
      BY <2>2, <3>1 DEF SensorInv, Books
    <3> QED BY <1>1, <1>2, <2>1, <2>2, <3>1, <3>2 DEF Books
  <2>6. Stuck' /\ Streams'
    BY <1>1, <1>3, <2>2 DEF Stuck, Streams
  <2>5. Ranges' /\ RegistersFollow'
    BY <1>1, <2>1, SameControls, Dark DEF SensorInv, Types
  <2> QED BY <2>3, <2>4, <2>5, <2>6 DEF SensorInv
<1>4. CASE PowerOnFails /\ stream' = "idle"
  <2>1. /\ UNCHANGED <<rail, clk, lines, chip>> /\ faults' \in {faults, faults + 1}
        /\ \/ lines = {} /\ desc' = desc
           \/ lines # {} /\ desc' = IF "enable" \in lines THEN desc \ {"enable"} ELSE {}
    BY <1>1, <1>4, PowerOnFailsResult
  <2>2. Types'
    BY <1>1, <1>4, <2>1 DEF Types
  <2>3. Ranges' /\ RegistersFollow'
    BY <1>1, <1>2, <2>1, SameControls, Dark DEF SensorInv, Types
  <2>4. Streams'
    BY <1>1, <1>4 DEF Streams
  <2>5. CASE early
    <3>1. Stuck' /\ Books'
      BY <1>1, <1>4, <2>5, StuckPower DEF SensorInv, Stuck, Books
    <3> QED BY <2>2, <2>3, <2>4, <3>1 DEF SensorInv
  <2>6. CASE ~early /\ probe = "bound"
    <3>1. lines = {}
      BY <1>1, <2>6 DEF SensorInv, Books, InUse
    <3>2. Stuck' /\ Books'
      BY <1>1, <1>4, <2>1, <2>6, <3>1 DEF SensorInv, Stuck, Books, InUse
    <3> QED BY <2>2, <2>3, <2>4, <3>2 DEF SensorInv
  <2>7. CASE ~early /\ probe = "registered"
    <3>1. lines = Lines
      BY <1>1, <2>7 DEF SensorInv, Books, InUse
    <3>2. \E line \in lines' : line \notin desc'
      BY <2>1, <3>1, HasReset DEF Lines
    <3>3. Stuck' /\ Books'
      BY <1>1, <1>4, <2>7, <3>2 DEF Stuck, Books
    <3> QED BY <2>2, <2>3, <2>4, <3>3 DEF SensorInv
  <2> QED BY <1>1, <2>5, <2>6, <2>7
<1> QED BY <1>3, <1>4 DEF StreamPowers

LEMMA StreamStartsKeeps == SensorInv /\ StreamStarts => SensorInv'
<1> SUFFICES ASSUME SensorInv, StreamStarts PROVE SensorInv'
  OBVIOUS
<1>1. /\ stream = "powered" /\ stream' = "idle" /\ streaming' = TRUE /\ Types
      /\ chip' = [state |-> "live", frame |-> Height + ctl.vblank, exposure |-> ctl.exposure]
      /\ UNCHANGED <<variant, power, probe, ctl, early, faults>>
  BY DEF StreamStarts, SensorInv
<1>2. ~early /\ probe = "bound" /\ ctl.next = NoChange
  BY <1>1 DEF SensorInv, Stuck, Books, Streams
<1>3. chip' \in [state : {"off", "standby", "live"}, frame : Int, exposure : Int]
  <2>1. Height \in Int /\ ctl.vblank \in Int /\ ctl.exposure \in Int
    BY <1>1, ModeIntegers
  <2> QED BY <1>1, <2>1
<1>4. Types' /\ Lines' = Lines /\ InUse /\ InUse'
  <2>1. Types'
    BY <1>1, <1>3 DEF Types, power
  <2>2. Lines' = Lines
    BY <1>1 DEF Lines
  <2>3. InUse /\ InUse'
    BY <1>1 DEF InUse
  <2> QED BY <2>1, <2>2, <2>3
<1>5. Books' /\ Stuck' /\ Streams' /\ Ranges'
  BY <1>1, <1>2, <1>4, SameControls DEF SensorInv, power, Books, Stuck, Streams
<1>6. RegistersFollow'
  <2>1. /\ Height' = Height /\ ctl' = ctl /\ chip'.state = "live"
        /\ chip'.exposure = ctl.exposure /\ chip'.frame = Height + ctl.vblank
    BY <1>1 DEF Height
  <2>2. streaming' = (chip'.state = "live")
    BY <1>1, <2>1
  <2> QED BY <1>4, <1>5, <2>1, <2>2, Fits
<1> QED BY <1>4, <1>5, <1>6 DEF SensorInv

LEMMA StreamFailsKeeps == SensorInv /\ StreamFails => SensorInv'
<1> SUFFICES ASSUME SensorInv, StreamFails PROVE SensorInv'
  OBVIOUS
<1>1. /\ stream = "powered" /\ stream' = "idle" /\ streaming' = FALSE /\ Types /\ PowerOff
      /\ UNCHANGED <<variant, probe, ctl, early>> /\ faults' = faults + 1
  BY DEF StreamFails, Fault, SensorInv
<1>2. probe = "bound"
  BY <1>1 DEF SensorInv, Stuck, Books, Types
<1>3. Types'
  <2>1. /\ rail' \in [Users -> Int] /\ clk' \in Int
        /\ chip' \in [state : {"off", "standby", "live"}, frame : Int, exposure : Int]
    BY <1>1, PowerOffResult
  <2>2. faults' \in Nat
    BY <1>1 DEF Types
  <2> QED BY <1>1, <2>1, <2>2 DEF Types
<1>4. Ranges' /\ InUse /\ ~InUse'
  BY <1>1, <1>2, SameControls DEF SensorInv, InUse
<1> QED BY <1>1, <1>3, <1>4, PowerOffKeeps

LEMMA StreamStopsKeeps == SensorInv /\ StreamStops => SensorInv'
<1> SUFFICES ASSUME SensorInv, StreamStops PROVE SensorInv'
  OBVIOUS
<1>1. /\ streaming /\ streaming' = FALSE /\ stream = "idle" /\ Types /\ PowerOff
      /\ UNCHANGED <<variant, probe, stream, ctl, early, faults>>
  BY DEF StreamStops, Unlocked, SensorInv
<1>2. probe = "bound"
  BY <1>1 DEF SensorInv, Stuck, Books, Types
<1>3. Types'
  <2>1. /\ rail' \in [Users -> Int] /\ clk' \in Int
        /\ chip' \in [state : {"off", "standby", "live"}, frame : Int, exposure : Int]
    BY <1>1, PowerOffResult
  <2>2. streaming' \in BOOLEAN
    BY <1>1
  <2> QED BY <1>1, <2>1, <2>2 DEF Types
<1>4. Ranges' /\ InUse /\ ~InUse'
  BY <1>1, <1>2, SameControls DEF SensorInv, InUse
<1> QED BY <1>1, <1>3, <1>4, PowerOffKeeps

--------------------------------------------------------------------------------
(* The controls.                                                            *)

\* A register write changes no power state; refused, it is a fault.
LEMMA WriteResult ==
  ASSUME Types, RegistersFollow, NEW after, NEW taken \in BOOLEAN, Writes(after, taken)
  PROVE  \/ taken /\ chip.state # "live" /\ chip' = chip /\ faults' = faults
         \/ taken /\ chip.state = "live" /\ chip' = after /\ faults' = faults
         \/ ~taken /\ chip.state = "live" /\ chip' \in {chip, after} /\ faults' = faults + 1
BY DEF Writes, Fault, RegistersFollow, Types

\* A change of the controls and of a register keeps the books of the power.
LEMMA ControlsKeepBooks ==
  ASSUME SensorInv, Types', stream = "idle",
         UNCHANGED <<variant, power, probe, stream, streaming, early>>
  PROVE  Books' /\ Stuck' /\ Streams'
<1>1. Lines' = Lines /\ InUse' = InUse
  BY DEF Lines, InUse
<1> QED BY <1>1 DEF SensorInv, power, Books, Stuck, Streams

\* Sensors do not change under way, nor do their modes.
LEMMA SameMode ==
  ASSUME variant' = variant
  PROVE  /\ Height' = Height /\ VblankMin' = VblankMin /\ VblankMax' = VblankMax
         /\ \A v : Ceiling(v)' = Ceiling(v)
BY DEF Height, VblankMin, VblankMax, Ceiling, FrameLength

\* A ceiling is a frame less the margin.
LEMMA CeilingOf ==
  ASSUME Types, NEW v \in Int
  PROVE  Ceiling(v) \in Int /\ Ceiling(v) = Height + v - 4
BY ModeIntegers DEF Ceiling

LEMMA SetExposureKeeps == SensorInv /\ SetExposure => SensorInv'
<1> SUFFICES ASSUME SensorInv, SetExposure PROVE SensorInv'
  OBVIOUS
<1> DEFINE value(want) == Clip(want, ExposureMin, ctl.max)
<1>1. PICK want \in Exposures, taken \in BOOLEAN :
        /\ WritesExposure(value(want), taken)
        /\ ctl' = IF taken
                  THEN [ctl EXCEPT !.exposure = value(want), !.refused = @ \ {"exposure"}]
                  ELSE [ctl EXCEPT !.refused = @ \union {"exposure"}]
  BY DEF SetExposure
<1>2. /\ Types /\ RegistersFollow /\ stream = "idle" /\ ctl.next = NoChange
      /\ UNCHANGED <<variant, power, probe, stream, streaming, early>>
  BY DEF SetExposure, Unlocked, SensorInv
<1>3. value(want) \in Int
  <2>1. want \in Int
    BY RequestsAssumption
  <2>2. ExposureMin = 4 /\ ctl.max \in Int
    BY <1>2, ModeIntegers
  <2> QED BY <2>1, <2>2 DEF Clip
<1> DEFINE v == value(want)
           after == [chip EXCEPT !.exposure = v]
<1>4. \/ taken /\ chip.state # "live" /\ chip' = chip /\ faults' = faults
      \/ taken /\ chip.state = "live" /\ chip' = after /\ faults' = faults
      \/ ~taken /\ chip.state = "live" /\ chip' \in {chip, after} /\ faults' = faults + 1
  BY <1>1, <1>2, WriteResult DEF WritesExposure
<1> HIDE DEF v, value
<1>5. /\ after \in [state : {"off", "standby", "live"}, frame : Int, exposure : Int]
      /\ after.state = chip.state /\ after.frame = chip.frame /\ after.exposure = v
  BY <1>2, <1>3 DEF Types, v
<1>6. /\ ctl' \in Controls
      /\ ctl'.vblank = ctl.vblank /\ ctl'.next = ctl.next /\ ctl'.max = ctl.max
      /\ ctl'.exposure = (IF taken THEN v ELSE ctl.exposure)
      /\ ctl'.refused = (IF taken THEN ctl.refused \ {"exposure"}
                                  ELSE ctl.refused \union {"exposure"})
  BY <1>1, <1>2, <1>3 DEF Types, Controls, v
<1> HIDE DEF after
<1>7. Types'
  BY <1>2, <1>4, <1>5, <1>6 DEF Types, power
<1>8. v \in ExposureMin..ctl.max
  <2>1. ctl.max \in Int /\ ExposureMin \in Int /\ ExposureMin <= ctl.max /\ want \in Int
    BY <1>2, RequestsAssumption DEF SensorInv, Ranges, Types, Controls, ExposureMin
  <2> QED BY <2>1, ClipRange DEF v, value
<1>9. Ranges'
  <2>1. /\ ctl'.vblank \in VblankMin..VblankMax /\ ctl'.next = NoChange
        /\ ctl'.max >= ExposureMin
    BY <1>2, <1>6 DEF SensorInv, Ranges
  <2>2. "frame" \notin ctl'.refused => ctl'.max = Ceiling(ctl'.vblank)
    BY <1>2, <1>6 DEF SensorInv, Ranges
  <2>3. "exposure" \notin ctl'.refused => /\ ExposureMin <= ctl'.exposure
                                          /\ ctl'.exposure <= ctl'.max
    <3>1. "exposure" \notin ctl'.refused => taken
      BY <1>6
    <3>2. v \in Int /\ ctl.max \in Int /\ ExposureMin \in Int
      BY <1>2, <1>3 DEF Types, Controls, v, ExposureMin
    <3> QED BY <1>6, <1>8, <3>1, <3>2
  <2>4. ctl'.refused = {} => ctl'.exposure <= Ceiling(ctl'.vblank)
    BY <2>2, <2>3
  <2> QED BY <1>2, <2>1, <2>2, <2>3, <2>4, SameMode DEF Ranges, ExposureMin, NoChange
<1>10. RegistersFollow'
  <2>1. chip'.state = chip.state /\ chip'.frame = chip.frame /\ Height' = Height
    BY <1>2, <1>4, <1>5, SameMode
  <2>2. chip.state = "live" /\ "exposure" \notin ctl'.refused => chip'.exposure = ctl'.exposure
    BY <1>4, <1>5, <1>6
  <2>3. chip.state = "live" /\ "frame" \notin ctl'.refused => chip'.frame = Height + ctl'.vblank
    BY <1>2, <1>6, <2>1 DEF RegistersFollow
  <2>4. streaming' = (chip'.state = "live")
    BY <1>2, <2>1 DEF RegistersFollow
  <2> QED BY <1>7, <1>9, <2>1, <2>2, <2>3, <2>4, Fits
<1> QED BY <1>2, <1>7, <1>9, <1>10, ControlsKeepBooks DEF SensorInv

LEMMA VblankClipsKeeps == SensorInv /\ VblankClips => SensorInv'
<1> SUFFICES ASSUME SensorInv, VblankClips PROVE SensorInv'
  OBVIOUS
<1> DEFINE blank(above) == Clip(VblankMin + above, VblankMin, VblankMax)
           fits(next) == Clip(ctl.exposure, ExposureMin, Ceiling(next))
<1>1. PICK above \in VblankAbove, taken \in BOOLEAN :
        /\ ctl' = [ctl EXCEPT !.max = Ceiling(blank(above)), !.next = blank(above),
                              !.exposure = IF taken THEN fits(blank(above)) ELSE @,
                              !.refused = IF taken THEN @ ELSE @ \union {"exposure"}]
        /\ IF fits(blank(above)) = ctl.exposure
           THEN taken /\ UNCHANGED <<chip, faults>>
           ELSE WritesExposure(fits(blank(above)), taken)
  BY DEF VblankClips
<1>2. /\ Types /\ RegistersFollow /\ stream = "idle" /\ ctl.next = NoChange
      /\ UNCHANGED <<variant, power, probe, stream, streaming, early>>
  BY DEF VblankClips, Unlocked, SensorInv
<1>3. blank(above) \in VblankMin..VblankMax /\ blank(above) \in Int
  <2>1. above \in Nat /\ VblankMin \in Int /\ VblankMax \in Int /\ VblankMin <= VblankMax
    BY <1>2, BlankNumbers, RequestsAssumption DEF Types
  <2>2. VblankMin + above \in Int
    BY <2>1
  <2>3. blank(above) \in VblankMin..VblankMax
    BY <2>1, <2>2, ClipRange, Zenon
  <2> QED BY <2>1, <2>3
<1> DEFINE next == blank(above)
<1>4. Ceiling(next) \in Int /\ Ceiling(next) >= ExposureMin /\ Ceiling(next) = Height + next - 4
  <2>1. Ceiling(next) = Height + next - 4
    BY <1>2, <1>3, CeilingOf
  <2>2. Height \in 1524..3096 /\ next >= 97 /\ ExposureMin = 4
    BY <1>2, <1>3, ModeIntegers
  <2> QED BY <1>3, <2>1, <2>2
<1> HIDE DEF blank
<1>5. /\ fits(next) \in ExposureMin..Ceiling(next) /\ fits(next) \in Int
      /\ ctl.exposure >= ExposureMin => fits(next) <= ctl.exposure
  <2>1. ctl.exposure \in Int /\ ExposureMin \in Int
    BY <1>2 DEF Types, Controls, ExposureMin
  <2>2. /\ fits(next) \in ExposureMin..Ceiling(next)
        /\ ctl.exposure >= ExposureMin => fits(next) <= ctl.exposure
    BY <1>4, <2>1, ClipRange, Zenon
  <2> QED BY <1>4, <2>1, <2>2
<1> DEFINE v == fits(next)
           after == [chip EXCEPT !.exposure = v]
<1>6. \/ taken /\ v = ctl.exposure /\ chip' = chip /\ faults' = faults
      \/ taken /\ chip.state # "live" /\ chip' = chip /\ faults' = faults
      \/ taken /\ chip.state = "live" /\ chip' = after /\ faults' = faults
      \/ ~taken /\ chip.state = "live" /\ chip' \in {chip, after} /\ faults' = faults + 1
  BY <1>1, <1>2, WriteResult DEF WritesExposure
<1> HIDE DEF v, fits
<1>7. /\ after \in [state : {"off", "standby", "live"}, frame : Int, exposure : Int]
      /\ after.state = chip.state /\ after.frame = chip.frame /\ after.exposure = v
  BY <1>2, <1>5 DEF Types, v
<1>8. ctl' = [ctl EXCEPT !.max = Ceiling(next), !.next = next,
                         !.exposure = IF taken THEN v ELSE ctl.exposure,
                         !.refused = IF taken THEN ctl.refused
                                              ELSE ctl.refused \union {"exposure"}]
  BY <1>1 DEF v
<1> HIDE DEF next, after
<1>9. /\ ctl' \in Controls
      /\ ctl'.vblank = ctl.vblank /\ ctl'.next = next /\ ctl'.max = Ceiling(next)
      /\ ctl'.exposure = (IF taken THEN v ELSE ctl.exposure)
      /\ ctl'.refused = (IF taken THEN ctl.refused ELSE ctl.refused \union {"exposure"})
  BY <1>2, <1>3, <1>4, <1>5, <1>8 DEF Types, Controls, v, next
<1>10. Types'
  BY <1>2, <1>6, <1>7, <1>9 DEF Types, power
<1>11. "exposure" \notin ctl'.refused => taken /\ "exposure" \notin ctl.refused
  BY <1>9
<1>12. Ranges'
  <2>1. next # NoChange /\ next \in VblankMin..VblankMax
    BY <1>2, <1>3, ModeNumbers DEF next, Types
  <2>2. /\ Ceiling(ctl.vblank) \in Int /\ Ceiling(next) \in Int /\ ctl.exposure \in Int
        /\ v \in Int /\ ExposureMin = 4
    BY <1>2, <1>3, <1>5, CeilingOf, ModeNumbers DEF Types, Controls, next, v
  <2>3. "exposure" \notin ctl'.refused => /\ ExposureMin <= ctl'.exposure
                                          /\ ctl'.exposure <= ctl'.max
    BY <1>5, <1>9, <1>11, <2>2 DEF v, next
  <2>4. ctl'.refused = {} => ctl'.exposure <= Ceiling(ctl'.vblank)
    <3> SUFFICES ASSUME ctl'.refused = {} PROVE ctl'.exposure <= Ceiling(ctl.vblank)
      BY <1>9
    <3>1. taken /\ ctl.refused = {}
      BY <1>9, <1>11
    <3>2. ctl.exposure <= Ceiling(ctl.vblank) /\ ctl.exposure >= ExposureMin
      BY <2>2, <3>1 DEF SensorInv, Ranges
    <3>3. ctl'.exposure = v /\ v <= ctl.exposure
      BY <1>5, <1>9, <3>1, <3>2 DEF v, next
    <3> QED BY <2>2, <3>2, <3>3
  <2>5. ctl'.vblank \in VblankMin..VblankMax /\ ctl'.max >= ExposureMin
    BY <1>4, <1>9 DEF SensorInv, Ranges, next
  <2>6. ctl'.next # NoChange /\ ctl'.next \in VblankMin..VblankMax /\ ctl'.max = Ceiling(ctl'.next)
    BY <1>9, <2>1
  <2> QED BY <1>2, <2>3, <2>4, <2>5, <2>6, SameMode DEF Ranges, ExposureMin, NoChange
<1>13. RegistersFollow'
  <2>1. chip'.state = chip.state /\ chip'.frame = chip.frame /\ Height' = Height
    BY <1>2, <1>6, <1>7, SameMode
  <2>2. chip.state = "live" /\ "exposure" \notin ctl'.refused => chip'.exposure = ctl'.exposure
    BY <1>2, <1>6, <1>7, <1>9, <1>11 DEF RegistersFollow
  <2>3. chip.state = "live" /\ "frame" \notin ctl'.refused => chip'.frame = Height + ctl'.vblank
    BY <1>2, <1>9, <2>1 DEF RegistersFollow
  <2>4. streaming' = (chip'.state = "live")
    BY <1>2, <2>1 DEF RegistersFollow
  <2> QED BY <1>10, <1>12, <2>1, <2>2, <2>3, <2>4, Fits
<1> QED BY <1>2, <1>10, <1>12, <1>13, ControlsKeepBooks DEF SensorInv

LEMMA VblankWritesKeeps == SensorInv /\ VblankWrites => SensorInv'
<1> SUFFICES ASSUME SensorInv, VblankWrites PROVE SensorInv'
  OBVIOUS
<1>1. PICK taken \in BOOLEAN :
        /\ WritesFrame(Height + ctl.next, taken)
        /\ ctl' = [ctl EXCEPT !.vblank = IF taken THEN ctl.next ELSE @, !.next = NoChange,
                              !.refused = IF taken THEN @ \ {"frame"} ELSE @ \union {"frame"}]
  BY DEF VblankWrites
<1>2. /\ Types /\ RegistersFollow /\ ctl.next # NoChange /\ stream = "idle"
      /\ UNCHANGED <<variant, power, probe, stream, streaming, early>>
  BY DEF VblankWrites, SensorInv, Streams, Types
<1> DEFINE frame == Height + ctl.next
           after == [chip EXCEPT !.frame = frame]
<1>3. \/ taken /\ chip.state # "live" /\ chip' = chip /\ faults' = faults
      \/ taken /\ chip.state = "live" /\ chip' = after /\ faults' = faults
      \/ ~taken /\ chip.state = "live" /\ chip' \in {chip, after} /\ faults' = faults + 1
  BY <1>1, <1>2, WriteResult DEF WritesFrame
<1>4. Height \in Int /\ ctl.next \in Int /\ frame \in Int /\ NoChange \in Int
  <2>1. ctl.next \in Int /\ Height \in Int /\ NoChange = -1
    BY <1>2, ModeIntegers
  <2> QED BY <2>1
<1> HIDE DEF frame
<1>5. /\ after \in [state : {"off", "standby", "live"}, frame : Int, exposure : Int]
      /\ after.state = chip.state /\ after.frame = frame /\ after.exposure = chip.exposure
  BY <1>2, <1>4 DEF Types
<1> HIDE DEF after
<1>6. /\ ctl' \in Controls
      /\ ctl'.vblank = (IF taken THEN ctl.next ELSE ctl.vblank) /\ ctl'.next = NoChange
      /\ ctl'.max = ctl.max /\ ctl'.exposure = ctl.exposure
      /\ ctl'.refused = (IF taken THEN ctl.refused \ {"frame"}
                                  ELSE ctl.refused \union {"frame"})
  BY <1>1, <1>2, <1>4 DEF Types, Controls
<1>7. Types'
  BY <1>2, <1>3, <1>5, <1>6 DEF Types, power
<1>8. /\ "frame" \notin ctl'.refused => taken
      /\ "exposure" \notin ctl'.refused => "exposure" \notin ctl.refused
  BY <1>6
<1>9. Ranges'
  <2>1. ctl'.vblank \in VblankMin..VblankMax /\ ctl'.max >= ExposureMin
    BY <1>2, <1>6 DEF SensorInv, Ranges
  <2>2. "frame" \notin ctl'.refused => ctl'.max = Ceiling(ctl'.vblank)
    BY <1>2, <1>6, <1>8 DEF SensorInv, Ranges
  <2>3. "exposure" \notin ctl'.refused => /\ ExposureMin <= ctl'.exposure
                                          /\ ctl'.exposure <= ctl'.max
    BY <1>6, <1>8 DEF SensorInv, Ranges
  <2>4. ctl'.refused = {} => ctl'.exposure <= Ceiling(ctl'.vblank)
    BY <2>2, <2>3
  <2> QED BY <1>2, <1>6, <2>1, <2>2, <2>3, <2>4, SameMode DEF Ranges, ExposureMin, NoChange
<1>10. RegistersFollow'
  <2>1. chip'.state = chip.state /\ chip'.exposure = chip.exposure /\ Height' = Height
    BY <1>2, <1>3, <1>5, SameMode
  <2>2. chip.state = "live" /\ "exposure" \notin ctl'.refused => chip'.exposure = ctl'.exposure
    BY <1>2, <1>6, <1>8, <2>1 DEF RegistersFollow
  <2>3. chip.state = "live" /\ "frame" \notin ctl'.refused => chip'.frame = Height + ctl'.vblank
    BY <1>3, <1>5, <1>6, <1>8 DEF frame
  <2>4. streaming' = (chip'.state = "live")
    BY <1>2, <2>1 DEF RegistersFollow
  <2> QED BY <1>7, <1>9, <2>1, <2>2, <2>3, <2>4, Fits
<1> QED BY <1>2, <1>7, <1>9, <1>10, ControlsKeepBooks DEF SensorInv

LEMMA SensorKeeps == SensorInv /\ SensorNext => SensorInv'
BY ProbePowersKeeps, ProbeIdentifiesKeeps, ProbeRegistersKeeps, ProbeEndsKeeps, RemoveKeeps,
   StreamPowersKeeps, StreamStartsKeeps, StreamFailsKeeps, StreamStopsKeeps,
   SetExposureKeeps, VblankClipsKeeps, VblankWritesKeeps
   DEF SensorNext, Probe, Stream, SetCtrl

--------------------------------------------------------------------------------
(* The lens on the same rail.                                               *)

\* Nothing the sensor does moves the lens's count of the rail.
LEMMA SensorSparesLens == SensorInv /\ SensorNext => rail'["lens"] = rail["lens"]
<1> SUFFICES ASSUME SensorInv, SensorNext PROVE rail'["lens"] = rail["lens"]
  OBVIOUS
<1>1. Types
  BY DEF SensorInv
<1>2. CASE PowerOn \/ PowerOnFails \/ PowerOff \/ UNCHANGED rail
  BY <1>1, <1>2, PowerOnResult, PowerOnFailsResult, PowerOffResult
<1>3. CASE Probe
  BY <1>2, <1>3
     DEF Probe, ProbePowers, ProbeIdentifies, ProbeRegisters, ProbeEnds, Remove, power
<1>4. CASE Stream
  BY <1>2, <1>4 DEF Stream, StreamPowers, StreamStarts, StreamFails, StreamStops, power
<1>5. CASE SetCtrl
  BY <1>2, <1>5 DEF SetCtrl, SetExposure, VblankClips, VblankWrites, power
<1> QED BY <1>3, <1>4, <1>5 DEF SensorNext

\* A lens step moves the lens's count only.
LEMMA DisableResult ==
  ASSUME Types, LensInv, NEW at \in Int, Disable(at)
  PROVE  /\ rail' \in [Users -> Int] /\ rail'["sensor"] = rail["sensor"] /\ rail'["lens"] = 0
         /\ vcm' \in [ready : BOOLEAN, at : Int]
<1> DEFINE hold == IF rail["lens"] > 0 THEN rail["lens"] - 1 ELSE 0
<1>1. hold = 0
  BY DEF LensInv
<1>2. rail' = [rail EXCEPT !["lens"] = 0]
  BY <1>1 DEF Disable
<1>3. vcm' = [vcm EXCEPT !.at = at] \/ vcm' = VcmOff
  BY DEF Disable
<1>4. vcm' \in [ready : BOOLEAN, at : Int]
  <2>1. VcmOff \in [ready : BOOLEAN, at : Int]
    BY DEF VcmOff
  <2> QED BY <1>3, <2>1 DEF LensInv
<1> QED BY <1>2, <1>4 DEF Types, Users

LEMMA LensSparesSensor ==
  ASSUME SensorInv, UNCHANGED camera, faults' \in {faults, faults + 1},
         rail' \in [Users -> Int], rail'["sensor"] = rail["sensor"]
  PROVE  SensorInv'
<1>1. Types /\ UNCHANGED <<variant, clk, lines, desc, probe, stream, streaming, ctl, chip, early>>
  BY DEF SensorInv, camera
<1>2. Types'
  <2>1. faults' \in Nat
    BY <1>1 DEF Types
  <2> QED BY <1>1, <2>1 DEF Types
<1>3. Books' /\ Stuck' /\ Streams'
  <2>1. Lines' = Lines /\ InUse' = InUse
    BY <1>1 DEF Lines, InUse
  <2> QED BY <1>1, <2>1 DEF SensorInv, Books, Stuck, Streams
<1>4. Ranges'
  BY <1>1, SameControls DEF SensorInv
<1>5. RegistersFollow'
  BY <1>1, SameMode DEF SensorInv, RegistersFollow, Margin
<1> QED BY <1>2, <1>3, <1>4, <1>5 DEF SensorInv

\* What the lens's own invariant needs of a step of the lens.
LensRail == /\ UNCHANGED camera /\ faults' \in {faults, faults + 1}
            /\ rail' \in [Users -> Int] /\ rail'["sensor"] = rail["sensor"]
Whole == SensorInv /\ LensInv /\ LensTruthful

LEMMA PositionInt == Positions \subseteq Int
BY PositionsAssumption

LEMMA OpenKeeps == Whole /\ Open => LensRail /\ LensInv' /\ LensTruthful'
<1> SUFFICES ASSUME Whole, Open PROVE LensRail /\ LensInv' /\ LensTruthful'
  OBVIOUS
<1>1. /\ UNCHANGED <<camera, alone, position, inited, focusing, vcm, cycled>> /\ ~broken
      /\ Types /\ LensInv /\ LensTruthful /\ focusing = "idle"
  BY DEF Open, Whole, SensorInv, LensInv
<1>2. CASE pm = "active" /\ UNCHANGED <<pm, rail, broken, faults>>
  <2>1. LensRail
    BY <1>1, <1>2 DEF LensRail, Types
  <2> QED BY <1>1, <1>2, <2>1 DEF LensInv, LensTruthful
<1>3. CASE /\ pm = "suspended" /\ pm' = "resuming"
           /\ rail' = [rail EXCEPT !["lens"] = @ + 1] /\ UNCHANGED <<broken, faults>>
  <2>1. /\ rail' \in [Users -> Int] /\ rail'["sensor"] = rail["sensor"] /\ rail'["lens"] = 1
    BY <1>1, <1>3 DEF Types, Users, LensInv
  <2> QED BY <1>1, <1>3, <2>1 DEF LensRail, LensInv, LensTruthful
<1>4. CASE pm = "suspended" /\ Fault /\ broken' = TRUE /\ UNCHANGED <<opened, pm, rail>>
  BY <1>1, <1>4 DEF LensRail, LensInv, LensTruthful, Types, Fault
<1> QED BY <1>2, <1>3, <1>4 DEF Open

LEMMA ResumeKeeps == Whole /\ Resume => LensRail /\ LensInv' /\ LensTruthful'
<1> SUFFICES ASSUME Whole, Resume PROVE LensRail /\ LensInv' /\ LensTruthful'
  OBVIOUS
<1>1. /\ UNCHANGED <<camera, alone, opened, broken, position, focusing, cycled>>
      /\ pm = "resuming" /\ pm' = "active" /\ ~broken
      /\ Types /\ LensInv /\ LensTruthful
  BY DEF Resume, Whole, SensorInv, LensInv
<1>2. ASSUME NEW at \in Int, inited' = TRUE, UNCHANGED rail, faults' \in {faults, faults + 1},
             vcm' = [ready |-> vcm.ready \/ ~inited, at |-> at]
      PROVE  LensRail /\ LensInv' /\ LensTruthful'
  <2>1. rail["lens"] = 1 /\ inited \in BOOLEAN /\ vcm.ready \in BOOLEAN
    BY <1>1 DEF LensInv
  <2>2. vcm.ready \/ ~inited
    BY <1>1, <2>1 DEF LensTruthful
  <2>3. vcm' \in [ready : BOOLEAN, at : Int] /\ vcm'.ready
    BY <1>2, <2>2
  <2> QED BY <1>1, <1>2, <2>1, <2>3 DEF LensRail, LensInv, LensTruthful, Types
<1>3. ASSUME ~inited, Disable(vcm.at), UNCHANGED inited, faults' \in {faults, faults + 1}
      PROVE  LensRail /\ LensInv' /\ LensTruthful'
  <2>1. vcm.at \in Int
    BY <1>1 DEF LensInv
  <2>2. /\ rail' \in [Users -> Int] /\ rail'["sensor"] = rail["sensor"] /\ rail'["lens"] = 0
        /\ vcm' \in [ready : BOOLEAN, at : Int]
    BY <1>1, <1>3, <2>1, DisableResult
  <2> QED BY <1>1, <1>3, <2>2 DEF LensRail, LensInv, LensTruthful
<1>4. CASE ~inited /\ ((Answers /\ Fault) \/ (~Answers /\ UNCHANGED faults))
           /\ Disable(vcm.at) /\ UNCHANGED inited
  <2>1. faults' \in {faults, faults + 1}
    BY <1>4 DEF Fault
  <2> QED BY <1>3, <1>4, <2>1
<1>5. CASE /\ inited' = TRUE /\ UNCHANGED rail
           /\ LET ready == vcm.ready \/ ~inited IN
              \/ vcm' = [ready |-> ready, at |-> IF ready THEN position ELSE vcm.at]
                 /\ UNCHANGED faults
              \/ vcm' = [ready |-> ready, at |-> IF ready THEN position % 16 ELSE vcm.at] /\ Fault
  <2>1. position \in Int /\ position % 16 \in Int /\ vcm.at \in Int
    BY <1>1 DEF LensInv
  <2>2. PICK at \in Int : vcm' = [ready |-> vcm.ready \/ ~inited, at |-> at]
    BY <1>5, <2>1
  <2>3. faults' \in {faults, faults + 1}
    BY <1>5 DEF Fault
  <2> QED BY <1>2, <1>5, <2>2, <2>3
<1> QED BY <1>4, <1>5 DEF Resume

LEMMA SuspendChecksKeeps == Whole /\ SuspendChecks => LensRail /\ LensInv' /\ LensTruthful'
<1> SUFFICES ASSUME Whole, SuspendChecks PROVE LensRail /\ LensInv' /\ LensTruthful'
  OBVIOUS
<1>1. /\ UNCHANGED <<camera, rail, alone, opened, broken, position, focusing, vcm, faults>>
      /\ ~broken /\ Types /\ LensInv /\ LensTruthful /\ focusing = "idle"
      /\ IF RailOn THEN pm' = "parking" /\ UNCHANGED <<inited, cycled>>
                   ELSE pm' = "suspended" /\ inited' = FALSE /\ cycled' = FALSE
  BY DEF SuspendChecks, Whole, SensorInv, LensInv
<1>4. LensRail
  BY <1>1 DEF LensRail, Types
<1>2. CASE RailOn
  BY <1>1, <1>2, <1>4 DEF LensInv, LensTruthful
<1>3. CASE ~RailOn
  <2>1. rail["lens"] = 0
    BY <1>1, <1>3 DEF RailOn, LensInv
  <2>2. inited' \in BOOLEAN /\ ~inited' /\ cycled' \in BOOLEAN /\ ~cycled'
    BY <1>1, <1>3
  <2> QED BY <1>1, <1>3, <1>4, <2>1, <2>2 DEF LensInv, LensTruthful
<1> QED BY <1>2, <1>3

LEMMA SuspendParksKeeps == Whole /\ SuspendParks => LensRail /\ LensInv' /\ LensTruthful'
<1> SUFFICES ASSUME Whole, SuspendParks PROVE LensRail /\ LensInv' /\ LensTruthful'
  OBVIOUS
<1>1. /\ UNCHANGED <<camera, alone, opened, position, focusing>> /\ inited' = FALSE
      /\ cycled' = FALSE /\ pm = "parking" /\ ~broken /\ Types /\ LensInv /\ LensTruthful
  BY DEF SuspendParks, Whole, SensorInv, LensInv
<1>2. PICK at \in Int : Disable(at)
  <2>1. 0 \in Int /\ vcm.at \in Int
    BY <1>1 DEF LensInv
  <2> QED BY <2>1 DEF SuspendParks, ParkFails
<1>3. /\ rail' \in [Users -> Int] /\ rail'["sensor"] = rail["sensor"] /\ rail'["lens"] = 0
      /\ vcm' \in [ready : BOOLEAN, at : Int]
  BY <1>1, <1>2, DisableResult
<1>4. /\ faults' \in {faults, faults + 1} /\ broken' \in BOOLEAN
      /\ pm' \in {"suspended", "active"}
  <2>1. faults' \in {faults, faults + 1}
    BY DEF SuspendParks, ParkFails, Fault
  <2>2. broken' \in BOOLEAN /\ pm' \in {"suspended", "active"}
    BY <1>1 DEF SuspendParks, ParkFails, LensInv
  <2> QED BY <2>1, <2>2
<1>5. ~inited' /\ inited' \in BOOLEAN /\ ~cycled' /\ cycled' \in BOOLEAN
  BY <1>1
<1> QED BY <1>1, <1>3, <1>4, <1>5 DEF LensRail, LensInv, LensTruthful

LEMMA FocusKeeps ==
  Whole /\ (Close \/ SetControl) => LensRail /\ LensInv' /\ LensTruthful'
<1> SUFFICES ASSUME Whole, Close \/ SetControl PROVE LensRail /\ LensInv' /\ LensTruthful'
  OBVIOUS
<1>1. /\ UNCHANGED <<camera, rail, alone, pm, broken>>
      /\ Types /\ LensInv /\ LensTruthful
  BY DEF Close, SetControl, Focus, FocusInits, FocusMoves, Whole, SensorInv
<1>2. LensRail
  <2>1. faults' \in {faults, faults + 1}
    BY DEF Close, SetControl, Focus, FocusInits, FocusMoves, Fault
  <2> QED BY <1>1, <2>1 DEF LensRail, Types
<1>3. ASSUME position' \in Int, inited' \in BOOLEAN, vcm' \in [ready : BOOLEAN, at : Int],
             pm = "suspended" => ~inited', inited' => inited \/ vcm'.ready,
             cycled' \in BOOLEAN, cycled' => cycled /\ inited', inited' /\ cycled => cycled',
             vcm.ready => vcm'.ready, focusing' # "idle" => opened' /\ pm = "active"
      PROVE  LensInv' /\ LensTruthful'
  BY <1>1, <1>3 DEF LensInv, LensTruthful
<1>4. CASE Close
  <2>1. UNCHANGED <<position, inited, focusing, vcm, cycled>> /\ focusing = "idle"
    BY <1>4 DEF Close
  <2>2. /\ position' \in Int /\ inited' \in BOOLEAN /\ cycled' \in BOOLEAN /\ (cycled => inited)
        /\ vcm' \in [ready : BOOLEAN, at : Int]
        /\ pm = "suspended" => ~inited'
    BY <1>1, <2>1 DEF LensInv
  <2> QED BY <1>2, <1>3, <2>1, <2>2
<1>5. CASE Focus
  <2>1. position' \in Int
    BY <1>5, PositionInt DEF Focus
  <2>2. /\ inited' \in BOOLEAN /\ (inited' => inited) /\ vcm' = vcm
        /\ pm = "active" /\ opened'
    BY <1>1, <1>5 DEF Focus, LensInv
  <2>4. cycled' \in BOOLEAN /\ (cycled' => cycled /\ inited') /\ (inited' /\ cycled => cycled')
    BY <1>1, <1>5 DEF Focus, LensInv
  <2>3. vcm' \in [ready : BOOLEAN, at : Int]
    BY <1>1, <2>2 DEF LensInv
  <2> QED BY <1>2, <1>3, <2>1, <2>2, <2>3, <2>4
<1>6. CASE FocusMoves
  <2>1. vcm' \in [ready : BOOLEAN, at : Int] /\ vcm'.ready = vcm.ready
    <3>1. vcm' = vcm \/ vcm' = [vcm EXCEPT !.at = IF vcm.ready THEN position ELSE @]
      BY <1>6 DEF FocusMoves
    <3> QED BY <1>1, <3>1 DEF LensInv
  <2>2. UNCHANGED <<position, inited, cycled>> /\ focusing' = "idle"
    BY <1>6 DEF FocusMoves
  <2>3. /\ position' \in Int /\ inited' \in BOOLEAN /\ (pm = "suspended" => ~inited')
        /\ cycled' \in BOOLEAN /\ (cycled => inited)
    BY <1>1, <2>2 DEF LensInv
  <2> QED BY <1>2, <1>3, <2>1, <2>2, <2>3
<1>7. CASE FocusInits
  <2>1. /\ pm = "active" /\ opened' /\ position' = position /\ position \in Int
        /\ inited \in BOOLEAN /\ vcm \in [ready : BOOLEAN, at : Int]
        /\ cycled' = cycled /\ cycled \in BOOLEAN /\ (cycled => inited)
    BY <1>1, <1>7 DEF FocusInits, LensInv
  <2>2. CASE inited' = TRUE /\ vcm' = [vcm EXCEPT !.ready = TRUE]
    <3>1. vcm' \in [ready : BOOLEAN, at : Int] /\ vcm'.ready
      BY <2>1, <2>2
    <3>2. inited' \in BOOLEAN /\ inited'
      BY <2>2
    <3> QED BY <1>2, <1>3, <2>1, <3>1, <3>2
  <2>3. CASE UNCHANGED <<inited, vcm>>
    BY <1>2, <1>3, <2>1, <2>3
  <2> QED BY <1>7, <2>2, <2>3 DEF FocusInits
<1> QED BY <1>4, <1>5, <1>6, <1>7 DEF SetControl

--------------------------------------------------------------------------------
(* The camera as a whole.                                                   *)

LEMMA InitWhole == Init => Whole
<1> SUFFICES ASSUME Init PROVE Whole
  OBVIOUS
<1>1. /\ rail = [user \in {"sensor", "lens"} |-> 0] /\ opened = FALSE /\ pm = "suspended"
      /\ broken = FALSE /\ position = 512 /\ inited = FALSE /\ focusing = "idle"
      /\ vcm = VcmOff /\ cycled = FALSE
  BY DEF Init, SensorInit
<1>2. vcm \in [ready : BOOLEAN, at : Int]
  BY <1>1 DEF VcmOff
<1>3. /\ rail["lens"] = 0 /\ inited \in BOOLEAN /\ broken \in BOOLEAN /\ position \in Int
      /\ cycled \in BOOLEAN
  <2>1. inited \in BOOLEAN /\ broken \in BOOLEAN /\ cycled \in BOOLEAN
    BY <1>1, Zenon
  <2> QED BY <1>1, <2>1
<1>4. LensInv /\ LensTruthful
  BY <1>1, <1>2, <1>3 DEF LensInv, LensTruthful
<1> QED BY <1>4, InitSensor DEF Whole

\* The sensor can take the actuator down only while the lens holds nothing.
LEMMA SensorStepKeeps == Whole /\ SensorStep => Whole'
<1> SUFFICES ASSUME Whole, SensorStep PROVE Whole'
  OBVIOUS
<1>1. SensorInv' /\ rail'["lens"] = rail["lens"]
  BY SensorKeeps, SensorSparesLens DEF SensorStep, Whole
<1> DEFINE down == rail'["sensor"] = 0 /\ rail["lens"] = 0
<1>2. /\ vcm' = IF down THEN VcmOff ELSE vcm
      /\ cycled' = (cycled \/ (down /\ inited))
      /\ UNCHANGED <<alone, opened, pm, broken, position, inited, focusing>>
      /\ LensInv /\ LensTruthful
  BY DEF SensorStep, Whole
<1>3. /\ vcm' \in [ready : BOOLEAN, at : Int] /\ (~down => vcm' = vcm)
      /\ cycled' \in BOOLEAN /\ (rail["lens"] = 1 => ~down)
  BY <1>2 DEF LensInv, VcmOff
<1>4. /\ cycled' => inited
      /\ inited /\ ~cycled' => vcm'.ready
      /\ rail["lens"] = 1 => ~cycled'
  BY <1>2, <1>3 DEF LensInv, LensTruthful
<1> HIDE DEF down
<1> QED BY <1>1, <1>2, <1>3, <1>4 DEF Whole, LensInv, LensTruthful

LEMMA WholeKeeps == Whole /\ [Next]_vars => Whole'
<1> SUFFICES ASSUME Whole, [Next]_vars PROVE Whole'
  OBVIOUS
<1>1. CASE SensorStep
  BY <1>1, SensorStepKeeps
<1>2. CASE RuntimePm \/ SetControl
  <2>1. LensRail /\ LensInv' /\ LensTruthful'
    BY <1>2, OpenKeeps, ResumeKeeps, SuspendChecksKeeps, SuspendParksKeeps, FocusKeeps
       DEF RuntimePm
  <2>2. SensorInv'
    BY <2>1, LensSparesSensor DEF LensRail, Whole
  <2> QED BY <2>1, <2>2 DEF Whole
<1>3. CASE UNCHANGED vars
  <2>1. LensRail
    BY <1>3 DEF vars, sensor, power, actuator, camera, LensRail, Whole, SensorInv, Types
  <2>2. SensorInv'
    BY <2>1, LensSparesSensor DEF LensRail, Whole
  <2>3. LensInv' /\ LensTruthful'
    BY <1>3 DEF vars, sensor, power, actuator, Whole, LensInv, LensTruthful
  <2> QED BY <2>2, <2>3 DEF Whole
<1> QED BY <1>1, <1>2, <1>3 DEF Next

LEMMA WholeAlways == Spec => []Whole
BY InitWhole, WholeKeeps, PTL DEF Spec

\* Whatever fails, hi1337_power_on() and hi1337_power_off() balance over probe,
\* set_stream() and remove, unless a stream ran into the end of probe.
THEOREM PowerBalancedAlways == Spec => []PowerBalanced
<1>1. Whole => PowerBalanced
  BY DEF Whole, SensorInv, Books, PowerBalanced
<1> QED BY <1>1, WholeAlways, PTL

\* A live sensor runs with what its controls report, for every mode, blanking,
\* exposure and refused write, a refused control excepted until it is set again; and
\* while none is, the exposure fits the frame at every instant.
THEOREM RegistersFollowAlways == Spec => []RegistersFollow
<1>1. Whole => RegistersFollow
  BY DEF Whole, SensorInv
<1> QED BY <1>1, WholeAlways, PTL

\* The lens does not keep the shared rail up once closed and parked, or broken.
THEOREM RailReleasedAlways == Spec => []RailReleased
<1>1. Whole => RailReleased
  BY DEF Whole, LensInv, RailReleased
<1> QED BY <1>1, WholeAlways, PTL

\* The lens takes no bare actuator for an initialised one, unless the rail went down
\* and came back between two of its looks, which no step of the sensor can do while
\* the lens holds the rail itself.
THEOREM LensTruthfulAlways == Spec => []LensTruthful
<1>1. Whole => LensTruthful
  BY DEF Whole, LensInv, LensTruthful
<1> QED BY <1>1, WholeAlways, PTL
================================================================================
