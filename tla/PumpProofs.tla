-------------------------------- MODULE PumpProofs --------------------------------
(***************************************************************************)
(* The 2:1 pump's driver, awake and asleep.                                 *)
(*                                                                          *)
(* The regulation loop for every pack, drift, cable and source: a contract  *)
(* is one tick old, or two, so its distance from the pack is bounded by how *)
(* far the pack moves in as many ticks, and nothing else the loop remembers *)
(* matters to it.                                                           *)
(*                                                                          *)
(* Over suspend the age of the last Request is bounded, whatever patience   *)
(* the source has.  The argument is a budget: that age, what is left of the *)
(* alarm and the delay the work item froze with never add up to more than   *)
(* eight seconds, the latency and two; awake and renewed, not to more than  *)
(* two.                                                                     *)
(***************************************************************************)
EXTENDS PumpLoop, PumpSleep, TLAPS


\* What a pack can show, and what a PPS contract can ask for.
OfPack(v) == v \in Int /\ 3400 <= v /\ v <= 4450
OnBus(mv) == mv \in Int /\ 8200 <= mv /\ mv <= 10500

\* A contract of mv for a pack that has since moved by slack.
Headroom(mv, v, slack) ==
  /\ mv + slack >= 2 * v + 1100 \/ mv = 10500
  /\ mv <= 2 * v + 2000 + slack
  /\ mv <= 10500

\* How far the doubled pack voltage may have moved since the last Request.
Slack == IF pps_ticks = 0 THEN 2 * Drift ELSE 4 * Drift

Followed ==
  active /\ contract.mv # 0 => Headroom(contract.mv, pack, Slack)
LoopInv == TypeOK /\ Followed

--------------------------------------------------------------------------------
(* What the loop computes.                                                  *)

\* Rounding up to a step.
LEMMA RoundUp ==
  ASSUME NEW x \in Int
  PROVE  /\ DivUp(x, 20) * 20 \in Int /\ x <= DivUp(x, 20) * 20 /\ DivUp(x, 20) * 20 <= x + 19
         /\ DivUp(x, 50) * 50 \in Int /\ x <= DivUp(x, 50) * 50 /\ DivUp(x, 50) * 50 <= x + 49
BY DEF DivUp

\* The bounds of the request do not cross for any pack the gauge can show.
LEMMA Bounds ==
  ASSUME NEW v, OfPack(v)
  PROVE  /\ OnBus(FloorMv(v)) /\ OnBus(CeilMv(v))
         /\ FloorMv(v) <= CeilMv(v)
         /\ FloorMv(v) >= 2 * v + 1100 \/ FloorMv(v) = 10500
         /\ CeilMv(v) <= 2 * v + 2000
<1> DEFINE need == 2 * v + 1100
           step == DivUp(need, 20) * 20
<1>1. v \in Int /\ 3400 <= v /\ v <= 4450 /\ need \in Int
  BY DEF OfPack
<1>2. step \in Int /\ need <= step /\ step <= need + 19
  BY <1>1, RoundUp
<1>3. FloorMv(v) = Clamp(step, 8200, 10500)
  BY DEF FloorMv
<1>4. need = 2 * v + 1100
  OBVIOUS
<1> HIDE DEF need, step
<1> QED BY <1>1, <1>2, <1>3, <1>4 DEF CeilMv, Clamp, AtLeast, AtMost, OnBus

\* So that a clamped request keeps the headroom.
LEMMA Clamped ==
  ASSUME NEW v, OfPack(v), NEW x \in Int
  PROVE  /\ OnBus(Clamp(x, FloorMv(v), CeilMv(v)))
         /\ Headroom(Clamp(x, FloorMv(v), CeilMv(v)), v, 0)
<1> DEFINE lo == FloorMv(v)
           hi == CeilMv(v)
           mv == Clamp(x, lo, hi)
<1>1. /\ OnBus(lo) /\ OnBus(hi) /\ lo <= hi
      /\ lo >= 2 * v + 1100 \/ lo = 10500
      /\ hi <= 2 * v + 2000
  BY Bounds
<1>2. v \in Int /\ lo \in Int /\ hi \in Int /\ 8200 <= lo /\ hi <= 10500
  BY <1>1 DEF OfPack, OnBus
<1>3. mv = Clamp(x, lo, hi)
  OBVIOUS
<1> HIDE DEF lo, hi, mv
<1>4. mv \in Int /\ lo <= mv /\ mv <= hi
  BY <1>1, <1>2, <1>3 DEF Clamp, AtLeast
<1>5. OnBus(mv)
  BY <1>2, <1>4 DEF OnBus
<1>6. Headroom(mv, v, 0)
  BY <1>1, <1>2, <1>4 DEF Headroom
<1> QED BY <1>5, <1>6 DEF mv, lo, hi

\* The fifteen watts are a natural number of milliamperes at any bus voltage.
LEMMA RequestNat ==
  ASSUME NEW mv, OnBus(mv), NEW source \in Nat
  PROVE  RequestMa(mv, source) \in Nat
<1> DEFINE need == DivUp(15000000, mv)
           floor == DivUp(need, 50) * 50
<1>1. mv \in Int /\ 8200 <= mv
  BY DEF OnBus
<1>2. need \in Nat
  BY <1>1 DEF DivUp
<1>3. floor \in Int /\ need <= floor
  BY <1>2, RoundUp
<1>4. floor \in Nat
  BY <1>2, <1>3
<1>5. (source \div 50) * 50 \in Int /\ OpCurrent \in Int
  BY SourceAssumption
<1>6. RequestMa(mv, source) =
        AtLeast(IF source > 0 THEN AtMost(AtLeast(OpCurrent, floor), (source \div 50) * 50)
                              ELSE AtLeast(OpCurrent, floor), floor)
  BY DEF RequestMa
<1> HIDE DEF need, floor
<1> QED BY <1>4, <1>5, <1>6 DEF AtLeast, AtMost

\* At the lowest bus voltage the fifteen watts take the most current.
LEMMA FifteenWatts ==
  ASSUME NEW mv, OnBus(mv)
  PROVE  /\ DivUp(DivUp(15000000, mv), 50) * 50 \in Nat
         /\ DivUp(DivUp(15000000, mv), 50) * 50 <= 1850
<1> DEFINE need == DivUp(15000000, mv)
<1>1. mv \in Int /\ 8200 <= mv
  BY DEF OnBus
<1>2. need \in Nat
  BY <1>1 DEF DivUp
<1>3. need <= 1830
  <2>1. need * mv <= 15000000 + mv - 1
    BY <1>1 DEF DivUp
  <2>2. SUFFICES ASSUME need >= 1831 PROVE FALSE
    BY <1>2
  <2> HIDE DEF need
  <2>3. (need - 1831) * mv >= 0 /\ (need - 1831) * mv = need * mv - 1831 * mv
    BY <1>1, <1>2, <2>2
  <2>4. need * mv \in Int
    BY <1>1, <1>2
  <2> QED BY <1>1, <2>1, <2>3, <2>4
<1> HIDE DEF need
<1>4. DivUp(need, 50) * 50 = ((need + 49) \div 50) * 50
  BY DEF DivUp
<1> QED BY <1>2, <1>3, <1>4 DEF need

\* An APDO with room for them is never asked for more than it offers.
LEMMA RequestWithin ==
  ASSUME NEW mv, OnBus(mv), NEW source \in Nat, 0 < source, NEW offer \in Nat,
         1850 <= offer, source <= offer
  PROVE  RequestMa(mv, source) <= offer
<1> DEFINE floor == DivUp(DivUp(15000000, mv), 50) * 50
           room == (source \div 50) * 50
<1>1. floor \in Nat /\ floor <= 1850
  BY FifteenWatts
<1>2. room \in Int /\ room <= source
  OBVIOUS
<1>3. OpCurrent \in Int
  BY SourceAssumption
<1>4. RequestMa(mv, source) = AtLeast(AtMost(AtLeast(OpCurrent, floor), room), floor)
  BY DEF RequestMa
<1> HIDE DEF floor, room
<1> QED BY <1>1, <1>2, <1>3, <1>4 DEF AtLeast, AtMost

\* A Request of a reading, or of none.
LEMMA AskNat ==
  ASSUME NEW mv, OnBus(mv), NEW ma \in Nat, NEW r \in Readings(ma)
  PROVE  /\ Ask(RequestMa(mv, r), r) \in [ma : Nat, read : BOOLEAN]
         /\ Ask(RequestMa(mv, r), r).ma = RequestMa(mv, r)
         /\ Ask(RequestMa(mv, r), r).read => r = ma /\ 0 < r
<1>1. r \in Nat /\ (r = ma \/ r = 0)
  BY DEF Readings
<1>2. RequestMa(mv, r) \in Nat
  BY <1>1, RequestNat
<1> DEFINE known == r > 0
           request == RequestMa(mv, r)
<1>3. known \in BOOLEAN /\ (known => 0 < r)
  BY <1>1
<1>4. Ask(request, r) = [ma |-> request, read |-> known]
  BY DEF Ask
<1> HIDE DEF known, request
<1>5. /\ [ma |-> request, read |-> known] \in [ma : Nat, read : BOOLEAN]
      /\ [ma |-> request, read |-> known].ma = request
      /\ [ma |-> request, read |-> known].read = known
  BY <1>2, <1>3, Zenon DEF request
<1> QED BY <1>1, <1>3, <1>4, <1>5 DEF request

\* What the gauge shows.
LEMMA PackShown == ASSUME NEW v \in Packs PROVE OfPack(v) /\ v \in Int
BY PacksAssumption DEF OfPack

LEMMA Within ==
  ASSUME NEW p \in Int, NEW q \in Int, NEW k \in Int, p - q \in (-k)..k
  PROVE  p - q <= k /\ q - p <= k
OBVIOUS

\* The pack drifts by no more than Drift in a tick.
LEMMA PackMoves ==
  ASSUME pack \in Packs, pack' \in Near
  PROVE  /\ OfPack(pack) /\ pack' \in Packs /\ OfPack(pack')
         /\ pack' - pack <= Drift /\ pack - pack' <= Drift
<1>1. pack' \in Packs /\ pack' - pack \in (-Drift)..Drift
  BY DEF Near
<1>2. OfPack(pack) /\ OfPack(pack') /\ pack \in Int /\ pack' \in Int
  BY <1>1, PackShown
<1>3. Drift \in Int
  BY PacksAssumption
<1>4. pack' - pack <= Drift /\ pack - pack' <= Drift
  BY <1>1, <1>2, <1>3, Within
<1> QED BY <1>1, <1>2, <1>4

\* Bounds and readings are integers.
LEMMA BoundsInt == ASSUME NEW v, OfPack(v) PROVE FloorMv(v) \in Int /\ CeilMv(v) \in Int
<1>1. OnBus(FloorMv(v)) /\ OnBus(CeilMv(v))
  BY Bounds
<1> QED BY <1>1 DEF OnBus

LEMMA BusRead == ASSUME TypeOK, NEW vbus \in BusReadings PROVE vbus \in Int
<1>1. contract.mv \in Int
  BY DEF TypeOK
<1>2. CASE contract.mv > Sustain
  BY <1>2, LinkAssumption DEF BusReadings
<1>3. CASE ~(contract.mv > Sustain)
  <2>1. PICK d \in Droops : vbus = contract.mv - d
    BY <1>3 DEF BusReadings
  <2>2. d \in Int
    BY LinkAssumption
  <2> QED BY <1>1, <2>1, <2>2
<1> QED BY <1>2, <1>3

\* A headroom wears off as the pack moves.
LEMMA HeadroomWears ==
  ASSUME NEW mv \in Int, NEW v \in Int, NEW w \in Int, NEW slack \in Int, NEW worn \in Int,
         v - w <= Drift, w - v <= Drift, worn = slack + 2 * Drift, Headroom(mv, v, slack)
  PROVE  Headroom(mv, w, worn)
BY PacksAssumption DEF Headroom

--------------------------------------------------------------------------------
(* The loop.                                                                *)

LEMMA LoopInit == Init => LoopInv
<1> SUFFICES ASSUME Init PROVE LoopInv
  OBVIOUS
<1>1. contract \in [mv : Nat, ma : Nat]
  BY DEF Init, NoContract
<1>2. active = FALSE /\ asked \in [ma : Nat, read : BOOLEAN]
  BY DEF Init, Ask
<1>3. TypeOK
  <2>1. attached \in BOOLEAN /\ chg_on \in BOOLEAN /\ fast_charge \in BOOLEAN /\ active \in BOOLEAN
    BY Zenon DEF Init
  <2> QED BY <1>1, <1>2, <2>1 DEF Init, TypeOK
<1> QED BY <1>2, <1>3 DEF LoopInv, Followed

\* What a stop leaves, whichever way it came.
LEMMA RestoreKeeps ==
  ASSUME LoopInv, Restore, pack' \in Near, attached' \in BOOLEAN, fast_charge' \in BOOLEAN,
         src_ma' \in Nat, target_mv' \in Nat, asked' \in [ma : Nat, read : BOOLEAN]
  PROVE  LoopInv'
<1>1. /\ active' = FALSE /\ chg_on' = FALSE /\ contract' = [mv |-> 0, ma |-> 0]
      /\ pps_ticks' = 0 /\ cv_ticks' = 0 /\ sat_ticks' = 0 /\ last_vbus' = 0
      /\ pegged' = 0
  BY DEF Restore, NoContract
<1>2. contract' \in [mv : Nat, ma : Nat] /\ pack' \in Packs
  BY <1>1 DEF Near
<1>3. active' \in BOOLEAN /\ chg_on' \in BOOLEAN
  BY <1>1, Zenon
<1>4. TypeOK'
  BY <1>1, <1>2, <1>3 DEF TypeOK
<1> QED BY <1>1, <1>4 DEF LoopInv, Followed

\* What the loop asks for next is within the bounds of the pack it has read.
LEMMA RegulateResult ==
  ASSUME TypeOK, NEW vbus \in BusReadings, NEW ibus
  PROVE  /\ OnBus(Regulate(pack, ibus, vbus))
         /\ Headroom(Regulate(pack, ibus, vbus), pack, 0)
<1>1. OfPack(pack) /\ vbus \in Int /\ target_mv \in Nat
  BY PackShown, BusRead DEF TypeOK
<1>2. FloorMv(pack) \in Int /\ CeilMv(pack) \in Int
  BY <1>1, BoundsInt
<1>3. Clamp(vbus + 40, FloorMv(pack), CeilMv(pack)) \in Int
  BY <1>1, <1>2 DEF Clamp, AtLeast
<1>4. PICK x \in Int : Regulate(pack, ibus, vbus) = Clamp(x, FloorMv(pack), CeilMv(pack))
  BY <1>1, <1>3 DEF Regulate
<1> QED BY <1>1, <1>4, Clamped

\* A tick that goes on: types of what it computes, and its clamped request.
LEMMA RegulatedResult ==
  ASSUME TypeOK, NEW vbus \in BusReadings, NEW ibus \in Currents, Regulated(ibus, vbus)
  PROVE  /\ OnBus(target_mv') /\ Headroom(target_mv', pack, 0)
         /\ sat_ticks' \in 0..7 /\ cv_ticks' \in 0..2 /\ last_vbus' \in Int /\ pegged' \in 0..9
<1>1. /\ ~HandsOff(ibus) /\ target_mv' = Regulate(pack, ibus, vbus)
      /\ sat_ticks' = CountSat(pack, ibus, vbus)
      /\ cv_ticks' = (IF Tapered(ibus) THEN cv_ticks + 1 ELSE 0)
      /\ last_vbus' = vbus
      /\ pegged' = IF Short(pack, ibus) /\ target_mv' = CeilMv(pack) THEN AtMost(pegged + 1, 9) ELSE 0
  BY DEF Regulated
<1>2. vbus \in Int
  BY BusRead
<1>4. OnBus(target_mv') /\ Headroom(target_mv', pack, 0)
  BY <1>1, RegulateResult
<1>5. sat_ticks' \in 0..7
  BY <1>1 DEF CountSat, Saturated, TypeOK
<1>6. cv_ticks' \in 0..2 /\ pegged' \in 0..9
  BY <1>1 DEF HandsOff, AtMost, TypeOK
<1> QED BY <1>1, <1>2, <1>4, <1>5, <1>6

\* A quiet tick: the Request is a tick older, and so is the headroom.
LEMMA TickQuietKeeps == LoopInv /\ TickQuiet => LoopInv'
<1> SUFFICES ASSUME LoopInv, TickQuiet PROVE LoopInv'
  OBVIOUS
<1>1. PICK vbus \in BusReadings, ibus \in Currents : Regulated(ibus, vbus)
  BY DEF TickQuiet
<1>2. /\ active /\ pps_ticks = 0 /\ pps_ticks' = 1
      /\ UNCHANGED <<attached, src_ma, fast_charge, contract, active, chg_on, asked>>
      /\ pack' \in Near /\ TypeOK
  BY DEF TickQuiet, RefreshDue, LoopInv, TypeOK, port
<1>3. /\ OnBus(target_mv')
      /\ sat_ticks' \in 0..7 /\ cv_ticks' \in 0..2 /\ last_vbus' \in Int /\ pegged' \in 0..9
  BY <1>1, <1>2, RegulatedResult
<1>5. /\ OfPack(pack) /\ pack' \in Packs /\ OfPack(pack')
      /\ pack' - pack <= Drift /\ pack - pack' <= Drift
  BY <1>2, PackMoves DEF TypeOK
<1>7. TypeOK'
  <2>1. target_mv' \in Nat
    BY <1>3 DEF OnBus
  <2>2. attached' \in BOOLEAN /\ chg_on' \in BOOLEAN /\ fast_charge' \in BOOLEAN /\ active' \in BOOLEAN
    BY <1>2, Zenon DEF TypeOK
  <2>3. /\ src_ma' \in Nat /\ contract' \in [mv : Nat, ma : Nat]
        /\ asked' \in [ma : Nat, read : BOOLEAN]
    BY <1>2 DEF TypeOK
  <2>4. pps_ticks' \in 0..1
    BY <1>2
  <2> QED BY <1>3, <1>5, <2>1, <2>2, <2>3, <2>4 DEF TypeOK
<1>8. contract'.mv # 0 => Headroom(contract'.mv, pack', Slack')
  <2> SUFFICES ASSUME contract.mv # 0 PROVE Headroom(contract.mv, pack', 4 * Drift)
    BY <1>2 DEF Slack
  <2>1. Headroom(contract.mv, pack, 2 * Drift)
    BY <1>2 DEF LoopInv, Followed, Slack
  <2>2. /\ 2 * Drift \in Int /\ 4 * Drift \in Int
        /\ 4 * Drift = 2 * Drift + 2 * Drift
    BY PacksAssumption
  <2>3. contract.mv \in Int /\ pack \in Int /\ pack' \in Int
    BY <1>2, <1>5 DEF TypeOK, OfPack
  <2> QED BY <1>5, <2>1, <2>2, <2>3, HeadroomWears
<1> QED BY <1>2, <1>7, <1>8 DEF LoopInv, Followed

\* A contract agreed in this tick for the pack of this tick.
LEMMA FreshHeadroom ==
  ASSUME TypeOK, pack' \in Near, NEW mv, OnBus(mv), Headroom(mv, pack, 0)
  PROVE  Headroom(mv, pack', 2 * Drift)
<1>1. /\ pack \in Int /\ pack' \in Int /\ pack' - pack <= Drift /\ pack - pack' <= Drift
  BY PackMoves DEF TypeOK, OfPack
<1>2. 0 \in Int /\ 2 * Drift \in Int /\ 2 * Drift = 0 + 2 * Drift
  BY PacksAssumption
<1>3. mv \in Int
  BY DEF OnBus
<1> QED BY <1>1, <1>2, <1>3, HeadroomWears

LEMMA TickRefreshKeeps == LoopInv /\ TickRefresh => LoopInv'
<1> SUFFICES ASSUME LoopInv, TickRefresh PROVE LoopInv'
  OBVIOUS
<1>1. PICK vbus \in BusReadings, ibus \in Currents : Regulated(ibus, vbus)
  BY DEF TickRefresh
<1>2. /\ active /\ src_ma' \in SourceMa
      /\ \E r \in Readings(src_ma') : asked' = Ask(RequestMa(target_mv', r), r)
      /\ contract' = [mv |-> target_mv', ma |-> asked'.ma]
      /\ pps_ticks' = 0
      /\ pack' \in Near /\ UNCHANGED <<attached, fast_charge, active, chg_on>> /\ TypeOK
  BY DEF TickRefresh, TrimsInFlight, LoopInv
<1>3. /\ OnBus(target_mv') /\ Headroom(target_mv', pack, 0)
      /\ sat_ticks' \in 0..7 /\ cv_ticks' \in 0..2 /\ last_vbus' \in Int /\ pegged' \in 0..9
  BY <1>1, <1>2, RegulatedResult
<1>4. src_ma' \in Nat /\ asked' \in [ma : Nat, read : BOOLEAN]
  BY <1>2, <1>3, AskNat, SourceAssumption
<1>6. /\ contract' \in [mv : Nat, ma : Nat] /\ contract'.mv = target_mv' /\ pack' \in Packs
      /\ target_mv' \in Nat
  BY <1>2, <1>3, <1>4 DEF Near, OnBus
<1>7. TypeOK'
  BY <1>2, <1>3, <1>4, <1>6 DEF TypeOK
<1>8. Headroom(contract'.mv, pack', Slack')
  BY <1>2, <1>3, <1>6, FreshHeadroom DEF Slack
<1> QED BY <1>2, <1>7, <1>8 DEF LoopInv, Followed

LEMMA StartKeeps == LoopInv /\ Start => LoopInv'
<1> SUFFICES ASSUME LoopInv, Start PROVE LoopInv'
  OBVIOUS
<1>1. /\ TypeOK /\ target_mv' = FloorMv(pack) /\ pack' \in Near
      /\ active' = TRUE /\ chg_on' = TRUE /\ contract' = [mv |-> target_mv', ma |-> asked'.ma]
      /\ pps_ticks' = 0 /\ cv_ticks' = 0 /\ sat_ticks' = 0 /\ last_vbus' = 0
      /\ pegged' = 0
      /\ UNCHANGED <<attached, src_ma, fast_charge>>
  BY DEF Start, LoopInv, port
<1>2. OfPack(pack) /\ OnBus(target_mv')
  BY <1>1, PackShown, Bounds DEF TypeOK
<1>3. asked' \in [ma : Nat, read : BOOLEAN]
  <2>1. PICK f \in FixedMa : \E r \in Readings(f) : asked' = Ask(RequestMa(FloorMv(pack), r), r)
    BY DEF Start
  <2> QED BY <1>1, <1>2, <2>1, AskNat, SourceAssumption
<1>4. Headroom(target_mv', pack, 0)
  <2>1. /\ FloorMv(pack) <= CeilMv(pack) /\ CeilMv(pack) <= 2 * pack + 2000
        /\ FloorMv(pack) >= 2 * pack + 1100 \/ FloorMv(pack) = 10500
    BY <1>2, Bounds
  <2>2. FloorMv(pack) \in Int /\ CeilMv(pack) \in Int /\ FloorMv(pack) <= 10500 /\ pack \in Int
    BY <1>1, <1>2, BoundsInt DEF OnBus, OfPack
  <2> QED BY <1>1, <2>1, <2>2 DEF Headroom
<1>5. /\ contract' \in [mv : Nat, ma : Nat] /\ contract'.mv = target_mv' /\ pack' \in Packs
      /\ target_mv' \in Nat
  BY <1>1, <1>2, <1>3 DEF Near, OnBus
<1>6. active' \in BOOLEAN /\ chg_on' \in BOOLEAN
  BY <1>1, Zenon
<1>7. TypeOK'
  BY <1>1, <1>2, <1>3, <1>5, <1>6 DEF TypeOK
<1>8. Headroom(contract'.mv, pack', Slack')
  BY <1>1, <1>2, <1>4, <1>5, FreshHeadroom DEF Slack
<1> QED BY <1>1, <1>7, <1>8 DEF LoopInv, Followed

LEMMA StartFailsKeeps == LoopInv /\ StartFails => LoopInv'
<1> SUFFICES ASSUME LoopInv, StartFails PROVE LoopInv'
  OBVIOUS
<1>1. /\ TypeOK /\ active = FALSE /\ pack' \in Near
      /\ contract' = [mv |-> 0, ma |-> 0] /\ chg_on' = FALSE
      /\ pps_ticks' = 0 /\ cv_ticks' = 0 /\ sat_ticks' = 0 /\ last_vbus' = 0
      /\ pegged' = 0
      /\ UNCHANGED <<attached, src_ma, fast_charge, active, target_mv>>
  BY DEF StartFails, LoopInv, port, NoContract, TypeOK
<1>2. asked' \in [ma : Nat, read : BOOLEAN]
  <2>1. CASE UNCHANGED asked
    BY <1>1, <2>1 DEF TypeOK
  <2>2. CASE \E f \in FixedMa : \E r \in Readings(f) : asked' = Ask(RequestMa(FloorMv(pack), r), r)
    <3>1. OnBus(FloorMv(pack))
      BY <1>1, PackShown, Bounds DEF TypeOK
    <3> QED BY <2>2, <3>1, AskNat, SourceAssumption
  <2> QED BY <2>1, <2>2 DEF StartFails
<1>3. contract' \in [mv : Nat, ma : Nat] /\ pack' \in Packs
  BY <1>1 DEF Near
<1>4. chg_on' \in BOOLEAN
  BY <1>1, Zenon
<1>5. TypeOK'
  BY <1>1, <1>2, <1>3, <1>4 DEF TypeOK
<1> QED BY <1>1, <1>5 DEF LoopInv, Followed

\* Stops of every kind.
LEMMA StopsKeep == LoopInv /\ (Stop \/ HandOff \/ TickLost) => LoopInv'
<1> SUFFICES ASSUME LoopInv, Stop \/ HandOff \/ TickLost PROVE LoopInv'
  OBVIOUS
<1>1. /\ TypeOK /\ Restore /\ pack' \in Near /\ UNCHANGED <<attached, fast_charge>>
  BY DEF Stop, HandOff, TickLost, LoopInv, port
<1>2. CASE Stop \/ HandOff
  <2>1. UNCHANGED <<src_ma, target_mv, asked>>
    BY <1>2 DEF Stop, HandOff, port
  <2> QED BY <1>1, <2>1, RestoreKeeps DEF TypeOK
<1>3. CASE TickLost
  <2>1. PICK vbus \in BusReadings, ibus \in Currents : target_mv' = Regulate(pack, ibus, vbus)
    BY <1>3 DEF TickLost
  <2>4. OnBus(target_mv')
    BY <1>1, <2>1, RegulateResult
  <2>5. src_ma' \in Nat /\ asked' \in [ma : Nat, read : BOOLEAN]
    <3>1. CASE UNCHANGED <<src_ma, asked>>
      BY <1>1, <3>1 DEF TypeOK
    <3>2. CASE TrimsInFlight /\ \E r \in Readings(src_ma') : asked' = Ask(RequestMa(target_mv', r), r)
      <4>1. src_ma' \in Nat
        BY <3>2, SourceAssumption DEF TrimsInFlight
      <4> QED BY <2>4, <3>2, <4>1, AskNat
    <3> QED BY <1>3, <3>1, <3>2 DEF TickLost
  <2>7. /\ LoopInv /\ Restore /\ pack' \in Near /\ target_mv' \in Nat
        /\ attached' \in BOOLEAN /\ fast_charge' \in BOOLEAN
    BY <1>1, <2>4 DEF TypeOK, OnBus
  <2> QED BY <2>5, <2>7, RestoreKeeps
<1> QED BY <1>2, <1>3

\* The cable, the chip, the switch, and the turns without work.
LEMMA WorldKeeps ==
  LoopInv /\ (Rest \/ Plug \/ Unplug \/ Trim \/ ChipStops \/ SwitchOff) => LoopInv'
<1> SUFFICES ASSUME LoopInv, Rest \/ Plug \/ Unplug \/ Trim \/ ChipStops \/ SwitchOff
             PROVE  LoopInv'
  OBVIOUS
<1>1. TypeOK /\ UNCHANGED <<active, target_mv, ticks, history>>
  BY DEF LoopInv, Rest, Plug, Unplug, Trim, ChipStops, SwitchOff
<1>2. /\ attached' \in BOOLEAN /\ chg_on' \in BOOLEAN /\ fast_charge' \in BOOLEAN
      /\ src_ma' \in Nat
  <2>1. /\ attached \in BOOLEAN /\ chg_on \in BOOLEAN /\ fast_charge \in BOOLEAN /\ src_ma \in Nat
    BY <1>1 DEF TypeOK
  <2>2. attached' \in {attached, TRUE, FALSE} /\ chg_on' \in {chg_on, FALSE}
    BY DEF Rest, Plug, Unplug, Trim, ChipStops, SwitchOff, port
  <2>3. fast_charge' \in {fast_charge, FALSE}
    BY DEF Rest, Plug, Unplug, Trim, ChipStops, SwitchOff, port
  <2>4. src_ma' = src_ma \/ src_ma' \in SourceMa \/ src_ma' = 0
    BY DEF Rest, Plug, Unplug, Trim, ChipStops, SwitchOff, port
  <2>5. attached' \in BOOLEAN /\ chg_on' \in BOOLEAN /\ fast_charge' \in BOOLEAN
    BY <2>1, <2>2, <2>3, Zenon
  <2>6. src_ma \in Nat /\ 0 \in Nat /\ SourceMa \subseteq Nat
    BY <2>1, SourceAssumption
  <2>7. src_ma' \in Nat
    BY <2>4, <2>6
  <2> QED BY <2>5, <2>7
<1>3. /\ pack' \in Packs /\ (active => pack' = pack)
  BY <1>1 DEF Rest, Plug, Unplug, Trim, ChipStops, SwitchOff, Near, TypeOK
<1>4. contract' = contract \/ contract' = [mv |-> 0, ma |-> 0]
  BY DEF Rest, Plug, Unplug, Trim, ChipStops, SwitchOff, NoContract
<1>5. contract' \in [mv : Nat, ma : Nat] /\ (contract'.mv # 0 => contract' = contract)
  BY <1>1, <1>4 DEF TypeOK
<1>6. TypeOK'
  BY <1>1, <1>2, <1>3, <1>5 DEF TypeOK, ticks, history
<1>7. Followed'
  BY <1>1, <1>3, <1>5 DEF LoopInv, Followed, ticks, history, Slack
<1> QED BY <1>6, <1>7 DEF LoopInv

LEMMA LoopKeeps == LoopInv /\ [Next]_vars => LoopInv'
<1> SUFFICES ASSUME LoopInv, [Next]_vars PROVE LoopInv'
  OBVIOUS
<1>1. CASE Next
  BY <1>1, StartKeeps, StartFailsKeeps, StopsKeep, TickQuietKeeps, TickRefreshKeeps, WorldKeeps
     DEF Next, Work
<1>2. CASE UNCHANGED vars
  BY <1>2 DEF vars, LoopInv, TypeOK, Followed, Slack
<1> QED BY <1>1, <1>2

LEMMA LoopAlways == Spec => []LoopInv
BY LoopInit, LoopKeeps, PTL DEF Spec

\* The contract follows the pack for every drift, cable and source (301-304).
THEOREM HeadroomKeptAlways == Spec => []HeadroomKept
<1>1. LoopInv => HeadroomKept
  <2> SUFFICES ASSUME LoopInv, active, contract.mv # 0
               PROVE  /\ contract.mv + 4 * Drift >= 2 * pack + 1100 \/ contract.mv = 10500
                      /\ contract.mv <= 2 * pack + 2000 + 4 * Drift
                      /\ contract.mv <= 10500
    BY DEF HeadroomKept
  <2>1. Headroom(contract.mv, pack, Slack)
    BY DEF LoopInv, Followed
  <2>2. Slack \in Int /\ Slack <= 4 * Drift
    BY PacksAssumption DEF Slack
  <2>3. contract.mv \in Int /\ pack \in Int /\ Drift \in Int
    BY PacksAssumption DEF LoopInv, TypeOK
  <2> QED BY <2>1, <2>2, <2>3 DEF Headroom
<1> QED BY <1>1, LoopAlways, PTL

\* The APDO offers fifteen watts and the current a start goes by: below them the
\* floor of 293-298 asks for more than it advertises.
OfferSuffices == /\ \A m \in SourceMa : 1850 <= m
                 /\ \A f \in FixedMa, m \in SourceMa : 0 < f /\ f <= m

\* While the source is attached its APDO is one of those it may advertise.
Advertised == attached => src_ma \in SourceMa

LEMMA AdvertisedKeeps == Advertised /\ [Next]_vars => Advertised'
<1> SUFFICES ASSUME Advertised, [Next]_vars PROVE Advertised'
  OBVIOUS
<1>1. CASE Plug \/ Trim \/ Unplug
  BY <1>1 DEF Plug, Trim, Unplug, Advertised
<1>2. CASE ChipStops \/ SwitchOff \/ Rest \/ Start \/ StartFails \/ Stop \/ HandOff \/ TickQuiet
  BY <1>2 DEF ChipStops, SwitchOff, Rest, Start, StartFails, Stop, HandOff, TickQuiet, port,
       Advertised
<1>3. CASE TickRefresh \/ TickLost
  <2>1. src_ma' = src_ma \/ TrimsInFlight
    BY <1>3 DEF TickRefresh, TickLost
  <2> QED BY <1>3, <2>1 DEF TickRefresh, TickLost, TrimsInFlight, Advertised
<1>4. CASE UNCHANGED vars
  BY <1>4 DEF vars, Advertised
<1> QED BY <1>1, <1>2, <1>3, <1>4 DEF Next, Work

\* An APDO with room for fifteen watts on the lowest bus voltage, and for the
\* current of the fixed contract the start goes by, is never asked for more than
\* it still offers by a Request that knows what it offers, for every pack, drift,
\* cable and fault and every trim, in flight or not (282-289, 856-868).
THEOREM ApdoRespectedAlways == ASSUME OfferSuffices PROVE Spec => ApdoRespected
<1>1. Init => Advertised
  BY Zenon DEF Init, Advertised
<1>2. ASSUME LoopInv, Advertised, [Next]_vars
      PROVE  [asked' # asked /\ asked'.read => asked'.ma <= src_ma']_vars
  <2> SUFFICES ASSUME Next, asked' # asked, asked'.read PROVE asked'.ma <= src_ma'
    BY <1>2
  <2>1. OfPack(pack)
    BY <1>2, PackShown DEF LoopInv, TypeOK
  <2>2. CASE Start \/ StartFails
    <3>1. /\ attached /\ src_ma' = src_ma
          /\ \E f \in FixedMa : \E r \in Readings(f) : asked' = Ask(RequestMa(FloorMv(pack), r), r)
      BY <2>2 DEF Start, StartFails, Eligible, port
    <3>8. PICK f \in FixedMa : \E r \in Readings(f) : asked' = Ask(RequestMa(FloorMv(pack), r), r)
      BY <3>1
    <3>2. PICK r \in Readings(f) : asked' = Ask(RequestMa(FloorMv(pack), r), r)
      BY <3>8
    <3>3. src_ma \in SourceMa
      BY <1>2, <3>1 DEF Advertised
    <3>4. 1850 <= src_ma /\ f <= src_ma
      BY <3>3 DEF OfferSuffices
    <3>5. f \in Nat /\ src_ma \in Nat
      BY <3>3, SourceAssumption
    <3>6. OnBus(FloorMv(pack))
      BY <2>1, Bounds
    <3>7. asked'.ma = RequestMa(FloorMv(pack), r) /\ r = f /\ 0 < r
      BY <3>2, <3>5, <3>6, AskNat
    <3> QED BY <3>1, <3>4, <3>5, <3>6, <3>7, RequestWithin
  <2>3. CASE TickRefresh \/ TickLost
    <3>1. PICK vbus \in BusReadings, ibus \in Currents :
            ~MustStop(vbus) /\ target_mv' = Regulate(pack, ibus, vbus)
      BY <2>3 DEF TickRefresh, TickLost, Regulated
    <3>2. TrimsInFlight /\ \E r \in Readings(src_ma') : asked' = Ask(RequestMa(target_mv', r), r)
      BY <2>3 DEF TickRefresh, TickLost
    <3>3. PICK r \in Readings(src_ma') : asked' = Ask(RequestMa(target_mv', r), r)
      BY <3>2
    <3>4. src_ma' \in SourceMa
      BY <3>2 DEF TrimsInFlight
    <3>5. src_ma' \in Nat /\ 1850 <= src_ma'
      BY <3>4, SourceAssumption DEF OfferSuffices
    <3>6. OnBus(target_mv')
      BY <1>2, <3>1, RegulateResult DEF LoopInv
    <3>7. asked'.ma = RequestMa(target_mv', r) /\ r = src_ma' /\ 0 < r
      BY <3>3, <3>5, <3>6, AskNat
    <3> QED BY <3>5, <3>6, <3>7, RequestWithin
  <2>4. CASE Stop \/ HandOff \/ TickQuiet \/ Rest \/ Plug \/ Unplug \/ Trim \/ ChipStops \/ SwitchOff
    BY <2>4 DEF Stop, HandOff, TickQuiet, Rest, Plug, Unplug, Trim, ChipStops, SwitchOff, history
  <2> QED BY <2>2, <2>3, <2>4 DEF Next, Work
<1> QED BY <1>1, <1>2, AdvertisedKeeps, LoopAlways, PTL DEF Spec, ApdoRespected

--------------------------------------------------------------------------------
(* Suspend and the keepalive.                                               *)

SleepTypeOK ==
  /\ pump \in PumpType /\ due \in 0..30 /\ alarm \in -1..(KEEPALIVE_SEC + Latency)
  /\ patience \in Patience
  /\ asleep \in BOOLEAN /\ keepalive_pending \in BOOLEAN /\ ws \in BOOLEAN
  /\ hot \in BOOLEAN /\ interrupted \in BOOLEAN

\* Only a contract nobody renewed in time has lapsed.
Lapsed == pump.active /\ ~pump.pps => pump.age > patience

\* The alarm's wake is under the wakeup source until the tail has run, so that
\* the next suspend starts from the age an ordinary tick leaves.
Held == /\ keepalive_pending => ws
        /\ asleep => ~ws

Regular == pump.active /\ ~interrupted
Budget ==
  /\ Regular /\ asleep => alarm >= 0 /\ pump.age + alarm + due <= KEEPALIVE_SEC + Latency + 2
  /\ Regular /\ ~asleep /\ keepalive_pending => pump.age + due <= KEEPALIVE_SEC + Latency + 2
  /\ Regular /\ ~asleep /\ ~keepalive_pending => pump.age + due <= 1 + pump.ticks

SleepInv == SleepTypeOK /\ Lapsed /\ Held /\ Budget

--------------------------------------------------------------------------------
(* What the helpers of PumpSleep return.                                    *)

\* sm5440_restore_switching() and sm5440_start() leave a pump of the type.
LEMMA FixedPumps == Switching \in PumpType /\ Started \in PumpType
BY SleepAssumption DEF Switching, Started, PumpType, WDT_30S

\* The fields of a pump, without its record type.
LEMMA PumpFields ==
  ASSUME NEW p \in PumpType
  PROVE  /\ p.active \in BOOLEAN /\ p.runs \in BOOLEAN /\ p.pps \in BOOLEAN
         /\ p.age \in 0..AgeCap /\ p.ticks \in 0..1 /\ p.unfed \in 0..(WDT_30S + 1)
BY DEF PumpType

\* Servicing the watchdog, counting the tick and a Request change a field each.
LEMMA FedFields ==
  ASSUME NEW p \in PumpType
  PROVE  /\ Fed(p) \in PumpType
         /\ Fed(p).active = p.active /\ Fed(p).pps = p.pps
         /\ Fed(p).age = p.age /\ Fed(p).ticks = p.ticks
BY SleepAssumption DEF Fed, PumpType, WDT_30S
LEMMA TickedFields ==
  ASSUME NEW p \in PumpType, NEW n \in 0..1
  PROVE  /\ Ticked(p, n) \in PumpType
         /\ Ticked(p, n).active = p.active /\ Ticked(p, n).pps = p.pps
         /\ Ticked(p, n).age = p.age /\ Ticked(p, n).ticks = n
<1> DEFINE f == Fed(p)
<1>1. f \in PumpType /\ f.active = p.active /\ f.pps = p.pps /\ f.age = p.age
  BY FedFields
<1>2. Ticked(p, n) = [f EXCEPT !.ticks = n]
  BY DEF Ticked
<1> HIDE DEF f
<1> QED BY <1>1, <1>2, SleepAssumption DEF PumpType
LEMMA RenewedFields ==
  ASSUME NEW p \in PumpType
  PROVE  /\ Renewed(p) \in PumpType
         /\ Renewed(p).active = p.active /\ Renewed(p).pps = p.pps
         /\ Renewed(p).age = 0 /\ Renewed(p).ticks = p.ticks
BY SleepAssumption DEF Renewed, PumpType, WDT_30S

\* The tail of the keepalive: the pump as it was, handed back, or renewed.
LEMMA TailResult ==
  ASSUME pump \in PumpType, Lapsed, NEW p \in KeepaliveTail(pump)
  PROVE  /\ p \in PumpType
         /\ p = Switching \/ (p.pps = pump.pps /\ p.ticks = pump.ticks /\ p.active = pump.active)
         /\ p.age = pump.age \/ p.age = 0
         /\ keepalive_pending /\ p.active => p.age = 0
         /\ p.active /\ ~p.pps => p.age > patience
<1>1. p \in {pump, Switching} \/ (pump.pps /\ p = Renewed(Fed(pump)))
  BY FedFields DEF KeepaliveTail, Renews
<1>2. CASE p = pump
  <2>1. keepalive_pending /\ p.active => p.age = 0
    <3> SUFFICES ASSUME keepalive_pending, p.active PROVE p.age = 0
      OBVIOUS
    <3>1. p = Switching \/ p = Renewed(Fed(pump))
      BY <1>2 DEF KeepaliveTail, Renews
    <3> QED BY <3>1, FedFields, RenewedFields DEF Switching
  <2> QED BY <1>2, <2>1 DEF Lapsed
<1>3. CASE p = Switching
  BY <1>3, FixedPumps DEF Switching
<1>4. CASE pump.pps /\ p = Renewed(Fed(pump))
  BY <1>4, FedFields, RenewedFields
<1> QED BY <1>1, <1>2, <1>3, <1>4

\* The tick: a contract left in force is either renewed or one tick older.
LEMMA TickResult ==
  ASSUME NEW p \in PumpType, NEW q \in Tick(p), p.active /\ ~p.pps => p.age > patience
  PROVE  /\ q \in PumpType
         /\ q.active /\ ~q.pps => q.age > patience
         /\ q.active => q.age = 0 \/ (p.active /\ p.ticks = 0 /\ q.ticks = 1 /\ q.age = p.age)
<1>1. \/ q \in {Switching, Started}
      \/ p.active /\ p.ticks = 0 /\ q = Ticked(p, 1)
      \/ p.pps /\ q = Renewed(Ticked(p, 0))
  <2>1. Ticked(p, 0).pps = p.pps
    BY TickedFields
  <2>2. ~p.active => q \in {Switching, Started}
    BY DEF Tick
  <2>3. p.active /\ q # Switching /\ p.ticks = 0 => q = Ticked(p, 1)
    BY DEF Tick
  <2>4. p.active /\ q # Switching /\ p.ticks # 0 => q \in Renews(Ticked(p, 0))
    BY DEF Tick
  <2>5. p.active /\ q # Switching /\ p.ticks # 0 => p.pps /\ q = Renewed(Ticked(p, 0))
    BY <2>1, <2>4 DEF Renews
  <2> QED BY <2>2, <2>3, <2>5
<1>2. CASE q \in {Switching, Started}
  <2>1. q \in PumpType
    BY <1>2, FixedPumps
  <2>2. CASE q = Switching
    BY <2>1, <2>2 DEF Switching
  <2>3. CASE q = Started
    BY <2>1, <2>3 DEF Started
  <2> QED BY <1>2, <2>2, <2>3
<1>3. CASE p.active /\ p.ticks = 0 /\ q = Ticked(p, 1)
  BY <1>3, TickedFields
<1>4. CASE p.pps /\ q = Renewed(Ticked(p, 0))
  <2>1. /\ Ticked(p, 0) \in PumpType /\ Ticked(p, 0).pps = p.pps
    BY TickedFields
  <2> QED BY <1>4, <2>1, RenewedFields
<1> QED BY <1>1, <1>2, <1>3, <1>4

\* A second makes the Request at most a second older and touches no counter.
LEMMA PassedResult ==
  ASSUME pump \in PumpType, Lapsed, patience \in Patience
  PROVE  /\ Passed(pump) \in PumpType
         /\ Passed(pump).active = pump.active /\ Passed(pump).ticks = pump.ticks
         /\ Passed(pump).age <= pump.age + 1
         /\ Passed(pump).active /\ ~Passed(pump).pps => Passed(pump).age > patience
<1> DEFINE age == AtMostOf(pump.age + 1, AgeCap)
           unfed == AtMostOf(pump.unfed + 1, WDT_30S + 1)
           pps == pump.pps /\ age <= patience
           next == [pump EXCEPT !.age = age, !.unfed = unfed, !.pps = pps,
                                !.runs = pump.runs /\ pps /\ unfed <= WDT_30S]
<1>1. /\ age \in 0..AgeCap /\ unfed \in 0..(WDT_30S + 1) /\ age <= pump.age + 1
      /\ pump.age > patience => age > patience
  BY PumpFields, SleepAssumption DEF AtMostOf, WDT_30S
<1>2. CASE ~pump.active
  BY <1>2, PumpFields, SleepAssumption DEF Passed
<1>3. CASE pump.active
  <2>1. Passed(pump) = next
    BY <1>3 DEF Passed
  <2>2. pps \in BOOLEAN /\ (pump.runs /\ pps /\ unfed <= WDT_30S) \in BOOLEAN
    OBVIOUS
  <2> HIDE DEF age, unfed, pps
  <2>3. /\ next \in PumpType /\ next.active = pump.active /\ next.ticks = pump.ticks
        /\ next.age = age /\ next.pps = pps
    BY <1>1, <2>2 DEF PumpType
  <2>4. pump.active /\ ~pps => age > patience
    BY <1>1, PumpFields, SleepAssumption DEF Lapsed, pps
  <2> QED BY <1>1, <2>1, <2>3, <2>4
<1> QED BY <1>2, <1>3

--------------------------------------------------------------------------------
(* The invariant is kept.                                                   *)

\* probe() starts with the switching charger.
LEMMA SleepInitOK == SleepInit => SleepInv
<1> SUFFICES ASSUME SleepInit PROVE SleepInv
  OBVIOUS
<1>1. SleepTypeOK
  <2>1. pump \in PumpType
    BY FixedPumps DEF SleepInit
  <2>2. due \in 0..30 /\ alarm \in -1..(KEEPALIVE_SEC + Latency)
    BY SleepAssumption DEF SleepInit, KEEPALIVE_SEC, Unarmed
  <2> QED BY <2>1, <2>2 DEF SleepInit, SleepTypeOK
<1>2. ~pump.active
  BY DEF SleepInit, Switching
<1>3. Lapsed /\ Held /\ Budget
  BY <1>2 DEF SleepInit, Lapsed, Held, Budget, Regular
<1> QED BY <1>1, <1>3 DEF SleepInv

\* The work item, with its tail and its tick (644-915).
LEMMA WorkOK == SleepInv /\ KeepaliveWork => SleepInv'
<1> SUFFICES ASSUME SleepInv, KeepaliveWork PROVE SleepInv'
  OBVIOUS
<1>1. PICK p \in KeepaliveTail(pump) : pump' \in Tick(p)
  BY DEF KeepaliveWork
<1>2. pump \in PumpType /\ Lapsed
  BY DEF SleepInv, SleepTypeOK
<1>3. /\ p \in PumpType
      /\ p = Switching \/ (p.pps = pump.pps /\ p.ticks = pump.ticks /\ p.active = pump.active)
      /\ p.age = pump.age \/ p.age = 0
      /\ keepalive_pending /\ p.active => p.age = 0
      /\ p.active /\ ~p.pps => p.age > patience
  BY <1>2, TailResult
<1>4. /\ pump' \in PumpType
      /\ pump'.active /\ ~pump'.pps => pump'.age > patience
      /\ pump'.active => pump'.age = 0
           \/ (p.active /\ p.ticks = 0 /\ pump'.ticks = 1 /\ pump'.age = p.age)
  BY <1>1, <1>3, TickResult
<1>5. /\ ~asleep /\ due = 0 /\ due' = (IF pump'.active THEN 1 ELSE 30)
      /\ keepalive_pending' = FALSE /\ ws' = (ws /\ ~keepalive_pending)
      /\ interrupted' = (interrupted /\ pump'.age > 0)
      /\ asleep' = asleep /\ alarm' = alarm /\ hot' = hot /\ patience' = patience
  BY DEF KeepaliveWork
<1>6. SleepTypeOK'
  <2>1. due' \in 0..30 /\ alarm' \in -1..(KEEPALIVE_SEC + Latency)
    BY <1>5 DEF SleepInv, SleepTypeOK
  <2>2. /\ asleep' \in BOOLEAN /\ keepalive_pending' \in BOOLEAN /\ ws' \in BOOLEAN
        /\ hot' \in BOOLEAN /\ interrupted' \in BOOLEAN /\ patience' \in Patience
    BY <1>5 DEF SleepInv, SleepTypeOK
  <2> QED BY <1>4, <2>1, <2>2 DEF SleepTypeOK
<1>7. Lapsed' /\ Held'
  <2>1. Lapsed'
    BY <1>4, <1>5 DEF Lapsed
  <2>2. Held'
    BY <1>5 DEF Held
  <2> QED BY <2>1, <2>2
<1>8. Budget'
  <2>1. SUFFICES ASSUME pump'.active, ~interrupted' PROVE pump'.age + due' <= 1 + pump'.ticks
    BY <1>5 DEF Budget, Regular
  <2>2. due' = 1 /\ pump'.ticks \in 0..1 /\ pump'.age \in Nat
    BY <1>4, <1>5, <2>1, SleepAssumption DEF PumpType
  <2>3. CASE pump'.age = 0
    BY <2>2, <2>3
  <2>4. CASE pump'.age # 0
    <3>1. p.active /\ p.ticks = 0 /\ pump'.ticks = 1 /\ pump'.age = p.age
      BY <1>4, <2>1, <2>4
    <3>7. p # Switching
      BY <3>1 DEF Switching
    <3>2. p.active = pump.active /\ p.ticks = pump.ticks /\ p.age = pump.age
      BY <1>3, <2>4, <3>1, <3>7
    <3>3. ~keepalive_pending
      BY <1>3, <2>4, <3>1
    <3>5. pump'.age > 0
      BY <2>2, <2>4
    <3>6. ~interrupted
      BY <1>5, <2>1, <3>5
    <3>4. pump.age + due <= 1 + pump.ticks
      BY <1>5, <3>1, <3>2, <3>3, <3>6 DEF SleepInv, Budget, Regular
    <3> QED BY <1>5, <2>2, <3>1, <3>2, <3>4
  <2> QED BY <2>3, <2>4
<1> QED BY <1>6, <1>7, <1>8 DEF SleepInv

\* Suspend starts the alarm on top of what an ordinary tick left (1023-1055).
LEMMA SuspendOK == SleepInv /\ Suspend => SleepInv'
<1> SUFFICES ASSUME SleepInv, Suspend PROVE SleepInv'
  OBVIOUS
<1>1. SleepTypeOK'
  BY SleepAssumption, FixedPumps
     DEF SleepInv, SleepTypeOK, Suspend, Fed, PumpType, WDT_30S, KEEPALIVE_SEC, Unarmed
<1>2. Lapsed' /\ Held'
  BY SleepAssumption DEF SleepInv, SleepTypeOK, Suspend, Lapsed, Held, Fed, Switching, PumpType
<1>3. Budget'
  BY SleepAssumption
     DEF SleepInv, SleepTypeOK, Suspend, Held, Budget, Regular, Fed, Switching, PumpType,
         KEEPALIVE_SEC, Unarmed
<1> QED BY <1>1, <1>2, <1>3 DEF SleepInv

\* The alarm, a missed one, another wake, and the temperature (917-932, 1057-1064).
LEMMA WakesOK == SleepInv /\ (AlarmFires \/ AlarmMissed \/ WakesEarly \/ Warms) => SleepInv'
<1> SUFFICES ASSUME SleepInv, AlarmFires \/ AlarmMissed \/ WakesEarly \/ Warms PROVE SleepInv'
  OBVIOUS
<1>1. /\ pump' = pump /\ due' = due /\ patience' = patience /\ pump \in PumpType
      /\ due \in 0..30 /\ alarm \in -1..(KEEPALIVE_SEC + Latency)
      /\ pump.active \in BOOLEAN /\ pump.age \in 0..AgeCap /\ pump.ticks \in 0..1
  BY PumpFields DEF SleepInv, SleepTypeOK, AlarmFires, AlarmMissed, WakesEarly, Warms
<1>2. SleepTypeOK'
  <2>1. alarm' \in -1..(KEEPALIVE_SEC + Latency)
    BY <1>1, SleepAssumption DEF AlarmFires, AlarmMissed, WakesEarly, Warms, KEEPALIVE_SEC, Unarmed
  <2>2. /\ asleep' \in BOOLEAN /\ keepalive_pending' \in BOOLEAN /\ ws' \in BOOLEAN
        /\ hot' \in BOOLEAN /\ interrupted' \in BOOLEAN /\ patience' \in Patience
    BY <1>1 DEF SleepInv, SleepTypeOK, AlarmFires, AlarmMissed, WakesEarly, Warms
  <2> QED BY <1>1, <2>1, <2>2 DEF SleepTypeOK
<1>3. Lapsed'
  BY <1>1 DEF SleepInv, Lapsed
<1>4. Held'
  BY DEF SleepInv, Held, AlarmFires, AlarmMissed, WakesEarly, Warms
<1>5. Budget'
  <2>1. CASE AlarmFires
    <3>1. Regular /\ asleep => pump.age + 0 + due <= KEEPALIVE_SEC + Latency + 2
      BY <2>1 DEF SleepInv, Budget, AlarmFires
    <3>2. Regular' => Regular
      BY <1>1, <2>1 DEF Regular, AlarmFires
    <3> QED BY <1>1, <2>1, <3>1, <3>2, SleepAssumption DEF AlarmFires, Budget, KEEPALIVE_SEC
  <2>2. CASE AlarmMissed \/ WakesEarly
    <3>1. ~Regular'
      BY <1>1, <2>2 DEF AlarmMissed, WakesEarly, Regular
    <3> QED BY <3>1 DEF Budget
  <2>3. CASE Warms
    BY <2>3 DEF Warms, SleepInv, Budget, Regular
  <2> QED BY <2>1, <2>2, <2>3
<1> QED BY <1>2, <1>3, <1>4, <1>5 DEF SleepInv

\* A second ages the Request and shortens the wait that runs.
LEMMA SecondOK == SleepInv /\ Second => SleepInv'
<1> SUFFICES ASSUME SleepInv, Second PROVE SleepInv'
  OBVIOUS
<1>1. pump' = Passed(pump) /\ pump \in PumpType /\ Lapsed /\ patience \in Patience /\ patience' = patience
  BY DEF Second, SleepInv, SleepTypeOK
<1>2. /\ pump' \in PumpType /\ pump'.active = pump.active /\ pump'.ticks = pump.ticks
      /\ pump'.age <= pump.age + 1
      /\ pump'.active /\ ~pump'.pps => pump'.age > patience
  BY <1>1, PassedResult
<1>3. SleepTypeOK'
  <2>1. due' \in 0..30 /\ alarm' \in -1..(KEEPALIVE_SEC + Latency)
    <3>1. due \in 0..30 /\ alarm \in -1..(KEEPALIVE_SEC + Latency) /\ Latency \in Nat
      BY SleepAssumption DEF SleepInv, SleepTypeOK
    <3> QED BY <3>1 DEF Second, KEEPALIVE_SEC
  <2>2. UNCHANGED <<asleep, keepalive_pending, ws, patience, hot, interrupted>>
    BY DEF Second
  <2> QED BY <1>2, <2>1, <2>2 DEF SleepInv, SleepTypeOK
<1>4. Lapsed' /\ Held'
  BY <1>1, <1>2 DEF Second, SleepInv, Lapsed, Held
<1>5. Budget'
  <2>1. /\ pump.age \in Int /\ pump'.age \in Int /\ pump.ticks \in Int
        /\ due \in 0..30 /\ alarm \in -1..(KEEPALIVE_SEC + Latency)
    BY <1>1, <1>2, SleepAssumption DEF PumpType, SleepInv, SleepTypeOK
  <2>2. Latency \in Nat
    BY SleepAssumption
  <2> QED BY <1>2, <2>1, <2>2 DEF Second, SleepInv, Budget, Regular, KEEPALIVE_SEC
<1> QED BY <1>3, <1>4, <1>5 DEF SleepInv

\* The budget holds in every behaviour.
THEOREM SleepInvCorrect == SleepSpec => []SleepInv
<1>1. SleepInit => SleepInv
  BY SleepInitOK
<1>2. SleepInv /\ [SleepNext]_sleepvars => SleepInv'
  <2> SUFFICES ASSUME SleepInv, [SleepNext]_sleepvars PROVE SleepInv'
    OBVIOUS
  <2>1. CASE UNCHANGED sleepvars
    BY <2>1 DEF sleepvars, SleepInv, SleepTypeOK, Lapsed, Held, Budget, Regular
  <2>2. CASE SleepNext
    BY <2>2, WorkOK, SuspendOK, WakesOK, SecondOK DEF SleepNext
  <2> QED BY <2>1, <2>2
<1> QED BY <1>1, <1>2, PTL DEF SleepSpec

\* For every source, whatever its patience, any latency and with and without an
\* RTC, the age of the Request is bounded over any number of sleeps the alarm
\* ends, and a source with so much patience keeps its contract (851-854, 986-989).
THEOREM SleepKeepsContractAlways == SleepSpec => []SleepKeepsContract
<1>1. SleepInv => SleepKeepsContract
  <2> SUFFICES ASSUME SleepInv, pump.active, ~interrupted
               PROVE  pump.age <= Tolerated /\ (Tolerated <= patience => pump.pps)
    BY DEF SleepKeepsContract
  <2>1. /\ pump.age \in Nat /\ due \in Nat /\ alarm \in Int /\ pump.ticks \in 0..1
        /\ patience \in Nat /\ Latency \in Nat
    BY SleepAssumption DEF SleepInv, SleepTypeOK, PumpType
  <2>2. pump.age <= Tolerated /\ Tolerated \in Nat
    BY <2>1 DEF SleepInv, Budget, Regular, Tolerated, KEEPALIVE_SEC
  <2>3. Tolerated <= patience => ~(pump.age > patience)
    BY <2>1, <2>2
  <2> QED BY <2>2, <2>3 DEF SleepInv, Lapsed
<1> QED BY <1>1, SleepInvCorrect, PTL
================================================================================
