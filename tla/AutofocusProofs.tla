----------------------------- MODULE AutofocusProofs -----------------------------
(***************************************************************************)
(* Where the search ends, for every peak, every pair of slopes and every    *)
(* exposure that reached the band.  The sweep knows the sharpest and the    *)
(* dullest of the coarse points it passed, which are five per cent apart on *)
(* slopes of three and more; the climb's last bracket has looked two        *)
(* positions to either side, where any slope shows.                         *)
(***************************************************************************)
EXTENDS Autofocus, TLAPS

Coarse == {0, 128, 256, 384, 512, 640, 768, 896}
Lens == FOCUS_MIN..FOCUS_MAX
Steps == {128, 64, 32, 16, 8, 4, 2}
\* The frames show one peak, and nothing failed so far.
Clear == Usable /\ failed = 0
\* Slopes the flat test does not take for noise.
Steep == scene.rise >= 3 /\ scene.fall >= 3
\* A sample is what its position measures.
True(sample) == \E pos \in Lens : sample = Sample(pos, Sharpness(pos))

SearchTypes ==
  /\ scene \in Scenes /\ failed \in Nat
  /\ phase \in {"expose", "sweep", "refine", "sharp", "flat", "over"}
  /\ phase = "expose" => at = 0
  /\ phase \in {"expose", "sweep"} => step = 128
\* Of the coarse points behind it the sweep holds a sharpest and no more than the dullest.
Swept ==
  /\ at \in Coarse \cup {1024} /\ worst \in Int
  /\ IF at = 0 THEN best = Sample(-1, -1) /\ worst = 1000000000
     ELSE True(best) /\ worst > 0
  /\ \A q \in Coarse : q < at => Sharpness(q) <= best.fv /\ worst <= Sharpness(q)
\* The positions of the last bracket that the climb has passed are no sharper.
Passed(p) == \A pos \in Lens : pos = p => Sharpness(pos) <= local.fv
Climbed ==
  /\ True(best) /\ True(local) /\ step \in Steps /\ best.fv <= local.fv
  /\ step = 4 =>
       /\ at \in {best.pos - 4, best.pos - 2, best.pos, best.pos + 2, best.pos + 4, best.pos + 6}
       /\ at > best.pos - 2 => Passed(best.pos - 2)
       /\ at > best.pos + 2 => Passed(best.pos + 2)
  /\ step = 2 => best.pos \in scene.peak - 2..scene.peak + 2
FocusInv ==
  /\ SearchTypes
  /\ phase = "expose" => best = Sample(-1, -1) /\ worst = 1000000000
  /\ Clear =>
       /\ phase = "sweep" => Swept
       /\ phase = "refine" => Climbed
       /\ Steep => phase # "flat"
       /\ phase = "sharp" => lens \in scene.peak - 2..scene.peak + 2

--------------------------------------------------------------------------------
(* The curve of a scene.                                                    *)

Curve == scene.peak \in 0..1023 /\ scene.rise \in 1..15 /\ scene.fall \in 1..15

LEMMA ClearCurve == ASSUME SearchTypes, Clear PROVE Curve
BY ScenesAssumption DEF SearchTypes, Clear, Usable, Curve

LEMMA Product ==
  ASSUME NEW a \in 0..15, NEW b \in 0..1023
  PROVE a * b \in Int /\ a * b <= 15345
OBVIOUS

LEMMA Scaled ==
  ASSUME NEW a \in Int, NEW b \in Int, a >= 3, b >= 33334
  PROVE a * b >= 100000
OBVIOUS

LEMMA Distributes ==
  ASSUME NEW a \in Int, NEW b \in Int, NEW c \in Int
  PROVE /\ a * b \in Int /\ a * c \in Int
        /\ a * (b - c) = a * b - a * c
        /\ a * (b + c) = a * b + a * c
OBVIOUS

\* Below the peak and above it, in integers.
LEMMA Slopes ==
  ASSUME Curve, NEW pos \in Int
  PROVE /\ scene.peak \in Int /\ scene.rise \in Int /\ scene.fall \in Int
        /\ pos <= scene.peak => Sharpness(pos) = 20000 - scene.rise * (scene.peak - pos)
        /\ pos >= scene.peak => Sharpness(pos) = 20000 - scene.fall * (pos - scene.peak)
<1>1. scene.peak \in Int /\ scene.rise \in Int /\ scene.fall \in Int
  BY SMTT(30) DEF Curve
<1>2. CASE pos < scene.peak
  BY <1>1, <1>2 DEF Sharpness
<1>3. CASE pos = scene.peak
  <2>1. scene.peak - pos = 0 /\ pos - scene.peak = 0 /\ ~(pos < scene.peak)
    BY <1>1, <1>3
  <2>2. scene.rise * 0 = 0 /\ scene.fall * 0 = 0
    BY <1>1
  <2>3. scene.rise * (scene.peak - pos) = 0 /\ scene.fall * (pos - scene.peak) = 0
    BY <2>1, <2>2
  <2>4. Sharpness(pos) = 20000
    BY <2>1, <2>3 DEF Sharpness
  <2> QED BY <1>1, <2>3, <2>4
<1>4. CASE pos > scene.peak
  BY <1>1, <1>4 DEF Sharpness
<1>5. pos < scene.peak \/ pos = scene.peak \/ pos > scene.peak
  BY <1>1
<1> QED BY <1>2, <1>3, <1>4, <1>5

LEMMA Sharp ==
  ASSUME Curve, NEW pos \in Lens
  PROVE Sharpness(pos) \in Int /\ Sharpness(pos) > 0
<1> DEFINE p == scene.peak  rise == scene.rise  fall == scene.fall
<1>1. pos \in 0..1023 /\ p \in 0..1023 /\ rise \in 0..15 /\ fall \in 0..15
  BY DEF Curve, Lens, FOCUS_MIN, FOCUS_MAX
<1>2. /\ pos <= p => Sharpness(pos) = 20000 - rise * (p - pos)
      /\ pos >= p => Sharpness(pos) = 20000 - fall * (pos - p)
  BY <1>1, Slopes
<1> HIDE DEF p, rise, fall
<1>3. CASE pos <= p
  <2>1. p - pos \in 0..1023
    BY <1>1, <1>3
  <2>2. rise * (p - pos) \in Int /\ rise * (p - pos) <= 15345
    BY <1>1, <2>1, Product
  <2> QED BY <1>2, <1>3, <2>2
<1>4. CASE pos >= p
  <2>1. pos - p \in 0..1023
    BY <1>1, <1>4
  <2>2. fall * (pos - p) \in Int /\ fall * (pos - p) <= 15345
    BY <1>1, <2>1, Product
  <2> QED BY <1>2, <1>4, <2>2
<1> QED BY <1>1, <1>3, <1>4

\* Two positions towards the peak are always sharper.
LEMMA Climbs ==
  ASSUME Curve, NEW pos \in Lens,
         pos - 2 \in Lens => Sharpness(pos - 2) <= Sharpness(pos),
         pos + 2 \in Lens => Sharpness(pos + 2) <= Sharpness(pos)
  PROVE pos \in scene.peak - 2..scene.peak + 2
<1> DEFINE p == scene.peak  rise == scene.rise  fall == scene.fall
<1>1. pos \in 0..1023 /\ p \in 0..1023 /\ rise \in 1..15 /\ fall \in 1..15
  BY DEF Curve, Lens, FOCUS_MIN, FOCUS_MAX
<1>2. \A q \in Int : /\ q <= p => Sharpness(q) = 20000 - rise * (p - q)
                     /\ q >= p => Sharpness(q) = 20000 - fall * (q - p)
  BY Slopes
<1>3. pos - 2 >= 0 => Sharpness(pos - 2) <= Sharpness(pos)
  BY <1>1 DEF Lens, FOCUS_MIN, FOCUS_MAX
<1>4. pos + 2 <= 1023 => Sharpness(pos + 2) <= Sharpness(pos)
  BY <1>1 DEF Lens, FOCUS_MIN, FOCUS_MAX
<1> HIDE DEF p, rise, fall
<1>5. ASSUME pos + 2 < p PROVE FALSE
  <2>1. /\ Sharpness(pos + 2) = 20000 - rise * (p - (pos + 2))
        /\ Sharpness(pos) = 20000 - rise * (p - pos)
    BY <1>1, <1>2, <1>5
  <2>2. rise * ((p - pos) - 2) = rise * (p - pos) - rise * 2 /\ rise * (p - pos) \in Int
    BY <1>1, Distributes
  <2>3. p - (pos + 2) = (p - pos) - 2
    BY <1>1
  <2> QED BY <1>1, <1>4, <1>5, <2>1, <2>2, <2>3
<1>6. ASSUME pos - 2 > p PROVE FALSE
  <2>1. /\ Sharpness(pos - 2) = 20000 - fall * ((pos - 2) - p)
        /\ Sharpness(pos) = 20000 - fall * (pos - p)
    BY <1>1, <1>2, <1>6
  <2>2. fall * ((pos - p) - 2) = fall * (pos - p) - fall * 2 /\ fall * (pos - p) \in Int
    BY <1>1, Distributes
  <2>3. (pos - 2) - p = (pos - p) - 2
    BY <1>1
  <2> QED BY <1>1, <1>3, <1>6, <2>1, <2>2, <2>3
<1>7. p - 2 <= pos /\ pos <= p + 2
  BY <1>1, <1>5, <1>6
<1> QED BY <1>1, <1>7 DEF p

\* The coarse points of a clear scene differ by five per cent.
LEMMA NotFlat ==
  ASSUME Curve, Steep, NEW b \in Int, NEW w \in Int,
         \A q \in Coarse : Sharpness(q) <= b /\ w <= Sharpness(q)
  PROVE 105 * w <= 100 * b
<1> DEFINE p == scene.peak  rise == scene.rise  fall == scene.fall
<1>1. p \in 0..1023 /\ rise \in 3..15 /\ fall \in 3..15
  BY DEF Curve, Steep
<1>2. \A q \in Coarse : q \in Int /\ Sharpness(q) <= b /\ w <= Sharpness(q)
  BY DEF Coarse
<1>3. \A q \in Coarse : q <= p => Sharpness(q) = 20000 - rise * (p - q)
  BY <1>2, Slopes
<1>4. \A q \in Coarse : q >= p => Sharpness(q) = 20000 - fall * (q - p)
  BY <1>2, Slopes
<1> HIDE DEF p, rise, fall
<1>5. ASSUME NEW q \in Coarse, q <= p, 100 * q + 5 * p >= 33334 PROVE 105 * w <= 100 * b
  <2>1. q \in Int /\ 0 \in Coarse /\ 0 <= p /\ p - 0 = p
    BY <1>1, <1>2 DEF Coarse
  <2>2. 20000 - rise * (p - q) <= b /\ w <= 20000 - rise * p
    BY <1>2, <1>3, <1>5, <2>1
  <2>3. rise * (p - q) = rise * p - rise * q /\ rise * p \in Int /\ rise * q \in Int
    BY <1>1, <2>1, Distributes
  <2>4. rise * (100 * q + 5 * p) = 100 * (rise * q) + 5 * (rise * p)
    BY <1>1, <2>1
  <2>5. rise * (100 * q + 5 * p) >= 100000
    BY <1>1, <1>5, <2>1, Scaled
  <2> QED BY <2>2, <2>3, <2>4, <2>5
<1>6. ASSUME NEW q \in Coarse, q >= p, 105 * (896 - p) - 100 * (q - p) >= 33334, p <= 896
      PROVE 105 * w <= 100 * b
  <2> DEFINE far == 896 - p  near == q - p
  <2>1. q \in Int /\ 896 \in Coarse /\ far \in Int /\ near \in Int
    BY <1>1, <1>2 DEF Coarse
  <2>2. 20000 - fall * near <= b /\ w <= 20000 - fall * far
    BY <1>1, <1>2, <1>4, <1>6, <2>1
  <2>3. 105 * far - 100 * near >= 33334
    BY <1>6
  <2> HIDE DEF far, near
  <2>4. /\ fall * near \in Int /\ fall * far \in Int
        /\ fall * (105 * far - 100 * near) = 105 * (fall * far) - 100 * (fall * near)
    BY <1>1, <2>1
  <2>5. fall * (105 * far - 100 * near) >= 100000
    BY <1>1, <2>1, <2>3, Scaled
  <2> QED BY <2>2, <2>4, <2>5
<1>7. CASE p >= 448
  <2>1. \E q \in Coarse : q <= p /\ p < q + 128
    BY <1>1 DEF Coarse
  <2>2. PICK q \in Coarse : q <= p /\ 100 * q + 5 * p >= 33334
    BY <1>1, <1>2, <1>7, <2>1 DEF Coarse
  <2> QED BY <1>5, <2>2
<1>8. CASE p < 448
  <2>1. \E q \in {128, 256, 384, 512} : q - 128 <= p /\ p < q
    BY <1>1, <1>8
  <2>2. PICK q \in Coarse : q >= p /\ 105 * (896 - p) - 100 * (q - p) >= 33334
    BY <1>1, <1>8, <2>1 DEF Coarse
  <2> QED BY <1>1, <1>6, <1>8, <2>2
<1> QED BY <1>1, <1>7, <1>8

--------------------------------------------------------------------------------
(* The invariant.                                                           *)

LEMMA FocusStarts == ASSUME DaemonInit PROVE FocusInv
BY DEF DaemonInit, FocusInv, SearchTypes, Clear, CoarseStep, FOCUS_MIN

LEMMA TypesKept == ASSUME SearchTypes, [DaemonNext]_daemon PROVE SearchTypes'
<1> USE DEF SearchTypes
<1>1. CASE Expose
  BY <1>1 DEF Expose, search
<1>2. CASE ExposeEnds
  BY <1>2 DEF ExposeEnds, FOCUS_MIN
<1>3. CASE ExposeFails
  BY <1>3 DEF ExposeFails
<1>4. CASE Sweep
  BY <1>4 DEF Sweep, Probed, exposing
<1>5. CASE Flat
  BY <1>5 DEF Flat, SetFocus
<1>6. CASE SweepEnds
  BY <1>6 DEF SweepEnds
<1>7. CASE Refine
  BY <1>7 DEF Refine, Probed
<1>8. CASE RefineMoves
  BY <1>8 DEF RefineMoves
<1>9. CASE RefineEnds
  BY <1>9 DEF RefineEnds, SetFocus
<1>10. CASE UNCHANGED daemon
  BY <1>10 DEF daemon, search
<1> QED BY <1>1, <1>2, <1>3, <1>4, <1>5, <1>6, <1>7, <1>8, <1>9, <1>10 DEF DaemonNext

\* A step that leaves the scene clear, after the exposure loop, was taken in a clear scene.
LEMMA ClearBefore ==
  ASSUME SearchTypes, [DaemonNext]_daemon, Clear', phase' # "expose"
  PROVE /\ Clear /\ failed' = failed /\ scene' = scene
        /\ \A pos \in Lens : Sharpness(pos)' = Sharpness(pos)
<1>1. scene' = scene /\ failed' \in {failed, failed + 1}
  BY DEF DaemonNext, daemon, search, exposing, Expose, ExposeEnds, ExposeFails, Sweep, Flat, SweepEnds,
         Refine, RefineMoves, RefineEnds, Probed, SetFocus
<1>2. exposure' = exposure /\ gain' = gain
  BY DEF DaemonNext, daemon, search, exposing, Expose, ExposeEnds, ExposeFails, Sweep, Flat, SweepEnds,
         Refine, RefineMoves, RefineEnds
<1>3. failed \in Nat /\ failed' = 0 /\ Usable'
  BY DEF SearchTypes, Clear
<1>4. Usable' <=> Usable
  BY <1>1, <1>2 DEF Usable, TooDark, TooBright, Light
<1> QED BY <1>1, <1>3, <1>4 DEF Clear, Sharpness

\* In a clear scene a probe gives what the position is worth.
LEMMA Measured ==
  ASSUME Clear, NEW fv, Probed(fv), failed' = failed, failed \in Nat
  PROVE fv = Sharpness(at)
BY DEF Probed, Values, Clear

LEMMA SweepKept ==
  ASSUME Curve, Clear, Swept, Sweep, failed' = failed, failed \in Nat,
         \A pos \in Lens : Sharpness(pos)' = Sharpness(pos)
  PROVE Swept'
<1>1. PICK fv \in Outcomes : /\ Probed(fv) /\ worst' = AtMost(worst, fv)
                             /\ best' = (IF fv > best.fv THEN Sample(at, fv) ELSE best)
  BY DEF Sweep
<1>2. at \in Coarse /\ at \in Lens /\ at' = at + 128 /\ at' \in Coarse \cup {1024} /\ at' # 0
  BY DEF Sweep, Swept, Coarse, Lens, CoarseStep, FOCUS_MIN, FOCUS_MAX
<1>3. fv = Sharpness(at) /\ fv \in Int /\ fv > 0
  BY <1>1, <1>2, Measured, Sharp
<1>4. worst \in Int /\ worst > 0 /\ worst' \in Int /\ worst' > 0 /\ worst' <= worst /\ worst' <= fv
  BY <1>1, <1>3 DEF Swept, AtMost
<1>5. best.fv \in Int /\ (at # 0 => True(best))
  <2>1. CASE at = 0
    BY <2>1 DEF Swept, Sample
  <2>2. CASE at # 0
    BY <2>2, Sharp DEF Swept, True, Sample
  <2> QED BY <2>1, <2>2
<1>6. True(best)' /\ best.fv <= best'.fv /\ fv <= best'.fv
  <2>1. CASE fv > best.fv
    BY <1>1, <1>2, <1>3, <1>5, <2>1 DEF True, Sample
  <2>2. CASE ~(fv > best.fv)
    <3>1. best' = best /\ at # 0
      BY <1>1, <1>3, <2>2 DEF Swept, Sample
    <3> QED BY <1>3, <1>5, <2>2, <3>1 DEF True
  <2> QED BY <2>1, <2>2
<1>7. ASSUME NEW q \in Coarse, q < at' PROVE Sharpness(q)' <= best'.fv /\ worst' <= Sharpness(q)'
  <2>1. q \in Lens /\ Sharpness(q)' = Sharpness(q) /\ Sharpness(q) \in Int
    BY Sharp DEF Coarse, Lens, FOCUS_MIN, FOCUS_MAX
  <2>2. q < at \/ q = at
    BY <1>2, <1>7 DEF Coarse
  <2>3. best'.fv \in Int
    BY <1>1, <1>3, <1>5 DEF Sample
  <2>4. CASE q < at
    BY <1>4, <1>5, <1>6, <2>1, <2>3, <2>4 DEF Swept
  <2>5. CASE q = at
    BY <1>3, <1>4, <1>6, <2>1, <2>5
  <2> QED BY <2>2, <2>4, <2>5
<1> QED BY <1>2, <1>4, <1>6, <1>7 DEF Swept

LEMMA NeverFlat == ASSUME Curve, Steep, Swept, at > FOCUS_MAX PROVE ~TooFlat
<1>1. at = 1024 /\ True(best) /\ worst \in Int /\ worst > 0
  BY DEF Swept, Coarse, FOCUS_MAX
<1>2. best.fv \in Int
  BY <1>1, Sharp DEF True, Sample
<1>3. 105 * worst <= 100 * best.fv
  <2>1. \A q \in Coarse : Sharpness(q) <= best.fv /\ worst <= Sharpness(q)
    BY <1>1 DEF Swept, Coarse
  <2> QED BY <1>1, <1>2, <2>1, NotFlat
<1> QED BY <1>1, <1>2, <1>3 DEF TooFlat

LEMMA RefineStarts ==
  ASSUME Curve, Swept, SweepEnds, step = 128, \A pos \in Lens : Sharpness(pos)' = Sharpness(pos)
  PROVE Climbed'
<1>1. /\ at > FOCUS_MAX /\ best' = best /\ local' = best /\ step' = 128
  BY DEF SweepEnds
<1>2. True(best)
  BY <1>1 DEF Swept, Coarse, FOCUS_MAX
<1>3. PICK pos \in Lens : best = Sample(pos, Sharpness(pos))
  BY <1>2 DEF True
<1>4. True(best)' /\ True(local)' /\ best'.fv <= local'.fv
  BY <1>1, <1>3, Sharp DEF True, Sample
<1> QED BY <1>1, <1>4 DEF Climbed, Steps

\* What a climbing best is, in numbers.
LEMMA Numbers ==
  ASSUME Curve, NEW sample, True(sample)
  PROVE /\ sample.pos \in Lens /\ sample.pos \in Int
        /\ sample.fv = Sharpness(sample.pos) /\ sample.fv \in Int
BY Sharp DEF True, Sample, Lens, FOCUS_MIN, FOCUS_MAX

LEMMA RefineKept ==
  ASSUME Curve, Clear, Climbed, Refine, failed' = failed, failed \in Nat, scene' = scene,
         \A pos \in Lens : Sharpness(pos)' = Sharpness(pos)
  PROVE Climbed'
<1>1. /\ at <= best.pos + step /\ at' = at + step \div 2 /\ best' = best /\ step' = step
      /\ step >= 4
  BY DEF Refine, FineStep
<1>2. best.pos \in Lens /\ best.pos \in Int /\ best.fv = Sharpness(best.pos) /\ best.fv \in Int
      /\ local.fv \in Int /\ best.fv <= local.fv /\ step \in Steps
  BY Numbers DEF Climbed
<1>3. /\ True(local)' /\ local.fv <= local'.fv /\ local'.fv \in Int
      /\ at \in Lens => Sharpness(at) <= local'.fv
  <2>1. CASE at \in FOCUS_MIN..FOCUS_MAX /\ at # best.pos
    <3>1. PICK fv \in Outcomes :
            Probed(fv) /\ local' = IF fv > local.fv THEN Sample(at, fv) ELSE local
      BY <2>1 DEF Refine
    <3>2. at \in Lens /\ fv = Sharpness(at) /\ fv \in Int
      BY <2>1, <3>1, Measured, Sharp DEF Lens
    <3>3. CASE fv > local.fv
      BY <1>2, <3>1, <3>2, <3>3 DEF True, Sample
    <3>4. CASE ~(fv > local.fv)
      <4>1. local' = local
        BY <3>1, <3>4
      <4> QED BY <1>2, <3>2, <3>4, <4>1 DEF True, Climbed
    <3> QED BY <3>3, <3>4
  <2>2. CASE ~(at \in FOCUS_MIN..FOCUS_MAX /\ at # best.pos)
    <3>1. local' = local
      BY <2>2 DEF Refine
    <3>2. at \in Lens => Sharpness(at) <= local.fv
      BY <1>2, <2>2 DEF Lens
    <3> QED BY <1>2, <3>1, <3>2 DEF True, Climbed
  <2> QED BY <2>1, <2>2
<1>4. ASSUME step = 4
      PROVE /\ at' \in {best.pos - 4, best.pos - 2, best.pos,
                       best.pos + 2, best.pos + 4, best.pos + 6}
            /\ at' > best.pos - 2 => Passed(best.pos - 2)'
            /\ at' > best.pos + 2 => Passed(best.pos + 2)'
  <2>1. /\ at \in {best.pos - 4, best.pos - 2, best.pos, best.pos + 2, best.pos + 4, best.pos + 6}
        /\ at > best.pos - 2 => Passed(best.pos - 2)
        /\ at > best.pos + 2 => Passed(best.pos + 2)
        /\ at' = at + 2
    BY <1>1, <1>4 DEF Climbed
  <2>2. ASSUME NEW k \in {-2, 2}, at' > best.pos + k
        PROVE \A pos \in Lens : pos = best.pos + k => Sharpness(pos) <= local'.fv
    <3>1. at = best.pos + k \/ at > best.pos + k
      BY <1>2, <2>1, <2>2
    <3>2. at > best.pos + k => Passed(best.pos + k)
      BY <1>2, <2>1
    <3>3. \A pos \in Lens : Sharpness(pos) \in Int
      BY Sharp
    <3> QED BY <1>2, <1>3, <3>1, <3>2, <3>3 DEF Passed
  <2>3. best.pos + (-2) = best.pos - 2
    BY <1>2
  <2>4. /\ at' > best.pos - 2 => Passed(best.pos - 2)'
        /\ at' > best.pos + 2 => Passed(best.pos + 2)'
    BY <1>1, <2>2, <2>3 DEF Passed
  <2>5. at' \in {best.pos - 4, best.pos - 2, best.pos, best.pos + 2, best.pos + 4, best.pos + 6}
    BY <1>1, <1>2, <1>4, <2>1
  <2> QED BY <2>4, <2>5
<1>5. step # 2 /\ True(best)'
  BY <1>1, <1>2 DEF Climbed, True
<1> QED BY <1>1, <1>2, <1>3, <1>4, <1>5 DEF Climbed

LEMMA MovesKept ==
  ASSUME Curve, Climbed, RefineMoves, scene' = scene,
         \A pos \in Lens : Sharpness(pos)' = Sharpness(pos)
  PROVE Climbed'
<1>1. /\ at > best.pos + step /\ at' = best'.pos - step' /\ local' = best' /\ step >= 4
      /\ IF local.fv > best.fv THEN best' = local /\ step' = step
         ELSE step' = step \div 2 /\ best' = best
  BY DEF RefineMoves, FineStep
<1>2. /\ best.pos \in Lens /\ best.pos \in Int /\ best.fv = Sharpness(best.pos) /\ best.fv \in Int
      /\ local.fv \in Int /\ best.fv <= local.fv /\ step \in Steps
  BY Numbers DEF Climbed
<1>3. True(best)' /\ True(local)' /\ best'.pos \in Int /\ best'.fv <= local'.fv
  <2>1. True(best')
    BY <1>1 DEF Climbed
  <2>2. best'.pos \in Int /\ best'.fv \in Int
    BY <2>1, Numbers
  <2> QED BY <1>1, <2>1, <2>2 DEF True
<1>4. step' \in Steps
  BY <1>1, <1>2 DEF Steps
<1>5. ASSUME step' = 4
      PROVE /\ at' = best'.pos - 4 /\ ~(at' > best'.pos - 2) /\ ~(at' > best'.pos + 2)
  BY <1>1, <1>3, <1>5
<1>6. ASSUME step' = 2 PROVE best'.pos \in scene'.peak - 2..scene'.peak + 2
  <2>1. step = 4 /\ best' = best /\ local.fv = best.fv
    BY <1>1, <1>2, <1>6 DEF Steps
  <2>2. Passed(best.pos - 2) /\ Passed(best.pos + 2)
    BY <1>1, <1>2, <2>1 DEF Climbed
  <2>3. best.pos \in scene.peak - 2..scene.peak + 2
    BY <1>2, <2>1, <2>2, Climbs DEF Passed
  <2> QED BY <2>1, <2>3
<1> QED BY <1>3, <1>4, <1>5, <1>6 DEF Climbed

LEMMA EndsNear ==
  ASSUME Curve, Climbed, RefineEnds, failed' = failed, failed \in Nat
  PROVE lens' \in scene.peak - 2..scene.peak + 2
<1>1. step < 4 /\ lens' = AtLeast(FOCUS_MIN, AtMost(FOCUS_MAX, best.pos))
  BY DEF RefineEnds, SetFocus, FineStep
<1>2. step = 2 /\ best.pos \in scene.peak - 2..scene.peak + 2
  BY <1>1 DEF Climbed, Steps
<1>3. best.pos \in 0..1023
  BY Numbers DEF Climbed, Lens, FOCUS_MIN, FOCUS_MAX
<1> QED BY <1>1, <1>2, <1>3, SMTT(30) DEF AtLeast, AtMost, FOCUS_MIN, FOCUS_MAX

LEMMA FocusStep == ASSUME FocusInv, [DaemonNext]_daemon PROVE FocusInv'
<1>1. SearchTypes /\ SearchTypes'
  BY TypesKept DEF FocusInv
<1>2. phase' = "expose" => best' = Sample(-1, -1) /\ worst' = 1000000000
  BY DEF FocusInv, DaemonNext, daemon, search, exposing, Expose, ExposeEnds, ExposeFails, Sweep, Flat,
         SweepEnds, Refine, RefineMoves, RefineEnds
<1>3. ASSUME Clear', phase' # "expose"
      PROVE /\ phase' = "sweep" => Swept'
            /\ phase' = "refine" => Climbed'
            /\ Steep' => phase' # "flat"
            /\ phase' = "sharp" => lens' \in scene'.peak - 2..scene'.peak + 2
  <2>1. /\ Clear /\ failed' = failed /\ scene' = scene /\ failed \in Nat /\ Curve
        /\ \A pos \in Lens : Sharpness(pos)' = Sharpness(pos)
    BY <1>1, <1>3, ClearBefore, ClearCurve DEF SearchTypes
  <2>2. /\ phase = "sweep" => Swept
        /\ phase = "refine" => Climbed
        /\ Steep' <=> Steep
        /\ Steep => phase # "flat"
        /\ phase = "sharp" => lens \in scene.peak - 2..scene.peak + 2
    BY <2>1 DEF FocusInv, Steep
  <2>3. CASE Expose
    BY <1>3, <2>3 DEF Expose
  <2>4. CASE ExposeEnds
    <3>1. phase' = "sweep" /\ at' = 0 /\ best' = Sample(-1, -1) /\ worst' = 1000000000
      BY <2>4 DEF ExposeEnds, FocusInv, FOCUS_MIN
    <3>2. Swept'
      BY <3>1 DEF Swept, Coarse
    <3> QED BY <3>1, <3>2
  <2>5. CASE ExposeFails
    BY <2>5 DEF ExposeFails
  <2>6. CASE Sweep
    <3>1. phase = "sweep" /\ phase' = "sweep"
      BY <2>6 DEF Sweep
    <3> QED BY <2>1, <2>2, <2>6, <3>1, SweepKept
  <2>7. CASE Flat
    BY <2>1, <2>2, <2>7, NeverFlat DEF Flat
  <2>8. CASE SweepEnds
    <3>1. phase = "sweep" /\ phase' = "refine" /\ step = 128
      BY <1>1, <2>8 DEF SweepEnds, SearchTypes
    <3> QED BY <2>1, <2>2, <2>8, <3>1, RefineStarts
  <2>9. CASE Refine
    <3>1. phase = "refine" /\ phase' = "refine"
      BY <2>9 DEF Refine
    <3> QED BY <2>1, <2>2, <2>9, <3>1, RefineKept
  <2>10. CASE RefineMoves
    <3>1. phase = "refine" /\ phase' = "refine"
      BY <2>10 DEF RefineMoves
    <3> QED BY <2>1, <2>2, <2>10, <3>1, MovesKept
  <2>11. CASE RefineEnds
    <3>1. phase = "refine" /\ phase' = "sharp"
      BY <2>11 DEF RefineEnds
    <3> QED BY <2>1, <2>2, <2>11, <3>1, EndsNear
  <2>12. CASE UNCHANGED daemon
    <3>1. /\ phase' = phase /\ at' = at /\ best' = best /\ worst' = worst /\ step' = step
          /\ local' = local /\ lens' = lens
      BY <2>12 DEF daemon, search
    <3>2. Swept => Swept'
      <4>1. \A q \in Coarse : Sharpness(q)' = Sharpness(q)
        BY <2>1 DEF Coarse, Lens, FOCUS_MIN, FOCUS_MAX
      <4> QED BY <2>1, <3>1, <4>1 DEF Swept, True
    <3>3. Climbed => Climbed'
      BY <2>1, <3>1 DEF Climbed, True, Passed
    <3> QED BY <2>1, <2>2, <3>1, <3>2, <3>3
  <2> QED BY <2>3, <2>4, <2>5, <2>6, <2>7, <2>8, <2>9, <2>10, <2>11, <2>12 DEF DaemonNext
<1> QED BY <1>1, <1>2, <1>3 DEF FocusInv

\* In a scene with one peak, exposed into the band and measured without a failure, the
\* lens ends at most two positions from the peak, and slopes of three and more are never
\* called flat: for every peak in the lens's range, every pair of slopes, every exposure
\* to start from.
THEOREM NearPeakAlways == DaemonSpec => []NearPeak
<1>1. DaemonInit => FocusInv
  BY FocusStarts
<1>2. FocusInv /\ [DaemonNext]_daemon => FocusInv'
  BY FocusStep
<1>3. FocusInv => NearPeak
  BY DEF FocusInv, Clear, Steep, NearPeak
<1> QED BY <1>1, <1>2, <1>3, PTL DEF DaemonSpec

================================================================================
