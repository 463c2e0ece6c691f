-------------------------------- MODULE Autofocus --------------------------------
(***************************************************************************)
(* gts9-autofocus.c: the exposure loop, the coarse sweep, the test for a    *)
(* flat curve and the climb.  The scene is external: how bright it is and   *)
(* how sharp each lens position makes it, as far as the exposure shows it.  *)
(* A focus value is a number, -1 when the position could not be set or      *)
(* measured.                                                                *)
(***************************************************************************)
EXTENDS Integers

CONSTANTS
  Scenes,     \* records [need, peak, rise, fall]: the exposure times gain that gives
              \* a mean of 100, the sharpest position and how it falls off; -1 is
              \* a scene without a peak
  Levels,     \* focus values of a frame that shows no peak: any of them, every time
  Starts,     \* pairs of the -e and -g options
  MaxFailed   \* bound: measurements that fail

ASSUME ScenesAssumption ==
  Scenes \subseteq [need : Nat, peak : -1..1023, rise : 1..15, fall : 1..15]
ASSUME NumbersAssumption == Levels \subseteq Nat /\ MaxFailed \in Nat
ASSUME StartsAssumption == Starts \subseteq (4..3260) \X (0..240)

VARIABLES
  scene,
  exposure, gain, round,  \* auto_exposure(): settings and iterations
  phase,                  \* where main() is
  at,                     \* the position to probe next
  best, worst, step,      \* the best sample, the coarse sweep's worst, the fine step
  local,                  \* the best sample of this round of the fine pass
  lens,                   \* FOCUS_ABSOLUTE
  failed                  \* measurements that failed so far
exposing == <<exposure, gain, round>>
search == <<at, best, worst, step, local, lens>>
daemon == <<scene, exposing, phase, search, failed>>

FOCUS_MIN == 0
FOCUS_MAX == 1023
CoarseStep == 128
FineStep == 4
Sample(pos, fv) == [pos |-> pos, fv |-> fv]
AtMost(a, b) == IF a < b THEN a ELSE b
AtLeast(a, b) == IF a > b THEN a ELSE b

\* Sharpness falls off on either side of the peak.
Sharpness(pos) == 20000 - IF pos < scene.peak THEN scene.rise * (scene.peak - pos)
                          ELSE scene.fall * (pos - scene.peak)
Light == exposure * (16 + gain)
TooDark == Light < 3 * scene.need    \* mean < 300
TooBright == Light > 7 * scene.need  \* mean > 700
\* A frame left dark or clipped, and a scene without a peak, say nothing of the focus.
Usable == scene.peak # -1 /\ ~TooDark /\ ~TooBright
Values(pos) == IF Usable THEN {Sharpness(pos)} ELSE Levels

--------------------------------------------------------------------------------
(* Exposure.                                                                *)

Brighter == IF exposure < 3260
            THEN exposure' = AtMost(3260, exposure + exposure \div 4 + 16) /\ UNCHANGED gain
            ELSE gain' = AtMost(240, gain + 24) /\ UNCHANGED exposure
Darker == IF exposure > 4
          THEN exposure' = AtLeast(4, exposure - exposure \div 4) /\ UNCHANGED gain
          ELSE gain' = AtLeast(0, gain - 24) /\ UNCHANGED exposure
\* The band is reached, the limits are, or ten rounds are over.
Exposed == \/ (~TooDark /\ ~TooBright) \/ round = 10
           \/ TooDark /\ exposure >= 3260 /\ gain >= 240
           \/ TooBright /\ exposure <= 4 /\ gain <= 0

Expose == /\ phase = "expose" /\ ~Exposed /\ round' = round + 1
          /\ IF TooDark THEN Brighter ELSE Darker
          /\ UNCHANGED <<scene, phase, search, failed>>
ExposeEnds == /\ phase = "expose" /\ Exposed /\ phase' = "sweep" /\ at' = FOCUS_MIN
              /\ UNCHANGED <<scene, exposing, best, worst, step, local, lens, failed>>
\* The stream does not start, or a frame of the exposure loop is lost.
ExposeFails == /\ phase = "expose" /\ failed < MaxFailed /\ failed' = failed + 1
               /\ phase' = "over" /\ UNCHANGED <<scene, exposing, search>>

--------------------------------------------------------------------------------
(* Focus.                                                                   *)

\* probe(): set the lens, let it settle, measure.
Probed(fv) == \/ fv \in Values(at) /\ lens' = at /\ UNCHANGED failed
              \/ fv = -1 /\ failed < MaxFailed /\ failed' = failed + 1 /\ lens' \in {lens, at}
Outcomes == Values(at) \union {-1}

Sweep == /\ phase = "sweep" /\ at <= FOCUS_MAX /\ at' = at + CoarseStep
         /\ \E fv \in Outcomes:
              /\ Probed(fv) /\ best' = (IF fv > best.fv THEN Sample(at, fv) ELSE best)
              /\ worst' = AtMost(worst, fv)
         /\ UNCHANGED <<scene, exposing, phase, step, local>>

\* best.fv / worst < 1.05 in floating point: a division by zero is not below.
TooFlat == IF worst > 0 THEN 100 * best.fv < 105 * worst ELSE worst < 0
\* set_focus(): the position is brought into the lens's range; main() does not look
\* at the result of the last one.
SetFocus(pos) == \/ lens' = AtLeast(FOCUS_MIN, AtMost(FOCUS_MAX, pos)) /\ UNCHANGED failed
                 \/ failed < MaxFailed /\ failed' = failed + 1 /\ UNCHANGED lens
Flat == /\ phase = "sweep" /\ at > FOCUS_MAX /\ TooFlat /\ phase' = "flat" /\ SetFocus(best.pos)
        /\ UNCHANGED <<scene, exposing, at, best, worst, step, local>>
SweepEnds == /\ phase = "sweep" /\ at > FOCUS_MAX /\ ~TooFlat /\ phase' = "refine"
             /\ at' = best.pos - step /\ local' = best
             /\ UNCHANGED <<scene, exposing, best, worst, step, lens, failed>>

\* A position of the bracket: skipped outside the range and at the best.
Refine == /\ phase = "refine" /\ step >= FineStep /\ at <= best.pos + step
          /\ at' = at + step \div 2
          /\ IF at \in FOCUS_MIN..FOCUS_MAX /\ at # best.pos
             THEN \E fv \in Outcomes:
                    /\ Probed(fv)
                    /\ local' = IF fv > local.fv THEN Sample(at, fv) ELSE local
             ELSE UNCHANGED <<local, lens, failed>>
          /\ UNCHANGED <<scene, exposing, phase, best, worst, step>>
\* Mutant: the position moves and its value does not.
RefineMovesPosition ==
  /\ phase = "refine" /\ step >= FineStep /\ at > best.pos + step
  /\ IF local.fv > best.fv THEN best' = [best EXCEPT !.pos = local.pos] /\ UNCHANGED step
     ELSE step' = step \div 2 /\ UNCHANGED best
  /\ at' = best'.pos - step' /\ local' = best'
  /\ UNCHANGED <<scene, exposing, phase, worst, lens, failed>>
\* Mutant: the improvement is dropped with the step.
RefineForgets ==
  /\ phase = "refine" /\ step >= FineStep /\ at > best.pos + step
  /\ step' = step \div 2 /\ UNCHANGED best
  /\ at' = best'.pos - step' /\ local' = best'
  /\ UNCHANGED <<scene, exposing, phase, worst, lens, failed>>
\* The end of a bracket: move to an improvement, or halve the step.
RefineMoves ==
  /\ phase = "refine" /\ step >= FineStep /\ at > best.pos + step
  /\ IF local.fv > best.fv THEN best' = local /\ UNCHANGED step
     ELSE step' = step \div 2 /\ UNCHANGED best
  /\ at' = best'.pos - step' /\ local' = best'
  /\ UNCHANGED <<scene, exposing, phase, worst, lens, failed>>
RefineEnds == /\ phase = "refine" /\ step < FineStep /\ phase' = "sharp" /\ SetFocus(best.pos)
              /\ UNCHANGED <<scene, exposing, at, best, worst, step, local>>

DaemonInit == /\ scene \in Scenes /\ \E start \in Starts: exposure = start[1] /\ gain = start[2]
              /\ round = 0 /\ phase = "expose" /\ at = FOCUS_MIN /\ best = Sample(-1, -1)
              /\ worst = 1000000000 /\ step = CoarseStep /\ local = Sample(-1, -1) /\ lens = 512 /\ failed = 0
DaemonNext == \/ Expose \/ ExposeEnds \/ ExposeFails \/ Sweep \/ Flat \/ SweepEnds
              \/ Refine \/ RefineMoves \/ RefineEnds
DaemonSpec == DaemonInit /\ [][DaemonNext]_daemon /\ WF_daemon(DaemonNext)

--------------------------------------------------------------------------------
(* Properties.                                                              *)

\* Reference: in a scene with one peak, exposed into the band and measured without a
\* failure, the lens ends at most two positions from the peak whatever the slopes, the
\* odd positions and the end of the range above the last coarse point included.  With
\* slopes of three and more it does not end as a flat scene either: on flatter ones the
\* coarse points may all lie within five per cent, and main() says so.
NearPeak == Usable /\ failed = 0 =>
              /\ scene.rise >= 3 /\ scene.fall >= 3 => phase # "flat"
              /\ phase = "sharp" => lens \in scene.peak - 2..scene.peak + 2

\* The fine pass shrinks its step only when nothing improved: on noise it still
\* comes to an end, because every move needs a better value.
Terminates == <>(phase \in {"sharp", "flat", "over"})
================================================================================
