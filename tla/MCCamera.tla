---------------------------------- MODULE MCCamera ----------------------------------
(* The camera module and the autofocus program on small instances.  A        *)
(* property reads one of the two: the program runs while the camera rests,   *)
(* or the camera moves and no program runs.                                  *)
EXTENDS CameraLens, Autofocus

\* Every peak in good light, with slopes that must be found and slopes that may be
\* called flat; dark and glaring scenes, some beyond what the exposure can reach; noise.
Scene(need, peak, rise, fall) == [need |-> need, peak |-> peak, rise |-> rise, fall |-> fall]
AllScenes == {Scene(50000, p, s[1], s[2]) : p \in 0..1023, s \in {<<3, 14>>, <<14, 3>>, <<1, 2>>}}
             \union {Scene(l, 700, 5, 5) : l \in {1, 10000, 200000, 1000000}} \union {Scene(50000, -1, 1, 1)}
OneScene == {Scene(50000, 700, 5, 5)}
TwoLevels == {0, 300}
SomeStarts == {<<3260, 64>>, <<2800, 0>>}

both == <<vars, daemon>>
\* The camera module at rest, and nobody has started the program.
CameraRests == Init /\ variant = "rear" /\ alone
SomeScene == CHOOSE s \in Scenes : TRUE
NoProgram == /\ scene = SomeScene /\ exposure = 3260 /\ gain = 64 /\ round = 0
             /\ phase = "over" /\ at = FOCUS_MIN /\ best = Sample(-1, -1) /\ worst = 0
             /\ step = CoarseStep /\ local = Sample(-1, -1) /\ lens = 512 /\ failed = 0
ProgramStep == CameraRests /\ DaemonNext /\ UNCHANGED vars
CameraStep == phase = "over" /\ NoProgram /\ Next /\ UNCHANGED daemon
BothInit == (CameraRests /\ DaemonInit) \/ (Init /\ NoProgram)
BothSpec == BothInit /\ [][ProgramStep \/ CameraStep]_both /\ WF_both(ProgramStep)
================================================================================
