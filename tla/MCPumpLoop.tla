------------------------------- MODULE MCPumpLoop -------------------------------
(* Small instances of PumpLoop and PumpSleep for TLC.  They are two views of *)
(* one driver and a property reads one of them, so each moves while the     *)
(* other rests.                                                             *)
EXTENDS PumpLoop, PumpSleep

both == <<vars, sleepvars>>
AwakeStep == SleepInit /\ Next /\ UNCHANGED sleepvars
SleepStep(action) == Init /\ action /\ UNCHANGED vars
BothInit == Init /\ SleepInit
\* Time passes and the queue runs what is due.
SafeSpec == /\ BothInit /\ [][AwakeStep \/ SleepStep(SleepNext)]_both
            /\ WF_both(SleepStep(Second)) /\ WF_both(SleepStep(KeepaliveWork))

\* A pack in the middle of the first step that drifts.
MCDrifting == {3700, 3760, 3820}

\* Tapered, short of the aim, on the aim of the first step, above it.
MCCurrents == {900, 2000, 4330, 4700}
MCDroops == {0, 350}
MCSource == {3000, 4500}
MCFixed == {3000}
================================================================================
