-------------------------------- MODULE PumpSleep --------------------------------
(***************************************************************************)
(* The 2:1 pump across system suspend (sm5440_direct.c): the programmable   *)
(* contract lapses when the source hears no Request for longer than it has  *)
(* patience, and a sleeping tablet runs no work items.  suspend() arms an   *)
(* RTC alarm, the alarm wakes the tablet, and the work item, once thawed,   *)
(* renews the Request before its ordinary tick.  The comments disagree on   *)
(* the patience: 851-854 saw an EP-T4510 fall back after about 5 s, 986-989 *)
(* counts on about 10 s; it is any of the set Patience here.  Time passes   *)
(* in seconds; what the tick computes is PumpLoop's subject.                *)
(***************************************************************************)
EXTENDS Integers

CONSTANTS
  HasRtc,    \* keepalive_capable: a wake-capable RTC is registered
  Patience,  \* seconds a source may wait for a Request before it falls back
  Latency,   \* most seconds that going down and coming up take together
  AgeCap     \* bound on the age of a Request that is counted

ASSUME SleepAssumption ==
  /\ HasRtc \in BOOLEAN /\ Latency \in Nat /\ AgeCap \in Nat
  /\ 10 + Latency < AgeCap /\ \A s \in Patience : s \in Nat /\ s < AgeCap

KEEPALIVE_SEC == 8
WDT_30S == 30
Unarmed == -1

VARIABLES
  pump,        \* the pump and its contract, see PumpType
  due,         \* seconds the pending work item still waits
  asleep,      \* the system is in s2ram: the freezable queue stands still
  alarm,       \* seconds until the keepalive alarm fires, or Unarmed
  keepalive_pending,
  ws,          \* the wakeup source is held
  patience,    \* how long the source on the port waits
  hot,         \* pack or die over the limit the keepalive goes by
  interrupted  \* a wake came early, or the alarm's did not, since the last Request

sleepvars == <<pump, due, asleep, alarm, keepalive_pending, ws, patience, hot, interrupted>>

\* age is the time since the source last heard a Request, unfed the time since
\* the pump's hardware watchdog was serviced.
PumpType == [active : BOOLEAN, runs : BOOLEAN, pps : BOOLEAN,
             age : 0..AgeCap, ticks : 0..1, unfed : 0..(WDT_30S + 1)]
Switching == [active |-> FALSE, runs |-> FALSE, pps |-> FALSE,
              age |-> 0, ticks |-> 0, unfed |-> 0]
Started == [active |-> TRUE, runs |-> TRUE, pps |-> TRUE,
            age |-> 0, ticks |-> 0, unfed |-> 0]

--------------------------------------------------------------------------------
(* sm5440_work().  Each part maps the pump it finds to those it may leave.  *)

Fed(p) == [p EXCEPT !.unfed = 0]
Ticked(p, n) == [Fed(p) EXCEPT !.ticks = n]
Renewed(p) == [p EXCEPT !.age = 0]
\* A Request is answered or refused, and without a programmable contract it is
\* refused by TCPM; then the pack goes back to the switching charger.
Renews(p) == {Switching} \cup (IF p.pps THEN {Renewed(p)} ELSE {})

\* Mutant: the tail only services the watchdog.
TailFeeds(p) == IF ~keepalive_pending \/ ~p.active THEN {p}
                ELSE IF hot THEN {Switching} ELSE {Fed(p)}

\* The keepalive tail: hand back over a limit or on a refused Request.
KeepaliveTail(p) == IF ~keepalive_pending \/ ~p.active THEN {p}
                    ELSE IF hot THEN {Switching} ELSE Renews(Fed(p))

\* The tick itself, on the pump the tail has left: perhaps a start; a stop, for
\* the part has cleared CHG_ON or a limit is crossed; a renewal every other time.
Tick(p) ==
  IF ~p.active THEN {Switching, Started}
  ELSE (IF p.runs /\ ~hot THEN {} ELSE {Switching})
         \cup IF ~p.runs THEN {}
             ELSE IF p.ticks = 0 THEN {Ticked(p, 1)}
             ELSE Renews(Ticked(p, 0))

\* Mutant: a hand-back in the tail leaves before the wakeup source is dropped.
KeepaliveWorkHolds ==
  /\ ~asleep /\ due = 0
  /\ \E p \in KeepaliveTail(pump) :
       /\ pump' \in Tick(p)
       /\ ws' = (ws /\ (~keepalive_pending \/ ~p.active))
  /\ due' = (IF pump'.active THEN 1 ELSE 30)
  /\ keepalive_pending' = FALSE /\ interrupted' = (interrupted /\ pump'.age > 0)
  /\ UNCHANGED <<asleep, alarm, patience, hot>>

KeepaliveWork ==
  /\ ~asleep /\ due = 0
  /\ \E p \in KeepaliveTail(pump) : pump' \in Tick(p)
  /\ due' = (IF pump'.active THEN 1 ELSE 30)
  /\ keepalive_pending' = FALSE /\ ws' = (ws /\ ~keepalive_pending)
  /\ interrupted' = (interrupted /\ pump'.age > 0)
  /\ UNCHANGED <<asleep, alarm, patience, hot>>

--------------------------------------------------------------------------------
(* Suspend, the alarm and resume.                                           *)

\* sm5440_suspend(): a held wakeup source keeps the system from going down.
\* Without an RTC the pack goes back to the switching charger.  The queue froze
\* before the alarm is armed and thaws after it has fired.
Suspend ==
  /\ ~asleep /\ ~ws
  /\ asleep' = TRUE
  /\ pump' = (IF ~pump.active THEN pump ELSE IF HasRtc THEN Fed(pump) ELSE Switching)
  /\ IF pump.active /\ HasRtc THEN \E l \in 0..Latency : alarm' = KEEPALIVE_SEC + l
                            ELSE alarm' = Unarmed
  /\ UNCHANGED <<due, keepalive_pending, ws, patience, hot, interrupted>>

\* sm5440_keepalive_fire(), then sm5440_resume().  The work item is pending all
\* the time: queue_delayed_work() of either leaves its delay as it is.
AlarmFires ==
  /\ asleep /\ alarm = 0
  /\ keepalive_pending' = TRUE /\ ws' = TRUE
  /\ asleep' = FALSE /\ alarm' = Unarmed
  /\ UNCHANGED <<pump, due, patience, hot, interrupted>>

\* A wake nobody delivered: the tablet sleeps on.
AlarmMissed ==
  /\ asleep /\ alarm = 0
  /\ alarm' = Unarmed /\ interrupted' = TRUE
  /\ UNCHANGED <<pump, due, asleep, keepalive_pending, ws, patience, hot>>

\* The power key, the network: sm5440_resume() cancels the alarm.
WakesEarly ==
  /\ asleep
  /\ asleep' = FALSE /\ alarm' = Unarmed
  /\ interrupted' = pump.active
  /\ UNCHANGED <<pump, due, keepalive_pending, ws, patience, hot>>

--------------------------------------------------------------------------------
\* A second goes by.  A source that heard nothing for too long falls back to
\* 5 V and the part trips; so it does when its watchdog runs out.
AtMostOf(a, b) == IF a <= b THEN a ELSE b
Passed(p) ==
  LET age == AtMostOf(p.age + 1, AgeCap)
      unfed == AtMostOf(p.unfed + 1, WDT_30S + 1)
      pps == p.pps /\ age <= patience
  IN IF ~p.active THEN p
     ELSE [p EXCEPT !.age = age, !.unfed = unfed, !.pps = pps,
                    !.runs = p.runs /\ pps /\ unfed <= WDT_30S]
Second ==
  /\ IF asleep THEN alarm # 0 ELSE due > 0
  /\ pump' = Passed(pump)
  /\ due' = (IF asleep THEN due ELSE due - 1)
  /\ alarm' = (IF alarm > 0 THEN alarm - 1 ELSE alarm)
  /\ UNCHANGED <<asleep, keepalive_pending, ws, patience, hot, interrupted>>

Warms == /\ hot' = ~hot
         /\ UNCHANGED <<pump, due, asleep, alarm, keepalive_pending, ws, patience, interrupted>>

\* Ten seconds after probe().
SleepInit ==
  /\ pump = Switching /\ due = 10 /\ asleep = FALSE /\ alarm = Unarmed
  /\ keepalive_pending = FALSE /\ ws = FALSE /\ patience \in Patience /\ hot = FALSE
  /\ interrupted = FALSE

SleepNext == KeepaliveWork \/ Suspend \/ AlarmFires \/ AlarmMissed \/ WakesEarly \/ Second \/ Warms
SleepSpec == SleepInit /\ [][SleepNext]_sleepvars

--------------------------------------------------------------------------------
(* Properties                                                               *)

\* How old a Request may get: the two ticks of 851-854 while the tablet is awake;
\* on top of them the alarm and the latency, from suspend to the work item.
Tolerated == IF asleep \/ keepalive_pending THEN KEEPALIVE_SEC + Latency + 2 ELSE 2

\* The keepalive is there so that "the poll work can re-Request the PPS APDO, which
\* the source otherwise drops" (986-989).  A Request never gets older than the
\* alarm, the latency and two ticks, cycle after cycle, and a source with that
\* much patience keeps its contract; unless the alarm was missed or somebody else
\* woke the tablet in between.  A source that waits 5 s (851-854) only keeps it
\* while the tablet is awake: it has fallen back long before the alarm.
SleepKeepsContract ==
  pump.active /\ ~interrupted =>
    pump.age <= Tolerated /\ (Tolerated <= patience => pump.pps)

\* The wakeup source of the alarm is dropped again whatever the tail decides:
\* held, it would keep the tablet from ever sleeping again (680-685, 918-922).
SleepsAgain == ws ~> ~ws
================================================================================
