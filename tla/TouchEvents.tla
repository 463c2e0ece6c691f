------------------------------- MODULE TouchEvents -------------------------------
(***************************************************************************)
(* touchscreen-fts1ba90a-x716.c: the power-up with its two retries, and the *)
(* interrupt thread that reads the controller's event FIFO and turns one    *)
(* drain of it into one frame of the input device.  The controller, which   *)
(* puts one event per finger into the FIFO each time it scans, is external. *)
(* Coordinates are left out: what matters is which fingers are down.        *)
(***************************************************************************)
EXTENDS Integers, Sequences, FiniteSets

CONSTANTS
  Fingers,      \* touch ids below FTS1BA90A_MAX_TOUCH
  FIFO_MAX,     \* events one drain takes, 32 in the driver
  Backlog,      \* bound: events the controller holds
  TouchFaults   \* bound: transfers and regulators that fail

ASSUME FingersAssumption == Fingers \subseteq 0..9
ASSUME FifoAssumption == FIFO_MAX \in Nat \ {0} /\ Backlog \in Nat /\ TouchFaults \in Nat

VARIABLES
  stage,    \* how far fts1ba90a_probe() is
  held,     \* how often the driver holds each rail
  glass,    \* fingers on the glass as of the last scan
  fifo,     \* events not read yet
  irq,      \* the thread: idle, or between its two reads
  first,    \* in between: the event the first read took
  pending,  \* and how many more it announced
  slots,    \* fingers the input device reports down
  swallowed,\* those whose release was in the frame that reported them, history
  lost      \* failures so far
hardware == <<held, glass, fifo>>
thread == <<irq, first, pending, slots, swallowed>>
touch == <<stage, hardware, thread, lost>>

Rails == {"vddio", "avdd"}
Event(t, action) == [tid |-> t, action |-> action]
Status == Event(-1, "status")
LoseOne == lost < TouchFaults /\ lost' = lost + 1

--------------------------------------------------------------------------------
(* Power-up: stage names what is done next.                                 *)

On(h) == [r \in Rails |-> h[r] + 1]
Off(h) == [r \in Rails |-> h[r] - 1]
\* Rails off: whatever the controller held is gone.
Cut == held' = Off(held) /\ fifo' = <<>> /\ glass' = {}
Fails(next) == LoseOne /\ stage' = next
Goes(next) == stage' = next /\ UNCHANGED lost

\* fts1ba90a_power_on(): avdd's failure gives vddio back.
PowersOn(from, next) ==
  /\ stage = from /\ UNCHANGED <<glass, fifo, thread>>
  /\ \/ Goes(next) /\ held' = On(held)
     \/ Fails("unbound") /\ UNCHANGED held
\* The ready event comes, or a transfer fails, or 3 s pass.
Works(from, next) == stage = from /\ Goes(next) /\ UNCHANGED <<hardware, thread>>
GivesUp(from, next) == stage = from /\ Fails(next) /\ Cut /\ UNCHANGED thread
WaitsReady == \/ Works("ready", "identify")
              \/ stage = "ready" /\ Fails("reset") /\ UNCHANGED <<hardware, thread>>
Resets == Works("reset", "identify") \/ GivesUp("reset", "cycle")
\* Mutant: the last wait fails and leaves the rails on.
WaitsAgainLit == \/ Works("ready again", "identify")
                 \/ stage = "ready again" /\ Fails("unbound") /\ UNCHANGED <<hardware, thread>>
WaitsAgain == Works("ready again", "identify") \/ GivesUp("ready again", "unbound")
\* The identity, the scan commands, the input device and the interrupt: any
\* failure powers the controller off.
Identifies == Works("identify", "scan") \/ GivesUp("identify", "unbound")
StartsScan == Works("scan", "register") \/ GivesUp("scan", "unbound")
Registers == Works("register", "bound") \/ GivesUp("register", "unbound")
\* fts1ba90a_remove() powers off first; the interrupt is freed after it and the
\* input device, with what it reported, last.
Removes == stage = "bound" /\ Goes("removed") /\ Cut /\ UNCHANGED thread
Freed == /\ stage = "removed" /\ irq = "idle" /\ Goes("unbound")
         /\ slots' = {} /\ swallowed' = {} /\ UNCHANGED <<hardware, irq, first, pending>>
HwInit == \/ PowersOn("unbound", "ready") \/ WaitsReady \/ Resets
          \/ PowersOn("cycle", "ready again") \/ WaitsAgain \/ Identifies \/ StartsScan
          \/ Registers \/ Removes \/ Freed

--------------------------------------------------------------------------------
(* The controller.                                                          *)

Scanning == stage \in {"register", "bound"}
\* A scan: a move or a press for every finger down, a release for one that left,
\* by rising touch id.
InOrder(S) == {s \in [1..Cardinality(S) -> S] : \A i, j \in DOMAIN s : i < j => s[i] < s[j]}
Found(t, now) == Event(t, IF t \in now THEN "move" ELSE "release")
Scans(now) ==
  /\ Scanning /\ glass \cup now # {} /\ glass' = now
  /\ \E order \in InOrder(glass \cup now) :
       /\ Len(fifo) + Len(order) <= Backlog
       /\ fifo' = fifo \o [i \in DOMAIN order |-> Found(order[i], now)]
  /\ UNCHANGED <<stage, held, thread, lost>>
\* An event that is no coordinate.
Notes == /\ Scanning /\ Len(fifo) < Backlog /\ fifo' = Append(fifo, Status)
         /\ UNCHANGED <<stage, held, glass, thread, lost>>

--------------------------------------------------------------------------------
(* fts1ba90a_irq_thread(): level-triggered, so it runs while events wait.   *)

Answers == stage = "bound"
ReadsOne ==
  /\ stage \in {"bound", "removed"} /\ irq = "idle" /\ fifo # <<>>
  /\ irq' = "drain" /\ first' = Head(fifo) /\ fifo' = Tail(fifo)
  /\ pending' = (IF Len(fifo) > FIFO_MAX THEN FIFO_MAX - 1 ELSE Len(fifo) - 1)
  /\ UNCHANGED <<stage, held, glass, slots, swallowed, lost>>
\* The first read fails: nothing is reported, and the line stays low.
ReadsNothing == /\ stage = "bound" /\ irq = "idle" /\ fifo # <<>> /\ LoseOne
                /\ UNCHANGED <<stage, hardware, thread>>

\* fts1ba90a_report_event() over the events of one drain: a release refreshes
\* no slot, and input_mt_sync_frame() drops the slots not refreshed.
Refreshes(e) == e.action = "move"
Reports(batch, gone) ==
  /\ slots' = {batch[i].tid : i \in {j \in DOMAIN batch : Refreshes(batch[j])}}
  /\ swallowed' = {t \in slots' : \E i \in DOMAIN gone : gone[i] = Event(t, "release")}
  /\ irq' = "idle" /\ first' = Status /\ pending' = 0
Rest(n) == SubSeq(fifo, n + 1, Len(fifo))
Announced == <<first>> \o SubSeq(fifo, 1, pending)
\* Mutant: a failed second read leaves the frame unfinished.
DrainFailsMute == /\ irq = "drain" /\ pending # 0
                  /\ IF Answers THEN LoseOne ELSE UNCHANGED lost
                  /\ fifo' \in {fifo, Rest(pending)}
                  /\ irq' = "idle" /\ first' = Status /\ pending' = 0
                  /\ UNCHANGED <<stage, held, glass, slots, swallowed>>
Drains == /\ irq = "drain" /\ (Answers \/ pending = 0)
          /\ Reports(Announced, Announced) /\ fifo' = Rest(pending)
          /\ UNCHANGED <<stage, held, glass, lost>>
\* The second read fails: the first event is reported alone, and the others
\* have left the FIFO or are read again.
DrainFails == /\ irq = "drain" /\ pending # 0
              /\ IF Answers THEN LoseOne ELSE UNCHANGED lost
              /\ \/ fifo' = fifo /\ Reports(<<first>>, <<first>>)
                 \/ Answers /\ fifo' = Rest(pending) /\ Reports(<<first>>, Announced)
              /\ UNCHANGED <<stage, held, glass>>
Irq == ReadsOne \/ ReadsNothing \/ Drains \/ DrainFails

TouchInit ==
  /\ stage = "unbound" /\ held = [r \in Rails |-> 0] /\ glass = {} /\ fifo = <<>>
  /\ irq = "idle" /\ first = Status /\ pending = 0 /\ slots = {} /\ swallowed = {} /\ lost = 0
TouchNext == HwInit \/ (\E now \in SUBSET Fingers : Scans(now)) \/ Notes \/ Irq
TouchSpec == TouchInit /\ [][TouchNext]_touch

--------------------------------------------------------------------------------
(* Properties.                                                              *)

\* The two rails are held once each while the controller is in use, and not at
\* all otherwise: the retries of fts1ba90a_hw_init() and every way out of probe
\* balance (162-181, 378-395).
TouchPowered ==
  \A r \in Rails : held[r] = (IF stage \in {"unbound", "cycle", "removed"} THEN 0 ELSE 1)

\* With every event read, a finger reported down is on the glass, unless its
\* release left the FIFO in the drain that reported it, over any backlog, split
\* frames and failed reads (340-355).
NoGhost == stage = "bound" /\ irq = "idle" /\ fifo = <<>> => slots \subseteq glass \cup swallowed

\* 303-306: "input_mt_sync_frame() below releases any slot not touched this frame
\* on its own", so no finger stays down once its release has been read.
ReleasesLift == stage = "bound" /\ irq = "idle" /\ fifo = <<>> => slots \subseteq glass
================================================================================
