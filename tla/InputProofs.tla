------------------------------- MODULE InputProofs -------------------------------
(***************************************************************************)
(* The pen's keys, the touch controller's rails and the fingers it reports, *)
(* for any number of packets, events, sleeps and failures.                  *)
(***************************************************************************)
EXTENDS PenEvents, TouchEvents, FiniteSetTheorems, TLAPS

--------------------------------------------------------------------------------
(* The pen.                                                                 *)

Keys == {"pen", "rubber", "touch"}
PenTypes ==
  /\ pen \in SUBSET Keys /\ packets \in Seq(SUBSET Keys) /\ keys \in SUBSET Keys
  /\ sampling \in BOOLEAN /\ prox \in BOOLEAN /\ missed \in BOOLEAN
  /\ power \in {"awake", "released", "asleep"}

\* The last packet says where the pen is: a digitizer that does not sample has
\* none, and one that starts again reports a pen that is there.
Latest == /\ ~sampling => packets = <<>>
          /\ packets # <<>> => packets[Len(packets)] = pen
\* The driver may think a pen near whose keys the input core let go, and never
\* the other way round.
Near == ~prox => keys = {}
\* From the input core's suspend on nothing is down.
LetGo == power # "awake" /\ ~missed => keys = {}
PenInv == PenTypes /\ Latest /\ Near /\ LetGo /\ PenFollows

LEMMA PenStarts == ASSUME PenInit PROVE PenInv
<1>1. /\ pen = {} /\ packets = <<>> /\ keys = {} /\ sampling = TRUE /\ prox = FALSE
      /\ missed = FALSE /\ power = "awake"
  BY DEF PenInit, Away
<1>2. packets \in Seq(SUBSET Keys)
  BY <1>1
<1>3. PenTypes
  BY <1>1, <1>2 DEF PenTypes
<1> QED BY <1>1, <1>3 DEF PenInv, Latest, Near, LetGo, PenFollows

\* The head and the tail of what waits.
LEMMA Waiting ==
  ASSUME NEW S, NEW q \in Seq(S), q # <<>>
  PROVE  /\ Head(q) \in S /\ Tail(q) \in Seq(S)
         /\ Tail(q) = <<>> => Head(q) = q[Len(q)]
         /\ Tail(q) # <<>> => Tail(q)[Len(Tail(q))] = q[Len(q)]
<1>1. Len(q) \in Nat /\ Len(q) # 0
  OBVIOUS
<1>2. Tail(q) \in Seq(S) /\ Head(q) \in S /\ Head(q) = q[1] /\ Len(Tail(q)) = Len(q) - 1
  OBVIOUS
<1>3. Tail(q) = <<>> => Len(q) = 1
  BY <1>1, <1>2
<1>4. Tail(q) # <<>> => Tail(q)[Len(Tail(q))] = q[Len(q)]
  <2> SUFFICES ASSUME Tail(q) # <<>> PROVE Tail(q)[Len(q) - 1] = q[Len(q)]
    BY <1>2
  <2>1. Len(q) - 1 \in 1..Len(Tail(q))
    BY <1>1, <1>2
  <2>2. \A i \in 1..Len(Tail(q)) : Tail(q)[i] = q[i + 1]
    BY <1>1, <1>2
  <2> QED BY <1>1, <2>1, <2>2
<1> QED BY <1>2, <1>3, <1>4
\* What is put behind it.
LEMMA Arriving ==
  ASSUME NEW S, NEW q \in Seq(S), NEW p \in S
  PROVE  /\ Append(q, p) \in Seq(S) /\ Append(q, p) # <<>>
         /\ Append(q, p)[Len(Append(q, p))] = p
OBVIOUS

LEMMA PenKept == ASSUME PenInv, PenNext PROVE PenInv'
<1> USE DEF PenInv
<1>1. CASE PenMoves
  <2>1. PICK p \in InRange \cup {Away} : p # pen /\ pen' = p
    BY <1>1 DEF PenMoves
  <2>2. p \in SUBSET Keys
    BY <2>1 DEF InRange, Away, Keys
  <2>3. UNCHANGED <<sampling, keys, prox, power, missed>>
    BY <1>1 DEF PenMoves
  <2>4. CASE sampling
    <3>1. packets' = Append(packets, p)
      BY <1>1, <2>1, <2>4 DEF PenMoves
    <3>2. packets' \in Seq(SUBSET Keys) /\ packets' # <<>> /\ packets'[Len(packets')] = p
      BY <2>2, <3>1, Arriving DEF PenTypes
    <3> QED BY <2>1, <2>2, <2>3, <2>4, <3>2 DEF PenTypes, Latest, Near, LetGo, PenFollows
  <2>5. CASE ~sampling
    BY <1>1, <2>1, <2>2, <2>3, <2>5 DEF PenMoves, PenTypes, Latest, Near, LetGo, PenFollows
  <2> QED BY <2>4, <2>5 DEF PenTypes
<1>2. CASE PenReads
  <2>1. /\ packets # <<>> /\ packets' = Tail(packets) /\ UNCHANGED <<pen, sampling, power>>
        /\ missed' = (power = "released") /\ power # "asleep"
    BY <1>2 DEF PenReads
  <2>2. /\ Head(packets) \in SUBSET Keys /\ packets' \in Seq(SUBSET Keys)
        /\ packets' = <<>> => Head(packets) = pen
        /\ packets' # <<>> => packets'[Len(packets')] = pen
    BY <2>1, Waiting DEF PenTypes, Latest
  <2>3. keys' = Head(packets) /\ prox' \in BOOLEAN /\ (~prox' => keys' = {})
    <3>1. CASE Head(packets) # Away
      BY <1>2, <3>1 DEF PenReads
    <3>2. CASE Head(packets) = Away /\ prox
      BY <1>2, <3>2 DEF PenReads, Away
    <3>3. CASE Head(packets) = Away /\ ~prox
      BY <1>2, <3>3 DEF PenReads, Away, Near, PenTypes
    <3> QED BY <3>1, <3>2, <3>3 DEF PenTypes
  <2>4. PenTypes'
    BY <2>1, <2>2, <2>3 DEF PenTypes
  <2>5. Latest' /\ Near'
    BY <2>1, <2>2, <2>3 DEF Latest, Near
  <2>6. LetGo' /\ PenFollows'
    BY <2>1, <2>2, <2>3 DEF LetGo, PenFollows, PenTypes
  <2> QED BY <2>4, <2>5, <2>6
<1>3. CASE PenReadFails
  <2>1. /\ packets # <<>> /\ packets' \in {packets, Tail(packets)}
        /\ missed' = (packets' # packets \/ missed)
        /\ UNCHANGED <<pen, sampling, keys, prox, power>>
    BY <1>3 DEF PenReadFails
  <2>2. CASE packets' = packets
    BY <2>1, <2>2 DEF PenTypes, Latest, Near, LetGo, PenFollows
  <2>3. CASE packets' = Tail(packets) /\ packets' # packets
    <3>1. /\ packets' \in Seq(SUBSET Keys)
          /\ packets' # <<>> => packets'[Len(packets')] = pen
      BY <2>1, <2>3, Waiting DEF PenTypes, Latest
    <3> QED BY <2>1, <2>3, <3>1 DEF PenTypes, Latest, Near, LetGo, PenFollows
  <2> QED BY <2>1, <2>2, <2>3
<1>4. CASE CoreReleases
  BY <1>4 DEF CoreReleases, PenTypes, Latest, Near, LetGo, PenFollows
<1>5. CASE PenSuspends
  <2>1. /\ power = "released" /\ power' = "asleep" /\ UNCHANGED <<pen, keys, prox, missed>>
        /\ \/ sampling' = FALSE /\ packets' = <<>>
           \/ UNCHANGED <<sampling, packets>>
    BY <1>5 DEF PenSuspends
  <2>2. packets' \in Seq(SUBSET Keys)
    <3>1. CASE packets' = <<>>
      BY <3>1
    <3>2. CASE packets' = packets
      BY <3>2 DEF PenTypes
    <3> QED BY <2>1, <3>1, <3>2
  <2> QED BY <2>1, <2>2 DEF PenTypes, Latest, Near, LetGo, PenFollows
<1>6. CASE PenResumes
  <2>1. power = "asleep" /\ power' = "awake" /\ UNCHANGED <<pen, keys, prox>>
    BY <1>6 DEF PenResumes
  <2>2. CASE missed' = TRUE /\ UNCHANGED <<sampling, packets>>
    BY <2>1, <2>2 DEF PenTypes, Latest, Near, LetGo, PenFollows
  <2>3. CASE /\ sampling' = TRUE /\ UNCHANGED missed
             /\ pen = Away \/ Len(packets) = Packets
             /\ packets' = packets
    BY <2>1, <2>3, PenAssumption DEF PenTypes, Latest, Near, LetGo, PenFollows, Away
  <2>4. CASE sampling' = TRUE /\ UNCHANGED missed /\ packets' = Append(packets, pen)
    <3>1. packets' \in Seq(SUBSET Keys) /\ packets' # <<>> /\ packets'[Len(packets')] = pen
      BY <2>4, Arriving DEF PenTypes
    <3> QED BY <2>1, <2>4, <3>1 DEF PenTypes, Latest, Near, LetGo, PenFollows
  <2> QED BY <1>6, <2>2, <2>3, <2>4 DEF PenResumes
<1> QED BY <1>1, <1>2, <1>3, <1>4, <1>5, <1>6 DEF PenNext

\* Awake and with every packet read the keys are the pen's, over any number of
\* sleeps, unless a transfer failed or a packet came between the two suspends.
THEOREM PenFollowsAlways == PenSpec => []PenFollows
<1>1. PenInv => PenFollows
  BY DEF PenInv
<1>2. PenInv /\ UNCHANGED penvars => PenInv'
  BY DEF PenInv, PenTypes, Latest, Near, LetGo, PenFollows, penvars
<1> QED BY <1>1, <1>2, PenStarts, PenKept, PTL DEF PenSpec

--------------------------------------------------------------------------------
(* The touch controller's rails.                                            *)

\* Switching on and off counts once for each rail.
LEMMA Counts == /\ On([r \in Rails |-> 0]) = [r \in Rails |-> 1]
                /\ Off([r \in Rails |-> 1]) = [r \in Rails |-> 0]
BY DEF On, Off
\* TouchPowered, with the domain of the counts.
Balanced ==
  held = [r \in Rails |-> IF stage \in {"unbound", "cycle", "removed"} THEN 0 ELSE 1]

\* The retries and every way out of probe give back what they took.
THEOREM TouchPoweredAlways == TouchSpec => []TouchPowered
<1>1. TouchInit => Balanced
  BY DEF TouchInit, Balanced
<1>2. ASSUME Balanced, HwInit PROVE Balanced'
  <2>1. ASSUME NEW from \in {"unbound", "cycle"}, NEW next \in {"ready", "ready again"},
               PowersOn(from, next)
        PROVE  Balanced'
    <3>1. held = [r \in Rails |-> 0]
      BY <1>2, <2>1 DEF PowersOn, Balanced
    <3>2. CASE stage' = next /\ held' = On(held)
      <4>1. held' = [r \in Rails |-> 1]
        BY <3>1, <3>2, Counts, Zenon
      <4>2. stage' \notin {"unbound", "cycle", "removed"}
        BY <2>1, <3>2
      <4> QED BY <4>1, <4>2 DEF Balanced
    <3>3. CASE stage' = "unbound" /\ held' = held
      BY <3>1, <3>3 DEF Balanced
    <3> QED BY <2>1, <3>2, <3>3 DEF PowersOn, Goes, Fails
  <2>2. ASSUME NEW from \in {"ready", "reset", "ready again", "identify", "scan", "register"},
               NEW next \in {"reset", "identify", "scan", "register", "bound"},
               stage = from, stage' = next, held' = held
        PROVE  Balanced'
    BY <1>2, <2>2 DEF Balanced
  <2>3. ASSUME NEW from \in {"reset", "ready again", "identify", "scan", "register", "bound"},
               NEW next \in {"cycle", "unbound", "removed"},
               stage = from, stage' = next, held' = Off(held)
        PROVE  Balanced'
    <3>1. held = [r \in Rails |-> 1]
      BY <1>2, <2>3 DEF Balanced
    <3>2. held' = [r \in Rails |-> 0]
      BY <2>3, <3>1, Counts, Zenon
    <3> QED BY <2>3, <3>2 DEF Balanced
  <2>4. CASE PowersOn("unbound", "ready") \/ PowersOn("cycle", "ready again")
    BY <2>1, <2>4
  <2>5. CASE WaitsReady
    BY <2>2, <2>5 DEF WaitsReady, Works, Goes, Fails, hardware
  <2>6. CASE Resets \/ WaitsAgain \/ Identifies \/ StartsScan \/ Registers
    BY <2>2, <2>3, <2>6
       DEF Resets, WaitsAgain, Identifies, StartsScan, Registers, Works, GivesUp, Goes, Fails,
           Cut, hardware
  <2>7. CASE Removes
    BY <2>3, <2>7 DEF Removes, Goes, Cut
  <2>8. CASE Freed
    BY <1>2, <2>8 DEF Freed, Goes, hardware, Balanced
  <2> QED BY <1>2, <2>4, <2>5, <2>6, <2>7, <2>8 DEF HwInit
<1>3. ASSUME Balanced, TouchNext, ~HwInit PROVE Balanced'
  BY <1>3 DEF TouchNext, Scans, Notes, Irq, ReadsOne, ReadsNothing, Drains, DrainFails,
     hardware, Balanced
<1>4. Balanced /\ UNCHANGED touch => Balanced'
  BY DEF Balanced, touch, hardware
<1>5. Balanced => TouchPowered
  BY DEF Balanced, TouchPowered
<1> QED BY <1>1, <1>2, <1>3, <1>4, <1>5, PTL DEF TouchSpec

--------------------------------------------------------------------------------
(* The fingers the input device reports.                                    *)

\* One sequence behind another.
LEMMA Joined ==
  ASSUME NEW S, NEW p \in Seq(S), NEW q \in Seq(S)
  PROVE  /\ p \o q \in Seq(S) /\ Len(p \o q) = Len(p) + Len(q)
         /\ \A i \in 1..Len(p) : (p \o q)[i] = p[i]
         /\ \A k \in 1..Len(q) : (p \o q)[Len(p) + k] = q[k]
<1>1. p \o q \in Seq(S)
  OBVIOUS
<1>2. Len(p \o q) = Len(p) + Len(q)
  OBVIOUS
<1>3. \A i \in 1..Len(p) : (p \o q)[i] = p[i]
  OBVIOUS
<1>4. \A k \in 1..Len(q) : (p \o q)[Len(p) + k] = q[k]
  OBVIOUS
<1> QED BY <1>1, <1>2, <1>3, <1>4

\* What is left of a sequence when its first n are gone.
LEMMA Rests ==
  ASSUME NEW S, NEW q \in Seq(S), NEW n \in 0..Len(q)
  PROVE  /\ SubSeq(q, n + 1, Len(q)) \in Seq(S) /\ Len(SubSeq(q, n + 1, Len(q))) = Len(q) - n
         /\ \A i \in 1..(Len(q) - n) : SubSeq(q, n + 1, Len(q))[i] = q[i + n]
<1>1. SubSeq(q, n + 1, Len(q)) \in Seq(S)
  OBVIOUS
<1>2. Len(SubSeq(q, n + 1, Len(q))) = Len(q) - n
  OBVIOUS
<1>3. \A i \in 1..(Len(q) - n) : SubSeq(q, n + 1, Len(q))[i] = q[i + n]
  OBVIOUS
<1> QED BY <1>1, <1>2, <1>3

\* One element, and the first n of a sequence behind it.
LEMMA Firsts ==
  ASSUME NEW S, NEW e \in S, NEW q \in Seq(S), NEW n \in 0..Len(q)
  PROVE  LET b == <<e>> \o SubSeq(q, 1, n)
         IN  /\ Len(b) = n + 1 /\ DOMAIN b = 1..(n + 1) /\ b[1] = e
             /\ \A i \in 1..n : b[i + 1] = q[i]
<1> DEFINE r == SubSeq(q, 1, n)
<1>1. r \in Seq(S) /\ Len(r) = n /\ \A i \in 1..n : r[i] = q[i]
  OBVIOUS
<1>2. <<e>> \in Seq(S) /\ Len(<<e>>) = 1 /\ <<e>>[1] = e
  OBVIOUS
<1>3. (<<e>> \o r) \in Seq(S) /\ Len(<<e>> \o r) = n + 1
      /\ \A k \in 1..n : (<<e>> \o r)[1 + k] = r[k]
      /\ (<<e>> \o r)[1] = e
  <2> HIDE DEF r
  <2>1. 1 \in 1..Len(<<e>>)
    BY <1>2
  <2> QED BY <1>1, <1>2, <2>1, Joined
<1> HIDE DEF r
<1>4. DOMAIN (<<e>> \o r) = 1..(n + 1)
  BY <1>3
<1>5. \A i \in 1..n : (<<e>> \o r)[i + 1] = q[i]
  BY <1>1, <1>3
<1> QED BY <1>3, <1>4, <1>5 DEF r

Events == [tid : Int, action : {"move", "release", "status"}]
\* A release of t waits in a FIFO behind its first i events.
Lifted(q, i, t) == \E j \in (i + 1)..Len(q) : q[j] = Event(t, "release")

TouchTypes == /\ glass \subseteq Fingers /\ fifo \in Seq(Events) /\ first \in Events
              /\ irq \in {"idle", "drain"} /\ pending \in Nat
\* The interrupt runs only while it is registered, and an unpowered controller
\* has nothing to say.
Quiet == /\ stage \notin {"bound", "removed"} => irq = "idle" /\ slots = {}
         /\ stage = "removed" => fifo = <<>>
         /\ stage = "bound" /\ irq = "drain" => pending <= Len(fifo)
\* A finger that has left the glass is released later than it was last seen,
\* wherever that event has got to.
Lifts ==
  /\ \A i \in 1..Len(fifo) :
       fifo[i].action = "move" /\ fifo[i].tid \notin glass => Lifted(fifo, i, fifo[i].tid)
  /\ irq = "drain" /\ first.action = "move" /\ first.tid \notin glass => Lifted(fifo, 0, first.tid)
  /\ \A t \in slots \ (glass \cup swallowed) :
       Lifted(fifo, 0, t) \/ (irq = "drain" /\ first = Event(t, "release"))
GhostInv == TouchTypes /\ Quiet /\ (stage # "removed" => Lifts)

\* The scan misses no finger: as many ids in rising order as there are fingers.
LEMMA OrderCovers ==
  ASSUME NEW S \in SUBSET Fingers, NEW order \in InOrder(S)
  PROVE  /\ order \in Seq(S) /\ DOMAIN order = 1..Len(order)
         /\ \A t \in S : \E k \in 1..Len(order) : order[k] = t
<1>1. IsFiniteSet(S)
  <2>1. S \in SUBSET Nat /\ \A t \in S : t <= 9
    BY FingersAssumption
  <2> QED BY <2>1, FS_BoundedSetOfNaturals
<1> DEFINE n == Cardinality(S)
<1>2. n \in Nat
  BY <1>1, FS_CardinalityType
<1> HIDE DEF n
<1>3. order \in [1..n -> S] /\ \A i, j \in 1..n : i < j => order[i] < order[j]
  BY DEF InOrder, n
<1>4. \A x \in S : x \in Int
  BY FingersAssumption
<1>5. order \in Injection(1..n, S)
  BY <1>2, <1>3, <1>4 DEF Injection, IsInjective
<1>6. Cardinality(1..n) = n
  BY <1>2, FS_Interval
<1>7. order \in Surjection(1..n, S)
  BY <1>1, <1>5, <1>6, FS_Injection DEF n
<1>8. order \in Seq(S) /\ Len(order) = n
  BY <1>2, <1>3
<1> QED BY <1>3, <1>7, <1>8 DEF Surjection

\* A scan that no longer finds t releases it behind all that waits.
LEMMA ScanLifts ==
  ASSUME GhostInv, NEW now \in SUBSET Fingers, Scans(now)
  PROVE  /\ fifo' \in Seq(Events) /\ Len(fifo') >= Len(fifo)
         /\ \A i \in 1..Len(fifo) : fifo'[i] = fifo[i]
         /\ \A i \in 1..Len(fifo') : i > Len(fifo) /\ fifo'[i].action = "move" => fifo'[i].tid \in now
         /\ \A i \in 0..Len(fifo), t \in Int :
              t \notin now /\ (t \in glass \/ Lifted(fifo, i, t)) => Lifted(fifo', i, t)
<1> DEFINE was == glass \cup now
<1>1. PICK order \in InOrder(was) : fifo' = fifo \o [i \in DOMAIN order |-> Found(order[i], now)]
  BY DEF Scans
<1>2. was \in SUBSET Fingers
  BY DEF GhostInv, TouchTypes
<1>3. /\ order \in Seq(was) /\ DOMAIN order = 1..Len(order)
      /\ \A t \in was : \E k \in 1..Len(order) : order[k] = t
  BY <1>2, OrderCovers
<1> DEFINE news == [i \in 1..Len(order) |-> Found(order[i], now)]
<1>4. \A t \in was : t \in Int
  <2> SUFFICES ASSUME NEW t \in was PROVE t \in Int
    OBVIOUS
  <2>1. t \in Fingers
    BY <1>2
  <2>2. t \in 0..9
    BY <2>1, FingersAssumption
  <2> QED BY <2>2
<1>5. news \in Seq(Events) /\ Len(news) = Len(order) /\ Len(order) \in Nat
  <2>1. \A k \in 1..Len(order) : Found(order[k], now) \in Events
    BY <1>3, <1>4 DEF Found, Event, Events
  <2> QED BY <1>3, <2>1
<1>6. fifo' = fifo \o news /\ fifo \in Seq(Events)
  BY <1>1, <1>3 DEF GhostInv, TouchTypes
<1>7. \A k \in 1..Len(order) : news[k] = Event(order[k], IF order[k] \in now THEN "move" ELSE "release")
  BY DEF Found
<1> HIDE DEF news, was
<1>8. /\ fifo' \in Seq(Events) /\ Len(fifo') = Len(fifo) + Len(order) /\ Len(fifo) \in Nat
      /\ \A i \in 1..Len(fifo) : fifo'[i] = fifo[i]
      /\ \A k \in 1..Len(order) : fifo'[Len(fifo) + k] = news[k]
  <2>1. /\ fifo' \in Seq(Events) /\ Len(fifo') = Len(fifo) + Len(news) /\ Len(fifo) \in Nat
        /\ \A i \in 1..Len(fifo) : fifo'[i] = fifo[i]
        /\ \A k \in 1..Len(news) : fifo'[Len(fifo) + k] = news[k]
    <3>1. /\ (fifo \o news) \in Seq(Events) /\ Len(fifo \o news) = Len(fifo) + Len(news)
          /\ \A i \in 1..Len(fifo) : (fifo \o news)[i] = fifo[i]
          /\ \A k \in 1..Len(news) : (fifo \o news)[Len(fifo) + k] = news[k]
      <4>1. fifo \in Seq(Events) /\ news \in Seq(Events)
        BY <1>5, <1>6
      <4> QED BY ONLY <4>1, Joined
    <3> QED BY <1>6, <3>1
  <2> QED BY <1>5, <2>1
<1>9. ASSUME NEW i \in 1..Len(fifo'), i > Len(fifo), fifo'[i].action = "move"
      PROVE  fifo'[i].tid \in now
  <2>1. i - Len(fifo) \in 1..Len(order) /\ i = Len(fifo) + (i - Len(fifo))
    BY <1>5, <1>8, <1>9
  <2> DEFINE k == i - Len(fifo)
  <2>2. fifo'[i] = news[k]
    BY <1>8, <2>1
  <2>3. news[k] = Event(order[k], IF order[k] \in now THEN "move" ELSE "release")
    BY <1>7, <2>1
  <2>4. fifo'[i].tid = order[k] /\ (order[k] \notin now => fifo'[i].action = "release")
    BY <2>2, <2>3 DEF Event
  <2> QED BY <1>9, <2>4
<1>10. ASSUME NEW i \in 0..Len(fifo), NEW t \in Int, t \notin now, t \in glass \/ Lifted(fifo, i, t)
       PROVE  Lifted(fifo', i, t)
  <2>1. CASE t \in glass
    <3>1. PICK k \in 1..Len(order) : order[k] = t
      BY <1>3, <2>1 DEF was
    <3>2. news[k] = Event(t, "release")
      BY <1>7, <1>10, <3>1
    <3>3. Len(fifo) + k \in (i + 1)..Len(fifo') /\ fifo'[Len(fifo) + k] = news[k]
      BY <1>5, <1>8, <3>1
    <3> QED BY <3>2, <3>3 DEF Lifted, Event
  <2>2. CASE Lifted(fifo, i, t)
    <3>1. PICK j \in (i + 1)..Len(fifo) : fifo[j] = Event(t, "release")
      BY <2>2 DEF Lifted
    <3>2. j \in (i + 1)..Len(fifo') /\ fifo'[j] = fifo[j]
      BY <1>5, <1>8, <3>1
    <3> QED BY <3>1, <3>2 DEF Lifted, Event
  <2> QED BY <1>10, <2>1, <2>2
<1> QED BY <1>5, <1>8, <1>9, <1>10

LEMMA ScanKeeps == ASSUME GhostInv, NEW now \in SUBSET Fingers, Scans(now) PROVE GhostInv'
<1>1. /\ Scanning /\ glass' = now /\ UNCHANGED <<stage, irq, first, pending, slots, swallowed>>
  BY DEF Scans, thread
<1>2. /\ fifo' \in Seq(Events) /\ Len(fifo') >= Len(fifo)
      /\ \A i \in 1..Len(fifo) : fifo'[i] = fifo[i]
      /\ \A i \in 1..Len(fifo') : i > Len(fifo) /\ fifo'[i].action = "move" => fifo'[i].tid \in now
      /\ \A i \in 0..Len(fifo), t \in Int :
           t \notin now /\ (t \in glass \/ Lifted(fifo, i, t)) => Lifted(fifo', i, t)
  BY ScanLifts
<1>3. TouchTypes /\ Quiet /\ Lifts /\ fifo \in Seq(Events) /\ stage # "removed"
  BY <1>1 DEF Scanning, GhostInv, TouchTypes
<1>4. TouchTypes'
  BY <1>1, <1>2, <1>3 DEF TouchTypes
<1>5. Quiet'
  BY <1>1, <1>2, <1>3 DEF Quiet, Scanning, TouchTypes
<1>6. ASSUME NEW i \in 1..Len(fifo'), fifo'[i].action = "move", fifo'[i].tid \notin now
      PROVE  Lifted(fifo', i, fifo'[i].tid)
  <2>1. i \in 1..Len(fifo)
    BY <1>2, <1>3, <1>6
  <2>3. fifo'[i] = fifo[i] /\ fifo[i] \in Events /\ i \in 0..Len(fifo)
    BY <1>2, <1>3, <2>1
  <2>4. fifo[i].tid \in Int /\ fifo[i].action = "move" /\ fifo[i].tid \notin now
    BY <1>6, <2>3 DEF Events
  <2>2. fifo[i].tid \in glass \/ Lifted(fifo, i, fifo[i].tid)
    BY <1>3, <2>1, <2>4 DEF Lifts
  <2>5. Lifted(fifo', i, fifo[i].tid)
    BY <1>2, <2>2, <2>3, <2>4
  <2> QED BY <2>3, <2>5
<1>7. ASSUME irq = "drain", first.action = "move", first.tid \notin now
      PROVE  Lifted(fifo', 0, first.tid)
  <2>1. first.tid \in Int /\ 0 \in 0..Len(fifo)
    BY <1>3 DEF TouchTypes, Events
  <2>2. first.tid \in glass \/ Lifted(fifo, 0, first.tid)
    BY <1>3, <1>7 DEF Lifts
  <2> QED BY <1>2, <1>7, <2>1, <2>2
<1>8. ASSUME NEW t \in slots, t \notin now, t \notin swallowed, ~(irq = "drain" /\ first = Event(t, "release"))
      PROVE  Lifted(fifo', 0, t)
  <2>1. 0 \in 0..Len(fifo)
    BY <1>3
  <2>2. t \in glass \/ Lifted(fifo, 0, t)
    BY <1>3, <1>8 DEF Lifts
  <2>3. t \in Int
    <3>1. CASE t \in glass
      BY <1>3, <3>1, FingersAssumption DEF TouchTypes
    <3>2. CASE Lifted(fifo, 0, t)
      <4>1. PICK j \in (0 + 1)..Len(fifo) : fifo[j] = Event(t, "release")
        BY <3>2 DEF Lifted
      <4>2. fifo[j] \in Events
        BY <1>3, <4>1
      <4> QED BY <4>1, <4>2 DEF Event, Events
    <3> QED BY <2>2, <3>1, <3>2
  <2> QED BY <1>2, <1>8, <2>1, <2>2, <2>3
<1>9. Lifts'
  BY <1>1, <1>6, <1>7, <1>8 DEF Lifts
<1> QED BY <1>4, <1>5, <1>9 DEF GhostInv

\* A drain takes the first event and those the first read announced; what it
\* reports down and finds no release of is released in the rest.
LEMMA DrainKeeps ==
  ASSUME GhostInv, stage = "bound", irq = "drain", fifo' = Rest(pending), irq' = "idle",
         first' = Status, pending' = 0, UNCHANGED <<stage, glass>>,
         \A t \in slots' : \E i \in DOMAIN Announced : Refreshes(Announced[i]) /\ Announced[i].tid = t,
         \A t \in slots' : t \in swallowed' \/ \A i \in DOMAIN Announced : Announced[i] # Event(t, "release")
  PROVE  GhostInv'
<1>1. /\ fifo \in Seq(Events) /\ pending \in 0..Len(fifo) /\ first \in Events /\ Lifts
      /\ glass \subseteq Fingers
  BY DEF GhostInv, TouchTypes, Quiet
<1>2. /\ fifo' \in Seq(Events) /\ Len(fifo') = Len(fifo) - pending
      /\ \A i \in 1..(Len(fifo) - pending) : fifo'[i] = fifo[i + pending]
  BY <1>1, Rests DEF Rest
<1>3. /\ DOMAIN Announced = 1..(pending + 1) /\ Announced[1] = first
      /\ \A i \in 1..pending : Announced[i + 1] = fifo[i]
  BY <1>1, Firsts DEF Announced
<1>4. ASSUME NEW i \in 0..Len(fifo), NEW t, Lifted(fifo, i, t), NEW k \in Nat, k + pending >= i,
             \A j \in (i + 1)..Len(fifo) : j <= k + pending => fifo[j] # Event(t, "release")
      PROVE  Lifted(fifo', k, t)
  <2>1. PICK j \in (i + 1)..Len(fifo) : fifo[j] = Event(t, "release")
    BY <1>4 DEF Lifted
  <2>2. j > k + pending
    BY <1>1, <1>4, <2>1
  <2>3. j - pending \in 1..(Len(fifo) - pending) /\ (j - pending) + pending = j /\ j - pending \in (k + 1)..Len(fifo')
    BY <1>1, <1>2, <1>4, <2>1, <2>2
  <2>4. fifo'[j - pending] = fifo[j]
    BY <1>2, <2>3
  <2> QED BY <2>1, <2>3, <2>4 DEF Lifted
<1>5. ASSUME NEW i \in 1..Len(fifo'), fifo'[i].action = "move", fifo'[i].tid \notin glass
      PROVE  Lifted(fifo', i, fifo'[i].tid)
  <2>1. fifo'[i] = fifo[i + pending] /\ i + pending \in 1..Len(fifo)
    BY <1>1, <1>2
  <2>2. Lifted(fifo, i + pending, fifo[i + pending].tid)
    BY <1>1, <1>5, <2>1 DEF Lifts
  <2>3. i + pending \in 0..Len(fifo) /\ i \in Nat
    BY <1>1, <1>2, <2>1
  <2> QED BY <1>1, <1>4, <2>1, <2>2, <2>3
<1>6. ASSUME NEW t \in slots', t \notin glass, t \notin swallowed' PROVE Lifted(fifo', 0, t)
  <2>1. PICK n \in DOMAIN Announced : Refreshes(Announced[n]) /\ Announced[n].tid = t
    OBVIOUS
  <2>2. n \in 1..(pending + 1) /\ Announced[n].action = "move"
    BY <1>3, <2>1 DEF Refreshes
  <2>3. \A i \in 1..pending : fifo[i] # Event(t, "release")
    <3> SUFFICES ASSUME NEW i \in 1..pending PROVE Announced[i + 1] # Event(t, "release")
      BY <1>3
    <3>1. i + 1 \in DOMAIN Announced
      BY <1>1, <1>3
    <3> QED BY <1>6, <3>1
  <2>4. Lifted(fifo, n - 1, t)
    <3>1. CASE n = 1
      BY <1>1, <1>3, <1>6, <2>1, <2>2, <3>1 DEF Lifts
    <3>2. CASE n # 1
      <4>1. n - 1 \in 1..pending /\ n - 1 \in 1..Len(fifo) /\ (n - 1) + 1 = n
        BY <1>1, <2>2, <3>2
      <4>2. Announced[n] = fifo[n - 1]
        BY <1>3, <4>1
      <4> QED BY <1>1, <1>6, <2>1, <2>2, <4>1, <4>2 DEF Lifts
    <3> QED BY <3>1, <3>2
  <2>5. n - 1 \in 0..Len(fifo) /\ n - 1 <= pending
    BY <1>1, <2>2
  <2>6. \A j \in ((n - 1) + 1)..Len(fifo) : j <= 0 + pending => fifo[j] # Event(t, "release")
    BY <1>1, <2>2, <2>3
  <2> QED BY <1>1, <1>4, <2>4, <2>5, <2>6
<1>7. TouchTypes'
  BY <1>1, <1>2 DEF TouchTypes, Status, Event, Events
<1>8. Lifts'
  BY <1>5, <1>6 DEF Lifts
<1> QED BY <1>7, <1>8 DEF GhostInv, Quiet

\* A second read that fails before anything has left the FIFO: the first event is
\* all there is to report.
LEMMA FirstAloneKeeps ==
  ASSUME GhostInv, irq = "drain", Reports(<<first>>, <<first>>), UNCHANGED <<stage, glass, fifo>>
  PROVE  GhostInv'
<1>1. /\ irq' = "idle" /\ first' = Status /\ pending' = 0
      /\ slots' = (IF first.action = "move" THEN {first.tid} ELSE {})
  <2>1. slots' = {<<first>>[i].tid : i \in {j \in {1} : <<first>>[j].action = "move"}}
    BY DEF Reports, Refreshes
  <2> QED BY <2>1 DEF Reports
<1>2. stage = "bound" \/ stage = "removed"
  BY DEF GhostInv, Quiet
<1>3. TouchTypes'
  BY <1>1 DEF GhostInv, TouchTypes, Status, Event, Events
<1>4. Quiet'
  BY <1>1, <1>2 DEF GhostInv, Quiet
<1>5. stage # "removed" => Lifts'
  BY <1>1 DEF GhostInv, Lifts
<1> QED BY <1>3, <1>4, <1>5 DEF GhostInv

\* The first read: the head of the FIFO is in the driver's hands.
LEMMA ReadKeeps == ASSUME GhostInv, ReadsOne PROVE GhostInv'
<1>1. /\ fifo \in Seq(Events) /\ fifo # <<>> /\ irq = "idle" /\ stage = "bound" /\ Lifts
      /\ glass \subseteq Fingers
  BY DEF ReadsOne, GhostInv, TouchTypes, Quiet
<1>2. /\ irq' = "drain" /\ first' = Head(fifo) /\ fifo' = Tail(fifo)
      /\ pending' = (IF Len(fifo) > FIFO_MAX THEN FIFO_MAX - 1 ELSE Len(fifo) - 1)
      /\ UNCHANGED <<stage, glass, slots, swallowed>>
  BY DEF ReadsOne
<1>3. /\ Len(fifo) \in Nat /\ Len(fifo) > 0 /\ first' = fifo[1] /\ fifo' \in Seq(Events)
      /\ Len(fifo') = Len(fifo) - 1 /\ \A i \in 1..Len(fifo') : fifo'[i] = fifo[i + 1]
  BY <1>1, <1>2
<1>4. first' \in Events
  BY <1>1, <1>3
<1>5. pending' \in Nat /\ pending' <= Len(fifo')
  BY <1>2, <1>3, FifoAssumption
<1>6. ASSUME NEW i \in 0..Len(fifo'), NEW t, Lifted(fifo, i + 1, t) PROVE Lifted(fifo', i, t)
  <2>1. PICK j \in ((i + 1) + 1)..Len(fifo) : fifo[j] = Event(t, "release")
    BY <1>6 DEF Lifted
  <2>2. j - 1 \in (i + 1)..Len(fifo') /\ j - 1 \in 1..Len(fifo') /\ (j - 1) + 1 = j
    BY <1>3, <1>6, <2>1
  <2>3. fifo'[j - 1] = fifo[j]
    BY <1>3, <2>2
  <2> QED BY <2>1, <2>2, <2>3 DEF Lifted
<1>7. ASSUME NEW i \in 1..Len(fifo'), fifo'[i].action = "move", fifo'[i].tid \notin glass
      PROVE  Lifted(fifo', i, fifo'[i].tid)
  <2>1. i + 1 \in 1..Len(fifo) /\ fifo'[i] = fifo[i + 1] /\ i \in 0..Len(fifo')
    BY <1>3
  <2>2. Lifted(fifo, i + 1, fifo[i + 1].tid)
    BY <1>1, <1>7, <2>1 DEF Lifts
  <2> QED BY <1>6, <2>1, <2>2
<1>8. ASSUME first'.action = "move", first'.tid \notin glass PROVE Lifted(fifo', 0, first'.tid)
  <2>1. 1 \in 1..Len(fifo) /\ 0 \in 0..Len(fifo') /\ 0 + 1 = 1
    BY <1>3
  <2>2. Lifted(fifo, 0 + 1, fifo[1].tid)
    BY <1>1, <1>3, <1>8, <2>1 DEF Lifts
  <2> QED BY <1>3, <1>6, <2>1, <2>2
<1>9. ASSUME NEW t \in slots, t \notin glass, t \notin swallowed
      PROVE  Lifted(fifo', 0, t) \/ first' = Event(t, "release")
  <2>1. Lifted(fifo, 0, t)
    BY <1>1, <1>9 DEF Lifts
  <2>2. PICK j \in (0 + 1)..Len(fifo) : fifo[j] = Event(t, "release")
    BY <2>1 DEF Lifted
  <2>3. CASE j = 1
    BY <1>3, <2>2, <2>3
  <2>4. CASE j # 1
    <3>1. 0 \in 0..Len(fifo') /\ j \in ((0 + 1) + 1)..Len(fifo)
      BY <1>3, <2>2, <2>4
    <3> QED BY <1>6, <2>2, <3>1 DEF Lifted
  <2> QED BY <2>3, <2>4
<1>10. TouchTypes'
  BY <1>1, <1>2, <1>3, <1>4, <1>5 DEF TouchTypes
<1>11. Lifts'
  BY <1>2, <1>7, <1>8, <1>9 DEF Lifts
<1> QED BY <1>1, <1>2, <1>5, <1>10, <1>11 DEF GhostInv, Quiet

\* An event that says nothing of fingers.
LEMMA NoteKeeps == ASSUME GhostInv, Notes PROVE GhostInv'
<1>1. /\ Scanning /\ fifo' = Append(fifo, Status) /\ fifo \in Seq(Events) /\ Lifts /\ stage # "removed"
      /\ UNCHANGED <<stage, glass, irq, first, pending, slots, swallowed>>
  BY DEF Notes, Scanning, GhostInv, TouchTypes, thread
<1>2. Status \in Events /\ Status.action # "move"
  BY DEF Status, Event, Events
<1>3. /\ fifo' \in Seq(Events) /\ Len(fifo') = Len(fifo) + 1 /\ Len(fifo) \in Nat
      /\ fifo'[Len(fifo) + 1] = Status /\ \A i \in 1..Len(fifo) : fifo'[i] = fifo[i]
  BY <1>1, <1>2
<1>4. ASSUME NEW i, NEW t, Lifted(fifo, i, t), i \in Nat PROVE Lifted(fifo', i, t)
  <2>1. PICK j \in (i + 1)..Len(fifo) : fifo[j] = Event(t, "release")
    BY <1>4 DEF Lifted
  <2>2. j \in (i + 1)..Len(fifo') /\ fifo'[j] = fifo[j]
    BY <1>3, <1>4, <2>1
  <2> QED BY <2>1, <2>2 DEF Lifted
<1>5. ASSUME NEW i \in 1..Len(fifo'), fifo'[i].action = "move", fifo'[i].tid \notin glass
      PROVE  Lifted(fifo', i, fifo'[i].tid)
  <2>1. i \in 1..Len(fifo) /\ i \in Nat
    BY <1>2, <1>3, <1>5
  <2>2. fifo'[i] = fifo[i]
    BY <1>3, <2>1
  <2> QED BY <1>1, <1>4, <1>5, <2>1, <2>2 DEF Lifts
<1>6. TouchTypes' /\ Quiet'
  BY <1>1, <1>3 DEF GhostInv, TouchTypes, Quiet, Scanning
<1>7. Lifts'
  BY <1>1, <1>4, <1>5 DEF Lifts
<1> QED BY <1>6, <1>7 DEF GhostInv

\* Power-up, removal and what frees the interrupt.
LEMMA HwKeepsFingers == ASSUME GhostInv, HwInit PROVE GhostInv'
<1>1. TouchTypes /\ Quiet /\ (stage # "removed" => Lifts)
  BY DEF GhostInv
<1>2. ASSUME stage \notin {"bound", "removed"}, stage' # "removed", fifo' = <<>> \/ UNCHANGED <<glass, fifo>>,
             glass' \subseteq Fingers, UNCHANGED thread
      PROVE  GhostInv'
  <2>1. UNCHANGED <<irq, first, pending, slots, swallowed>> /\ irq = "idle" /\ slots = {}
    BY <1>1, <1>2 DEF thread, Quiet
  <2>2. CASE fifo' = <<>>
    <3>1. fifo' \in Seq(Events) /\ 1..Len(fifo') = {}
      BY <2>2
    <3> QED BY <1>1, <1>2, <2>1, <3>1 DEF GhostInv, TouchTypes, Quiet, Lifts
  <2>3. CASE UNCHANGED <<glass, fifo>>
    BY <1>1, <1>2, <2>1, <2>3 DEF GhostInv, TouchTypes, Quiet, Lifts
  <2> QED BY <1>2, <2>2, <2>3
<1>3. glass \subseteq Fingers
  BY <1>1 DEF TouchTypes
<1>4. CASE PowersOn("unbound", "ready") \/ PowersOn("cycle", "ready again")
  BY <1>2, <1>3, <1>4 DEF PowersOn, Goes, Fails
<1>5. CASE WaitsReady \/ Resets \/ WaitsAgain \/ Identifies \/ StartsScan \/ Registers
  BY <1>2, <1>3, <1>5 DEF WaitsReady, Resets, WaitsAgain, Identifies, StartsScan, Registers, Works,
     GivesUp, Goes, Fails, Cut, hardware
<1>6. CASE Removes
  <2>1. stage' = "removed" /\ fifo' = <<>> /\ glass' = {} /\ UNCHANGED <<irq, first, pending>>
    BY <1>6 DEF Removes, Goes, Cut, thread
  <2> QED BY <1>1, <2>1 DEF GhostInv, TouchTypes, Quiet
<1>7. CASE Freed
  <2>1. /\ stage = "removed" /\ stage' = "unbound" /\ irq = "idle" /\ slots' = {}
        /\ UNCHANGED <<glass, fifo, irq, first, pending>>
    BY <1>7 DEF Freed, Goes, hardware
  <2>2. fifo' = <<>>
    BY <1>1, <2>1 DEF Quiet
  <2>3. 1..Len(fifo') = {}
    BY <2>2
  <2> QED BY <1>1, <2>1, <2>2, <2>3 DEF GhostInv, TouchTypes, Quiet, Lifts
<1> QED BY <1>4, <1>5, <1>6, <1>7 DEF HwInit

\* The frames of the interrupt thread, one drain at a time.
LEMMA IrqKeepsFingers == ASSUME GhostInv, Irq PROVE GhostInv'
<1>1. CASE ReadsOne
  BY <1>1, ReadKeeps
<1>2. CASE ReadsNothing
  BY <1>2 DEF ReadsNothing, hardware, thread, GhostInv, TouchTypes, Quiet, Lifts
<1>3. ASSUME NEW batch, batch = Announced \/ batch = <<first>>, Reports(batch, Announced),
             irq = "drain", stage = "bound", fifo' = Rest(pending), UNCHANGED <<stage, glass>>
      PROVE  GhostInv'
  <2>1. /\ slots' = {batch[i].tid : i \in {j \in DOMAIN batch : Refreshes(batch[j])}}
        /\ swallowed' = {t \in slots' : \E i \in DOMAIN Announced : Announced[i] = Event(t, "release")}
        /\ irq' = "idle" /\ first' = Status /\ pending' = 0
    BY <1>3 DEF Reports
  <2>2. /\ fifo \in Seq(Events) /\ pending \in 0..Len(fifo) /\ first \in Events
    BY <1>3 DEF GhostInv, TouchTypes, Quiet
  <2>3. 1 \in DOMAIN Announced /\ Announced[1] = first
    BY <2>2, Firsts DEF Announced
  <2>4. \A t \in slots' : \E i \in DOMAIN Announced : Refreshes(Announced[i]) /\ Announced[i].tid = t
    <3>1. CASE batch = Announced
      BY <2>1, <3>1
    <3>2. CASE batch = <<first>>
      <4>1. \A t \in slots' : Refreshes(first) /\ first.tid = t
        BY <2>1, <3>2
      <4> QED BY <2>3, <4>1
    <3> QED BY <1>3, <3>1, <3>2
  <2>5. \A t \in slots' : t \in swallowed' \/ \A i \in DOMAIN Announced : Announced[i] # Event(t, "release")
    BY <2>1
  <2> QED BY <1>3, <2>1, <2>4, <2>5, DrainKeeps
<1>4. CASE Drains
  <2>1. irq = "drain" /\ Reports(Announced, Announced) /\ fifo' = Rest(pending) /\ UNCHANGED <<stage, glass>>
    BY <1>4 DEF Drains
  <2>2. CASE stage = "bound"
    BY <1>3, <2>1, <2>2
  <2>3. CASE stage # "bound"
    <3>1. stage = "removed" /\ pending = 0 /\ fifo = <<>>
      BY <1>4, <2>1, <2>3 DEF Drains, Answers, GhostInv, Quiet
    <3>2. fifo' = <<>>
      BY <2>1, <3>1 DEF Rest
    <3>3. irq' = "idle" /\ first' = Status /\ pending' = 0
      BY <2>1 DEF Reports
    <3>4. fifo' \in Seq(Events) /\ first' \in Events
      BY <3>2, <3>3 DEF Status, Event, Events
    <3>5. TouchTypes'
      BY <2>1, <3>3, <3>4 DEF GhostInv, TouchTypes
    <3>6. Quiet'
      BY <2>1, <3>1, <3>2, <3>3 DEF Quiet
    <3> QED BY <2>1, <3>1, <3>5, <3>6 DEF GhostInv
  <2> QED BY <2>2, <2>3
<1>5. CASE DrainFails
  <2>1. CASE fifo' = fifo /\ Reports(<<first>>, <<first>>)
    BY <1>5, <2>1, FirstAloneKeeps DEF DrainFails
  <2>2. CASE Answers /\ fifo' = Rest(pending) /\ Reports(<<first>>, Announced)
    BY <1>3, <1>5, <2>2 DEF DrainFails, Answers
  <2> QED BY <1>5, <2>1, <2>2 DEF DrainFails
<1> QED BY <1>1, <1>2, <1>4, <1>5 DEF Irq

\* With every event read a finger reported down is on the glass, unless the
\* drain that reported it had its release as well: for any fingers, any backlog,
\* any length of a drain and any number of failed reads (340-355).
THEOREM NoGhostAlways == TouchSpec => []NoGhost
<1>1. TouchInit => GhostInv
  <2> SUFFICES ASSUME TouchInit PROVE GhostInv
    OBVIOUS
  <2>1. /\ stage = "unbound" /\ glass = {} /\ fifo = <<>> /\ irq = "idle" /\ first = Status /\ pending = 0
        /\ slots = {}
    BY DEF TouchInit
  <2>2. fifo \in Seq(Events) /\ 1..Len(fifo) = {}
    BY <2>1
  <2> QED BY <2>1, <2>2 DEF GhostInv, TouchTypes, Quiet, Lifts, Status, Event, Events
<1>2. GhostInv /\ [TouchNext]_touch => GhostInv'
  <2> SUFFICES ASSUME GhostInv, [TouchNext]_touch PROVE GhostInv'
    OBVIOUS
  <2>1. CASE UNCHANGED touch
    BY <2>1 DEF touch, hardware, thread, GhostInv, TouchTypes, Quiet, Lifts
  <2> QED BY <2>1, HwKeepsFingers, ScanKeeps, NoteKeeps, IrqKeepsFingers DEF TouchNext
<1>3. GhostInv => NoGhost
  <2> SUFFICES ASSUME GhostInv, stage = "bound", irq = "idle", fifo = <<>>, NEW t \in slots,
                      t \notin glass, t \notin swallowed
               PROVE  FALSE
    BY DEF NoGhost
  <2>1. Lifted(fifo, 0, t)
    BY DEF GhostInv, Lifts
  <2> QED BY <2>1 DEF Lifted
<1> QED BY <1>1, <1>2, <1>3, PTL DEF TouchSpec
================================================================================
