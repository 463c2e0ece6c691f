------------------------------ MODULE DisplayProofs ------------------------------
(***************************************************************************)
(* The panel in every behaviour of the off-mode screen and of the desktop,  *)
(* however many transfers fail: its supplies balance, a woken screen is lit *)
(* again two commits after the last fault, and the gauge is what was drawn. *)
(* The driver's flag and the core's may come apart, but only one way: the   *)
(* core may think a panel up that is down, so the unprepare of a commit is  *)
(* never skipped.                                                           *)
(***************************************************************************)
EXTENDS OffModeCharger, TLAPS

\* A commit goes the way the screen was asked for.
Upwards == {"prepare", "enable", "light"}
Downwards == {"dim", "disable", "unprepare"}
OneWay == commit \in (IF wanted THEN Upwards ELSE Downwards) \union {"none"}

CoreTypes == /\ core \in [prepared : BOOLEAN, enabled : BOOLEAN]
             /\ bl \in [on : BOOLEAN, brightness : Int]
             /\ wanted \in BOOLEAN

\* What the callbacks keep, and what the commits keep of it.
Driver == /\ prepared \in BOOLEAN /\ enabled \in BOOLEAN /\ user_brightness \in Int
          /\ ddic \in [ready : BOOLEAN, on : BOOLEAN, level : Int]
          /\ rails = (IF prepared THEN Supplies ELSE {})
          /\ enabled => prepared
          /\ ddic.on => prepared
PanelInv == /\ Driver /\ CoreTypes /\ OneWay
            /\ prepared => core.prepared
            /\ commit = "none" /\ ~wanted => ~prepared
\* The commits since the last fault, as far as they matter: none that failed in the
\* one under way, a whole one before it, two.
Clean == quiet >= 0
Settled == quiet >= 1
Calm == quiet = 2
Counts == faults \in Nat /\ quiet \in Int /\ (faults = 0 => Calm)

\* A whole commit down without a fault takes the core's flags with it, whatever
\* they were; a whole commit up from there ends lit, since nothing it calls is
\* skipped; and a brightness written meanwhile is written again at its end.
QuietInv ==
  /\ Counts
  /\ Clean /\ commit = "unprepare" => ~core.enabled
  /\ Settled /\ (commit = "prepare" \/ (commit = "none" /\ ~wanted)) => ~core.prepared /\ ~core.enabled
  /\ Settled /\ commit = "enable" => prepared /\ ~enabled /\ ~core.enabled /\ ddic.ready
  /\ Settled /\ commit = "light" => prepared /\ ddic.ready /\ ddic.on
  /\ Calm /\ commit = "none" /\ wanted =>
       prepared /\ bl.on /\ ddic.ready /\ ddic.on /\ ddic.level = bl.brightness

\* Between two calls of the off-mode screen the panel is where its last call of
\* screen() left it, and what is drawn is what was drawn last.
ScreenInv == user = "charger" =>
  /\ last_lit = None => lit
  /\ last_lit # None => last_lit = IF lit THEN 1 ELSE 0
  /\ last_lit = 1 => gauge = last_pct
  /\ pc \in {"brightness", "blank", "commit", "loop"}
  /\ pc \in {"blank", "loop"} => commit = "none"
  /\ pc # "brightness" => bl.brightness = (IF lit THEN 2047 \div 5 ELSE 0)
  /\ pc \in {"commit", "loop"} => wanted = lit

\* unplug_at is as old as the time the program has seen no charger.
AwayInv == outcome = "running" => unplug_at = absent

\* The hold the program counts is no longer than the hold there is, and ends with
\* it, once the power key's events are read.
HoldInv ==
  /\ held \in 0..Hold \cup {None} /\ press_at \in Int /\ gone \in Nat
  /\ queue \in Seq({"press", "release", "volume"})
  /\ gone = 0 /\ outcome = "running" =>
       /\ Last("press") => held # None
       /\ press_at # None =>
            Last("release") \/ (held # None /\ (Last("press") \/ press_at <= held))

\* The program asks for a screen that is on or off.
LitOK == lit \in BOOLEAN

--------------------------------------------------------------------------------
(* The callbacks of the driver, whichever transfer fails.                   *)

LEMMA SleepingPanel == Asleep \in [ready : BOOLEAN, on : BOOLEAN, level : Int] /\ ~Asleep.on
BY DEF Asleep

\* prepare() ends prepared exactly when it reports success.
LEMMA PrepareKeeps ==
  ASSUME Driver, NEW ok \in BOOLEAN, Prepare(ok)
  PROVE  Driver' /\ prepared' = ok
<1>1. CASE prepared
  BY <1>1 DEF Prepare, Driver, driver
<1>2. CASE ~prepared /\ ok
  <2>1. /\ prepared' = TRUE /\ rails' = Supplies
        /\ enabled' = enabled /\ user_brightness' = user_brightness
        /\ ddic' = [ready |-> TRUE, on |-> FALSE, level |-> user_brightness]
    BY <1>2 DEF Prepare
  <2>2. ddic' \in [ready : BOOLEAN, on : BOOLEAN, level : Int]
    BY <2>1 DEF Driver
  <2> QED BY <1>2, <2>1, <2>2 DEF Driver
<1>3. CASE ~prepared /\ ~ok
  BY <1>3, SleepingPanel DEF Prepare, Driver
<1> QED BY <1>1, <1>2, <1>3 DEF Driver

\* enable() and disable() leave the supplies and the flag of prepare alone.
LEMMA EnableKeeps ==
  ASSUME Driver, NEW ok \in BOOLEAN, Enable(ok)
  PROVE  Driver' /\ prepared' = prepared
<1>1. CASE ~prepared \/ enabled
  BY <1>1 DEF Enable, Driver, driver
<1>2. CASE prepared /\ ~enabled
  <2>1. PICK on \in BOOLEAN : ddic' = [ddic EXCEPT !.on = on]
    BY <1>2 DEF Enable
  <2>2. ddic' \in [ready : BOOLEAN, on : BOOLEAN, level : Int]
    BY <2>1 DEF Driver
  <2> QED BY <1>2, <2>2 DEF Enable, Driver
<1> QED BY <1>1, <1>2 DEF Driver
LEMMA DisableKeeps ==
  ASSUME Driver, NEW ok \in BOOLEAN, Disable(ok)
  PROVE  Driver' /\ prepared' = prepared
<1>1. CASE ~enabled
  BY <1>1 DEF Disable, Driver, driver
<1>2. CASE enabled
  <2>1. ddic' = ddic \/ ddic' = [ddic EXCEPT !.on = FALSE]
    BY <1>2 DEF Disable
  <2>2. ddic' \in [ready : BOOLEAN, on : BOOLEAN, level : Int]
    BY <2>1 DEF Driver
  <2> QED BY <1>2, <2>2 DEF Disable, Driver
<1> QED BY <1>1, <1>2 DEF Driver

\* unprepare() ends without supplies, whatever the sleep-in command did.
LEMMA UnprepareKeeps ==
  ASSUME Driver, NEW ok \in BOOLEAN, Unprepare(ok)
  PROVE  Driver' /\ ~prepared'
<1>1. CASE ~prepared
  BY <1>1 DEF Unprepare, Driver, driver
<1>2. CASE prepared
  BY <1>2, SleepingPanel DEF Unprepare, Driver
<1> QED BY <1>1, <1>2

\* A brightness, written or not, changes no supply.
LEMMA UpdateKeeps ==
  ASSUME Driver, NEW level \in Int, Update(level)
  PROVE  Driver' /\ prepared' = prepared
<1>1. ddic' = ddic \/ ddic' = [ddic EXCEPT !.level = level]
  BY DEF Update
<1>2. /\ ddic' \in [ready : BOOLEAN, on : BOOLEAN, level : Int]
      /\ ddic'.on = ddic.on
  BY <1>1 DEF Driver
<1>3. /\ user_brightness' = level /\ prepared' = prepared /\ enabled' = enabled /\ rails' = rails
  BY DEF Update
<1> QED BY <1>2, <1>3 DEF Driver

--------------------------------------------------------------------------------
(* The commits and the requests.                                            *)

LEMMA InitInv == Init => PanelInv
<1> SUFFICES ASSUME Init PROVE PanelInv
  OBVIOUS
<1>1. Driver
  <2>1. /\ prepared = FALSE /\ enabled = FALSE /\ user_brightness = 2047 /\ rails = {}
        /\ ddic = Asleep
    BY DEF Init, PanelInit
  <2>2. ddic \in [ready : BOOLEAN, on : BOOLEAN, level : Int] /\ ~ddic.on
    BY <2>1, SleepingPanel
  <2>3. rails = (IF prepared THEN Supplies ELSE {})
    BY <2>1
  <2>4. prepared \in BOOLEAN /\ enabled \in BOOLEAN
    BY <2>1, Zenon
  <2>5. user_brightness \in Int
    BY <2>1
  <2> QED BY <2>1, <2>2, <2>3, <2>4, <2>5 DEF Driver
<1>2. CoreTypes
  BY DEF Init, PanelInit, CoreTypes
<1>3. OneWay
  BY DEF Init, PanelInit, OneWay, Upwards
<1> QED BY <1>1, <1>2, <1>3 DEF Init, PanelInit, PanelInv

\* A flag of the core follows what the callback reported.
LEMMA CoreSets ==
  ASSUME CoreTypes, NEW flag \in BOOLEAN
  PROVE  /\ [core EXCEPT !.prepared = flag] \in [prepared : BOOLEAN, enabled : BOOLEAN]
         /\ [core EXCEPT !.prepared = flag].prepared = flag
         /\ [core EXCEPT !.enabled = flag] \in [prepared : BOOLEAN, enabled : BOOLEAN]
         /\ [core EXCEPT !.enabled = flag].prepared = core.prepared
BY DEF CoreTypes

\* A commit, upwards or downwards, keeps the invariant at each of its steps.
LEMMA CommitKeeps == PanelInv /\ Commit => PanelInv'
<1> SUFFICES ASSUME PanelInv, Commit PROVE PanelInv'
  OBVIOUS
<1> USE DEF Then
<1>1. CASE PrepareStep
  <2>1. /\ commit = "prepare" /\ commit' = "enable" /\ bl' = bl /\ wanted' = wanted
    BY <1>1 DEF PrepareStep
  <2>2. wanted /\ OneWay' /\ commit' # "none"
    BY <2>1 DEF PanelInv, OneWay, Upwards, Downwards
  <2>3. CASE core.prepared
    <3>1. UNCHANGED <<driver, core>>
      BY <1>1, <2>3 DEF PrepareStep
    <3> QED BY <2>1, <2>2, <3>1 DEF PanelInv, Driver, CoreTypes, driver
  <2>4. CASE ~core.prepared
    <3>1. PICK ok \in BOOLEAN : Prepare(ok) /\ core' = [core EXCEPT !.prepared = ok]
      BY <1>1, <2>4 DEF PrepareStep
    <3>2. Driver' /\ prepared' = ok
      BY <3>1, PrepareKeeps DEF PanelInv
    <3>3. CoreTypes' /\ core'.prepared = ok
      BY <2>1, <3>1, CoreSets DEF PanelInv, CoreTypes
    <3> QED BY <2>2, <3>2, <3>3 DEF PanelInv
  <2> QED BY <2>3, <2>4
<1>2. CASE EnableStep
  <2>1. /\ commit = "enable" /\ commit' \in {"light", "none"} /\ bl' = bl /\ wanted' = wanted
    BY <1>2 DEF EnableStep
  <2>2. wanted /\ OneWay'
    BY <2>1 DEF PanelInv, OneWay, Upwards, Downwards
  <2>3. CASE core.enabled
    <3>1. UNCHANGED <<driver, core>>
      BY <1>2, <2>3 DEF EnableStep
    <3> QED BY <2>1, <2>2, <3>1 DEF PanelInv, Driver, CoreTypes, driver
  <2>4. CASE ~core.enabled
    <3>1. PICK ok \in BOOLEAN : Enable(ok) /\ core' = [core EXCEPT !.enabled = ok]
      BY <1>2, <2>4 DEF EnableStep
    <3>2. Driver' /\ prepared' = prepared
      BY <3>1, EnableKeeps DEF PanelInv
    <3>3. CoreTypes' /\ core'.prepared = core.prepared
      BY <2>1, <3>1, CoreSets DEF PanelInv, CoreTypes
    <3> QED BY <2>1, <2>2, <3>2, <3>3 DEF PanelInv
  <2> QED BY <2>3, <2>4
<1>3. CASE LightStep
  <2>1. /\ commit = "light" /\ commit' = "none" /\ bl' = [bl EXCEPT !.on = TRUE]
        /\ core' = core /\ wanted' = wanted /\ Update(bl.brightness)
    BY <1>3 DEF LightStep
  <2>2. wanted /\ OneWay'
    BY <2>1 DEF PanelInv, OneWay, Upwards, Downwards
  <2>3. CoreTypes' /\ bl.brightness \in Int
    BY <2>1 DEF PanelInv, CoreTypes
  <2>4. Driver' /\ prepared' = prepared
    BY <2>1, <2>3, UpdateKeeps DEF PanelInv
  <2> QED BY <2>1, <2>2, <2>3, <2>4 DEF PanelInv
<1>4. CASE DimStep
  <2>1. /\ commit = "dim" /\ commit' \in {"disable", "unprepare"}
        /\ core' = core /\ wanted' = wanted
    BY <1>4 DEF DimStep
  <2>2. ~wanted /\ OneWay' /\ commit' # "none"
    BY <2>1 DEF PanelInv, OneWay, Upwards, Downwards
  <2>3. CASE core.enabled
    <3>1. bl' = [bl EXCEPT !.on = FALSE] /\ Update(0)
      BY <1>4, <2>3 DEF DimStep
    <3>2. Driver' /\ prepared' = prepared
      BY <3>1, UpdateKeeps DEF PanelInv
    <3>3. CoreTypes'
      BY <2>1, <3>1 DEF PanelInv, CoreTypes
    <3> QED BY <2>1, <2>2, <3>2, <3>3 DEF PanelInv
  <2>4. CASE ~core.enabled
    <3>1. UNCHANGED <<driver, bl>>
      BY <1>4, <2>4 DEF DimStep
    <3> QED BY <2>1, <2>2, <3>1 DEF PanelInv, Driver, CoreTypes, driver
  <2> QED BY <2>3, <2>4
<1>5. CASE DisableStep
  <2>1. /\ commit = "disable" /\ commit' = "unprepare" /\ bl' = bl /\ wanted' = wanted
    BY <1>5 DEF DisableStep
  <2>2. ~wanted /\ OneWay'
    BY <2>1 DEF PanelInv, OneWay, Upwards, Downwards
  <2>3. PICK ok \in BOOLEAN : Disable(ok) /\ core' = [core EXCEPT !.enabled = ~ok]
    BY <1>5 DEF DisableStep
  <2>4. Driver' /\ prepared' = prepared
    BY <2>3, DisableKeeps DEF PanelInv
  <2>5. CoreTypes' /\ core'.prepared = core.prepared
    BY <2>1, <2>3, CoreSets DEF PanelInv, CoreTypes
  <2> QED BY <2>1, <2>2, <2>4, <2>5 DEF PanelInv
<1>6. CASE UnprepareStep
  <2>1. /\ commit = "unprepare" /\ commit' = "none" /\ bl' = bl /\ wanted' = wanted
    BY <1>6 DEF UnprepareStep
  <2>2. ~wanted /\ OneWay'
    BY <2>1 DEF PanelInv, OneWay, Upwards, Downwards
  <2>3. CASE core.prepared
    <3>1. PICK ok \in BOOLEAN : Unprepare(ok) /\ core' = [core EXCEPT !.prepared = ~ok]
      BY <1>6, <2>3 DEF UnprepareStep
    <3>2. Driver' /\ ~prepared'
      BY <3>1, UnprepareKeeps DEF PanelInv
    <3>3. CoreTypes'
      BY <2>1, <3>1, CoreSets DEF PanelInv, CoreTypes
    <3> QED BY <2>2, <3>2, <3>3 DEF PanelInv
  <2>4. CASE ~core.prepared
    <3>1. UNCHANGED <<driver, core>>
      BY <1>6, <2>4 DEF UnprepareStep
    <3> QED BY <2>1, <2>2, <2>4, <3>1 DEF PanelInv, Driver, CoreTypes, driver
  <2> QED BY <2>3, <2>4
<1> QED BY <1>1, <1>2, <1>3, <1>4, <1>5, <1>6 DEF Commit

\* A blank or an unblank starts a commit the right way.
LEMMA BlankKeeps == ASSUME PanelInv, NEW on \in BOOLEAN, Blank(on) PROVE PanelInv'
<1>1. /\ commit' = (IF on THEN "prepare" ELSE "dim") /\ wanted' = on
      /\ UNCHANGED <<driver, core, bl>>
  BY DEF Blank
<1>2. OneWay' /\ commit' # "none"
  BY <1>1 DEF OneWay, Upwards, Downwards
<1>3. Driver' /\ CoreTypes' /\ prepared' = prepared /\ core' = core
  BY <1>1 DEF PanelInv, Driver, CoreTypes, driver
<1> QED BY <1>2, <1>3 DEF PanelInv

\* A write of the brightness file disturbs no commit.
LEMMA StoreKeeps == ASSUME PanelInv, NEW level \in Int, Store(level) PROVE PanelInv'
<1>1. /\ bl' = [bl EXCEPT !.brightness = level] /\ UNCHANGED <<core, commit, wanted>>
      /\ Update(IF bl.on THEN level ELSE 0)
  BY DEF Store
<1>2. Driver' /\ prepared' = prepared
  BY <1>1, UpdateKeeps DEF PanelInv
<1>3. CoreTypes'
  BY <1>1 DEF PanelInv, CoreTypes
<1> QED BY <1>1, <1>2, <1>3 DEF PanelInv, OneWay

--------------------------------------------------------------------------------
(* What a woken panel shows.                                                *)

LEMMA CleanOrder == Counts => (Calm => Settled) /\ (Settled => Clean)
BY DEF Counts, Clean, Settled, Calm

\* A step without a fault and within its commit counts nothing.
LEMMA SameCounts ==
  ASSUME Counts, quiet' = quiet, faults' = faults
  PROVE  Counts' /\ Clean' = Clean /\ Settled' = Settled /\ Calm' = Calm
BY DEF Counts, Clean, Settled, Calm

\* What Then() counts.
LEMMA ThenCounts ==
  ASSUME Counts, faults' \in {faults, faults + 1}, NEW next, Then(next), commit # "none"
  PROVE  /\ commit' = next /\ Counts'
         /\ faults' # faults => ~Settled' /\ ~Calm' /\ (next # "none" => ~Clean')
         /\ next # "none" => (Clean' => Clean) /\ (Settled' => Settled) /\ (Calm' => Calm)
         /\ next = "none" => (Settled' => Clean) /\ (Calm' => Settled)
<1>1. CASE faults' # faults
  <2>1. quiet' \in {0, -1} /\ (next # "none" => quiet' = -1)
    BY <1>1 DEF Then
  <2>2. faults' \in Nat /\ faults' # 0
    BY <1>1 DEF Counts
  <2>3. quiet' \in Int /\ ~Settled' /\ ~Calm' /\ (quiet' = -1 => ~Clean')
    BY <2>1 DEF Clean, Settled, Calm
  <2> QED BY <1>1, <2>1, <2>2, <2>3 DEF Then, Counts
<1>2. CASE faults' = faults /\ next # "none"
  <2>1. quiet' = quiet
    BY <1>2 DEF Then
  <2> QED BY <1>2, <2>1, SameCounts DEF Then
<1>3. CASE faults' = faults /\ next = "none"
  <2>1. quiet' = IF quiet < 2 THEN quiet + 1 ELSE 2
    BY <1>3 DEF Then
  <2>2. /\ quiet' \in Int /\ (Calm => Calm')
        /\ (Settled' => Clean) /\ (Calm' => Settled)
    BY <2>1 DEF Counts, Clean, Settled, Calm
  <2> QED BY <1>3, <2>2 DEF Counts, Then
<1> QED BY <1>1, <1>2, <1>3

\* A transfer fails, or nothing is counted.
LEMMA FaultCounts == ASSUME faults \in Nat, Fault PROVE faults' = faults + 1 /\ faults' # faults
BY DEF Fault

\* The callbacks' share of it.
LEMMA PrepareSets ==
  ASSUME faults \in Nat, NEW ok \in BOOLEAN, Prepare(ok), ~prepared
  PROVE  /\ faults' \in {faults, faults + 1} /\ (~ok => faults' # faults) /\ enabled' = enabled
         /\ ok => prepared' /\ ddic'.ready
<1>1. CASE ok
  BY <1>1 DEF Prepare
<1>2. CASE ~ok
  BY <1>2, FaultCounts DEF Prepare
<1> QED BY <1>1, <1>2
LEMMA EnableSets ==
  ASSUME faults \in Nat, Driver, NEW ok \in BOOLEAN, Enable(ok)
  PROVE  /\ faults' \in {faults, faults + 1}
         /\ prepared /\ ~enabled => (~ok => faults' # faults)
         /\ prepared /\ ~enabled /\ ok => ddic'.ready = ddic.ready /\ ddic'.on
<1>1. CASE ~prepared \/ enabled
  BY <1>1 DEF Enable
<1>2. CASE prepared /\ ~enabled /\ ok
  BY <1>2 DEF Enable, Driver
<1>3. CASE prepared /\ ~enabled /\ ~ok
  BY <1>3, FaultCounts DEF Enable
<1> QED BY <1>1, <1>2, <1>3 DEF Driver
LEMMA DisableSets ==
  ASSUME faults \in Nat, NEW ok \in BOOLEAN, Disable(ok)
  PROVE  faults' \in {faults, faults + 1} /\ (~ok => faults' # faults)
BY FaultCounts DEF Disable
LEMMA UnprepareSets ==
  ASSUME faults \in Nat, NEW ok \in BOOLEAN, Unprepare(ok)
  PROVE  faults' \in {faults, faults + 1} /\ (~ok => faults' # faults)
BY FaultCounts DEF Unprepare
LEMMA UpdateSets ==
  ASSUME faults \in Nat, Driver, NEW level \in Int, Update(level)
  PROVE  /\ faults' \in {faults, faults + 1} /\ enabled' = enabled
         /\ ddic'.ready = ddic.ready /\ ddic'.on = ddic.on
         /\ prepared /\ faults' = faults => ddic'.level = level
<1>1. \/ ~prepared /\ ddic' = ddic /\ faults' = faults
      \/ ddic' = [ddic EXCEPT !.level = level] /\ faults' = faults
      \/ ddic' = ddic /\ faults' = faults + 1 /\ faults' # faults
  BY FaultCounts DEF Update
<1>2. enabled' = enabled
  BY DEF Update
<1> QED BY <1>1, <1>2 DEF Driver

\* The core's flags, as the steps set them.
LEMMA CoreFlags ==
  ASSUME CoreTypes, NEW flag \in BOOLEAN
  PROVE  /\ [core EXCEPT !.prepared = flag].enabled = core.enabled
         /\ [core EXCEPT !.prepared = flag].prepared = flag
         /\ [core EXCEPT !.enabled = flag].enabled = flag
         /\ [core EXCEPT !.enabled = flag].prepared = core.prepared
BY DEF CoreTypes

LEMMA CommitCalm == ASSUME PanelInv, QuietInv, Commit PROVE QuietInv'
<1>0. /\ Counts /\ faults \in Nat /\ Driver /\ CoreTypes /\ OneWay /\ (prepared => core.prepared)
      /\ (Calm => Settled) /\ (Settled => Clean) /\ (enabled => prepared)
  BY CleanOrder DEF QuietInv, PanelInv, Counts, Driver
<1>a. Counts' => (Calm' => Settled') /\ (Settled' => Clean')
  BY CleanOrder DEF Counts, Calm, Settled, Clean
<1>1. CASE PrepareStep
  <2>1. commit = "prepare" /\ Then("enable")
    BY <1>1 DEF PrepareStep
  <2>2. CASE core.prepared
    <3>1. faults' = faults
      BY <1>1, <2>2 DEF PrepareStep
    <3>2. commit' = "enable" /\ Counts' /\ (Settled' => Settled)
      BY <1>0, <2>1, <3>1, ThenCounts
    <3>3. ~Settled
      BY <2>1, <2>2 DEF QuietInv
    <3> QED BY <1>a, <3>2, <3>3 DEF QuietInv
  <2>3. CASE ~core.prepared
    <3>1. PICK ok \in BOOLEAN : Prepare(ok) /\ core' = [core EXCEPT !.prepared = ok]
      BY <1>1, <2>3 DEF PrepareStep
    <3>2. /\ faults' \in {faults, faults + 1} /\ (~ok => faults' # faults) /\ enabled' = enabled
          /\ ok => prepared' /\ ddic'.ready
      BY <1>0, <2>3, <3>1, PrepareSets
    <3>3. /\ commit' = "enable" /\ Counts' /\ (faults' # faults => ~Settled')
          /\ (Settled' => Settled)
      BY <1>0, <2>1, <3>2, ThenCounts
    <3>4. core'.enabled = core.enabled
      BY <1>0, <3>1, CoreFlags
    <3>5. Settled => ~core.enabled /\ ~enabled
      BY <1>0, <2>1, <2>3 DEF QuietInv
    <3> QED BY <1>a, <3>2, <3>3, <3>4, <3>5 DEF QuietInv
  <2> QED BY <2>2, <2>3
<1>2. CASE EnableStep
  <2>1. commit = "enable" /\ bl' = bl /\ wanted' = wanted
    BY <1>2 DEF EnableStep
  <2>2. wanted
    BY <1>0, <2>1 DEF OneWay, Downwards
  <2>3. CASE core.enabled
    <3>1. faults' = faults /\ Then("none")
      BY <1>2, <2>3 DEF EnableStep
    <3>2. commit' = "none" /\ Counts' /\ (Calm' => Settled)
      BY <1>0, <2>1, <3>1, ThenCounts
    <3>3. ~Settled
      BY <2>1, <2>3 DEF QuietInv
    <3> QED BY <2>1, <2>2, <3>2, <3>3 DEF QuietInv
  <2>4. CASE ~core.enabled
    <3>1. PICK ok \in BOOLEAN : Enable(ok) /\ Then(IF ok THEN "light" ELSE "none")
      BY <1>2, <2>4 DEF EnableStep
    <3>2. /\ faults' \in {faults, faults + 1}
          /\ prepared /\ ~enabled => (~ok => faults' # faults)
          /\ prepared /\ ~enabled /\ ok => ddic'.ready = ddic.ready /\ ddic'.on
      BY <1>0, <3>1, EnableSets
    <3>3. prepared' = prepared
      BY <1>0, <3>1, EnableKeeps
    <3>4. CASE ok
      <4>1. commit' = "light" /\ Counts' /\ (Settled' => Settled)
        BY <1>0, <2>1, <3>1, <3>2, <3>4, ThenCounts
      <4> QED BY <1>a, <2>1, <3>2, <3>3, <3>4, <4>1 DEF QuietInv
    <3>5. CASE ~ok
      <4>1. commit' = "none" /\ Counts' /\ (faults' # faults => ~Calm') /\ (Calm' => Settled)
        BY <1>0, <2>1, <3>1, <3>2, <3>5, ThenCounts
      <4>2. ~Calm'
        BY <2>1, <3>2, <3>5, <4>1 DEF QuietInv
      <4> QED BY <2>1, <2>2, <4>1, <4>2 DEF QuietInv
    <3> QED BY <3>4, <3>5
  <2> QED BY <2>3, <2>4
<1>3. CASE LightStep
  <2>1. /\ commit = "light" /\ bl' = [bl EXCEPT !.on = TRUE] /\ wanted' = wanted
        /\ Update(bl.brightness) /\ Then("none")
    BY <1>3 DEF LightStep
  <2>2. wanted
    BY <1>0, <2>1 DEF OneWay, Downwards
  <2>3. bl.brightness \in Int /\ bl'.on /\ bl'.brightness = bl.brightness
    BY <1>0, <2>1 DEF CoreTypes
  <2>4. /\ faults' \in {faults, faults + 1}
        /\ ddic'.ready = ddic.ready /\ ddic'.on = ddic.on
        /\ prepared /\ faults' = faults => ddic'.level = bl.brightness
    BY <1>0, <2>1, <2>3, UpdateSets
  <2>5. prepared' = prepared
    BY <1>0, <2>1, <2>3, UpdateKeeps
  <2>6. commit' = "none" /\ Counts' /\ (faults' # faults => ~Calm') /\ (Calm' => Settled)
    BY <1>0, <2>1, <2>4, ThenCounts
  <2>7. Settled => prepared /\ ddic.ready /\ ddic.on
    BY <2>1 DEF QuietInv
  <2> QED BY <2>1, <2>2, <2>3, <2>4, <2>5, <2>6, <2>7 DEF QuietInv
<1>4. CASE DimStep
  <2>1. commit = "dim"
    BY <1>4 DEF DimStep
  <2>2. CASE core.enabled
    <3>1. Update(0) /\ Then("disable")
      BY <1>4, <2>2 DEF DimStep
    <3>2. faults' \in {faults, faults + 1}
      BY <1>0, <3>1, UpdateSets
    <3>3. commit' = "disable" /\ Counts'
      BY <1>0, <2>1, <3>1, <3>2, ThenCounts
    <3> QED BY <3>3 DEF QuietInv
  <2>3. CASE ~core.enabled
    <3>1. faults' = faults /\ Then("unprepare") /\ core' = core
      BY <1>4, <2>3 DEF DimStep
    <3>2. commit' = "unprepare" /\ Counts'
      BY <1>0, <2>1, <3>1, ThenCounts
    <3> QED BY <2>3, <3>1, <3>2 DEF QuietInv
  <2> QED BY <2>2, <2>3
<1>5. CASE DisableStep
  <2>1. commit = "disable" /\ Then("unprepare")
    BY <1>5 DEF DisableStep
  <2>2. PICK ok \in BOOLEAN : Disable(ok) /\ core' = [core EXCEPT !.enabled = ~ok]
    BY <1>5 DEF DisableStep
  <2>3. faults' \in {faults, faults + 1} /\ (~ok => faults' # faults)
    BY <1>0, <2>2, DisableSets
  <2>4. commit' = "unprepare" /\ Counts' /\ (faults' # faults => ~Clean')
    BY <1>0, <2>1, <2>3, ThenCounts
  <2>5. core'.enabled = ~ok
    BY <1>0, <2>2, CoreFlags
  <2> QED BY <2>3, <2>4, <2>5 DEF QuietInv
<1>6. CASE UnprepareStep
  <2>1. commit = "unprepare" /\ Then("none") /\ wanted' = wanted
    BY <1>6 DEF UnprepareStep
  <2>2. ~wanted
    BY <1>0, <2>1 DEF OneWay, Upwards
  <2>3. CASE core.prepared
    <3>1. PICK ok \in BOOLEAN : Unprepare(ok) /\ core' = [core EXCEPT !.prepared = ~ok]
      BY <1>6, <2>3 DEF UnprepareStep
    <3>2. faults' \in {faults, faults + 1} /\ (~ok => faults' # faults)
      BY <1>0, <3>1, UnprepareSets
    <3>3. commit' = "none" /\ Counts' /\ (faults' # faults => ~Settled') /\ (Settled' => Clean)
      BY <1>0, <2>1, <3>2, ThenCounts
    <3>4. core'.prepared = ~ok /\ core'.enabled = core.enabled
      BY <1>0, <3>1, CoreFlags
    <3>5. Settled' => ~core'.prepared /\ ~core'.enabled
      BY <2>1, <3>2, <3>3, <3>4 DEF QuietInv
    <3> QED BY <2>1, <2>2, <3>3, <3>5 DEF QuietInv
  <2>4. CASE ~core.prepared
    <3>1. faults' = faults /\ core' = core
      BY <1>6, <2>4 DEF UnprepareStep
    <3>2. commit' = "none" /\ Counts' /\ (Settled' => Clean)
      BY <1>0, <2>1, <3>1, ThenCounts
    <3>3. Settled' => ~core'.prepared /\ ~core'.enabled
      BY <2>1, <2>4, <3>1, <3>2 DEF QuietInv
    <3> QED BY <2>1, <2>2, <3>2, <3>3 DEF QuietInv
  <2> QED BY <2>3, <2>4
<1> QED BY <1>1, <1>2, <1>3, <1>4, <1>5, <1>6 DEF Commit

\* A blank and an unblank start from a whole commit.
LEMMA BlankCalm == ASSUME QuietInv, NEW on \in BOOLEAN, Blank(on) PROVE QuietInv'
<1>1. /\ commit = "none" /\ wanted # on
      /\ commit' = (IF on THEN "prepare" ELSE "dim") /\ UNCHANGED <<driver, core, quiet, faults>>
  BY DEF Blank
<1>2. Counts' /\ Clean' = Clean /\ Settled' = Settled /\ Calm' = Calm
  BY <1>1, SameCounts DEF QuietInv
<1>3. CASE on
  BY <1>1, <1>2, <1>3 DEF QuietInv
<1>4. CASE ~on
  BY <1>1, <1>2, <1>4 DEF QuietInv
<1> QED BY <1>3, <1>4

\* A brightness that could not be written is a fault, one that could is shown.
LEMMA StoreCalm == ASSUME PanelInv, QuietInv, NEW level \in Int, Store(level) PROVE QuietInv'
<1>0. /\ Counts /\ faults \in Nat /\ Driver /\ CoreTypes
      /\ (Calm => Settled) /\ (Settled => Clean)
  BY CleanOrder DEF QuietInv, PanelInv, Counts
<1>1. /\ UNCHANGED <<core, commit, wanted>> /\ bl' = [bl EXCEPT !.brightness = level]
      /\ Update(IF bl.on THEN level ELSE 0)
      /\ quiet' = (IF faults' # faults THEN IF commit = "none" THEN 0 ELSE -1 ELSE quiet)
  BY DEF Store
<1>2. /\ faults' \in {faults, faults + 1} /\ enabled' = enabled
      /\ ddic'.ready = ddic.ready /\ ddic'.on = ddic.on
      /\ prepared /\ faults' = faults => ddic'.level = IF bl.on THEN level ELSE 0
  BY <1>0, <1>1, UpdateSets
<1>3. prepared' = prepared
  BY <1>0, <1>1, UpdateKeeps
<1>4. bl'.on = bl.on /\ bl'.brightness = level
  BY <1>0, <1>1 DEF CoreTypes
<1>5. CASE faults' = faults
  <2>1. Counts' /\ Clean' = Clean /\ Settled' = Settled /\ Calm' = Calm
    BY <1>0, <1>1, <1>5, SameCounts
  <2>2. Calm /\ commit = "none" /\ wanted => ddic'.level = level
    BY <1>2, <1>5 DEF QuietInv
  <2> QED BY <1>1, <1>2, <1>3, <1>4, <2>1, <2>2 DEF QuietInv
<1>6. CASE faults' # faults
  <2>1. quiet' \in {0, -1} /\ (commit # "none" => quiet' = -1)
    BY <1>1, <1>6
  <2>2. faults' \in Nat /\ faults' # 0
    BY <1>0, <1>2, <1>6
  <2>3. quiet' \in Int /\ ~Settled' /\ ~Calm' /\ (quiet' = -1 => ~Clean')
    BY <2>1 DEF Clean, Settled, Calm
  <2>4. Counts'
    BY <2>2, <2>3 DEF Counts
  <2> QED BY <1>1, <2>1, <2>3, <2>4 DEF QuietInv
<1> QED BY <1>5, <1>6

--------------------------------------------------------------------------------
(* The whole tablet: the off-mode screen, or the desktop.                   *)

LEMMA LitKeeps == LitOK /\ [Next]_vars => LitOK'
<1> SUFFICES ASSUME LitOK, [Next]_vars PROVE LitOK'
  OBVIOUS
<1>1. CASE UNCHANGED clocks
  BY <1>1 DEF clocks, LitOK
<1>2. ASSUME NEW dt \in 0..1, GoesOn(dt) PROVE LitOK'
  BY <1>2 DEF GoesOn, LitOK
<1>3. CASE Program
  BY <1>1, <1>2, <1>3 DEF Program, Boots, PowersOff, ScreenStores, ScreenBlanks
<1>4. CASE World
  BY <1>1, <1>4 DEF World, Press, Release, Volume, DeviceGoes, Cable, Charges, Alike
<1>5. CASE Commits \/ Desktop \/ UNCHANGED vars
  BY <1>1, <1>5 DEF Commits, Desktop, vars
<1> QED BY <1>3, <1>4, <1>5 DEF Next

\* Every step is one of the panel, or leaves the panel alone.
LEMMA NextKeeps == PanelInv /\ LitOK /\ [Next]_vars => PanelInv'
<1> SUFFICES ASSUME PanelInv, LitOK, [Next]_vars PROVE PanelInv'
  OBVIOUS
<1>1. CASE UNCHANGED panel
  BY <1>1 DEF panel, driver, PanelInv, Driver, CoreTypes, OneWay
<1>2. CASE Commit
  BY <1>2, CommitKeeps
<1>3. ASSUME NEW on \in BOOLEAN, Blank(on) PROVE PanelInv'
  BY <1>3, BlankKeeps
<1>4. ASSUME NEW level \in Int, Store(level) PROVE PanelInv'
  BY <1>4, StoreKeeps
<1>5. CASE Program
  <2>1. CASE \E dt \in 0..1 : Boots(dt) \/ PowersOff(dt) \/ GoesOn(dt)
    BY <1>1, <2>1 DEF Boots, PowersOff, GoesOn
  <2>2. CASE ScreenStores
    <3>1. PICK level \in Int : Store(level)
      BY <2>2 DEF ScreenStores
    <3> QED BY <1>4, <3>1
  <2>3. CASE ScreenBlanks
    <3>1. CASE commit = "none" /\ wanted = lit /\ UNCHANGED panel
      BY <1>1, <3>1
    <3>2. CASE Blank(lit)
      BY <1>3, <3>2 DEF LitOK
    <3> QED BY <2>3, <3>1, <3>2 DEF ScreenBlanks
  <2> QED BY <1>5, <2>1, <2>2, <2>3 DEF Program
<1>6. CASE Commits
  BY <1>2, <1>6 DEF Commits
<1>7. CASE World
  BY <1>1, <1>7
     DEF World, Press, Release, Volume, DeviceGoes, Cable, Charges, Alike
<1>8. CASE Desktop
  <2>1. CASE \E on \in BOOLEAN : Blank(on)
    BY <1>3, <2>1
  <2>2. CASE \E level \in Levels : Store(level)
    BY <1>4, <2>2, LevelsAssumption
  <2> QED BY <1>8, <2>1, <2>2 DEF Desktop
<1>9. CASE UNCHANGED vars
  BY <1>1, <1>9 DEF vars
<1> QED BY <1>5, <1>6, <1>7, <1>8, <1>9 DEF Next

\* Nothing but the panel's own steps and the two requests reaches it.
LEMMA NextCalm == PanelInv /\ QuietInv /\ LitOK /\ [Next]_vars => QuietInv'
<1> SUFFICES ASSUME PanelInv, QuietInv, LitOK, [Next]_vars PROVE QuietInv'
  OBVIOUS
<1>1. CASE UNCHANGED panel
  BY <1>1 DEF panel, driver, QuietInv, Counts, Clean, Settled, Calm
<1>2. CASE Commit
  BY <1>2, CommitCalm
<1>3. ASSUME NEW on \in BOOLEAN, Blank(on) PROVE QuietInv'
  BY <1>3, BlankCalm
<1>4. ASSUME NEW level \in Int, Store(level) PROVE QuietInv'
  BY <1>4, StoreCalm
<1>5. CASE Program
  <2>1. CASE \E dt \in 0..1 : Boots(dt) \/ PowersOff(dt) \/ GoesOn(dt)
    BY <1>1, <2>1 DEF Boots, PowersOff, GoesOn
  <2>2. CASE ScreenStores
    <3>1. PICK level \in Int : Store(level)
      BY <2>2 DEF ScreenStores
    <3> QED BY <1>4, <3>1
  <2>3. CASE ScreenBlanks
    <3>1. CASE UNCHANGED panel
      BY <1>1, <3>1
    <3>2. CASE Blank(lit)
      BY <1>3, <3>2 DEF LitOK
    <3> QED BY <2>3, <3>1, <3>2 DEF ScreenBlanks
  <2> QED BY <1>5, <2>1, <2>2, <2>3 DEF Program
<1>6. CASE Commits
  BY <1>2, <1>6 DEF Commits
<1>7. CASE World
  BY <1>1, <1>7
     DEF World, Press, Release, Volume, DeviceGoes, Cable, Charges, Alike
<1>8. CASE Desktop
  <2>1. CASE \E on \in BOOLEAN : Blank(on)
    BY <1>3, <2>1
  <2>2. CASE \E level \in Levels : Store(level)
    BY <1>4, <2>2, LevelsAssumption
  <2> QED BY <1>8, <2>1, <2>2 DEF Desktop
<1>9. CASE UNCHANGED vars
  BY <1>1, <1>9 DEF vars
<1> QED BY <1>5, <1>6, <1>7, <1>8, <1>9 DEF Next

\* The panel's commit changes neither what is wanted nor the brightness asked for.
LEMMA CommitAsks ==
  ASSUME CoreTypes, Commit
  PROVE  commit # "none" /\ wanted' = wanted /\ bl'.brightness = bl.brightness
<1>1. commit # "none" /\ wanted' = wanted
  BY DEF Commit, PrepareStep, EnableStep, LightStep, DimStep, DisableStep, UnprepareStep
<1>2. \/ bl' = bl
      \/ \E on \in BOOLEAN : bl' = [bl EXCEPT !.on = on]
  BY DEF Commit, PrepareStep, EnableStep, LightStep, DimStep, DisableStep, UnprepareStep
<1> QED BY <1>1, <1>2 DEF CoreTypes

LEMMA ScreenStep == PanelInv /\ LitOK /\ ScreenInv /\ [Next]_vars => ScreenInv'
<1> SUFFICES ASSUME PanelInv, LitOK, ScreenInv, [Next]_vars, user' = "charger" PROVE ScreenInv'
  BY DEF ScreenInv
<1>0. user = "charger"
  BY DEF Next, Program, Boots, PowersOff, GoesOn, ScreenStores, ScreenBlanks, Commits, Desktop,
         World, Press, Release, Volume, DeviceGoes, Cable, Charges, Alike, vars
<1>1. CASE UNCHANGED <<panel, clocks, pc, gauge>>
  BY <1>0, <1>1 DEF ScreenInv, panel, clocks
<1>2. ASSUME NEW dt \in 0..1, GoesOn(dt) PROVE ScreenInv'
  <2>1. PICK now \in BOOLEAN :
          /\ lit' = now /\ last_lit' = (IF now THEN 1 ELSE 0)
          /\ IF now /\ (last_lit # 1 \/ Capacity # last_pct)
               THEN last_pct' = Capacity /\ gauge' = Capacity
               ELSE UNCHANGED <<last_pct, gauge>>
    BY <1>2 DEF GoesOn, Redraws
  <2>2. /\ pc = "loop" /\ pc' = (IF last_lit' # last_lit THEN "brightness" ELSE "loop")
        /\ UNCHANGED <<commit, bl, wanted>>
    BY <1>2 DEF GoesOn, Turn, panel
  <2>3. /\ commit = "none" /\ wanted = lit /\ bl.brightness = (IF lit THEN 2047 \div 5 ELSE 0)
        /\ last_lit # None => last_lit = IF lit THEN 1 ELSE 0
        /\ last_lit = 1 => gauge = last_pct
    BY <1>0, <2>2 DEF ScreenInv
  <2>4. last_lit' # None /\ last_lit' \in {0, 1}
    BY <2>1 DEF None
  <2>5. last_lit' = 1 => gauge' = last_pct'
    BY <2>1, <2>3
  <2>6. last_lit' = last_lit => lit' = lit
    BY <2>1, <2>3, <2>4 DEF LitOK
  <2> QED BY <2>1, <2>2, <2>3, <2>4, <2>5, <2>6 DEF ScreenInv
<1>3. CASE ScreenStores
  <2>1. /\ pc = "brightness" /\ commit = "none" /\ pc' = "blank" /\ UNCHANGED <<clocks, gauge>>
        /\ bl' = [bl EXCEPT !.brightness = IF lit THEN 2047 \div 5 ELSE 0]
        /\ commit' = commit
    BY <1>3 DEF ScreenStores, Store
  <2>2. bl'.brightness = IF lit THEN 2047 \div 5 ELSE 0
    BY <2>1 DEF PanelInv, CoreTypes
  <2> QED BY <1>0, <2>1, <2>2 DEF ScreenInv, clocks
<1>4. CASE ScreenBlanks
  <2>1. /\ pc = "blank" /\ pc' = (IF commit' = "none" THEN "loop" ELSE "commit")
        /\ gauge' = (IF lit THEN gauge ELSE None) /\ UNCHANGED clocks
    BY <1>4 DEF ScreenBlanks
  <2>2. bl' = bl /\ wanted' = lit
    BY <1>4 DEF ScreenBlanks, Blank, panel
  <2>3. last_lit = 1 => lit
    BY <1>0 DEF ScreenInv, None
  <2> QED BY <1>0, <2>1, <2>2, <2>3 DEF ScreenInv, clocks
<1>5. CASE Commits
  <2>1. /\ pc' = (IF pc = "commit" /\ commit' = "none" THEN "loop" ELSE pc)
        /\ UNCHANGED <<clocks, gauge>>
    BY <1>5 DEF Commits
  <2>2. commit # "none" /\ wanted' = wanted /\ bl'.brightness = bl.brightness
    BY <1>5, CommitAsks DEF Commits, PanelInv
  <2> QED BY <1>0, <2>1, <2>2 DEF ScreenInv, clocks
<1>6. CASE Program
  BY <1>1, <1>2, <1>3, <1>4, <1>6 DEF Program, Boots, PowersOff
<1>7. CASE World
  BY <1>1, <1>7 DEF World, Press, Release, Volume, DeviceGoes, Cable, Charges, Alike
<1>8. ~Desktop
  BY <1>0 DEF Desktop
<1>9. CASE UNCHANGED vars
  BY <1>1, <1>9 DEF vars
<1> QED BY <1>5, <1>6, <1>7, <1>8, <1>9 DEF Next

\* Both clocks of the missing charger run and stop together.
LEMMA AwayStep == AwayInv /\ [Next]_vars => AwayInv'
<1> SUFFICES ASSUME AwayInv, [Next]_vars, outcome' = "running" PROVE AwayInv'
  BY DEF AwayInv
<1>1. CASE UNCHANGED <<outcome, unplug_at, absent>>
  BY <1>1 DEF AwayInv
<1>2. ASSUME NEW dt \in 0..1, GoesOn(dt) PROVE AwayInv'
  <2>1. outcome = "running" /\ unplug_at' = Away(dt)
    BY <1>2 DEF GoesOn, Turn, Running
  <2>2. absent' = IF charger THEN None ELSE IF absent = None THEN 0 ELSE Aged(absent, dt, Unplugged)
    BY <1>2 DEF GoesOn, Turn, Passes
  <2> QED BY <2>1, <2>2 DEF AwayInv, Away
<1>3. CASE Program
  BY <1>1, <1>2, <1>3 DEF Program, Boots, PowersOff, ScreenStores, ScreenBlanks, clocks, world
<1>4. CASE World
  BY <1>1, <1>4 DEF World, Press, Release, Volume, DeviceGoes, Cable, Charges, Alike, clocks
<1>5. CASE Commits \/ Desktop \/ UNCHANGED vars
  BY <1>1, <1>5 DEF Commits, Desktop, vars, clocks, world
<1> QED BY <1>3, <1>4, <1>5 DEF Next

\* An event is appended: it is the last one of the power key, or a volume key.
LEMMA LastAppended ==
  ASSUME NEW event \in {"press", "release", "volume"},
         queue \in Seq({"press", "release", "volume"}), queue' = Append(queue, event), NEW which \in {"press", "release"}
  PROVE Last(which)' <=> (event = which \/ (event = "volume" /\ Last(which)))
<1> DEFINE n == Len(queue)
<1>1. /\ n \in Nat /\ DOMAIN queue = 1..n /\ DOMAIN queue' = 1..n + 1 /\ Len(queue') = n + 1
      /\ queue'[n + 1] = event /\ \A i \in 1..n : queue'[i] = queue[i]
  OBVIOUS
<1> HIDE DEF n
<1>2. ASSUME event = which PROVE Last(which)'
  <2>1. n + 1 \in DOMAIN queue' /\ queue'[n + 1] = which /\ (n + 1) + 1..n + 1 = {}
    BY <1>1, <1>2
  <2> QED BY <1>1, <2>1 DEF Last
<1>3. ASSUME event = "volume", Last(which) PROVE Last(which)'
  <2>1. PICK i \in 1..n : queue[i] = which /\ \A j \in i + 1..n : queue[j] = "volume"
    BY <1>1, <1>3 DEF Last, n
  <2>2. \A j \in i + 1..n + 1 : queue'[j] = "volume"
    BY <1>1, <1>3, <2>1
  <2>3. i \in DOMAIN queue' /\ queue'[i] = which
    BY <1>1, <2>1
  <2> QED BY <1>1, <2>2, <2>3 DEF Last
<1>4. ASSUME event # which, Last(which)' PROVE event = "volume" /\ Last(which)
  <2>1. PICK i \in 1..n + 1 : queue'[i] = which /\ \A j \in i + 1..n + 1 : queue'[j] = "volume"
    BY <1>1, <1>4 DEF Last
  <2>2. i \in 1..n
    BY <1>1, <1>4, <2>1
  <2>3. n + 1 \in i + 1..n + 1
    BY <1>1, <2>2
  <2>4. event = "volume"
    BY <1>1, <2>1, <2>3
  <2>5. queue[i] = which /\ \A j \in i + 1..n : queue[j] = "volume"
    BY <1>1, <2>1, <2>2
  <2> QED BY <1>1, <2>2, <2>4, <2>5 DEF Last, n
<1> QED BY <1>2, <1>3, <1>4

\* After a turn of the loop the hold heard is at most the hold there is.
LEMMA HeardHolds ==
  ASSUME HoldInv, NEW dt \in 0..1, gone = 0, Running, held' = Aged(held, dt, Hold),
         Heard(dt).press # None
  PROVE held' # None /\ Heard(dt).press <= held'
<1>1. outcome = "running" /\ Hold \in Nat
  BY TicksAssumption DEF Running
<1>2. Heard(dt).press = IF Last("press") THEN 0 ELSE IF Last("release") THEN None
                        ELSE Aged(press_at, dt, Hold)
  BY DEF Heard
<1>3. CASE Last("press")
  <2>1. held \in 0..Hold
    BY <1>1, <1>3 DEF HoldInv
  <2> QED BY <1>1, <1>2, <1>3, <2>1 DEF Aged, None
<1>4. CASE ~Last("press")
  <2>1. ~Last("release") /\ press_at # None
    BY <1>2, <1>4 DEF Aged
  <2>2. held \in 0..Hold /\ press_at <= held /\ press_at \in Int
    BY <1>1, <1>4, <2>1 DEF HoldInv
  <2> QED BY <1>1, <1>2, <1>4, <2>1, <2>2 DEF Aged, None
<1> QED BY <1>3, <1>4

LEMMA HoldStep == HoldInv /\ [Next]_vars => HoldInv'
<1> SUFFICES ASSUME HoldInv, [Next]_vars PROVE HoldInv'
  OBVIOUS
<1> DEFINE Keys == {"press", "release", "volume"}
<1>0. Hold \in Nat /\ Last("press") \in BOOLEAN /\ Last("release") \in BOOLEAN
  BY TicksAssumption DEF Last
<1>1. CASE UNCHANGED <<held, press_at, queue, gone, outcome>>
  BY <1>1 DEF HoldInv, Last
<1>2. ASSUME NEW dt \in 0..1, Turn(dt), gone' = gone,
             press_at' = Heard(dt).press \/ (outcome' # "running" /\ press_at' = press_at)
      PROVE HoldInv'
  <2>1. held' = Aged(held, dt, Hold) /\ queue' = <<>> /\ Running
    BY <1>2 DEF Turn, Passes
  <2>2. held' \in 0..Hold \cup {None} /\ queue' \in Seq(Keys)
    BY <1>0, <2>1 DEF HoldInv, Aged, None
  <2>3. press_at' \in Int /\ gone' \in Nat
    BY <1>0, <1>2 DEF HoldInv, Heard, Aged, None
  <2>4. ~Last("press")' /\ ~Last("release")'
    BY <2>1 DEF Last
  <2>5. ASSUME gone' = 0, outcome' = "running", press_at' # None
        PROVE held' # None /\ press_at' <= held'
    BY <1>2, <2>1, <2>5, HeardHolds
  <2> QED BY <2>2, <2>3, <2>4, <2>5 DEF HoldInv
<1>3. ASSUME NEW dt \in 0..1, Boots(dt) \/ PowersOff(dt) \/ GoesOn(dt) PROVE HoldInv'
  BY <1>2, <1>3 DEF Boots, PowersOff, GoesOn, Turn, Passes, clocks
<1>4. ASSUME NEW event \in Keys, queue' = Append(queue, event), press_at' = press_at, gone' = gone,
             outcome' = outcome, outcome = "running",
             \/ event = "press" /\ held' = 0
             \/ event = "release" /\ held' = None
             \/ event = "volume" /\ held' = held
      PROVE HoldInv'
  <2>1. queue \in Seq(Keys) /\ queue' \in Seq(Keys)
    BY <1>4 DEF HoldInv
  <2>2. /\ Last("press")' <=> (event = "press" \/ (event = "volume" /\ Last("press")))
        /\ Last("release")' <=> (event = "release" \/ (event = "volume" /\ Last("release")))
    BY <1>4, <2>1, LastAppended
  <2>3. held' \in 0..Hold \cup {None} /\ press_at' \in Int /\ gone' \in Nat
    BY <1>0, <1>4 DEF HoldInv
  <2>4. 0 # None
    BY DEF None
  <2> QED BY <1>0, <1>4, <2>1, <2>2, <2>3, <2>4 DEF HoldInv
<1>5. CASE Press
  BY <1>4, <1>5 DEF Press, Alike, Running, clocks
<1>6. CASE Release
  BY <1>4, <1>6 DEF Release, Alike, Running, clocks
<1>7. CASE Volume
  BY <1>4, <1>7 DEF Volume, Alike, Running, clocks
<1>8. CASE DeviceGoes
  <2>1. gone' # 0 /\ gone' \in Nat /\ held' = None /\ queue' = <<>> /\ press_at' = press_at
    BY <1>8 DEF DeviceGoes, Alike, clocks, HoldInv
  <2> QED BY <2>1 DEF HoldInv
<1>9. CASE Cable \/ Charges
  BY <1>1, <1>9 DEF Cable, Charges, Alike, clocks
<1>10. CASE Program
  BY <1>1, <1>3, <1>10 DEF Program, ScreenStores, ScreenBlanks, clocks, world
<1>11. CASE Commits \/ Desktop \/ UNCHANGED vars
  BY <1>1, <1>11 DEF Commits, Desktop, vars, clocks, world
<1> QED BY <1>5, <1>6, <1>7, <1>8, <1>9, <1>10, <1>11 DEF Next, World

TabletInv == PanelInv /\ LitOK /\ QuietInv /\ ScreenInv /\ AwayInv /\ HoldInv

LEMMA TabletInit == Init => TabletInv
<1> SUFFICES ASSUME Init PROVE TabletInv
  OBVIOUS
<1>1. PanelInv /\ LitOK
  BY InitInv DEF Init, LitOK
<1>2. Counts
  BY DEF Init, PanelInit, Counts, Calm
<1>3. QuietInv
  <2>1. /\ commit = "prepare" /\ ~core.prepared /\ ~core.enabled
    BY DEF Init, PanelInit
  <2> QED BY <1>2, <2>1 DEF QuietInv
<1>4. ScreenInv
  BY DEF Init, ScreenInv, None
<1>5. AwayInv
  BY DEF Init, AwayInv
<1>6. HoldInv
  BY TicksAssumption DEF Init, HoldInv, Last, None
<1> QED BY <1>1, <1>3, <1>4, <1>5, <1>6 DEF TabletInv

LEMMA TabletStep == TabletInv /\ [Next]_vars => TabletInv'
BY NextKeeps, LitKeeps, NextCalm, ScreenStep, AwayStep, HoldStep DEF TabletInv

LEMMA TabletCorrect == Spec => []TabletInv
BY TabletInit, TabletStep, PTL DEF Spec

\* The supplies are held while the panel is prepared and not otherwise, for every
\* brightness, every number of failures and every interleaving (prepare,
\* unprepare and their error paths).
THEOREM RailsBalancedAlways == Spec => []RailsBalanced
<1>1. TabletInv => RailsBalanced
  BY DEF TabletInv, PanelInv, Driver, RailsBalanced
<1> QED BY <1>1, TabletCorrect, PTL

\* Two whole commits after the last fault a woken panel is lit at the brightness
\* written last, whatever flags the fault left standing in the core and in the
\* driver and whatever was written between the callbacks.
THEOREM LitWhenOnAlways == Spec => []LitWhenOn
<1>1. TabletInv => LitWhenOn
  BY DEF TabletInv, QuietInv, Calm, LitWhenOn
<1> QED BY <1>1, TabletCorrect, PTL

\* A lit gauge shows the charge read last at the screen's own brightness, and a
\* dark one costs no supply, between any two turns of the loop (522-527).
THEOREM GaugeVisibleAlways == Spec => []GaugeVisible
<1>1. TabletInv => GaugeVisible
  <2> SUFFICES ASSUME TabletInv, Running, pc = "loop", faults = 0, last_lit # None
               PROVE  IF last_lit = 1 THEN ddic.on /\ ddic.level = 2047 \div 5 /\ gauge = last_pct
                                      ELSE rails = {}
    BY DEF GaugeVisible
  <2>1. /\ commit = "none" /\ wanted = lit /\ bl.brightness = (IF lit THEN 2047 \div 5 ELSE 0)
        /\ last_lit = (IF lit THEN 1 ELSE 0) /\ (last_lit = 1 => gauge = last_pct)
    BY DEF TabletInv, ScreenInv, Running
  <2>2. wanted => ddic.on /\ ddic.level = bl.brightness
    BY <2>1 DEF TabletInv, QuietInv, Counts
  <2>3. ~wanted => rails = {}
    BY <2>1 DEF TabletInv, PanelInv, Driver
  <2>4. last_lit = 1 <=> lit
    BY <2>1 DEF TabletInv, LitOK
  <2> QED BY <2>1, <2>2, <2>3, <2>4
<1> QED BY <1>1, TabletCorrect, PTL

\* The boot starts only after a power key down for the whole of HOLD_MS, unless a
\* device took a release with it, and the tablet is only switched off after
\* UNPLUG_MS without a charger in sight: for any order of keys, cables and turns
\* of the loop (gts9-charger.c:460-516).
THEOREM EndsAsMeantAlways == Spec => EndsAsMeant
<1>1. TabletInv /\ [Next]_vars =>
        [/\ outcome' = "boot" => gone > 0 \/ held' = Hold
         /\ outcome' = "off" => absent' = Unplugged]_outcome
  <2> SUFFICES ASSUME TabletInv, [Next]_vars, outcome' # outcome
               PROVE  /\ outcome' = "boot" => gone > 0 \/ held' = Hold
                      /\ outcome' = "off" => absent' = Unplugged
    OBVIOUS
  <2>1. PICK dt \in 0..1 : Boots(dt) \/ PowersOff(dt)
    BY DEF Next, Program, Boots, PowersOff, GoesOn, ScreenStores, ScreenBlanks, Commits, Desktop,
           World, Press, Release, Volume, DeviceGoes, Cable, Charges, Alike, vars
  <2>2. CASE Boots(dt)
    <3>1. /\ outcome' = "boot" /\ Running /\ held' = Aged(held, dt, Hold)
          /\ Heard(dt).press = Hold
      BY <2>2 DEF Boots, Turn, Passes, HeldOn
    <3>2. Hold \in Nat /\ gone \in Nat /\ held \in 0..Hold \cup {None}
      BY TicksAssumption DEF TabletInv, HoldInv
    <3>3. Hold # None
      BY <3>2 DEF None
    <3>4. gone = 0 => held' # None /\ Hold <= held'
      BY <3>1, <3>3, HeardHolds DEF TabletInv
    <3>5. held' # None => held' <= Hold
      BY <3>1, <3>2 DEF Aged, None
    <3>6. held' \in Int
      BY <3>1, <3>2 DEF Aged, None
    <3>7. gone > 0 \/ held' = Hold
      BY <3>2, <3>4, <3>5, <3>6
    <3> QED BY <3>1, <3>7
  <2>3. CASE PowersOff(dt)
    <3>1. /\ outcome = "running" /\ Away(dt) = Unplugged /\ outcome' = "off"
          /\ absent' = IF charger THEN None
                       ELSE IF absent = None THEN 0 ELSE Aged(absent, dt, Unplugged)
      BY <2>3 DEF PowersOff, Turn, Passes, Running
    <3> QED BY <3>1 DEF TabletInv, AwayInv, Away
  <2> QED BY <2>1, <2>2, <2>3
<1> QED BY <1>1, TabletCorrect, PTL DEF Spec, EndsAsMeant

--------------------------------------------------------------------------------
(* The gauge on every screen: no loop of fill() leaves the framebuffer, and *)
(* the stack neither overlaps nor runs off a screen of 200 pixels or more.  *)

\* Entirely on the screen, and not above one another's end.
OnScreen(r) == /\ 0 <= r.x /\ r.x + r.w <= xres
               /\ 0 <= r.y /\ r.y + r.h <= yres
Above(a, b) == a.y + a.h <= b.y
Within(a, b) == /\ b.x <= a.x /\ a.x + a.w <= b.x + b.w
                /\ b.y <= a.y /\ a.y + a.h <= b.y + b.h

\* fill() writes no pixel outside the visible screen, whatever it is asked to
\* fill: a rectangle off either edge, larger than the screen, or of negative
\* size (gts9-charger.c:234-237).
LEMMA AxisClipped ==
  ASSUME NEW a \in Int, NEW n \in Int, NEW limit \in Nat,
         NEW i \in Low(a) .. (Low(a) + Length(a, n, limit) - 1)
  PROVE  i \in 0 .. (limit - 1)
BY DEF Low, Length

THEOREM FillInside ==
  ASSUME NEW x \in Int, NEW y \in Int, NEW w \in Int, NEW h \in Int
  PROVE  /\ Columns(Rect(x, y, w, h)) \subseteq 0 .. (xres - 1)
         /\ Rows(Rect(x, y, w, h)) \subseteq 0 .. (yres - 1)
<1>1. xres \in Nat /\ yres \in Nat
  BY ScreenAssumption
<1>2. /\ Columns(Rect(x, y, w, h)) = Low(x) .. (Low(x) + Length(x, w, xres) - 1)
      /\ Rows(Rect(x, y, w, h)) = Low(y) .. (Low(y) + Length(y, h, yres) - 1)
  BY DEF Columns, Rows, Fill, Rect
<1>3. \A i \in Columns(Rect(x, y, w, h)) : i \in 0 .. (xres - 1)
  BY <1>1, <1>2, AxisClipped
<1>4. \A i \in Rows(Rect(x, y, w, h)) : i \in 0 .. (yres - 1)
  BY <1>1, <1>2, AxisClipped
<1> QED BY <1>3, <1>4

--------------------------------------------------------------------------------
(* The stack.  Its sizes in the unit u, then where they put the elements.   *)

\* A share of a width is no wider.
LEMMA Share == ASSUME NEW k \in Nat, NEW p \in 0..100
               PROVE  (k * p) \div 100 \in 0..k
<1>1. k * p >= 0 /\ k * (100 - p) >= 0
  OBVIOUS
<1>2. k * (100 - p) = k * 100 - k * p
  OBVIOUS
<1>3. PICK m \in Int : m = k * p
  OBVIOUS
<1>4. 0 <= m /\ m <= k * 100
  BY <1>1, <1>2, <1>3
<1>5. m \div 100 \in 0..k
  BY <1>4
<1> QED BY <1>3, <1>5

LEMMA Units ==
  ASSUME xres >= 200, yres >= 200
  PROVE  /\ xres \in Nat /\ yres \in Nat
         /\ u \in Nat /\ u >= 2 /\ 100 * u <= xres /\ 100 * u <= yres
<1>1. xres \in Nat /\ yres \in Nat
  BY ScreenAssumption
<1> QED BY <1>1 DEF u

\* Scales and the outline of the body.
LEMMA Sizes ==
  ASSUME u \in Nat, u >= 2
  PROVE  /\ Ns = u /\ Ms \in Nat /\ Ms >= 1 /\ 2 * Ms <= u
         /\ Hs \in Nat /\ Hs >= 1 /\ 2 * Hs <= u
         /\ Thick \in Nat /\ 2 * Thick <= u
         /\ BodyW = u * 12 /\ BodyH = u * 6 /\ Gap = u * 2
BY DEF Ns, Ms, Hs, AtLeast1, Thick, BodyW, BodyH, Gap

\* The stack is centred, and never higher than the screen.
LEMMA Centred ==
  ASSUME xres >= 200, yres >= 200, NEW hint \in BOOLEAN
  PROVE  /\ Top(hint) \in Nat /\ Top(hint) + Total(hint) <= yres
         /\ Left \in Nat /\ Left + BodyW <= xres
<1>1. xres \in Nat /\ yres \in Nat /\ u \in Nat /\ u >= 2 /\ 100 * u <= xres /\ 100 * u <= yres
  BY Units
<1>2. /\ Ns = u /\ Ms \in Nat /\ 2 * Ms <= u /\ Hs \in Nat /\ 2 * Hs <= u
      /\ BodyW = u * 12 /\ BodyH = u * 6 /\ Gap = u * 2
  BY <1>1, Sizes
<1>3. HintH(hint) \in Nat /\ HintH(hint) <= 6 * u
  BY <1>1, <1>2 DEF HintH
<1>4. Total(hint) \in Nat /\ Total(hint) <= 100 * u
  BY <1>1, <1>2, <1>3 DEF Total
<1>5. Top(hint) \in Nat /\ Top(hint) + Total(hint) <= yres
  BY <1>1, <1>4 DEF Top
<1>6. Left \in Nat /\ Left + BodyW <= xres
  BY <1>1, <1>2 DEF Left
<1> QED BY <1>5, <1>6

\* A line of text no wider than the screen, centred.
LEMMA LineCentred ==
  ASSUME NEW y \in Int, NEW scale \in Nat, NEW chars \in Nat, xres \in Nat,
         TextW(scale, chars) <= xres
  PROVE  /\ 0 <= Line(y, scale, chars).x
         /\ Line(y, scale, chars).x + Line(y, scale, chars).w <= xres
         /\ Line(y, scale, chars).y = y /\ Line(y, scale, chars).h = 7 * scale
<1> DEFINE w == TextW(scale, chars)
<1>1. w \in Int /\ w <= xres
  BY DEF TextW
<1>2. /\ Line(y, scale, chars).x = xres \div 2 - w \div 2 /\ Line(y, scale, chars).w = w
      /\ Line(y, scale, chars).y = y /\ Line(y, scale, chars).h = 7 * scale
  BY DEF Line, Rect
<1> HIDE DEF w
<1>3. 0 <= xres \div 2 - w \div 2 /\ xres \div 2 - w \div 2 + w <= xres
  BY <1>1
<1> QED BY <1>2, <1>3

\* A text of chars characters is as wide as its scale allows.
LEMMA TextFits ==
  ASSUME NEW n \in Nat, NEW scale \in Nat, NEW chars \in Nat, NEW most \in Nat,
         chars <= most, n >= most * 6 * scale, xres \in Nat, xres >= n
  PROVE  TextW(scale, chars) <= xres
<1>1. chars * scale <= most * scale
  <2>1. scale * (most - chars) >= 0
    OBVIOUS
  <2>2. scale * (most - chars) = most * scale - chars * scale
    OBVIOUS
  <2>3. chars * scale \in Int /\ most * scale \in Int
    OBVIOUS
  <2> QED BY <2>1, <2>2, <2>3
<1>2. chars * 6 * scale = 6 * (chars * scale) /\ most * 6 * scale = 6 * (most * scale)
  OBVIOUS
<1>3. chars * scale \in Int /\ most * scale \in Int
  OBVIOUS
<1>4. chars * 6 * scale <= n
  BY <1>1, <1>2, <1>3
<1>5. chars * 6 * scale \in Int
  OBVIOUS
<1> QED BY <1>4, <1>5 DEF TextW

\* "Elements are stacked with fixed gaps [...], so nothing can overlap whichever
\* way the framebuffer is turned" (gts9-charger.c:313-317): for every screen of
\* at least 200 pixels a side, a percentage, a status of up to 31 characters
\* (msg, 326) and the hint, if any, are on the screen, one below the other, and
\* the level stays inside the body for any percentage the gauge may report; the
\* terminal is beside it.
THEOREM GaugeStacked ==
  ASSUME xres >= 200, yres >= 200, NEW hint \in BOOLEAN, NEW charge \in Int,
         NEW digits \in 2..7, NEW chars \in 1..31
  PROVE  /\ OnScreen(Body(hint)) /\ Within(Level(hint, charge), Body(hint))
         /\ OnScreen(Nub(hint)) /\ Nub(hint).x = Body(hint).x + Body(hint).w
         /\ Above(Nub(hint), Percent(hint, digits))
         /\ OnScreen(Percent(hint, digits)) /\ Above(Body(hint), Percent(hint, digits))
         /\ OnScreen(Status(hint, chars)) /\ Above(Percent(hint, digits), Status(hint, chars))
         /\ hint => OnScreen(Hint(hint)) /\ Above(Status(hint, chars), Hint(hint))
<1>1. xres \in Nat /\ yres \in Nat /\ u \in Nat /\ u >= 2 /\ 100 * u <= xres /\ 100 * u <= yres
  BY Units
<1>2. /\ Ns = u /\ Ms \in Nat /\ Ms >= 1 /\ 2 * Ms <= u /\ Hs \in Nat /\ Hs >= 1 /\ 2 * Hs <= u
      /\ Thick \in Nat /\ 2 * Thick <= u
      /\ BodyW = u * 12 /\ BodyH = u * 6 /\ Gap = u * 2
  BY <1>1, Sizes
<1>3. /\ Top(hint) \in Nat /\ Top(hint) + Total(hint) <= yres /\ Left \in Nat /\ Left + BodyW <= xres
  BY Centred
<1>5. Total(hint) = BodyH + Gap + 7 * Ns + Gap + 7 * Ms + HintH(hint) /\ HintH(hint) \in Nat
  BY <1>1, <1>2 DEF Total, HintH
<1>6. OnScreen(Body(hint))
  BY <1>1, <1>2, <1>3, <1>5 DEF OnScreen, Body, Rect
<1>7. Within(Level(hint, charge), Body(hint))
  <2>1. Clamped(charge) \in 0..100
    BY DEF Clamped
  <2>2. BodyW - 4 * Thick \in Nat
    BY <1>1, <1>2
  <2>3. FillW(charge) \in 0..(BodyW - 4 * Thick)
    BY <2>1, <2>2, Share DEF FillW
  <2> QED BY <1>1, <1>2, <1>3, <2>3 DEF Within, Level, Body, Rect
<1>8. /\ TextW(Ns, digits) <= xres /\ TextW(Ms, chars) <= xres /\ TextW(Hs, 19) <= xres
  <2>1. TextW(Ns, digits) <= xres
    BY <1>1, <1>2 DEF TextW
  <2>2. 100 * u >= 31 * 6 * Ms /\ 100 * u \in Nat
    BY <1>1, <1>2
  <2>3. TextW(Ms, chars) <= xres
    <3>1. chars \in Nat /\ 31 \in Nat /\ chars <= 31 /\ xres >= 100 * u
      BY <1>1
    <3> QED BY <1>1, <1>2, <2>2, <3>1, TextFits, ZenonT(40)
  <2>4. TextW(Hs, 19) <= xres
    BY <1>1, <1>2 DEF TextW
  <2> QED BY <2>1, <2>3, <2>4
<1>9. digits \in Nat /\ chars \in Nat /\ 19 \in Nat
  OBVIOUS
<1>10. OnScreen(Percent(hint, digits)) /\ Above(Body(hint), Percent(hint, digits))
  <2> DEFINE y == Top(hint) + BodyH + Gap
  <2>1. y \in Int /\ 0 <= y /\ y + 7 * Ns <= yres
    BY <1>1, <1>2, <1>3, <1>5
  <2>2. Percent(hint, digits) = Line(y, Ns, digits)
    BY DEF Percent
  <2>3. Body(hint).y + Body(hint).h <= y
    BY <1>1, <1>2, <1>3 DEF Body, Rect
  <2> HIDE DEF y
  <2>4. y \in Int /\ Ns \in Nat /\ digits \in Nat /\ xres \in Nat /\ TextW(Ns, digits) <= xres
    BY <1>1, <1>2, <1>8, <1>9, <2>1
  <2>5. /\ 0 <= Line(y, Ns, digits).x
        /\ Line(y, Ns, digits).x + Line(y, Ns, digits).w <= xres
        /\ Line(y, Ns, digits).y = y /\ Line(y, Ns, digits).h = 7 * Ns
    BY <2>4, LineCentred, ZenonT(40)
  <2> QED BY <2>1, <2>2, <2>3, <2>5 DEF OnScreen, Above
<1>11. OnScreen(Status(hint, chars)) /\ Above(Percent(hint, digits), Status(hint, chars))
  <2> DEFINE y == Top(hint) + BodyH + Gap + 7 * Ns + Gap
  <2>1. y \in Int /\ 0 <= y /\ y + 7 * Ms <= yres
    BY <1>1, <1>2, <1>3, <1>5
  <2>2. Status(hint, chars) = Line(y, Ms, chars)
    BY DEF Status
  <2>3. Percent(hint, digits).y + Percent(hint, digits).h <= y
    BY <1>1, <1>2, <1>3 DEF Percent, Line, Rect
  <2> HIDE DEF y
  <2>4. y \in Int /\ Ms \in Nat /\ chars \in Nat /\ xres \in Nat /\ TextW(Ms, chars) <= xres
    BY <1>1, <1>2, <1>8, <1>9, <2>1
  <2>5. /\ 0 <= Line(y, Ms, chars).x
        /\ Line(y, Ms, chars).x + Line(y, Ms, chars).w <= xres
        /\ Line(y, Ms, chars).y = y /\ Line(y, Ms, chars).h = 7 * Ms
    BY <2>4, LineCentred, ZenonT(40)
  <2> QED BY <2>1, <2>2, <2>3, <2>5 DEF OnScreen, Above
<1>12. ASSUME hint PROVE OnScreen(Hint(hint)) /\ Above(Status(hint, chars), Hint(hint))
  <2> DEFINE y == Top(hint) + BodyH + Gap + 7 * Ns + Gap + 7 * Ms + Gap
  <2>1. y \in Int /\ 0 <= y /\ y + 7 * Hs <= yres
    <3>1. HintH(hint) = Gap + 7 * Hs
      BY <1>12 DEF HintH
    <3> QED BY <1>1, <1>2, <1>3, <1>5, <3>1
  <2>2. Hint(hint) = Line(y, Hs, 19)
    BY DEF Hint
  <2>3. Status(hint, chars).y + Status(hint, chars).h <= y
    BY <1>1, <1>2, <1>3 DEF Status, Line, Rect
  <2> HIDE DEF y
  <2>4. y \in Int /\ Hs \in Nat /\ 19 \in Nat /\ xres \in Nat /\ TextW(Hs, 19) <= xres
    BY <1>1, <1>2, <1>8, <1>9, <2>1
  <2>5. /\ 0 <= Line(y, Hs, 19).x
        /\ Line(y, Hs, 19).x + Line(y, Hs, 19).w <= xres
        /\ Line(y, Hs, 19).y = y /\ Line(y, Hs, 19).h = 7 * Hs
    BY <2>4, LineCentred, ZenonT(40)
  <2> QED BY <2>1, <2>2, <2>3, <2>5 DEF OnScreen, Above
<1>13. /\ OnScreen(Nub(hint)) /\ Nub(hint).x = Body(hint).x + Body(hint).w
       /\ Above(Nub(hint), Percent(hint, digits))
  <2>1. Left + BodyW + Thick * 2 <= xres
    BY <1>1, <1>2 DEF Left
  <2>2. /\ BodyH \div 3 = 2 * u /\ Top(hint) + BodyH <= yres
        /\ Top(hint) + BodyH \div 3 + BodyH \div 3 <= Top(hint) + BodyH
    BY <1>1, <1>2, <1>3, <1>5
  <2>3. /\ Nub(hint).x = Left + BodyW /\ Nub(hint).w = Thick * 2
        /\ Nub(hint).y = Top(hint) + BodyH \div 3 /\ Nub(hint).h = BodyH \div 3
        /\ Body(hint).x = Left /\ Body(hint).w = BodyW
        /\ Percent(hint, digits).y = Top(hint) + BodyH + Gap
    BY DEF Nub, Body, Percent, Line, Rect
  <2>4. OnScreen(Nub(hint))
    BY <1>1, <1>2, <1>3, <2>1, <2>2, <2>3 DEF OnScreen
  <2>5. Above(Nub(hint), Percent(hint, digits))
    BY <1>1, <1>2, <1>3, <2>2, <2>3 DEF Above
  <2> QED BY <2>3, <2>4, <2>5
<1> QED BY <1>6, <1>7, <1>10, <1>11, <1>12, <1>13
================================================================================
