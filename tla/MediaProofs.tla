----------------------------- MODULE MediaProofs -----------------------------
(***************************************************************************)
(* The media of a call are adapted and shown as MediaState promises, for   *)
(* every number of tracks, of changes of the network, of lost connections  *)
(* and of acts.  The two parts share no state; each has an inductive       *)
(* invariant of its own.                                                   *)
(*                                                                         *)
(* Adaptation (AdaptInv): what the loop counts is at most what there was   *)
(* on this connection since it began; at most one of the calls of          *)
(* applyProfile that wait is the loop's, and the last of them has the      *)
(* profile that mode, level and limit resolve to now, which is why nothing *)
(* is stale once the queue is empty.                                       *)
(*                                                                         *)
(* Remote media (RemoteInv): tracks arrive in their order, and of the      *)
(* screens of the participant at most one is current, the last; as long as *)
(* it lives the entry remembers it, also while the other shares; what is   *)
(* bound to an element arrived and did not end; a participant who is not   *)
(* there has no current track and is silent.                               *)
(***************************************************************************)
EXTENDS MediaState, TLAPS

(***************************************************************************)
(* Adaptation: the policies.                                               *)
(***************************************************************************)

Calls == [value : 0 .. 2, tick : BOOLEAN]
Loops == [level : 0 .. 2, poor : 0 .. 2, good : 0 .. 5, critical : 0 .. 3, recovery : 0 .. 5,
          suspended : BOOLEAN, automatic : BOOLEAN,
          layer : 1 .. 3, layerPoor : 0 .. 2, layerGood : 0 .. 5]

\* A counter of samples in a row stops at its threshold.
LEMMA CountIsBounded ==
  ASSUME NEW m \in Nat, NEW n \in 0 .. m, NEW again \in BOOLEAN
  PROVE  Count(n, again, m) \in 0 .. m
BY DEF Count, Upto

\* Of two counters of the same samples the lower one stays the lower.
LEMMA CountIsMonotone ==
  ASSUME NEW m \in Nat, NEW n \in 0 .. m, NEW k \in 0 .. m, n <= k, NEW again \in BOOLEAN
  PROVE  Count(n, again, m) <= Count(k, again, m)
BY DEF Count, Upto

\* resolveVideoProfile gives one of the profiles.
LEMMA ResolveIsAProfile ==
  ASSUME NEW m \in Modes, NEW level \in 0 .. 2, NEW most \in {0, 2}
  PROVE  Resolve(m, level, most) \in 0 .. 2
BY DEF Resolve, Upto, Modes, Automatic

MeasureKeeps(s, t, class) ==
  /\ t \in Loops /\ t.level = s.level
  /\ t.suspended = s.suspended /\ t.automatic = s.automatic
  /\ t.critical = Count(s.critical, class = "critical", 3)
  /\ t.recovery = Count(s.recovery, class = "good", 5)

\* What Measure counts, and what it leaves alone.
LEMMA MeasureIsTyped ==
  ASSUME NEW s \in Loops, NEW class \in Classes
  PROVE  MeasureKeeps(s, Measure(s, class), class)
<1> DEFINE c == Count(s.critical, class = "critical", 3)
           r == Count(s.recovery, class = "good", 5)
           p == IF mode = Automatic THEN Count(s.poor, class \in Impaired, 2) ELSE s.poor
           g == IF mode = Automatic THEN Count(s.good, class = "good", 5) ELSE s.good
<1>1. c \in 0 .. 3 BY CountIsBounded DEF Loops
<1>2. r \in 0 .. 5 BY CountIsBounded DEF Loops
<1>3. p \in 0 .. 2
  <2>1. s.poor \in 0 .. 2 BY DEF Loops
  <2>2. (class \in Impaired) \in BOOLEAN OBVIOUS
  <2>3. Count(s.poor, class \in Impaired, 2) \in 0 .. 2 BY <2>1, <2>2, CountIsBounded
  <2> QED BY <2>1, <2>3
<1>4. g \in 0 .. 5
  <2>1. s.good \in 0 .. 5 BY DEF Loops
  <2>2. Count(s.good, class = "good", 5) \in 0 .. 5 BY <2>1, CountIsBounded
  <2> QED BY <2>1, <2>2
<1>5. Measure(s, class) = [s EXCEPT !.critical = c, !.recovery = r, !.poor = p, !.good = g]
  BY Zenon DEF Measure
<1> HIDE DEF c, r, p, g
<1>6. MeasureKeeps(s, [s EXCEPT !.critical = c, !.recovery = r, !.poor = p, !.good = g], class)
      = MeasureKeeps(s, Measure(s, class), class)
  BY <1>5
<1>7. /\ [s EXCEPT !.critical = c, !.recovery = r, !.poor = p, !.good = g] \in Loops
      /\ Measure(s, class) \in Loops
  BY <1>1, <1>2, <1>3, <1>4, <1>5 DEF Loops
<1>8. Measure(s, class).critical = c /\ Measure(s, class).recovery = r
      /\ Measure(s, class).level = s.level
      /\ Measure(s, class).suspended = s.suspended /\ Measure(s, class).automatic = s.automatic
  BY <1>5 DEF Loops
<1> QED BY <1>7, <1>8 DEF MeasureKeeps, c, r

ChoiceKeeps(s, t) ==
  /\ t \in Loops /\ t.suspended = s.suspended /\ t.automatic = s.automatic
  /\ t.critical = s.critical /\ t.recovery = s.recovery
  /\ s.level <= AutoTop => t.level <= AutoTop

\* The record of the loop with another level.
LEMMA LevelUpdates ==
  ASSUME NEW s \in Loops, NEW x \in 0 .. 2
  PROVE  /\ [s EXCEPT !.level = x, !.poor = 0] \in Loops
         /\ [s EXCEPT !.level = x, !.good = 0] \in Loops
<1>1. 0 \in 0 .. 2 /\ 0 \in 0 .. 5
  OBVIOUS
<1> QED BY <1>1 DEF Loops

\* chooseAdaptationLevel stays below the automatic top.
LEMMA LevelIsTyped ==
  ASSUME NEW s \in Loops
  PROVE  ChoiceKeeps(s, ChooseLevel(s))
<1>1. CASE s.poor >= 2 /\ s.level > 0
  <2>1. ChooseLevel(s) = [s EXCEPT !.level = @ - 1, !.poor = 0]
    BY <1>1 DEF ChooseLevel
  <2>2. s.level - 1 \in 0 .. 2
    BY <1>1 DEF Loops
  <2>3. ChooseLevel(s) \in Loops
    BY <2>1, <2>2, LevelUpdates
  <2>4. /\ ChooseLevel(s).level = s.level - 1
        /\ ChooseLevel(s).suspended = s.suspended /\ ChooseLevel(s).automatic = s.automatic
        /\ ChooseLevel(s).critical = s.critical /\ ChooseLevel(s).recovery = s.recovery
    BY <2>1 DEF Loops
  <2>5. s.level \in 0 .. 2
    BY DEF Loops
  <2> QED BY <2>3, <2>4, <2>5 DEF ChoiceKeeps, AutoTop
<1>2. CASE s.good >= 5 /\ s.level < AutoTop /\ ~(s.poor >= 2 /\ s.level > 0)
  <2>1. ChooseLevel(s) = [s EXCEPT !.level = @ + 1, !.good = 0]
    BY <1>2 DEF ChooseLevel
  <2>2. s.level + 1 \in 0 .. 2 /\ s.level + 1 <= AutoTop
    BY <1>2 DEF Loops, AutoTop
  <2>3. ChooseLevel(s) \in Loops
    BY <2>1, <2>2, LevelUpdates
  <2>4. /\ ChooseLevel(s).level = s.level + 1
        /\ ChooseLevel(s).suspended = s.suspended /\ ChooseLevel(s).automatic = s.automatic
        /\ ChooseLevel(s).critical = s.critical /\ ChooseLevel(s).recovery = s.recovery
    BY <2>1 DEF Loops
  <2> QED BY <2>2, <2>3, <2>4 DEF ChoiceKeeps
<1>3. CASE ~(s.poor >= 2 /\ s.level > 0)
           /\ ~(s.good >= 5 /\ s.level < AutoTop /\ ~(s.poor >= 2 /\ s.level > 0))
  <2>1. ChooseLevel(s) = s
    BY <1>3 DEF ChooseLevel
  <2> QED BY <2>1 DEF ChoiceKeeps
<1> QED BY <1>1, <1>2, <1>3

LayerKeeps(s, t) ==
  /\ t \in Loops /\ t.suspended = s.suspended /\ t.automatic = s.automatic
  /\ t.critical = s.critical /\ t.recovery = s.recovery /\ t.level = s.level

\* The record of the loop with another layer.
LEMMA LayerUpdates ==
  ASSUME NEW s \in Loops, NEW x \in 1 .. 3, NEW y \in 0 .. 2, NEW z \in 0 .. 5
  PROVE  [s EXCEPT !.layer = x, !.layerPoor = y, !.layerGood = z] \in Loops
BY DEF Loops

\* chooseCameraLayer changes the layer and its counters only.
LEMMA LayerIsTyped ==
  ASSUME NEW s \in Loops, NEW class \in Classes
  PROVE  LayerKeeps(s, ChooseLayer(s, class))
<1> DEFINE poor == Count(s.layerPoor, class \in Impaired, 2)
           good == Count(s.layerGood, class = "good", 5)
           l == IF poor = 2 /\ s.layer > 1 THEN s.layer - 1
                ELSE IF good = 5 /\ s.layer < 3 THEN s.layer + 1 ELSE s.layer
           lp == IF poor = 2 THEN 0 ELSE poor
           lg == IF good = 5 THEN 0 ELSE good
<1>1. poor \in 0 .. 2
  <2>1. s.layerPoor \in 0 .. 2 BY DEF Loops
  <2>2. (class \in Impaired) \in BOOLEAN OBVIOUS
  <2> QED BY <2>1, <2>2, CountIsBounded
<1>2. good \in 0 .. 5
  <2>1. s.layerGood \in 0 .. 5 BY DEF Loops
  <2> QED BY <2>1, CountIsBounded
<1>3. ChooseLayer(s, class) = [s EXCEPT !.layer = l, !.layerPoor = lp, !.layerGood = lg]
  BY Zenon DEF ChooseLayer
<1> HIDE DEF poor, good
<1>4. l \in 1 .. 3 BY DEF Loops
<1>5. lp \in 0 .. 2 /\ lg \in 0 .. 5 BY <1>1, <1>2
<1> HIDE DEF l, lp, lg
<1>6. [s EXCEPT !.layer = l, !.layerPoor = lp, !.layerGood = lg] \in Loops
  BY <1>4, <1>5, LayerUpdates
<1>7. LET t == [s EXCEPT !.layer = l, !.layerPoor = lp, !.layerGood = lg]
      IN  /\ t.suspended = s.suspended /\ t.automatic = s.automatic
          /\ t.critical = s.critical /\ t.recovery = s.recovery /\ t.level = s.level
  BY DEF Loops
<1> QED BY <1>3, <1>6, <1>7, Zenon DEF LayerKeeps

\* What the end of the loop leaves alone, and when it pauses and resumes.
ReactKeeps(s, t) ==
  /\ t \in Loops /\ t.level = s.level
  /\ t.critical <= s.critical /\ t.recovery <= s.recovery
  /\ (s.automatic => s.suspended) => (t.automatic => t.suspended)
  /\ t.suspended /\ ~s.suspended => s.critical = 3 /\ (mode # Automatic \/ s.level = 0)
  /\ s.suspended /\ ~t.suspended => s.recovery = 5

Paused(t, b) == [t EXCEPT !.critical = 0, !.recovery = 0, !.suspended = TRUE, !.automatic = b]
Resumed(t) == [t EXCEPT !.recovery = 0, !.suspended = FALSE, !.automatic = FALSE]

\* The record of the loop when it pauses the video.
LEMMA PausedIsTyped ==
  ASSUME NEW t \in Loops, NEW b \in BOOLEAN
  PROVE  /\ Paused(t, b) \in Loops /\ Paused(t, b).suspended /\ Paused(t, b).level = t.level
         /\ Paused(t, b).critical = 0 /\ Paused(t, b).recovery = 0
<1>1. TRUE \in BOOLEAN /\ 0 \in 0 .. 3 /\ 0 \in 0 .. 5
  OBVIOUS
<1>2. Paused(t, b) \in Loops
  BY <1>1 DEF Loops, Paused
<1>3. Paused(t, b).suspended /\ Paused(t, b).level = t.level
  BY DEF Loops, Paused
<1>4. Paused(t, b).critical = 0 /\ Paused(t, b).recovery = 0
  BY DEF Loops, Paused
<1> QED BY <1>2, <1>3, <1>4

\* The record of the loop when it resumes the video.
LEMMA ResumedIsTyped ==
  ASSUME NEW t \in Loops
  PROVE  /\ Resumed(t) \in Loops /\ ~Resumed(t).suspended /\ ~Resumed(t).automatic
         /\ Resumed(t).level = t.level /\ Resumed(t).critical = t.critical
         /\ Resumed(t).recovery = 0
<1>1. FALSE \in BOOLEAN /\ 0 \in 0 .. 5
  OBVIOUS
<1>2. Resumed(t) \in Loops
  BY <1>1 DEF Loops, Resumed
<1>3. ~Resumed(t).suspended /\ ~Resumed(t).automatic
  BY DEF Loops, Resumed
<1>4. Resumed(t).level = t.level /\ Resumed(t).critical = t.critical /\ Resumed(t).recovery = 0
  BY DEF Loops, Resumed
<1> QED BY <1>2, <1>3, <1>4

\* The end of the loop keeps the level, and pauses and resumes at the thresholds.
LEMMA ReactIsTyped ==
  ASSUME NEW s \in Loops, NEW class \in Classes, React(s, class)
  PROVE  ReactKeeps(s, a') /\ tick' = Idle
<1> DEFINE layered == IF Simulcast THEN ChooseLayer(s, class) ELSE s
           pause == s.critical >= 3 /\ (mode # Automatic \/ s.level = 0)
           resume == ~pause /\ class = "good" /\ s.suspended /\ s.recovery >= 5
<1>1. LayerKeeps(s, layered)
  BY LayerIsTyped DEF LayerKeeps
<1>2. /\ tick' = Idle
      /\ a' = IF pause THEN [layered EXCEPT !.critical = 0, !.recovery = 0,
                                            !.suspended = TRUE,
                                            !.automatic = @ \/ ~s.suspended]
              ELSE IF resume THEN [layered EXCEPT !.recovery = 0, !.suspended = FALSE,
                                                  !.automatic = FALSE]
              ELSE layered
  BY Zenon DEF React
<1> DEFINE b == layered.automatic \/ ~s.suspended
<1>6. b \in BOOLEAN
  OBVIOUS
<1>7. s.critical \in 0 .. 3 /\ s.recovery \in 0 .. 5
  BY DEF Loops
<1> HIDE DEF layered
<1>3. CASE pause
  <2>1. a' = Paused(layered, b)
    BY <1>2, <1>3 DEF Paused
  <2>2. layered \in Loops /\ layered.level = s.level
    BY <1>1 DEF LayerKeeps
  <2> HIDE DEF b
  <2>3. /\ a' \in Loops /\ a'.suspended /\ a'.level = s.level
        /\ a'.critical = 0 /\ a'.recovery = 0
    BY <1>6, <2>1, <2>2, PausedIsTyped
  <2> QED BY <1>2, <1>3, <1>7, <2>3 DEF ReactKeeps
<1>4. CASE resume
  <2>1. a' = Resumed(layered)
    BY <1>2, <1>4 DEF Resumed
  <2>2. layered \in Loops /\ layered.level = s.level /\ layered.critical = s.critical
    BY <1>1 DEF LayerKeeps
  <2>3. /\ a' \in Loops /\ ~a'.suspended /\ ~a'.automatic /\ a'.level = s.level
        /\ a'.critical = s.critical /\ a'.recovery = 0
    BY <2>1, <2>2, ResumedIsTyped
  <2> QED BY <1>2, <1>4, <1>7, <2>3 DEF ReactKeeps
<1>5. CASE ~pause /\ ~resume
  <2>1. a' = layered
    BY <1>2, <1>5
  <2> QED BY <1>1, <1>2, <1>7, <2>1 DEF ReactKeeps, LayerKeeps
<1> QED BY <1>3, <1>4, <1>5

Labels == {"Connecting", "Connected", "Reconnecting", "Fair", "Poor", "Offline"}

\* The chip becomes "Connected" only on a connection whose media are.
LEMMA ChipIsTrue ==
  ASSUME label \in Labels, NEW class \in Classes, MeasuredChip(class)
  PROVE  /\ label' \in Labels
         /\ label' = "Connected" => label = "Connected" \/ media = "connected"
<1>1. CASE class = "good" /\ media # "connected"
  BY <1>1 DEF MeasuredChip
<1>2. CASE ~(class = "good" /\ media # "connected")
  <2>1. ChipOfAnyPeer(class)
    BY <1>2 DEF MeasuredChip
  <2>2. label' = label \/ (class # "none" /\ label' = MeasuredText(class))
    BY <2>1, Zenon DEF ChipOfAnyPeer, Chip
  <2>3. class # "none" /\ label' = MeasuredText(class) /\ label' = "Connected" => class = "good"
    BY DEF MeasuredText, Classes
  <2>4. class # "none" => MeasuredText(class) \in Labels
    BY DEF MeasuredText, Classes, Labels
  <2> QED BY <1>2, <2>2, <2>3, <2>4
<1> QED BY <1>1, <1>2

\* A call is queued last.
LEMMA AppendedCalls ==
  ASSUME NEW q \in Seq(Calls), NEW c \in Calls
  PROVE  /\ Append(q, c) \in Seq(Calls) /\ Append(q, c) # <<>>
         /\ Len(Append(q, c)) = Len(q) + 1 /\ Append(q, c)[Len(q) + 1] = c
         /\ \A i \in 1 .. Len(q) : Append(q, c)[i] = q[i]
OBVIOUS

\* The first call gets through; the others move up.
LEMMA CallsLeft ==
  ASSUME NEW q \in Seq(Calls), q # <<>>
  PROVE  /\ Tail(q) \in Seq(Calls) /\ Len(Tail(q)) = Len(q) - 1 /\ Len(q) \in Nat \ {0}
         /\ Head(q) = q[1] /\ Head(q) \in Calls
         /\ \A i \in 1 .. Len(q) - 1 : Tail(q)[i] = q[i + 1]
OBVIOUS

(***************************************************************************)
(* Adaptation: the invariant.                                              *)
(***************************************************************************)
\* Of the calls that wait at most one is the loop's, which then waits for it.
OneIsTheLoops(q) ==
  /\ \A i \in DOMAIN q : q[i].tick => tick.pc = "applying" /\ tick.conn = conn
  /\ \A i, j \in DOMAIN q : q[i].tick /\ q[j].tick => i = j

AdaptTyped ==
  /\ conn \in 0 .. MaxDrops + 1 /\ media \in {"new", "connected", "lost"}
  /\ socket \in BOOLEAN /\ visible \in BOOLEAN /\ stale \in BOOLEAN /\ network \in Classes
  /\ tick \in [pc : {"idle", "stats", "applying"}, conn : 0 .. MaxDrops + 1, class : Classes]
  /\ a \in Loops /\ mode \in Modes /\ limit \in {0, 2}
  /\ camera \in [pc : {"off", "opening", "on"}, value : 0 .. 2, mode : Modes \union {0}]
  /\ queue \in Seq(Calls) /\ sent \in 0 .. 2
  /\ label \in Labels
  /\ history \in {"none", "on", "stopped"} /\ noted \in {"new", "connected", "lost"}
  /\ drops \in 0 .. MaxDrops /\ acts \in Nat /\ seen \in 0 .. 3 /\ calm \in 0 .. 5

\* What the loop counted it counted on this very connection.
Counted == a.critical <= seen /\ a.recovery <= calm

\* Without a connection nothing is sent and nothing waits; the loop waits for
\* a connection that there is or was.
NothingWithoutConn ==
  /\ conn = 0 => media = "new" /\ camera = Off /\ queue = <<>>
  /\ tick.pc # "idle" => tick.conn # 0

Level(s) ==
  /\ s.automatic => s.suspended
  /\ mode = Automatic => s.level <= AutoTop

\* The call that is queued last has the profile of the choices as they are now.
LastIsResolved == queue # <<>> => queue[Len(queue)].value = Resolve(mode, a.level, limit)

AdaptRest ==
  /\ Counted /\ NothingWithoutConn /\ OneIsTheLoops(queue) /\ Level(a) /\ LastIsResolved
  /\ LimitsObeyed /\ LabelIsTrue /\ RecordIsCurrent

AdaptInv == AdaptTyped /\ AdaptRest

\* The page begins in the invariant.
LEMMA AdaptBegins ==
  Init => AdaptInv
<1> SUFFICES ASSUME Init PROVE AdaptInv
  OBVIOUS
<1> USE DEF Init
<1>1. AdaptTyped
  <2>1. a \in Loops
    BY DEF Fresh, Loops, AutoTop
  <2>0. MaxDrops \in Nat
    BY AdaptationAssumptions
  <2>2. conn \in 0 .. MaxDrops + 1 /\ drops \in 0 .. MaxDrops
    BY <2>0
  <2>3. tick \in [pc : {"idle", "stats", "applying"}, conn : 0 .. MaxDrops + 1, class : Classes]
    BY <2>2 DEF Idle, Classes
  <2>4. camera \in [pc : {"off", "opening", "on"}, value : 0 .. 2, mode : Modes \union {0}]
    BY DEF Off
  <2>5. mode \in Modes /\ network \in Classes /\ label \in Labels /\ queue \in Seq(Calls)
    BY DEF Modes, Classes, Labels
  <2>6. /\ media \in {"new", "connected", "lost"} /\ limit \in {0, 2} /\ sent \in 0 .. 2
        /\ history \in {"none", "on", "stopped"} /\ noted \in {"new", "connected", "lost"}
        /\ acts \in Nat /\ seen \in 0 .. 3 /\ calm \in 0 .. 5
    OBVIOUS
  <2>7. socket \in BOOLEAN /\ visible \in BOOLEAN /\ stale \in BOOLEAN
    OBVIOUS
  <2> QED BY <2>1, <2>2, <2>3, <2>4, <2>5, <2>6, <2>7, Zenon DEF AdaptTyped
<1>2. AdaptRest
  BY DEF AdaptRest, Counted, NothingWithoutConn, OneIsTheLoops, Level, LastIsResolved, LimitsObeyed,
         LabelIsTrue, RecordIsCurrent, Fresh, Idle, Off, AutoTop
<1> QED BY <1>1, <1>2 DEF AdaptInv

(***************************************************************************)
(* Adaptation: the steps.                                                  *)
(***************************************************************************)
\* The steps that touch little, one by one.
LEMMA NetworkKeeps ==
  ASSUME AdaptInv, NEW class \in Classes, NetworkChanges(class)
  PROVE  AdaptInv'
<1>1. MaxDrops \in Nat
  BY AdaptationAssumptions
<1> QED
  BY <1>1
  DEF AdaptInv, AdaptTyped, AdaptRest, Counted, NothingWithoutConn, OneIsTheLoops, Level,
      LastIsResolved, LimitsObeyed, LabelIsTrue, RecordIsCurrent,
       page, bounds, record, NetworkChanges

LEMMA TabKeeps ==
  ASSUME AdaptInv, TabMoves
  PROVE  AdaptInv'
<1>1. MaxDrops \in Nat
  BY AdaptationAssumptions
<1> QED
  BY <1>1
  DEF AdaptInv, AdaptTyped, AdaptRest, Counted, NothingWithoutConn, OneIsTheLoops, Level,
      LastIsResolved, LimitsObeyed, LabelIsTrue, RecordIsCurrent,
       page, bounds, record, TabMoves, Act

LEMMA RecordKeeps ==
  ASSUME AdaptInv, Record
  PROVE  AdaptInv'
<1>1. MaxDrops \in Nat
  BY AdaptationAssumptions
<1> QED
  BY <1>1
  DEF AdaptInv, AdaptTyped, AdaptRest, Counted, NothingWithoutConn, OneIsTheLoops, Level,
      LastIsResolved, LimitsObeyed, LabelIsTrue, RecordIsCurrent,
       page, bounds, record, Record, Act

LEMMA ConnectsKeeps ==
  ASSUME AdaptInv, MediaConnects
  PROVE  AdaptInv'
<1>1. MaxDrops \in Nat
  BY AdaptationAssumptions
<1> QED
  BY <1>1
  DEF AdaptInv, AdaptTyped, AdaptRest, Counted, NothingWithoutConn, OneIsTheLoops, Level,
      LastIsResolved, LimitsObeyed, LabelIsTrue, RecordIsCurrent,
       page, bounds, record, MediaConnects, MediaState, Chip, Note, Labels

LEMMA LostKeeps ==
  ASSUME AdaptInv, MediaLost
  PROVE  AdaptInv'
<1>1. MaxDrops \in Nat
  BY AdaptationAssumptions
<1> QED
  BY <1>1
  DEF AdaptInv, AdaptTyped, AdaptRest, Counted, NothingWithoutConn, OneIsTheLoops, Level,
      LastIsResolved, LimitsObeyed, LabelIsTrue, RecordIsCurrent,
       page, bounds, record, MediaLost, MediaState, Chip, Note, Labels

LEMMA StartKeeps ==
  ASSUME AdaptInv, Start
  PROVE  AdaptInv'
<1>1. MaxDrops \in Nat
  BY AdaptationAssumptions
<1> QED
  BY <1>1
  DEF AdaptInv, AdaptTyped, AdaptRest, Counted, NothingWithoutConn, OneIsTheLoops, Level,
      LastIsResolved, LimitsObeyed, LabelIsTrue, RecordIsCurrent,
       page, bounds, record, Start, Chip, Labels

LEMMA TickKeeps ==
  ASSUME AdaptInv, TickStarts
  PROVE  AdaptInv'
<1>1. MaxDrops \in Nat
  BY AdaptationAssumptions
<1> QED
  BY <1>1
  DEF AdaptInv, AdaptTyped, AdaptRest, Counted, NothingWithoutConn, OneIsTheLoops, Level,
      LastIsResolved, LimitsObeyed, LabelIsTrue, RecordIsCurrent,
       page, bounds, record, TickStarts, Idle, Classes

LEMMA SocketKeeps ==
  ASSUME AdaptInv, SocketCloses
  PROVE  AdaptInv'
<1>1. MaxDrops \in Nat
  BY AdaptationAssumptions
<1>4. label' = "Reconnecting" /\ label' \in Labels
  BY DEF SocketCloses, Chip, Labels
<1>5. drops' \in 0 .. MaxDrops
  BY <1>1 DEF SocketCloses, AdaptInv, AdaptTyped
<1>6. socket' = FALSE /\ socket' \in BOOLEAN
  BY Zenon DEF SocketCloses
<1>2. AdaptTyped'
  BY <1>1, <1>4, <1>5, <1>6
  DEF AdaptInv, AdaptTyped, page, bounds, record, SocketCloses, Chip
<1>3. AdaptRest'
  BY <1>1, <1>4, <1>5, <1>6
  DEF AdaptInv, AdaptTyped, AdaptRest, Counted, NothingWithoutConn, OneIsTheLoops, Level,
      LastIsResolved, LimitsObeyed, LabelIsTrue, RecordIsCurrent,
       page, bounds, record, SocketCloses, Chip
<1> QED BY <1>2, <1>3 DEF AdaptInv

\* The camera opens with the profile that is resolved then.
LEMMA OpensKeeps ==
  ASSUME AdaptInv, CameraOpens
  PROVE  AdaptInv'
<1>1. MaxDrops \in Nat
  BY AdaptationAssumptions
<1>4. Resolve(mode, a.level, limit) \in 0 .. 2
  BY ResolveIsAProfile DEF AdaptInv, AdaptTyped, Loops
<1>5. camera' \in [pc : {"off", "opening", "on"}, value : 0 .. 2, mode : Modes \union {0}]
  BY <1>4 DEF CameraOpens, AdaptInv, AdaptTyped
<1>6. camera'.pc = "opening"
  BY DEF CameraOpens
<1>2. AdaptTyped'
  BY <1>1, <1>5, <1>6
  DEF AdaptInv, AdaptTyped, page, bounds, record, CameraOpens, Off
<1>3. AdaptRest'
  BY <1>1, <1>5, <1>6
  DEF AdaptInv, AdaptTyped, AdaptRest, Counted, NothingWithoutConn, OneIsTheLoops, Level,
      LastIsResolved, LimitsObeyed, LabelIsTrue, RecordIsCurrent,
       page, bounds, record, CameraOpens, Off
<1> QED BY <1>2, <1>3 DEF AdaptInv

\* Without a camera nothing is sent.
LEMMA ClosesKeeps ==
  ASSUME AdaptInv, CameraCloses
  PROVE  AdaptInv'
<1>1. MaxDrops \in Nat
  BY AdaptationAssumptions
<1>4. camera' = Off
  BY DEF CameraCloses
<1>5. camera' \in [pc : {"off", "opening", "on"}, value : 0 .. 2, mode : Modes \union {0}]
  BY <1>4 DEF Off
<1>6. camera'.pc = "off"
  BY <1>4 DEF Off
<1>7. acts' \in Nat
  BY DEF CameraCloses, Act, AdaptInv, AdaptTyped
<1>8. stale' \in BOOLEAN
  BY Zenon DEF CameraCloses
<1>2. AdaptTyped'
  BY <1>1, <1>4, <1>5, <1>6, <1>7, <1>8
  DEF AdaptInv, AdaptTyped, page, bounds, record, CameraCloses, Act
<1>3. AdaptRest'
  BY <1>1, <1>4, <1>5, <1>6, <1>7, <1>8
  DEF AdaptInv, AdaptTyped, AdaptRest, Counted, NothingWithoutConn, OneIsTheLoops, Level,
      LastIsResolved, LimitsObeyed, LabelIsTrue, RecordIsCurrent,
       page, bounds, record, CameraCloses, Act
<1> QED BY <1>2, <1>3 DEF AdaptInv

\* The reset forgets the counters, and every call that waits.
LEMMA ResetKeeps ==
  ASSUME AdaptInv, Reset
  PROVE  AdaptInv'
<1>1. MaxDrops \in Nat
  BY AdaptationAssumptions
<1>4. camera' = Off
  BY DEF Reset
<1>5. camera' \in [pc : {"off", "opening", "on"}, value : 0 .. 2, mode : Modes \union {0}]
  BY <1>4 DEF Off
<1>6. camera'.pc = "off"
  BY <1>4 DEF Off
<1>7. a \in Loops
  BY DEF AdaptInv, AdaptTyped
<1>8. a' \in Loops
  <2>1. 0 \in 0 .. 2 /\ 0 \in 0 .. 3 /\ 0 \in 0 .. 5
    OBVIOUS
  <2> QED BY <1>7, <2>1 DEF Reset, Loops
<1>9. /\ a'.critical = 0 /\ a'.recovery = 0 /\ a'.level = a.level
      /\ a'.suspended = a.suspended /\ a'.automatic = a.automatic
  BY <1>7 DEF Reset, Loops
<1>10. queue' = <<>> /\ queue' \in Seq(Calls)
  BY DEF Reset
<1>11. stale' \in BOOLEAN
  BY Zenon DEF Reset
<1>12. conn' \in 0 .. MaxDrops + 1
  BY <1>1 DEF Reset
<1>2. AdaptTyped'
  BY <1>1, <1>4, <1>5, <1>6, <1>8, <1>9, <1>10, <1>11, <1>12
  DEF AdaptInv, AdaptTyped, page, bounds, record, Reset
<1>3. AdaptRest'
  BY <1>1, <1>4, <1>5, <1>6, <1>8, <1>9, <1>10, <1>11, <1>12
  DEF AdaptInv, AdaptTyped, AdaptRest, Counted, NothingWithoutConn, OneIsTheLoops, Level,
      LastIsResolved, LimitsObeyed, LabelIsTrue, RecordIsCurrent,
       page, bounds, record, Reset
<1> QED BY <1>2, <1>3 DEF AdaptInv

\* setVideoSending(true) by the user.
LEMMA ResumesKeeps ==
  ASSUME AdaptInv, UserResumes
  PROVE  AdaptInv'
<1>1. MaxDrops \in Nat
  BY AdaptationAssumptions
<1>7. a \in Loops
  BY DEF AdaptInv, AdaptTyped
<1>8. a' \in Loops
  <2>1. FALSE \in BOOLEAN
    OBVIOUS
  <2> QED BY <1>7, <2>1 DEF UserResumes, Loops
<1>9. /\ a'.critical = a.critical /\ a'.recovery = a.recovery /\ a'.level = a.level
      /\ ~a'.suspended /\ ~a'.automatic
  BY <1>7 DEF UserResumes, Loops
<1>2. AdaptTyped'
  BY <1>1, <1>8, <1>9
  DEF AdaptInv, AdaptTyped, page, bounds, record, UserResumes, Act
<1>3. AdaptRest'
  BY <1>1, <1>8, <1>9
  DEF AdaptInv, AdaptTyped, AdaptRest, Counted, NothingWithoutConn, OneIsTheLoops, Level,
      LastIsResolved, LimitsObeyed, LabelIsTrue, RecordIsCurrent,
       page, bounds, record, UserResumes, Act
<1> QED BY <1>2, <1>3 DEF AdaptInv

\* A call that is queued with the profile that is resolved now.
LEMMA QueuedIsResolved ==
  ASSUME AdaptInv, NEW m \in Modes, NEW level \in 0 .. 2, NEW most \in {0, 2},
         NEW t \in BOOLEAN, NEW c, c = [value |-> Resolve(m, level, most), tick |-> t]
  PROVE  /\ Append(queue, c) \in Seq(Calls) /\ Append(queue, c) # <<>>
         /\ Append(queue, c)[Len(Append(queue, c))].value = Resolve(m, level, most)
         /\ ~t => OneIsTheLoops(Append(queue, c))
<1>1. queue \in Seq(Calls) /\ OneIsTheLoops(queue)
  BY DEF AdaptInv, AdaptTyped, AdaptRest
<1>2. Resolve(m, level, most) \in 0 .. 2
  BY ResolveIsAProfile
<1> DEFINE v == Resolve(m, level, most)
           q == Append(queue, c)
<1> HIDE DEF v
<1>3. c \in Calls /\ c.value = v /\ c.tick = t
  BY <1>2 DEF Calls, v
<1>4. /\ q \in Seq(Calls) /\ q # <<>> /\ Len(q) = Len(queue) + 1 /\ q[Len(queue) + 1] = c
      /\ \A i \in 1 .. Len(queue) : q[i] = queue[i]
  BY <1>1, <1>3, AppendedCalls
<1>5. Len(queue) \in Nat /\ DOMAIN queue = 1 .. Len(queue) /\ DOMAIN q = 1 .. Len(queue) + 1
  BY <1>1, <1>4
<1> HIDE DEF q
<1>6. ASSUME ~t PROVE OneIsTheLoops(q)
  <2>1. \A i \in DOMAIN q : q[i].tick => i \in DOMAIN queue /\ queue[i].tick
    BY <1>3, <1>4, <1>5, <1>6
  <2> QED BY <1>1, <2>1 DEF OneIsTheLoops
<1> QED BY <1>3, <1>4, <1>6 DEF q, v

Reapplied(m, level, most) ==
  /\ queue' \in Seq(Calls) /\ OneIsTheLoops(queue')
  /\ conn = 0 => queue' = <<>>
  /\ conn # 0 => queue' # <<>> /\ queue'[Len(queue')].value = Resolve(m, level, most)

\* Reapply queues the profile last, if there is a connection.
LEMMA ReapplyQueues ==
  ASSUME AdaptInv, NEW m \in Modes, NEW level \in 0 .. 2, NEW most \in {0, 2},
         Reapply(Resolve(m, level, most))
  PROVE  Reapplied(m, level, most)
<1>1. queue \in Seq(Calls) /\ OneIsTheLoops(queue) /\ (conn = 0 => queue = <<>>)
  BY DEF AdaptInv, AdaptTyped, AdaptRest, NothingWithoutConn
<1> DEFINE c == [value |-> Resolve(m, level, most), tick |-> FALSE]
<1>2. queue' = IF conn = 0 THEN queue ELSE Append(queue, c)
  BY DEF Reapply
<1>3. /\ Append(queue, c) \in Seq(Calls) /\ Append(queue, c) # <<>>
      /\ Append(queue, c)[Len(Append(queue, c))].value = Resolve(m, level, most)
      /\ OneIsTheLoops(Append(queue, c))
  BY QueuedIsResolved
<1> HIDE DEF c
<1>4. CASE conn = 0
  <2>1. queue' = queue
    BY <1>2, <1>4
  <2> QED BY <1>1, <1>4, <2>1 DEF Reapplied
<1>5. CASE conn # 0
  <2>1. queue' = Append(queue, c)
    BY <1>2, <1>5
  <2> QED BY <1>3, <1>5, <2>1, Zenon DEF Reapplied
<1> QED BY <1>4, <1>5

\* The change handler of the profile queues what it resolves to.
LEMMA ProfileKeeps ==
  ASSUME AdaptInv, NEW m \in Modes, ChooseProfile(m)
  PROVE  AdaptInv'
<1>1. a \in Loops /\ a' = [a EXCEPT !.level = IF m = Automatic THEN Upto(@, AutoTop) ELSE m,
                                     !.poor = 0, !.good = 0]
  BY DEF AdaptInv, AdaptTyped, ChooseProfile
<1> DEFINE level == IF m = Automatic THEN Upto(a.level, AutoTop) ELSE m
<1>2. level \in 0 .. 2 /\ (m = Automatic => level <= AutoTop)
  BY <1>1 DEF Loops, Upto, AutoTop, Modes, Automatic
<1>3. a' = [a EXCEPT !.level = level, !.poor = 0, !.good = 0]
  BY <1>1
<1> HIDE DEF level
<1>4. a' \in Loops
  <2>1. 0 \in 0 .. 2 /\ 0 \in 0 .. 5
    OBVIOUS
  <2> QED BY <1>1, <1>2, <1>3, <2>1 DEF Loops
<1>5. /\ a'.level = level /\ a'.critical = a.critical /\ a'.recovery = a.recovery
      /\ a'.suspended = a.suspended /\ a'.automatic = a.automatic
  BY <1>1, <1>3 DEF Loops
<1>6. Reapplied(m, a'.level, limit)
  <2>1. limit \in {0, 2} /\ a'.level \in 0 .. 2
    BY <1>2, <1>5 DEF AdaptInv, AdaptTyped
  <2>2. Reapply(Resolve(m, a'.level, limit))
    BY DEF ChooseProfile
  <2> QED BY <2>1, <2>2, ReapplyQueues
<1>7. mode' = m /\ limit' = limit /\ conn' = conn /\ tick' = tick /\ media' = media
  BY DEF ChooseProfile, page
<1>8. acts' \in Nat
  BY DEF ChooseProfile, Act, AdaptInv, AdaptTyped
<1>9. queue' \in Seq(Calls) /\ (conn = 0 => queue' = <<>>) /\ OneIsTheLoops(queue)'
  BY <1>6, <1>7 DEF Reapplied, OneIsTheLoops
<1>10. conn # 0 => queue' # <<>> /\ queue'[Len(queue')].value = Resolve(mode', a'.level, limit')
  BY <1>6, <1>7 DEF Reapplied
<1>11. AdaptTyped'
  BY <1>4, <1>7, <1>8, <1>9 DEF AdaptTyped, AdaptInv, ChooseProfile, Act, page, record
<1>12. LastIsResolved'
  BY <1>9, <1>10 DEF LastIsResolved
<1>13. LimitsObeyed'
  BY <1>10 DEF LimitsObeyed, AdaptInv, AdaptRest, NothingWithoutConn, Off, ChooseProfile
<1>14. Counted' /\ NothingWithoutConn'
  BY <1>5, <1>7, <1>9 DEF AdaptInv, AdaptRest, Counted, NothingWithoutConn, ChooseProfile
<1>15. Level(a)'
  BY <1>2, <1>5, <1>7 DEF AdaptInv, AdaptRest, Level
<1>16. LabelIsTrue' /\ RecordIsCurrent'
  BY DEF AdaptInv, AdaptRest, LabelIsTrue, RecordIsCurrent, ChooseProfile, page, record
<1> QED BY <1>9, <1>11, <1>12, <1>13, <1>14, <1>15, <1>16 DEF AdaptInv, AdaptRest

\* So does a limit of the operator.
LEMMA LimitKeeps ==
  ASSUME AdaptInv, NEW most \in {0, 2}, LimitChanges(most)
  PROVE  AdaptInv'
<1>1. Reapplied(mode, a.level, most)
  <2>1. mode \in Modes /\ a.level \in 0 .. 2
    BY DEF AdaptInv, AdaptTyped, Loops
  <2>2. Reapply(Resolve(mode, a.level, most))
    BY DEF LimitChanges
  <2> QED BY <2>1, <2>2, ReapplyQueues
<1>2. mode' = mode /\ a' = a /\ limit' = most /\ conn' = conn /\ tick' = tick
  BY DEF LimitChanges, page
<1>3. acts' \in Nat
  BY DEF LimitChanges, Act, AdaptInv, AdaptTyped
<1>4. queue' \in Seq(Calls) /\ (conn = 0 => queue' = <<>>) /\ OneIsTheLoops(queue)'
  BY <1>1, <1>2 DEF Reapplied, OneIsTheLoops
<1>5. conn # 0 => queue' # <<>> /\ queue'[Len(queue')].value = Resolve(mode', a'.level, limit')
  BY <1>1, <1>2 DEF Reapplied
<1>6. AdaptTyped'
  BY <1>2, <1>3, <1>4 DEF AdaptTyped, AdaptInv, LimitChanges, Act, page, record
<1>7. LastIsResolved'
  BY <1>4, <1>5 DEF LastIsResolved
<1>8. LimitsObeyed'
  BY <1>5 DEF LimitsObeyed, AdaptInv, AdaptRest, NothingWithoutConn, Off, LimitChanges
<1>9. Counted' /\ NothingWithoutConn' /\ Level(a)'
  BY <1>2, <1>4 DEF AdaptInv, AdaptRest, Counted, NothingWithoutConn, Level, LimitChanges, page
<1>10. LabelIsTrue' /\ RecordIsCurrent'
  BY DEF AdaptInv, AdaptRest, LabelIsTrue, RecordIsCurrent, LimitChanges, page, record
<1> QED BY <1>4, <1>6, <1>7, <1>8, <1>9, <1>10 DEF AdaptInv, AdaptRest

\* The camera that opened has the profile, or it is queued, or stale.
LEMMA OpenedKeeps ==
  ASSUME AdaptInv, CameraOpened
  PROVE  AdaptInv'
<1>1. /\ camera \in [pc : {"off", "opening", "on"}, value : 0 .. 2, mode : Modes \union {0}]
      /\ camera' = [camera EXCEPT !.pc = "on"]
  BY DEF AdaptInv, AdaptTyped, CameraOpened
<1>2. camera' \in [pc : {"off", "opening", "on"}, value : 0 .. 2, mode : Modes \union {0}]
      /\ camera'.pc = "on"
  BY <1>1
<1>3. conn # 0
  BY DEF AdaptInv, AdaptRest, NothingWithoutConn, CameraOpened, Off
<1>4. sent' = camera.value /\ camera.value \in 0 .. 2
  BY <1>1 DEF CameraOpened
<1>5. /\ conn' = conn /\ media' = media /\ tick' = tick /\ a' = a /\ mode' = mode /\ limit' = limit
      /\ seen' = seen /\ calm' = calm
  BY DEF CameraOpened, page
<1>6. /\ stale' \in BOOLEAN
      /\ stale' = (mode = camera.mode /\ camera.value # Resolve(mode, a.level, limit))
  BY Zenon DEF CameraOpened
<1> DEFINE c == [value |-> Resolve(mode, a.level, limit), tick |-> FALSE]
<1>7. queue' = IF mode # camera.mode THEN Append(queue, c) ELSE queue
  BY DEF CameraOpened
<1>8. /\ Append(queue, c) \in Seq(Calls) /\ Append(queue, c) # <<>>
      /\ Append(queue, c)[Len(Append(queue, c))].value = Resolve(mode, a.level, limit)
      /\ OneIsTheLoops(Append(queue, c))
  <2>1. mode \in Modes /\ a.level \in 0 .. 2 /\ limit \in {0, 2}
    BY DEF AdaptInv, AdaptTyped, Loops
  <2> QED BY <2>1, QueuedIsResolved
<1>9. queue \in Seq(Calls) /\ OneIsTheLoops(queue) /\ LastIsResolved
  BY DEF AdaptInv, AdaptTyped, AdaptRest
<1> HIDE DEF c
<1>10. /\ queue' \in Seq(Calls) /\ OneIsTheLoops(queue')
       /\ queue' # <<>> => queue'[Len(queue')].value = Resolve(mode, a.level, limit)
       /\ mode # camera.mode => queue' # <<>>
  <2>1. CASE mode # camera.mode
    <3>1. queue' = Append(queue, c)
      BY <1>7, <2>1
    <3> QED BY <1>8, <3>1, Zenon
  <2>2. CASE mode = camera.mode
    <3>1. queue' = queue
      BY <1>7, <2>2
    <3> QED BY <1>9, <2>2, <3>1 DEF LastIsResolved
  <2> QED BY <2>1, <2>2
<1>11. OneIsTheLoops(queue)'
  BY <1>5, <1>10 DEF OneIsTheLoops
<1>12. AdaptTyped'
  BY <1>2, <1>4, <1>5, <1>6, <1>10 DEF AdaptInv, AdaptTyped, CameraOpened, page, bounds, record
<1>13. LastIsResolved'
  BY <1>5, <1>10 DEF LastIsResolved
<1>14. LimitsObeyed'
  BY <1>4, <1>5, <1>6, <1>10 DEF LimitsObeyed
<1>15. Counted' /\ NothingWithoutConn' /\ Level(a)'
  BY <1>3, <1>5 DEF AdaptInv, AdaptRest, Counted, NothingWithoutConn, Level
<1>16. LabelIsTrue' /\ RecordIsCurrent'
  BY DEF AdaptInv, AdaptRest, LabelIsTrue, RecordIsCurrent, CameraOpened, page, record
<1> QED BY <1>11, <1>12, <1>13, <1>14, <1>15, <1>16 DEF AdaptInv, AdaptRest

\* The loop that does not wait.
LEMMA IdleIsTyped ==
  ASSUME AdaptInv, NEW t, t = Idle
  PROVE  /\ t \in [pc : {"idle", "stats", "applying"}, conn : 0 .. MaxDrops + 1, class : Classes]
         /\ t.pc = "idle"
<1>1. MaxDrops \in Nat
  BY AdaptationAssumptions
<1> QED BY <1>1 DEF Idle, Classes

\* The loop or a call goes on: nothing but the choices of the loop changes.
LEMMA LateKeeps ==
  ASSUME AdaptInv, AppliedTooLate
  PROVE  AdaptInv'
<1>1. a \in Loops /\ tick.class \in Classes /\ Level(a)
  BY DEF AdaptInv, AdaptTyped, AdaptRest
<1>2. ReactKeeps(a, a') /\ tick' = Idle
  BY <1>1, ReactIsTyped DEF AppliedTooLate
<1>3. tick' \in [pc : {"idle", "stats", "applying"}, conn : 0 .. MaxDrops + 1, class : Classes]
      /\ tick'.pc = "idle"
  BY <1>2, IdleIsTyped
<1>4. /\ a' \in Loops /\ a'.level = a.level
      /\ a'.critical <= a.critical /\ a'.recovery <= a.recovery
      /\ a'.automatic => a'.suspended
  BY <1>1, <1>2 DEF ReactKeeps, Level
<1>5. UNCHANGED <<page, mode, limit, camera, queue, sent, label, pending, record, bounds,
                  seen, calm, stale>>
  BY DEF AppliedTooLate
<1>6. OneIsTheLoops(queue)'
  <2>1. tick.conn # conn /\ OneIsTheLoops(queue)
    BY DEF AppliedTooLate, AdaptInv, AdaptRest
  <2> QED BY <1>5, <2>1 DEF OneIsTheLoops
<1>7. AdaptTyped'
  BY <1>3, <1>4, <1>5 DEF AdaptInv, AdaptTyped, page, record, bounds
<1>8. Counted'
  <2>1. /\ Counted /\ seen \in 0 .. 3 /\ calm \in 0 .. 5
        /\ a.critical \in 0 .. 3 /\ a.recovery \in 0 .. 5
        /\ a'.critical \in 0 .. 3 /\ a'.recovery \in 0 .. 5
    BY <1>1, <1>4 DEF AdaptInv, AdaptTyped, AdaptRest, Loops
  <2> QED BY <1>4, <1>5, <2>1 DEF Counted
<1>9. NothingWithoutConn' /\ Level(a)'
  BY <1>3, <1>4, <1>5 DEF AdaptInv, AdaptRest, NothingWithoutConn, Level, page
<1>10. Resolve(mode, a.level, limit)' = Resolve(mode, a.level, limit)
  BY <1>4, <1>5
<1>11. LastIsResolved' /\ LimitsObeyed'
  BY <1>5, <1>10 DEF AdaptInv, AdaptRest, LastIsResolved, LimitsObeyed
<1>12. LabelIsTrue' /\ RecordIsCurrent'
  BY <1>5 DEF AdaptInv, AdaptRest, LabelIsTrue, RecordIsCurrent, page, record
<1> QED BY <1>6, <1>7, <1>8, <1>9, <1>11, <1>12 DEF AdaptInv, AdaptRest

\* What Applied does to the loop, whoever waited.
LoopAfter ==
  /\ a' \in Loops /\ a'.level = a.level
  /\ a'.critical <= a.critical /\ a'.recovery <= a.recovery
  /\ Level(a)'
  /\ tick' \in [pc : {"idle", "stats", "applying"}, conn : 0 .. MaxDrops + 1, class : Classes]
  /\ label' \in {label, "Poor"}

\* If the loop waited for the call, it goes on; or else it stays as it is.
LEMMA AppliedGoesOn ==
  ASSUME AdaptInv, Applied
  PROVE  /\ LoopAfter
         /\ Head(queue).tick => tick' = Idle /\ ReactKeeps(a, a')
         /\ ~Head(queue).tick => tick' = tick /\ a' = a
<1>1. a \in Loops /\ tick.class \in Classes /\ Level(a)
  BY DEF AdaptInv, AdaptTyped, AdaptRest
<1>2. mode' = mode
  BY DEF Applied
<1>3. CASE Head(queue).tick
  <2>1. React(a, tick.class)
        /\ IF a'.suspended /\ ~a.suspended THEN Chip("Poor") ELSE UNCHANGED <<label, pending>>
    BY <1>3, Zenon DEF Applied
  <2>2. ReactKeeps(a, a') /\ tick' = Idle
    BY <1>1, <2>1, ReactIsTyped
  <2>3. tick' \in [pc : {"idle", "stats", "applying"}, conn : 0 .. MaxDrops + 1, class : Classes]
    BY <2>2, IdleIsTyped
  <2>4. label' \in {label, "Poor"}
    BY <2>1 DEF Chip
  <2>5. /\ a' \in Loops /\ a'.level = a.level
        /\ a'.critical <= a.critical /\ a'.recovery <= a.recovery
    BY <2>2 DEF ReactKeeps
  <2>6. Level(a)'
    BY <1>1, <1>2, <2>2 DEF ReactKeeps, Level
  <2> QED BY <1>3, <2>2, <2>3, <2>4, <2>5, <2>6, Zenon DEF LoopAfter
<1>4. CASE ~Head(queue).tick
  <2>1. UNCHANGED <<tick, a, label, pending>>
    BY <1>4, Zenon DEF Applied
  <2>2. tick \in [pc : {"idle", "stats", "applying"}, conn : 0 .. MaxDrops + 1, class : Classes]
    BY DEF AdaptInv, AdaptTyped
  <2>3. a.critical <= a.critical /\ a.recovery <= a.recovery
    BY <1>1 DEF Loops
  <2> QED BY <1>1, <1>2, <1>4, <2>1, <2>2, <2>3 DEF LoopAfter, Level
<1> QED BY <1>3, <1>4

\* The last call that gets through leaves the profile that is resolved now.
LEMMA AppliedKeeps ==
  ASSUME AdaptInv, Applied
  PROVE  AdaptInv'
<1>1. /\ LoopAfter
      /\ Head(queue).tick => tick' = Idle
      /\ ~Head(queue).tick => tick' = tick /\ a' = a
  BY AppliedGoesOn
<1>2. queue \in Seq(Calls) /\ OneIsTheLoops(queue) /\ queue # <<>> /\ queue' = Tail(queue)
  BY DEF AdaptInv, AdaptTyped, AdaptRest, Applied
<1>3. /\ queue' \in Seq(Calls) /\ Len(queue') = Len(queue) - 1 /\ Len(queue) \in Nat \ {0}
      /\ Head(queue) = queue[1] /\ Head(queue) \in Calls
      /\ \A i \in 1 .. Len(queue) - 1 : queue'[i] = queue[i + 1]
  BY <1>2, CallsLeft
<1>4. DOMAIN queue = 1 .. Len(queue) /\ DOMAIN queue' = 1 .. Len(queue) - 1
  BY <1>2, <1>3
<1>5. UNCHANGED <<page, mode, limit, camera, record, bounds, seen, calm>>
  BY DEF Applied
<1> DEFINE v == Head(queue).value
           r == Resolve(mode, a.level, limit)
<1>6. /\ sent' = IF camera.pc = "on" THEN v ELSE sent
      /\ stale' = (stale /\ ~(camera.pc = "on" /\ v = r))
  BY Zenon DEF Applied
<1>7. v \in 0 .. 2
  BY <1>3 DEF Calls
<1>8. stale' \in BOOLEAN
  BY <1>6
<1>9. Resolve(mode, a.level, limit)' = r
  BY <1>1, <1>5 DEF LoopAfter
<1>10. queue[Len(queue)].value = r
  BY <1>2 DEF AdaptInv, AdaptRest, LastIsResolved
<1> HIDE DEF r, v
<1>11. OneIsTheLoops(queue)'
  <2>1. CASE Head(queue).tick
    <3>1. \A i \in DOMAIN queue' : ~queue'[i].tick
      <4> SUFFICES ASSUME NEW i \in DOMAIN queue' PROVE ~queue'[i].tick
        OBVIOUS
      <4>1. queue'[i] = queue[i + 1] /\ i + 1 \in DOMAIN queue /\ 1 \in DOMAIN queue /\ i + 1 # 1
        BY <1>3, <1>4
      <4> QED BY <1>2, <1>3, <2>1, <4>1 DEF OneIsTheLoops
    <3> QED BY <3>1 DEF OneIsTheLoops
  <2>2. CASE ~Head(queue).tick
    <3>1. tick' = tick /\ conn' = conn
      BY <1>1, <1>5, <2>2 DEF page
    <3>2. \A i \in DOMAIN queue' : queue'[i] = queue[i + 1] /\ i + 1 \in DOMAIN queue /\ i \in Nat
      BY <1>3, <1>4
    <3>3. ASSUME NEW i \in DOMAIN queue', queue'[i].tick
          PROVE  tick'.pc = "applying" /\ tick'.conn = conn'
      BY <1>2, <3>1, <3>2, <3>3 DEF OneIsTheLoops
    <3>4. ASSUME NEW i \in DOMAIN queue', NEW j \in DOMAIN queue', queue'[i].tick, queue'[j].tick
          PROVE  i = j
      <4>1. i + 1 = j + 1
        BY <1>2, <3>2, <3>4 DEF OneIsTheLoops
      <4> QED BY <3>2, <4>1
    <3> QED BY <3>3, <3>4, Zenon DEF OneIsTheLoops
  <2> QED BY <2>1, <2>2
<1>12. AdaptTyped'
  <2>1. sent' \in 0 .. 2
    BY <1>6, <1>7 DEF AdaptInv, AdaptTyped
  <2>2. label' \in Labels
    BY <1>1 DEF LoopAfter, AdaptInv, AdaptTyped, Labels
  <2> QED BY <1>1, <1>3, <1>5, <1>8, <2>1, <2>2
          DEF LoopAfter, AdaptInv, AdaptTyped, page, record, bounds
<1>13. LastIsResolved'
  <2>1. ASSUME queue' # <<>> PROVE queue'[Len(queue')] = queue[Len(queue)]
    BY <1>3, <2>1
  <2> QED BY <1>9, <1>10, <2>1 DEF LastIsResolved
<1>14. LimitsObeyed'
  <2>1. ASSUME queue' = <<>> PROVE v = r
    <3>1. Len(queue) = 1
      BY <1>3, <2>1
    <3> QED BY <1>3, <1>10, <3>1 DEF v
  <2> QED BY <1>5, <1>6, <1>9, <2>1 DEF LimitsObeyed
<1>15. Counted'
  <2>1. /\ Counted /\ seen \in 0 .. 3 /\ calm \in 0 .. 5
        /\ a.critical \in 0 .. 3 /\ a.recovery \in 0 .. 5
        /\ a'.critical \in 0 .. 3 /\ a'.recovery \in 0 .. 5
    BY <1>1 DEF LoopAfter, AdaptInv, AdaptTyped, AdaptRest, Loops
  <2> QED BY <1>1, <1>5, <2>1 DEF Counted, LoopAfter
<1>16. NothingWithoutConn'
  <2>1. conn # 0
    BY <1>2 DEF AdaptInv, AdaptRest, NothingWithoutConn
  <2>2. tick' = Idle \/ tick' = tick
    BY <1>1
  <2> QED BY <1>5, <2>1, <2>2 DEF AdaptInv, AdaptRest, NothingWithoutConn, page, Idle
<1>17. Level(a)'
  BY <1>1 DEF LoopAfter
<1>18. LabelIsTrue' /\ RecordIsCurrent'
  BY <1>1, <1>5 DEF LoopAfter, AdaptInv, AdaptRest, LabelIsTrue, RecordIsCurrent, page, record
<1> QED BY <1>11, <1>12, <1>13, <1>14, <1>15, <1>16, <1>17, <1>18 DEF AdaptInv, AdaptRest

Chosen(class) == LET measured == Measure(a, class)
                 IN  IF mode = Automatic THEN ChooseLevel(measured) ELSE measured

ChosenKeeps(t, class) ==
  /\ t \in Loops /\ t.suspended = a.suspended /\ t.automatic = a.automatic
  /\ t.critical = Count(a.critical, class = "critical", 3)
  /\ t.recovery = Count(a.recovery, class = "good", 5)
  /\ Level(t)

\* What is measured and chosen when the report arrives.
LEMMA ChosenIsTyped ==
  ASSUME AdaptInv, NEW class \in Classes
  PROVE  ChosenKeeps(Chosen(class), class)
<1> DEFINE m == Measure(a, class)
<1>1. a \in Loops /\ Level(a)
  BY DEF AdaptInv, AdaptTyped, AdaptRest
<1>2. MeasureKeeps(a, m, class)
  BY <1>1, MeasureIsTyped
<1> HIDE DEF m
<1>3. m \in Loops
  BY <1>2 DEF MeasureKeeps
<1>4. CASE mode = Automatic
  <2>1. Chosen(class) = ChooseLevel(m)
    BY <1>4 DEF Chosen, m
  <2>2. ChoiceKeeps(m, ChooseLevel(m))
    BY <1>3, LevelIsTyped
  <2> QED BY <1>1, <1>2, <2>1, <2>2 DEF ChosenKeeps, ChoiceKeeps, MeasureKeeps, Level
<1>5. CASE mode # Automatic
  <2>1. Chosen(class) = m
    BY <1>5 DEF Chosen, m
  <2> QED BY <1>1, <1>2, <1>5, <2>1 DEF ChosenKeeps, MeasureKeeps, Level
<1> QED BY <1>4, <1>5

\* The report of a connection that is there still.
StatsOf(chosen, class) ==
  /\ seen' = Count(seen, class = "critical", 3)
  /\ calm' = Count(calm, class = "good", 5)
  /\ \/ /\ chosen.level # a.level
        /\ tick' = [pc |-> "applying", conn |-> conn, class |-> class]
        /\ a' = chosen
        /\ queue' = Append(queue, [value |-> Resolve(mode, chosen.level, limit), tick |-> TRUE])
        /\ MeasuredChip(class)
     \/ /\ chosen.level = a.level
        /\ React(chosen, class) /\ queue' = queue
        /\ Chip("Poor") \/ MeasuredChip(class)

\* The report of the connection that there is.
LEMMA StatsAreOf ==
  ASSUME StatsArrive, tick.conn = conn
  PROVE  StatsOf(Chosen(network), network)
BY Zenon DEF StatsArrive, StatsOf, Chosen

\* What was counted stays below what is counted for the properties.
LEMMA CountsAgree ==
  ASSUME AdaptInv, NEW class \in Classes, NEW t, ChosenKeeps(t, class), StatsOf(t, class)
  PROVE  /\ seen' \in 0 .. 3 /\ calm' \in 0 .. 5
         /\ t.critical \in 0 .. 3 /\ t.critical <= seen'
         /\ t.recovery \in 0 .. 5 /\ t.recovery <= calm'
<1>1. /\ a.critical \in 0 .. 3 /\ a.recovery \in 0 .. 5 /\ seen \in 0 .. 3 /\ calm \in 0 .. 5
      /\ a.critical <= seen /\ a.recovery <= calm
  BY DEF AdaptInv, AdaptTyped, AdaptRest, Counted, Loops
<1>2. seen' = Count(seen, class = "critical", 3) /\ calm' = Count(calm, class = "good", 5)
  BY DEF StatsOf
<1>3. /\ t.critical = Count(a.critical, class = "critical", 3)
      /\ t.recovery = Count(a.recovery, class = "good", 5)
  BY DEF ChosenKeeps
<1>4. seen' \in 0 .. 3 /\ t.critical \in 0 .. 3
  BY <1>1, <1>2, <1>3, CountIsBounded
<1>5. calm' \in 0 .. 5 /\ t.recovery \in 0 .. 5
  BY <1>1, <1>2, <1>3, CountIsBounded
<1>6. t.critical <= seen'
  BY <1>1, <1>2, <1>3, CountIsMonotone
<1>7. t.recovery <= calm'
  BY <1>1, <1>2, <1>3, CountIsMonotone
<1> QED BY <1>4, <1>5, <1>6, <1>7

StatsUnchanged == UNCHANGED <<page, mode, limit, camera, sent, record, bounds, stale>>

\* The chip after a report.
LEMMA StatsKeepsLabel ==
  ASSUME AdaptInv, StatsUnchanged, conn # 0, NEW class \in Classes,
         Chip("Poor") \/ MeasuredChip(class)
  PROVE  label' \in Labels /\ LabelIsTrue'
<1>1. label \in Labels /\ LabelIsTrue
  BY DEF AdaptInv, AdaptTyped, AdaptRest
<1>2. label' \in Labels /\ (label' = "Connected" => label = "Connected" \/ media = "connected")
  <2>1. CASE Chip("Poor")
    BY <2>1 DEF Chip, Labels
  <2>2. CASE MeasuredChip(class)
    BY <1>1, <2>2, ChipIsTrue
  <2> QED BY <2>1, <2>2
<1> QED BY <1>1, <1>2 DEF LabelIsTrue, StatsUnchanged, page

\* The types after a report.
LEMMA StatsKeepTypes ==
  ASSUME AdaptInv, StatsUnchanged, a' \in Loops, queue' \in Seq(Calls), label' \in Labels,
         tick' \in [pc : {"idle", "stats", "applying"}, conn : 0 .. MaxDrops + 1, class : Classes],
         seen' \in 0 .. 3, calm' \in 0 .. 5
  PROVE  AdaptTyped'
BY DEF StatsUnchanged, AdaptInv, AdaptTyped, page, record, bounds

\* A report of a connection that is gone is dropped; another may move the level,
\* queue its profile, and wait, or end the loop.
LEMMA StatsKeep ==
  ASSUME AdaptInv, StatsArrive
  PROVE  AdaptInv'
<1>1. /\ a \in Loops /\ queue \in Seq(Calls) /\ network \in Classes /\ label \in Labels
      /\ seen \in 0 .. 3 /\ calm \in 0 .. 5 /\ mode \in Modes /\ limit \in {0, 2}
      /\ conn \in 0 .. MaxDrops + 1
  BY DEF AdaptInv, AdaptTyped
<1>2. /\ Counted /\ NothingWithoutConn /\ OneIsTheLoops(queue) /\ Level(a) /\ LastIsResolved
      /\ LimitsObeyed /\ LabelIsTrue /\ RecordIsCurrent
  BY DEF AdaptInv, AdaptRest
<1>3. StatsUnchanged /\ tick.pc = "stats"
  BY DEF StatsArrive, StatsUnchanged
<1>4. \A i \in DOMAIN queue : ~queue[i].tick
  BY <1>2, <1>3 DEF OneIsTheLoops
<1>5. RecordIsCurrent'
  BY <1>2, <1>3 DEF RecordIsCurrent, StatsUnchanged, page, record
<1>6. CASE tick.conn # conn
  <2>1. tick' = Idle /\ UNCHANGED <<a, queue, label, pending, seen, calm>>
    BY <1>6, Zenon DEF StatsArrive
  <2>2. tick' \in [pc : {"idle", "stats", "applying"}, conn : 0 .. MaxDrops + 1, class : Classes]
        /\ tick'.pc = "idle"
    BY <2>1, IdleIsTyped
  <2>3. AdaptTyped'
    BY <1>1, <1>3, <2>1, <2>2, StatsKeepTypes
  <2>4. OneIsTheLoops(queue)'
    BY <1>4, <2>1 DEF OneIsTheLoops
  <2>5. Counted' /\ NothingWithoutConn' /\ Level(a)' /\ LastIsResolved' /\ LimitsObeyed'
        /\ LabelIsTrue'
    BY <1>2, <1>3, <2>1, <2>2
       DEF Counted, NothingWithoutConn, Level, LastIsResolved, LimitsObeyed, LabelIsTrue,
           StatsUnchanged, page
  <2> QED BY <1>5, <2>3, <2>4, <2>5 DEF AdaptInv, AdaptRest
<1>7. CASE tick.conn = conn
  <2> DEFINE class == network
             t == Chosen(network)
  <2>1. ChosenKeeps(t, class) /\ StatsOf(t, class)
    BY <1>1, <1>7, ChosenIsTyped, StatsAreOf
  <2> HIDE DEF class, t
  <2>2. class \in Classes
    BY <1>1 DEF class
  <2>3. /\ seen' \in 0 .. 3 /\ calm' \in 0 .. 5
        /\ t.critical \in 0 .. 3 /\ t.critical <= seen'
        /\ t.recovery \in 0 .. 5 /\ t.recovery <= calm'
    BY <2>1, <2>2, CountsAgree
  <2>4. conn # 0
    BY <1>2, <1>3, <1>7 DEF NothingWithoutConn
  <2>5. label' \in Labels /\ LabelIsTrue'
    <3>1. Chip("Poor") \/ MeasuredChip(class)
      BY <2>1 DEF StatsOf
    <3> QED BY <1>3, <2>2, <2>4, <3>1, StatsKeepsLabel
  <2>6. t \in Loops /\ Level(t)
    BY <2>1 DEF ChosenKeeps
  <2>7. CASE t.level # a.level
    <3> DEFINE c == [value |-> Resolve(mode, t.level, limit), tick |-> TRUE]
    <3>1. /\ tick' = [pc |-> "applying", conn |-> conn, class |-> class]
          /\ a' = t /\ queue' = Append(queue, c)
      BY <2>1, <2>7 DEF StatsOf
    <3>2. t.level \in 0 .. 2
      BY <2>6 DEF Loops
    <3>3. Resolve(mode, t.level, limit) \in 0 .. 2
      BY <1>1, <3>2, ResolveIsAProfile
    <3>4. c \in Calls /\ c.value = Resolve(mode, t.level, limit)
      BY <3>3 DEF Calls
    <3> HIDE DEF c
    <3>5. /\ queue' \in Seq(Calls) /\ queue' # <<>> /\ Len(queue') = Len(queue) + 1
          /\ queue'[Len(queue) + 1] = c
          /\ \A i \in 1 .. Len(queue) : queue'[i] = queue[i]
      BY <1>1, <3>1, <3>4, AppendedCalls
    <3>6. tick' \in [pc : {"idle", "stats", "applying"}, conn : 0 .. MaxDrops + 1, class : Classes]
          /\ tick'.pc = "applying" /\ tick'.conn = conn
      BY <1>1, <2>2, <3>1
    <3>7. AdaptTyped'
      BY <1>3, <2>3, <2>5, <2>6, <3>1, <3>5, <3>6, StatsKeepTypes
    <3>8. mode' = mode /\ limit' = limit /\ conn' = conn
      BY <1>3 DEF StatsUnchanged, page
    <3>9. OneIsTheLoops(queue)'
      <4>1. /\ DOMAIN queue = 1 .. Len(queue) /\ DOMAIN queue' = 1 .. Len(queue) + 1
            /\ Len(queue) \in Nat
        BY <1>1, <3>5
      <4>2. \A i \in DOMAIN queue' : queue'[i].tick => i = Len(queue) + 1
        <5> SUFFICES ASSUME NEW i \in DOMAIN queue', i # Len(queue) + 1 PROVE ~queue'[i].tick
          OBVIOUS
        <5>1. i \in DOMAIN queue /\ queue'[i] = queue[i]
          BY <3>5, <4>1
        <5> QED BY <1>4, <5>1
      <4> QED BY <3>6, <3>8, <4>2 DEF OneIsTheLoops
    <3>10. LastIsResolved'
      BY <3>1, <3>4, <3>5, <3>8 DEF LastIsResolved
    <3>11. LimitsObeyed'
      BY <3>5 DEF LimitsObeyed
    <3>12. Counted'
      BY <2>3, <3>1 DEF Counted
    <3>13. NothingWithoutConn'
      BY <2>4, <3>6, <3>8 DEF NothingWithoutConn
    <3>14. Level(a)'
      BY <2>6, <3>1, <3>8 DEF Level
    <3> QED BY <1>5, <2>5, <3>7, <3>9, <3>10, <3>11, <3>12, <3>13, <3>14 DEF AdaptInv, AdaptRest
  <2>8. CASE t.level = a.level
    <3>1. React(t, class) /\ queue' = queue
      BY <2>1, <2>8 DEF StatsOf
    <3>2. ReactKeeps(t, a') /\ tick' = Idle
      BY <2>2, <2>6, <3>1, ReactIsTyped
    <3>3. tick' \in [pc : {"idle", "stats", "applying"}, conn : 0 .. MaxDrops + 1, class : Classes]
          /\ tick'.pc = "idle"
      BY <3>2, IdleIsTyped
    <3>4. /\ a' \in Loops /\ a'.level = a.level
          /\ a'.critical <= t.critical /\ a'.recovery <= t.recovery
          /\ a'.automatic => a'.suspended
      BY <2>6, <2>8, <3>2 DEF ReactKeeps, Level
    <3>5. AdaptTyped'
      BY <1>1, <1>3, <2>3, <2>5, <3>1, <3>3, <3>4, StatsKeepTypes
    <3>6. mode' = mode /\ limit' = limit /\ conn' = conn /\ media' = media /\ camera' = camera
          /\ sent' = sent /\ stale' = stale
      BY <1>3 DEF StatsUnchanged, page
    <3>7. OneIsTheLoops(queue)'
      BY <1>4, <3>1 DEF OneIsTheLoops
    <3>8. Resolve(mode, a.level, limit)' = Resolve(mode, a.level, limit)
      BY <3>4, <3>6
    <3>9. LastIsResolved' /\ LimitsObeyed'
      BY <1>2, <3>1, <3>6, <3>8 DEF LastIsResolved, LimitsObeyed
    <3>10. Counted'
      <4>1. a'.critical \in 0 .. 3 /\ a'.recovery \in 0 .. 5
        BY <3>4 DEF Loops
      <4> QED BY <2>3, <3>4, <4>1 DEF Counted
    <3>11. NothingWithoutConn'
      BY <1>2, <3>1, <3>3, <3>6 DEF NothingWithoutConn
    <3>12. Level(a)'
      BY <1>2, <3>4, <3>6 DEF Level
    <3> QED BY <1>5, <2>5, <3>5, <3>7, <3>9, <3>10, <3>11, <3>12 DEF AdaptInv, AdaptRest
  <2> QED BY <2>7, <2>8
<1> QED BY <1>6, <1>7

\* A step of the rest of the page.
LEMMA AdaptStutters ==
  ASSUME AdaptInv, UNCHANGED vars
  PROVE  AdaptInv'
BY DEF vars, AdaptInv, AdaptTyped, AdaptRest, Counted, NothingWithoutConn, OneIsTheLoops, Level,
       LastIsResolved, LimitsObeyed, LabelIsTrue, RecordIsCurrent, page, bounds, record

\* Every step keeps the invariant.
LEMMA AdaptKeeps ==
  ASSUME AdaptInv, [Next]_vars
  PROVE  AdaptInv'
<1>1. CASE Loop
  BY <1>1, TickKeeps, StatsKeep, AppliedKeeps, LateKeeps DEF Loop
<1>2. CASE \E m \in Modes : ChooseProfile(m)
  BY <1>2, ProfileKeeps
<1>3. CASE \E most \in {0, 2} : LimitChanges(most)
  BY <1>3, LimitKeeps
<1>4. CASE CameraOpens \/ CameraOpened \/ CameraCloses \/ UserResumes \/ TabMoves \/ Record
  BY <1>4, OpensKeeps, OpenedKeeps, ClosesKeeps, ResumesKeeps, TabKeeps, RecordKeeps
<1>5. CASE \E class \in Classes : NetworkChanges(class)
  BY <1>5, NetworkKeeps
<1>6. CASE MediaConnects \/ MediaLost \/ SocketCloses \/ Reset \/ Start
  BY <1>6, ConnectsKeeps, LostKeeps, SocketKeeps, ResetKeeps, StartKeeps
<1>7. CASE UNCHANGED vars
  BY <1>7, AdaptStutters
<1> QED BY <1>1, <1>2, <1>3, <1>4, <1>5, <1>6, <1>7 DEF Next
(***************************************************************************)
(* Adaptation: why the video is paused.                                    *)
(***************************************************************************)

Cause ==
  /\ a'.suspended /\ ~a.suspended => seen' = 3 /\ (mode = Automatic => a'.level = 0)
  /\ a.suspended /\ ~a'.suspended => calm' = 5 \/ acts' # acts

\* What the loop decides on was counted, be it before it waited.
LEMMA ReactHasCause ==
  ASSUME AdaptInv, NEW s \in Loops, s.suspended = a.suspended, ReactKeeps(s, a'),
         seen' \in 0 .. 3, calm' \in 0 .. 5, s.critical <= seen', s.recovery <= calm'
  PROVE  Cause
BY DEF ReactKeeps, Cause

\* What is paused or resumed when a report arrives has its samples.
LEMMA StatsHaveCause ==
  ASSUME AdaptInv, StatsArrive
  PROVE  Cause
<1>1. CASE tick.conn # conn
  BY <1>1 DEF StatsArrive, Cause
<1>2. CASE tick.conn = conn
  <2> DEFINE t == Chosen(network)
  <2>1. network \in Classes
    BY DEF AdaptInv, AdaptTyped
  <2>2. ChosenKeeps(t, network) /\ StatsOf(t, network)
    BY <1>2, <2>1, ChosenIsTyped, StatsAreOf
  <2> HIDE DEF t
  <2>3. /\ seen' \in 0 .. 3 /\ calm' \in 0 .. 5 /\ t.critical <= seen' /\ t.recovery <= calm'
    BY <2>1, <2>2, CountsAgree
  <2>4. t \in Loops /\ t.suspended = a.suspended
    BY <2>2 DEF ChosenKeeps
  <2>5. CASE a' = t
    BY <2>4, <2>5 DEF Cause
  <2>6. CASE React(t, network)
    <3>1. ReactKeeps(t, a')
      BY <2>1, <2>4, <2>6, ReactIsTyped
    <3> QED BY <2>3, <2>4, <3>1, ReactHasCause
  <2> QED BY <2>2, <2>5, <2>6 DEF StatsOf
<1> QED BY <1>1, <1>2

\* So has what the loop does after it waited.
LEMMA LoopHasCause ==
  ASSUME AdaptInv, Loop
  PROVE  Cause
<1>1. /\ a \in Loops /\ tick.class \in Classes /\ seen \in 0 .. 3 /\ calm \in 0 .. 5
      /\ a.critical <= seen /\ a.recovery <= calm
  BY DEF AdaptInv, AdaptTyped, AdaptRest, Counted
<1>2. ASSUME ReactKeeps(a, a'), seen' = seen, calm' = calm PROVE Cause
  BY <1>1, <1>2, ReactHasCause
<1>3. CASE TickStarts
  BY <1>3 DEF TickStarts, Cause
<1>4. CASE StatsArrive
  BY <1>4, StatsHaveCause
<1>5. CASE Applied
  <2>1. ReactKeeps(a, a') \/ a' = a
    BY <1>5, AppliedGoesOn
  <2>2. seen' = seen /\ calm' = calm
    BY <1>5 DEF Applied
  <2>3. a' = a => Cause
    BY DEF Cause
  <2> QED BY <1>2, <2>1, <2>2, <2>3
<1>6. CASE AppliedTooLate
  <2>1. ReactKeeps(a, a')
    BY <1>1, <1>6, ReactIsTyped DEF AppliedTooLate
  <2>2. seen' = seen /\ calm' = calm
    BY <1>6 DEF AppliedTooLate
  <2> QED BY <1>2, <2>1, <2>2
<1> QED BY <1>3, <1>4, <1>5, <1>6 DEF Loop

\* No other step pauses the video; the user may resume it.
LEMMA StepHasCause ==
  ASSUME AdaptInv, Next
  PROVE  Cause
<1>1. ASSUME a'.suspended = a.suspended PROVE Cause
  BY <1>1 DEF Cause
<1>2. a \in Loops /\ acts \in Nat
  BY DEF AdaptInv, AdaptTyped
<1>3. CASE \E m \in Modes : ChooseProfile(m)
  <2>1. a'.suspended = a.suspended
    BY <1>2, <1>3 DEF ChooseProfile, Loops
  <2> QED BY <1>1, <2>1
<1>4. CASE (\E most \in {0, 2} : LimitChanges(most)) \/ CameraOpens \/ CameraOpened \/ CameraCloses
           \/ TabMoves \/ Record
  <2>1. a' = a
    BY <1>4 DEF LimitChanges, CameraOpens, CameraOpened, CameraCloses, TabMoves, Record
  <2> QED BY <1>1, <2>1
<1>5. CASE UserResumes
  <2>1. ~a'.suspended
    BY <1>2, <1>5 DEF UserResumes, Loops
  <2>2. acts' # acts
    BY <1>2, <1>5 DEF UserResumes, Act
  <2> QED BY <2>1, <2>2 DEF Cause
<1>6. CASE \E class \in Classes : NetworkChanges(class)
  <2>1. a' = a
    BY <1>6 DEF NetworkChanges
  <2> QED BY <1>1, <2>1
<1>7. CASE MediaConnects \/ MediaLost \/ SocketCloses \/ Start
  <2>1. a' = a
    BY <1>7 DEF MediaConnects, MediaLost, MediaState, SocketCloses, Start
  <2> QED BY <1>1, <2>1
<1>8. CASE Reset
  <2>1. a'.suspended = a.suspended
    BY <1>2, <1>8 DEF Reset, Loops
  <2> QED BY <1>1, <2>1
<1> QED BY <1>3, <1>4, <1>5, <1>6, <1>7, <1>8, LoopHasCause DEF Next

\* The adaptation of the page by itself: what it counts, queues and sends is in
\* its invariant, and no video is paused or resumed without a cause
\* (runDiagnosticsUpdate, shouldPauseVideo, shouldRecoverVideo).
THEOREM AdaptationIsSafe ==
  Spec => []AdaptInv /\ PausedForCause
<1>1. AdaptInv /\ [Next]_vars => AdaptInv'
  BY AdaptKeeps
<1>2. AdaptInv /\ [Next]_vars => [Cause]_vars
  BY StepHasCause
<1> QED BY <1>1, <1>2, AdaptBegins, PTL DEF Spec, PausedForCause, Cause

(***************************************************************************)
(* Remote media: the invariant.                                            *)
(***************************************************************************)

TrackStates == {"coming", "live", "muted", "ended", "missed"}
Tracks == [role : Roles, state : TrackStates, old : BOOLEAN]
Flips == [state : [Speakers -> {"none", "on", "off"}], timer : BOOLEAN]

PeerTyped ==
  /\ tile \in {"none", "shown", "leaving"} /\ cam \in {"unknown", "on", "off"}
  /\ mic \in [Speakers -> {"unknown", "on", "off"}]
  /\ recv \in BOOLEAN /\ offered \in BOOLEAN /\ mixed \in BOOLEAN
  /\ owner \in Owners /\ prefer \in Layers /\ sound \in {"none", "blocked", "playing"}
  /\ remoteActs \in 0 .. MaxRemoteActs

SpeechTyped ==
  /\ active \subseteq Speakers /\ primary \in Speakers \union {"none"}
  /\ voice \in [Speakers -> {"none", "quiet", "speaking", "stale"}] /\ flips \in Flips

VideosTyped ==
  /\ tracks \in Seq(Tracks) /\ Len(tracks) <= MaxTracks
  /\ screen \in [entry : Numbers, src : Numbers] /\ layers \in [Layers -> Numbers]
  /\ picture \in Numbers /\ view \subseteq {"camera", "screen"}
  /\ tile = "none" => picture = 0 /\ screen.src = 0 /\ view = {} /\ layers = NoLayers

\* Tracks arrive in their order, and at most one screen of the participant is
\* one that the server still has.
InOrder ==
  \A i, j \in DOMAIN tracks : i < j =>
    /\ tracks[i].state = "coming" => tracks[j].state = "coming"
    /\ tracks[i].role \in Screens /\ tracks[j].role \in Screens => tracks[i].old

Arrived(i) == i # 0 => i \in DOMAIN tracks /\ Live(i)

\* What is bound to an element arrived and did not end; the entry of the
\* screen may have.
Bound ==
  /\ Arrived(picture) /\ Arrived(screen.src)
  /\ screen.entry # 0 => /\ screen.entry \in DOMAIN tracks
                         /\ tracks[screen.entry].state \in {"live", "muted", "ended"}
  /\ \A l \in Layers : Arrived(layers[l]) /\ (layers[l] # 0 => tracks[layers[l]].role = l)

\* The server has no tracks of a participant who is not there.
Gone ==
  tile # "shown" =>
    /\ owner # "p"
    /\ \A i \in DOMAIN tracks : tracks[i].role # "foreign" => tracks[i].old

Current(i) == Live(i) /\ tracks[i].role \in Screens /\ ~tracks[i].old

ScreenIsKept ==
  ~mixed => \A i \in DOMAIN tracks : Current(i) =>
              screen.entry = i /\ (owner = "p" => screen.src = i)

PIsSilent ==
  tile # "shown" \/ voice["p"] = "none" => "p" \notin active /\ flips.state["p"] # "on"

SpeechInv == SpeechTyped /\ PIsSilent
VideosInv == /\ VideosTyped /\ InOrder /\ Bound /\ Gone /\ ScreenIsKept
             /\ ViewIsCurrent /\ LayerIsBest
RemoteInv == PeerTyped /\ SpeechInv /\ VideosInv

(***************************************************************************)
(* Remote media: the operators.                                            *)
(***************************************************************************)
\* A track with another state.
LEMMA TrackChanges ==
  ASSUME NEW ts \in Seq(Tracks), NEW i \in DOMAIN ts, NEW v \in TrackStates,
         NEW us, us = [ts EXCEPT ![i].state = v]
  PROVE  /\ us \in Seq(Tracks) /\ Len(us) = Len(ts) /\ DOMAIN us = DOMAIN ts
         /\ \A j \in DOMAIN ts : /\ us[j].role = ts[j].role /\ us[j].old = ts[j].old
                                 /\ us[j].state = IF j = i THEN v ELSE ts[j].state
<1>1. \A j \in DOMAIN ts : ts[j] \in Tracks
  OBVIOUS
<1>2. \A j \in DOMAIN ts : us[j] = IF j = i THEN [ts[i] EXCEPT !.state = v] ELSE ts[j]
  OBVIOUS
<1>3. [ts[i] EXCEPT !.state = v] \in Tracks
  BY <1>1 DEF Tracks
<1>4. us \in Seq(Tracks) /\ Len(us) = Len(ts) /\ DOMAIN us = DOMAIN ts
  BY <1>1, <1>3
<1>5. /\ [ts[i] EXCEPT !.state = v].role = ts[i].role /\ [ts[i] EXCEPT !.state = v].old = ts[i].old
      /\ [ts[i] EXCEPT !.state = v].state = v
  BY <1>1 DEF Tracks
<1> QED BY <1>2, <1>4, <1>5

\* Abandoned makes tracks old and does nothing else to them.
LEMMA TracksAbandoned ==
  ASSUME tracks \in Seq(Tracks), NEW some, NEW us, us = Abandoned(some)
  PROVE  /\ us \in Seq(Tracks) /\ Len(us) = Len(tracks) /\ DOMAIN us = DOMAIN tracks
         /\ \A j \in DOMAIN tracks : /\ us[j].role = tracks[j].role
                                     /\ us[j].state = tracks[j].state
                                     /\ us[j].old = (tracks[j].old \/ j \in some)
<1>1. \A j \in DOMAIN tracks : tracks[j] \in Tracks
  OBVIOUS
<1>2. us = [j \in DOMAIN tracks |-> IF j \in some THEN [tracks[j] EXCEPT !.old = TRUE]
                                     ELSE tracks[j]]
  BY DEF Abandoned
<1>3. ASSUME NEW j \in DOMAIN tracks
      PROVE  LET u == [tracks[j] EXCEPT !.old = TRUE]
             IN  /\ u \in Tracks /\ u.role = tracks[j].role
                 /\ u.state = tracks[j].state /\ u.old = TRUE
  <2>1. tracks[j] \in Tracks /\ TRUE \in BOOLEAN
    BY <1>1
  <2> QED BY <2>1 DEF Tracks
<1>4. \A j \in DOMAIN tracks : us[j] \in Tracks
  BY <1>1, <1>2, <1>3
<1>5. us \in Seq(Tracks) /\ Len(us) = Len(tracks) /\ DOMAIN us = DOMAIN tracks
  BY <1>2, <1>4
<1>6. ASSUME NEW j \in DOMAIN tracks
      PROVE  /\ us[j].role = tracks[j].role /\ us[j].state = tracks[j].state
             /\ us[j].old = (tracks[j].old \/ j \in some)
  <2>1. CASE j \in some
    <3>1. us[j] = [tracks[j] EXCEPT !.old = TRUE]
      BY <1>2, <2>1
    <3> QED BY <1>3, <2>1, <3>1
  <2>2. CASE j \notin some
    <3>1. us[j] = tracks[j] /\ tracks[j].old \in BOOLEAN
      BY <1>1, <1>2, <2>2 DEF Tracks
    <3> QED BY <2>2, <3>1
  <2> QED BY <2>1, <2>2
<1> QED BY <1>5, <1>6

\* A track that is published comes last.
LEMMA TrackAppended ==
  ASSUME NEW ts \in Seq(Tracks), NEW t \in Tracks, NEW us, us = Append(ts, t)
  PROVE  /\ us \in Seq(Tracks) /\ Len(us) = Len(ts) + 1 /\ Len(ts) \in Nat
         /\ DOMAIN us = 1 .. Len(ts) + 1 /\ DOMAIN ts = 1 .. Len(ts)
         /\ us[Len(ts) + 1] = t /\ \A j \in DOMAIN ts : us[j] = ts[j]
OBVIOUS

\* The layer that is selected depends on the tracks of the layers only.
LEMMA SelectDepends ==
  ASSUME NEW map \in [Layers -> Numbers], NEW layer, NEW s1, NEW s2,
         \A l \in Layers : map[l] # 0 => s1[map[l]] = s2[map[l]]
  PROVE  Select(map, layer, s1) = Select(map, layer, s2)
<1> DEFINE live(s) == {l \in Layers : map[l] # 0 /\ s[map[l]] \in {"live", "muted"}}
           unmuted(s) == {l \in live(s) : s[map[l]] = "live"}
           from(s) == IF unmuted(s) # {} THEN unmuted(s) ELSE live(s)
<1>1. live(s1) = live(s2)
  OBVIOUS
<1>2. unmuted(s1) = unmuted(s2)
  BY <1>1
<1>3. from(s1) = from(s2)
  BY <1>1, <1>2
<1>4. \A s : Select(map, layer, s) =
        IF from(s) = {} THEN 0
        ELSE IF layer \in from(s) THEN map[layer] ELSE map[CHOOSE l \in from(s) : TRUE]
  BY DEF Select
<1> HIDE DEF from
<1> QED BY <1>3, <1>4

\* What is selected is a layer that lives, or nothing.
LEMMA SelectIsMapped ==
  ASSUME NEW map \in [Layers -> Numbers], NEW layer, NEW s
  PROVE  \/ Select(map, layer, s) = 0
         \/ \E l \in Layers : /\ map[l] # 0 /\ Select(map, layer, s) = map[l]
                              /\ s[map[l]] \in {"live", "muted"}
<1> DEFINE live == {l \in Layers : map[l] # 0 /\ s[map[l]] \in {"live", "muted"}}
           unmuted == {l \in live : s[map[l]] = "live"}
           from == IF unmuted # {} THEN unmuted ELSE live
<1>1. from \subseteq live
  OBVIOUS
<1>2. Select(map, layer, s) =
        IF from = {} THEN 0
        ELSE IF layer \in from THEN map[layer] ELSE map[CHOOSE l \in from : TRUE]
  BY DEF Select
<1> HIDE DEF from
<1>3. CASE from = {}
  BY <1>2, <1>3
<1>4. CASE layer \in from
  <2>1. Select(map, layer, s) = map[layer] /\ layer \in live
    BY <1>1, <1>2, <1>4
  <2> QED BY <2>1
<1>5. CASE from # {} /\ layer \notin from
  <2>1. PICK k : k = CHOOSE l \in from : TRUE
    OBVIOUS
  <2>2. k \in from
    BY <1>5, <2>1
  <2>3. Select(map, layer, s) = map[k] /\ k \in live
    BY <1>1, <1>2, <1>5, <2>1, <2>2
  <2> QED BY <2>3
<1> QED BY <1>3, <1>4, <1>5

\* Nobody is there: the invariant holds.
LEMMA RemoteBegins ==
  RemoteInit => RemoteInv
<1> SUFFICES ASSUME RemoteInit PROVE RemoteInv
  OBVIOUS
<1>1. MaxTracks \in Nat /\ MaxRemoteActs \in Nat
  BY RemoteMediaAssumptions
<1>2. PeerTyped
  <2>1. mic \in [Speakers -> {"unknown", "on", "off"}]
    BY DEF RemoteInit
  <2>2. owner \in Owners /\ prefer \in Layers /\ remoteActs \in 0 .. MaxRemoteActs
    BY <1>1 DEF RemoteInit, Owners, Layers
  <2>3. recv \in BOOLEAN /\ offered \in BOOLEAN /\ mixed \in BOOLEAN
    BY DEF RemoteInit
  <2> QED BY <2>1, <2>2, <2>3 DEF RemoteInit, PeerTyped
<1>3. SpeechInv
  BY DEF RemoteInit, SpeechInv, SpeechTyped, PIsSilent, NoFlips, Flips, Speakers
<1>4. tracks = <<>> /\ tracks \in Seq(Tracks) /\ Len(tracks) = 0 /\ DOMAIN tracks = {}
  BY DEF RemoteInit
<1>5. VideosTyped
  BY <1>1, <1>4 DEF RemoteInit, VideosTyped, Numbers, NoLayers
<1>6. InOrder /\ ScreenIsKept /\ Gone
  BY <1>4 DEF RemoteInit, InOrder, ScreenIsKept, Gone
<1>7. Bound
  BY DEF RemoteInit, Bound, Arrived, Layers
<1>8. ViewIsCurrent /\ LayerIsBest
  BY DEF RemoteInit, ViewIsCurrent, LayerIsBest
<1> QED BY <1>2, <1>3, <1>5, <1>6, <1>7, <1>8 DEF RemoteInv, VideosInv

(***************************************************************************)
(* Remote media: who speaks.                                               *)
(***************************************************************************)
\* The primary speaker is one of those who speak.
LEMMA RefreshIsTyped ==
  ASSUME NEW who, who \subseteq Speakers, Refresh(who)
  PROVE  primary' \in Speakers \union {"none"}
BY DEF Refresh

NoStates == [x \in Speakers |-> "none"]

\* A flip of one speaker leaves the other alone.
LEMMA FlipIsTyped ==
  ASSUME NEW x \in Speakers, NEW v \in {"none", "on", "off"}, NEW b \in BOOLEAN, flips \in Flips
  PROVE  LET next == [flips.state EXCEPT ![x] = v]
         IN  /\ next \in [Speakers -> {"none", "on", "off"}] /\ next[x] = v
             /\ \A y \in Speakers : y # x => next[y] = flips.state[y]
             /\ [state |-> next, timer |-> b] \in Flips
             /\ [flips EXCEPT !.state[x] = v] \in Flips
             /\ [flips EXCEPT !.state[x] = v].state = next
<1> DEFINE next == [flips.state EXCEPT ![x] = v]
<1>1. flips.state \in [Speakers -> {"none", "on", "off"}] /\ flips.timer \in BOOLEAN
  BY DEF Flips
<1>2. /\ next \in [Speakers -> {"none", "on", "off"}] /\ next[x] = v
      /\ \A y \in Speakers : y # x => next[y] = flips.state[y]
  BY <1>1
<1>3. [flips EXCEPT !.state[x] = v] = [flips EXCEPT !.state = next]
  OBVIOUS
<1> HIDE DEF next
<1>4. [state |-> next, timer |-> b] \in Flips
  BY <1>2 DEF Flips
<1>5. [flips EXCEPT !.state = next] \in Flips /\ [flips EXCEPT !.state = next].state = next
  BY <1>1, <1>2 DEF Flips
<1> QED BY <1>2, <1>3, <1>4, <1>5 DEF next

\* The batch is applied: who was silent and is not flipped on stays silent.
LEMMA FlushKeeps ==
  ASSUME SpeechTyped, NEW state \in [Speakers -> {"none", "on", "off"}], Flush(state)
  PROVE  /\ active' \subseteq Speakers /\ primary' \in Speakers \union {"none"} /\ flips' \in Flips
         /\ flips'.state["p"] = "none"
         /\ "p" \notin active /\ state["p"] # "on" => "p" \notin active'
         /\ state["p"] = "off" /\ tile # "none" => "p" \notin active'
<1>1. active' \subseteq Speakers
  BY DEF Flush, SpeechTyped, Here
<1>2. primary' \in Speakers \union {"none"}
  BY <1>1, RefreshIsTyped DEF Flush
<1>3. flips' = [state |-> NoStates, timer |-> FALSE]
  BY DEF Flush, NoStates
<1>4. NoStates \in [Speakers -> {"none", "on", "off"}] /\ NoStates["p"] = "none"
  BY DEF NoStates, Speakers
<1>5. flips' \in Flips /\ flips'.state["p"] = "none"
  BY <1>3, <1>4 DEF Flips
<1>6. "p" \notin active /\ state["p"] # "on" => "p" \notin active'
  BY DEF Flush
<1>7. state["p"] = "off" /\ tile # "none" => "p" \notin active'
  BY DEF Flush, Here, Speakers
<1> QED BY <1>1, <1>2, <1>5, <1>6, <1>7

\* At once or batched, a flip is about one speaker.
LEMMA SetSpeakerKeeps ==
  ASSUME SpeechTyped, NEW x \in Speakers, NEW v \in {"on", "off"}, SetSpeaker(x, v)
  PROVE  /\ active' \subseteq Speakers /\ primary' \in Speakers \union {"none"} /\ flips' \in Flips
         /\ "p" \notin active /\ flips.state["p"] # "on" /\ (x = "p" => v = "off")
              => "p" \notin active' /\ flips'.state["p"] # "on"
<1> DEFINE next == [flips.state EXCEPT ![x] = v]
<1>1. flips \in Flips
  BY DEF SpeechTyped
<1>2. /\ next \in [Speakers -> {"none", "on", "off"}] /\ next[x] = v
      /\ \A y \in Speakers : y # x => next[y] = flips.state[y]
      /\ [state |-> next, timer |-> TRUE] \in Flips
  BY <1>1, FlipIsTyped
<1>3. \/ Flush(next)
      \/ flips' = [state |-> next, timer |-> TRUE] /\ UNCHANGED <<active, primary>>
  BY DEF SetSpeaker
<1> HIDE DEF next
<1>4. flips.state["p"] # "on" /\ (x = "p" => v = "off") => next["p"] # "on"
  BY <1>2 DEF Speakers
<1>5. CASE Flush(next)
  <2>1. /\ active' \subseteq Speakers /\ primary' \in Speakers \union {"none"} /\ flips' \in Flips
        /\ flips'.state["p"] = "none"
        /\ "p" \notin active /\ next["p"] # "on" => "p" \notin active'
    BY <1>2, <1>5, FlushKeeps
  <2> QED BY <1>4, <2>1
<1>6. CASE flips' = [state |-> next, timer |-> TRUE] /\ UNCHANGED <<active, primary>>
  <2>1. flips'.state = next
    BY <1>6
  <2> QED BY <1>2, <1>4, <1>6, <2>1 DEF SpeechTyped
<1> QED BY <1>3, <1>5, <1>6

\* The participant speaks only while there, with an analyzer.
LEMMA SpeaksIsHeard ==
  ASSUME PeerTyped, SpeechInv, NEW x \in Speakers, Speaks(x) \/ FallsSilent(x)
  PROVE  SpeechInv'
<1>1. SpeechTyped /\ PIsSilent
  BY DEF SpeechInv
<1>2. PICK v \in {"on", "off"} :
        /\ SetSpeaker(x, v) /\ tile' = tile
        /\ voice[x] # "none"
        /\ voice' = [voice EXCEPT ![x] = IF v = "on" THEN "speaking" ELSE "quiet"]
        /\ x = "p" /\ v = "on" => tile = "shown"
  BY DEF Speaks, FallsSilent
<1>3. voice' \in [Speakers -> {"none", "quiet", "speaking", "stale"}]
  BY <1>1, <1>2 DEF SpeechTyped
<1>4. voice'["p"] = "none" => voice["p"] = "none" /\ x # "p"
  BY <1>1, <1>2 DEF SpeechTyped, Speakers
<1>5. /\ active' \subseteq Speakers /\ primary' \in Speakers \union {"none"} /\ flips' \in Flips
      /\ "p" \notin active /\ flips.state["p"] # "on" /\ (x = "p" => v = "off")
              => "p" \notin active' /\ flips'.state["p"] # "on"
  BY <1>1, <1>2, SetSpeakerKeeps
<1>6. PIsSilent'
  BY <1>1, <1>2, <1>4, <1>5 DEF PIsSilent
<1> QED BY <1>3, <1>5, <1>6 DEF SpeechInv, SpeechTyped

\* The timer brings no one back who has left.
LEMMA TimerIsHeard ==
  ASSUME PeerTyped, SpeechInv, FlushTimer
  PROVE  SpeechInv'
<1>1. SpeechTyped /\ PIsSilent /\ flips.state \in [Speakers -> {"none", "on", "off"}]
  BY DEF SpeechInv, SpeechTyped, Flips
<1>2. Flush(flips.state) /\ tile' = tile /\ voice' = voice
  BY DEF FlushTimer
<1>3. /\ active' \subseteq Speakers /\ primary' \in Speakers \union {"none"} /\ flips' \in Flips
      /\ flips'.state["p"] = "none"
      /\ "p" \notin active /\ flips.state["p"] # "on" => "p" \notin active'
  BY <1>1, <1>2, FlushKeeps
<1> QED BY <1>1, <1>2, <1>3 DEF SpeechInv, SpeechTyped, PIsSilent

\* Another microphone of the user.
LEMMA SwitchIsHeard ==
  ASSUME PeerTyped, SpeechInv, SwitchMicrophone
  PROVE  SpeechInv'
<1>1. SpeechTyped /\ PIsSilent /\ flips \in Flips /\ "me" \in Speakers /\ "p" \in Speakers
  BY DEF SpeechInv, SpeechTyped, Speakers
<1>2. /\ voice' = [voice EXCEPT !["me"] = "quiet"] /\ active' = active \ {"me"}
      /\ flips' = [flips EXCEPT !.state["me"] = "none"] /\ Refresh(active') /\ tile' = tile
  BY DEF SwitchMicrophone
<1>3. flips' \in Flips /\ flips'.state["p"] = flips.state["p"]
  <2>1. /\ flips' \in Flips /\ flips'.state = [flips.state EXCEPT !["me"] = "none"]
        /\ \A y \in Speakers : y # "me" => [flips.state EXCEPT !["me"] = "none"][y] = flips.state[y]
    BY <1>1, <1>2, FlipIsTyped
  <2> QED BY <1>1, <2>1
<1>4. active' \subseteq Speakers
  BY <1>1, <1>2 DEF SpeechTyped
<1>5. primary' \in Speakers \union {"none"}
  BY <1>2, <1>4, RefreshIsTyped
<1>6. voice' \in [Speakers -> {"none", "quiet", "speaking", "stale"}] /\ voice'["p"] = voice["p"]
  BY <1>1, <1>2 DEF SpeechTyped
<1> QED BY <1>1, <1>2, <1>3, <1>4, <1>5, <1>6 DEF SpeechInv, SpeechTyped, PIsSilent

\* removeSpeakerAnalyzer takes the speaker and the batched flip.
LEMMA LeavingIsHeard ==
  ASSUME PeerTyped, SpeechInv, Leaves
  PROVE  SpeechInv'
<1>1. SpeechTyped /\ PIsSilent /\ flips \in Flips /\ "p" \in Speakers
  BY DEF SpeechInv, SpeechTyped, Speakers
<1>2. Silence
  BY DEF Leaves
<1>3. CASE voice["p"] \in {"quiet", "speaking", "stale"}
  <2>1. /\ voice' = [voice EXCEPT !["p"] = "none"] /\ active' = active \ {"p"}
        /\ flips' = [flips EXCEPT !.state["p"] = "none"] /\ Refresh(active')
    BY <1>2, <1>3 DEF Silence
  <2>2. flips' \in Flips /\ flips'.state["p"] = "none"
    BY <1>1, <2>1, FlipIsTyped
  <2>3. active' \subseteq Speakers
    BY <1>1, <2>1 DEF SpeechTyped
  <2>4. primary' \in Speakers \union {"none"}
    BY <2>1, <2>3, RefreshIsTyped
  <2>5. voice' \in [Speakers -> {"none", "quiet", "speaking", "stale"}]
    BY <1>1, <2>1 DEF SpeechTyped
  <2> QED BY <2>1, <2>2, <2>3, <2>4, <2>5 DEF SpeechInv, SpeechTyped, PIsSilent
<1>4. CASE voice["p"] \notin {"quiet", "speaking", "stale"}
  <2>1. UNCHANGED speaking /\ voice["p"] = "none"
    BY <1>1, <1>2, <1>4 DEF Silence, SpeechTyped
  <2> QED BY <1>1, <2>1 DEF SpeechInv, SpeechTyped, PIsSilent, speaking
<1> QED BY <1>3, <1>4

\* The tile goes after the speaker did.
LEMMA RemovalIsHeard ==
  ASSUME PeerTyped, SpeechInv, Removed
  PROVE  SpeechInv'
<1>1. SpeechTyped /\ PIsSilent
  BY DEF SpeechInv
<1>2. voice' \in [Speakers -> {"none", "quiet", "speaking", "stale"}]
  BY <1>1 DEF SpeechTyped, Removed
<1> QED BY <1>1, <1>2 DEF SpeechInv, SpeechTyped, PIsSilent, Removed

\* After a reset nobody speaks.
LEMMA ResetIsHeard ==
  ASSUME PeerTyped, SpeechInv, ResetRemote
  PROVE  SpeechInv'
<1>1. voice' \in [Speakers -> {"none", "quiet", "speaking", "stale"}]
  BY DEF ResetRemote
<1>2. NoStates \in [Speakers -> {"none", "on", "off"}] /\ NoStates["p"] = "none"
  BY DEF NoStates, Speakers
<1>3. flips' = [state |-> NoStates, timer |-> FALSE]
  BY DEF ResetRemote, NoFlips, NoStates
<1>4. flips' \in Flips /\ flips'.state["p"] = "none"
  BY <1>2, <1>3 DEF Flips
<1>5. active' = {} /\ primary' = primary
  BY DEF ResetRemote
<1> QED BY <1>1, <1>4, <1>5 DEF SpeechInv, SpeechTyped, PIsSilent

\* ontrack, case by case.
Misses(i) ==
  /\ tracks' = [tracks EXCEPT ![i].state = "missed"]
  /\ UNCHANGED <<videos, audio, view, speaking, mixed>>
ScreenArrives(i) ==
  /\ tile # "none" /\ IsScreenHere(tracks[i].role)
  /\ tracks' = [tracks EXCEPT ![i].state = "live"]
  /\ screen' = [entry |-> i, src |-> i] /\ mixed' = (tracks[i].role = "foreign")
  /\ UNCHANGED <<layers, picture, audio, speaking>> /\ ShowNow
LayerArrives(i) ==
  /\ tile # "none" /\ tracks[i].role \in Layers
  /\ tracks' = [tracks EXCEPT ![i].state = "live"]
  /\ layers' = [layers EXCEPT ![tracks[i].role] = i] /\ ShowCamera
  /\ UNCHANGED <<screen, audio, speaking, mixed>> /\ ShowNow
CameraArrives(i) ==
  /\ tile # "none" /\ tracks[i].role = "camera"
  /\ tracks' = [tracks EXCEPT ![i].state = "live"]
  /\ picture' = i /\ UNCHANGED <<screen, layers, audio, speaking, mixed>> /\ ShowNow
AudioArrives(i) ==
  /\ tile # "none" /\ tracks[i].role = "audio"
  /\ tracks' = [tracks EXCEPT ![i].state = "live"]
  /\ Analyze /\ sound' \in {"playing", "blocked"} /\ offered' \in BOOLEAN
  /\ UNCHANGED <<videos, view, mixed>>

\* Every track that arrives is one of these.
LEMMA ArrivalCases ==
  ASSUME VideosTyped, NEW i, TrackArrives(i)
  PROVE  /\ i \in DOMAIN tracks /\ tracks[i].state = "coming"
         /\ \A j \in 1 .. i - 1 : tracks[j].state # "coming"
         /\ UNCHANGED <<tile, cam, mic, owner, choices, remoteActs>>
         /\ \/ Misses(i) \/ ScreenArrives(i) \/ LayerArrives(i) \/ CameraArrives(i)
            \/ AudioArrives(i)
<1> DEFINE role == tracks[i].role
           nobodys == tile = "none" \/ (role \in Screens \union {"foreign"} /\ ~IsScreenHere(role))
<1>1. /\ i \in DOMAIN tracks /\ tracks[i].state = "coming"
      /\ \A j \in 1 .. i - 1 : tracks[j].state # "coming"
      /\ UNCHANGED <<tile, cam, mic, owner, choices, remoteActs>>
      /\ tracks' = [tracks EXCEPT ![i].state = IF nobodys THEN "missed" ELSE "live"]
  BY Zenon DEF TrackArrives
<1>2. role \in AllRoles
  <2>1. tracks[i] \in Tracks
    BY <1>1 DEF VideosTyped
  <2> QED BY <2>1, RemoteMediaAssumptions DEF Tracks
<1>3. CASE nobodys
  <2>1. UNCHANGED <<videos, audio, view, speaking, mixed>>
    BY <1>3, Zenon DEF TrackArrives
  <2> QED BY <1>1, <1>3, <2>1, Zenon DEF Misses
<1>4. CASE ~nobodys
  <2>1. tracks' = [tracks EXCEPT ![i].state = "live"] /\ tile # "none"
    BY <1>1, <1>4
  <2>2. CASE IsScreenHere(role)
    <3>1. role \notin Layers /\ role # "camera" /\ role # "audio"
      BY <2>2 DEF IsScreenHere, Screens, Layers
    <3>2. /\ screen' = [entry |-> i, src |-> i] /\ mixed' = (role = "foreign")
          /\ UNCHANGED <<layers, picture, audio, speaking>> /\ ShowNow
      BY <1>4, <2>2, <3>1, Zenon DEF TrackArrives
    <3> QED BY <1>1, <2>1, <2>2, <3>2 DEF ScreenArrives
  <2>3. CASE role \in Layers
    <3>1. ~IsScreenHere(role) /\ role # "camera" /\ role # "audio"
      BY <2>3 DEF IsScreenHere, Screens, Layers
    <3>2. /\ layers' = [layers EXCEPT ![role] = i] /\ ShowCamera
          /\ UNCHANGED <<screen, audio, speaking, mixed>> /\ ShowNow
      BY <1>4, <2>3, <3>1, Zenon DEF TrackArrives
    <3> QED BY <1>1, <2>1, <2>3, <3>2 DEF LayerArrives
  <2>4. CASE role = "camera"
    <3>1. ~IsScreenHere(role) /\ role \notin Layers /\ role # "audio"
      BY <2>4 DEF IsScreenHere, Screens, Layers
    <3>2. picture' = i /\ UNCHANGED <<screen, layers, audio, speaking, mixed>> /\ ShowNow
      BY <1>4, <2>4, <3>1, Zenon DEF TrackArrives
    <3> QED BY <1>1, <2>1, <2>4, <3>2 DEF CameraArrives
  <2>5. CASE role = "audio"
    <3>1. ~IsScreenHere(role) /\ role \notin Layers /\ role # "camera"
      BY <2>5 DEF IsScreenHere, Screens, Layers
    <3>2. /\ Analyze
          /\ \/ sound' = "playing" /\ offered' = FALSE
             \/ sound' = "blocked" /\ offered' = TRUE
          /\ UNCHANGED <<videos, view, mixed>>
      BY <1>4, <2>5, <3>1, Zenon DEF TrackArrives
    <3>3. sound' \in {"playing", "blocked"} /\ offered' \in BOOLEAN
      BY <3>2
    <3> QED BY <1>1, <2>1, <2>5, <3>2, <3>3 DEF AudioArrives
  <2> QED BY <1>2, <1>4, <2>2, <2>3, <2>4, <2>5 DEF AllRoles
<1> QED BY <1>3, <1>4

\* A track may bring an analyzer, and no speaker.
LEMMA ArrivalIsHeard ==
  ASSUME PeerTyped, SpeechInv, VideosTyped, NEW i, TrackArrives(i)
  PROVE  SpeechInv'
<1>1. SpeechTyped /\ PIsSilent
  BY DEF SpeechInv
<1>2. tile' = tile /\ (UNCHANGED speaking \/ Analyze)
  <2>1. tile' = tile /\ (\/ Misses(i) \/ ScreenArrives(i) \/ LayerArrives(i) \/ CameraArrives(i)
                         \/ AudioArrives(i))
    BY ArrivalCases
  <2> QED BY <2>1 DEF Misses, ScreenArrives, LayerArrives, CameraArrives, AudioArrives
<1>3. UNCHANGED <<flips, active, primary>>
  BY <1>2 DEF speaking, Analyze
<1>4. voice' \in [Speakers -> {"none", "quiet", "speaking", "stale"}]
      /\ (voice'["p"] = "none" => voice["p"] = "none")
  BY <1>1, <1>2 DEF SpeechTyped, speaking, Analyze, Speakers
<1> QED BY <1>1, <1>2, <1>3, <1>4 DEF SpeechInv, SpeechTyped, PIsSilent

\* The other steps leave the speakers alone; a tile that comes back is silent.
LEMMA OthersAreHeard ==
  ASSUME PeerTyped, SpeechInv, UNCHANGED speaking, tile' \in {tile, "shown"}
  PROVE  SpeechInv'
BY DEF SpeechInv, SpeechTyped, PIsSilent, speaking

\* Every step keeps who may speak.
LEMMA SpeechKeeps ==
  ASSUME RemoteInv, RemoteNext
  PROVE  SpeechInv'
<1>1. PeerTyped /\ SpeechInv /\ VideosTyped
  BY DEF RemoteInv, VideosInv
<1>2. ASSUME UNCHANGED speaking, tile' \in {tile, "shown"} PROVE SpeechInv'
  BY <1>1, <1>2, OthersAreHeard
<1>3. CASE Joins \/ Leaves \/ Removed
  <2>1. Joins => UNCHANGED speaking /\ tile' = "shown"
    BY DEF Joins
  <2> QED BY <1>1, <1>2, <1>3, <2>1, LeavingIsHeard, RemovalIsHeard
<1>4. CASE \/ \E c \in {"on", "off"}, m \in {"on", "off"} : Announces(c, m)
           \/ \E o \in Owners : OwnerChanges(o)
           \/ \E role \in Roles : Published(role)
  <2>1. UNCHANGED speaking /\ tile' = tile
    BY <1>4 DEF Announces, OwnerChanges, Published
  <2> QED BY <1>2, <2>1
<1>5. CASE \E i \in 1 .. MaxTracks : TrackArrives(i) \/ Toggles(i) \/ Ends(i)
  <2>1. \A i : Toggles(i) \/ Ends(i) => UNCHANGED speaking /\ tile' = tile
    BY DEF Toggles, Ends
  <2> QED BY <1>1, <1>2, <1>5, <2>1, ArrivalIsHeard
<1>6. CASE (\E x \in Speakers : Speaks(x) \/ FallsSilent(x)) \/ FlushTimer \/ SwitchMicrophone
           \/ ResetRemote
  BY <1>1, <1>6, SpeaksIsHeard, TimerIsHeard, SwitchIsHeard, ResetIsHeard
<1>7. CASE LayerChanges \/ ToggleReceive \/ EnableAudio \/ ToggleMicrophone
  <2>1. UNCHANGED speaking /\ tile' = tile
    BY <1>7 DEF LayerChanges, ToggleReceive, EnableAudio, ToggleMicrophone
  <2> QED BY <1>2, <2>1
<1> QED BY <1>3, <1>4, <1>5, <1>6, <1>7 DEF RemoteNext

(***************************************************************************)
(* Remote media: what is shown.                                            *)
(***************************************************************************)
\* Every step keeps the types of what was announced and chosen.
LEMMA PeerKeeps ==
  ASSUME RemoteInv, RemoteNext
  PROVE  PeerTyped'
<1>1. PeerTyped /\ VideosTyped
  BY DEF RemoteInv, VideosInv
<1>2. ASSUME ActOnce PROVE remoteActs' \in 0 .. MaxRemoteActs
  BY <1>1, <1>2, RemoteMediaAssumptions DEF PeerTyped, ActOnce
<1>3. CASE Joins
  <2>1. mic' \in [Speakers -> {"unknown", "on", "off"}]
    BY <1>1, <1>3 DEF PeerTyped, Joins
  <2> QED BY <1>1, <1>2, <1>3, <2>1 DEF PeerTyped, Joins, choices
<1>4. CASE Leaves
  <2>1. mixed' \in BOOLEAN
    BY <1>4 DEF Leaves
  <2>2. owner' \in Owners
    BY <1>1, <1>4 DEF PeerTyped, Leaves, Owners
  <2> QED BY <1>1, <1>2, <1>4, <2>1, <2>2 DEF PeerTyped, Leaves, choices, audio
<1>5. CASE Removed
  BY <1>1, <1>5 DEF PeerTyped, Removed, choices
<1>6. CASE \E c \in {"on", "off"}, m \in {"on", "off"} : Announces(c, m)
  <2>1. mic' \in [Speakers -> {"unknown", "on", "off"}] /\ cam' \in {"unknown", "on", "off"}
    BY <1>1, <1>6 DEF PeerTyped, Announces
  <2> QED BY <1>1, <1>2, <1>6, <2>1 DEF PeerTyped, Announces, choices, audio
<1>7. CASE \E o \in Owners : OwnerChanges(o)
  BY <1>1, <1>2, <1>7 DEF PeerTyped, OwnerChanges, choices, audio
<1>8. CASE \E role \in Roles : Published(role)
  BY <1>1, <1>8 DEF PeerTyped, Published, choices, audio
<1>9. CASE \E i \in 1 .. MaxTracks : TrackArrives(i)
  <2>1. PICK i : TrackArrives(i)
    BY <1>9
  <2>2. /\ UNCHANGED <<tile, cam, mic, owner, choices, remoteActs>>
        /\ \/ Misses(i) \/ ScreenArrives(i) \/ LayerArrives(i) \/ CameraArrives(i)
           \/ AudioArrives(i)
    BY <1>1, <2>1, ArrivalCases
  <2>3. mixed' \in BOOLEAN
    BY <1>1, <2>2
       DEF PeerTyped, Misses, ScreenArrives, LayerArrives, CameraArrives, AudioArrives
  <2>4. sound' \in {"none", "blocked", "playing"} /\ offered' \in BOOLEAN
    BY <1>1, <2>2
       DEF PeerTyped, Misses, ScreenArrives, LayerArrives, CameraArrives, AudioArrives, audio
  <2> QED BY <1>1, <2>2, <2>3, <2>4 DEF PeerTyped, choices
<1>10. CASE \E i \in 1 .. MaxTracks : Toggles(i) \/ Ends(i)
  BY <1>1, <1>2, <1>10 DEF PeerTyped, Toggles, Ends, choices, audio
<1>11. CASE \E x \in Speakers : Speaks(x) \/ FallsSilent(x)
  BY <1>1, <1>11 DEF PeerTyped, Speaks, FallsSilent, choices, audio
<1>12. CASE FlushTimer
  BY <1>1, <1>12 DEF PeerTyped, FlushTimer, choices, audio
<1>13. CASE LayerChanges
  BY <1>1, <1>2, <1>13 DEF PeerTyped, LayerChanges, choices, audio, Layers
<1>14. CASE ToggleReceive
  BY <1>1, <1>2, <1>14 DEF PeerTyped, ToggleReceive, audio
<1>15. CASE EnableAudio
  BY <1>1, <1>15 DEF PeerTyped, EnableAudio, choices
<1>16. CASE ToggleMicrophone
  <2>1. mic' \in [Speakers -> {"unknown", "on", "off"}]
    BY <1>1, <1>16 DEF PeerTyped, ToggleMicrophone
  <2> QED BY <1>1, <1>2, <1>16, <2>1 DEF PeerTyped, ToggleMicrophone, choices, audio
<1>17. CASE SwitchMicrophone
  BY <1>1, <1>2, <1>17 DEF PeerTyped, SwitchMicrophone, choices, audio
<1>18. CASE ResetRemote
  <2>1. offered' \in BOOLEAN /\ mixed' \in BOOLEAN /\ owner' \in Owners
    BY <1>18 DEF ResetRemote, Owners
  <2> QED BY <1>1, <1>2, <1>18, <2>1 DEF PeerTyped, ResetRemote, choices
<1> QED BY <1>3, <1>4, <1>5, <1>6, <1>7, <1>8, <1>9, <1>10, <1>11, <1>12, <1>13, <1>14, <1>15,
           <1>16, <1>17, <1>18 DEF RemoteNext

\* The view has the two videos at most.
LEMMA VisibleIsTyped ==
  Visible \subseteq {"camera", "screen"}
BY DEF Visible

\* NoLayers is the one function without a layer.
LEMMA NoLayersIsTyped ==
  /\ NoLayers \in [Layers -> Numbers]
  /\ \A l \in Layers : NoLayers[l] = 0
  /\ \A f \in [Layers -> Numbers] : (\A l \in Layers : f[l] = 0) => f = NoLayers
<1>1. 0 \in Numbers
  BY RemoteMediaAssumptions DEF Numbers
<1> QED BY <1>1 DEF NoLayers

\* What the videos depend on.
shown == <<tile, cam, recv, prefer, owner, tracks, videos, view, mixed>>

\* A step that touches none of it.
LEMMA OthersAreSeen ==
  ASSUME VideosInv, UNCHANGED shown
  PROVE  VideosInv'
<1> USE DEF shown, videos
<1>1. VideosTyped'
  BY DEF VideosInv, VideosTyped
<1>2. InOrder' /\ Gone' /\ ScreenIsKept'
  BY DEF VideosInv, InOrder, Gone, ScreenIsKept, Current, Live
<1>3. Bound'
  BY DEF VideosInv, Bound, Arrived, Live
<1>4. ViewIsCurrent'
  BY DEF VideosInv, ViewIsCurrent, Visible, Live
<1>5. LayerIsBest'
  BY SMTT(30) DEF VideosInv, LayerIsBest, States, Select
<1> QED BY <1>1, <1>2, <1>3, <1>4, <1>5 DEF VideosInv

\* Nobody is current who is not there, nor is a layer.
LEMMA GoneHasNothing ==
  ASSUME VideosInv, tile # "shown"
  PROVE  /\ \A i \in DOMAIN tracks : ~Current(i)
         /\ \A l \in Layers : layers[l] # 0 => tracks[layers[l]].old
<1>1. Gone /\ Bound
  BY DEF VideosInv
<1>2. \A i \in DOMAIN tracks : tracks[i].role # "foreign" => tracks[i].old
  BY <1>1 DEF Gone
<1>3. \A i \in DOMAIN tracks : ~Current(i)
  BY <1>2 DEF Current, Screens
<1>4. \A l \in Layers : layers[l] # 0 => layers[l] \in DOMAIN tracks /\ tracks[layers[l]].role = l
  BY <1>1 DEF Bound, Arrived
<1> QED BY <1>2, <1>3, <1>4 DEF Layers

\* addParticipant: no track of before is current.
LEMMA JoiningIsSeen ==
  ASSUME VideosInv, Joins
  PROVE  VideosInv'
<1>1. /\ VideosTyped /\ InOrder /\ Bound /\ Gone /\ ScreenIsKept
  BY DEF VideosInv
<1>2. /\ tile # "shown" /\ tile' = "shown" /\ picture' = 0 /\ view' = Visible'
      /\ tracks' = tracks /\ layers' = layers /\ owner' = owner /\ mixed' = mixed
      /\ screen' = IF tile = "none" THEN [screen EXCEPT !.src = 0] ELSE screen
  BY DEF Joins, ShowNow
<1>3. 0 \in Numbers
  BY RemoteMediaAssumptions DEF Numbers
<1>4. /\ screen' \in [entry : Numbers, src : Numbers] /\ screen'.entry = screen.entry
      /\ screen'.src \in {0, screen.src}
  BY <1>1, <1>2, <1>3 DEF VideosTyped
<1>5. Visible' \subseteq {"camera", "screen"}
  BY DEF Visible
<1>6. VideosTyped'
  BY <1>1, <1>2, <1>3, <1>4, <1>5 DEF VideosTyped
<1>7. InOrder' /\ Gone'
  BY <1>1, <1>2 DEF InOrder, Gone
<1>8. Bound'
  BY <1>1, <1>2, <1>4 DEF Bound, Arrived, Live
<1>9. \A i \in DOMAIN tracks : ~Current(i)
  BY <1>2, GoneHasNothing
<1>10. ScreenIsKept'
  BY <1>2, <1>9 DEF ScreenIsKept, Current, Live
<1>11. ViewIsCurrent'
  BY <1>2 DEF ViewIsCurrent
<1>12. \A l \in Layers : layers[l] # 0 => tracks[layers[l]].old
  BY <1>2, GoneHasNothing
<1>13. LayerIsBest'
  BY <1>2, <1>12 DEF LayerIsBest
<1> QED BY <1>6, <1>7, <1>8, <1>10, <1>11, <1>13 DEF VideosInv

\* The tile is removed.
LEMMA RemovalIsSeen ==
  ASSUME VideosInv, Removed
  PROVE  VideosInv'
<1>1. /\ VideosTyped /\ InOrder /\ Bound /\ Gone
  BY DEF VideosInv
<1>2. /\ tile # "shown" /\ tile' = "none" /\ picture' = 0 /\ view' = {}
      /\ tracks' = tracks /\ layers' = NoLayers /\ owner' = owner /\ mixed' = mixed
      /\ screen' = [screen EXCEPT !.src = 0]
  BY DEF Removed
<1>3. 0 \in Numbers
  BY RemoteMediaAssumptions DEF Numbers
<1>4. /\ screen' \in [entry : Numbers, src : Numbers]
      /\ screen'.entry = screen.entry /\ screen'.src = 0
  BY <1>1, <1>2, <1>3 DEF VideosTyped
<1>5. layers' \in [Layers -> Numbers] /\ (\A l \in Layers : layers'[l] = 0)
  BY <1>2, NoLayersIsTyped
<1>6. VideosTyped'
  BY <1>1, <1>2, <1>3, <1>4, <1>5 DEF VideosTyped, NoLayers
<1>7. InOrder' /\ Gone'
  BY <1>1, <1>2 DEF InOrder, Gone
<1>8. Bound'
  BY <1>1, <1>2, <1>4, <1>5 DEF Bound, Arrived
<1>9. \A i \in DOMAIN tracks : ~Current(i)
  BY <1>2, GoneHasNothing
<1>10. ScreenIsKept'
  BY <1>2, <1>9 DEF ScreenIsKept, Current, Live
<1>11. ViewIsCurrent' /\ LayerIsBest'
  BY <1>2 DEF ViewIsCurrent, LayerIsBest
<1> QED BY <1>6, <1>7, <1>8, <1>10, <1>11 DEF VideosInv

\* resetMediaConnection: nothing is left.
LEMMA ResetIsSeen ==
  ASSUME VideosInv, ResetRemote
  PROVE  VideosInv'
<1>1. /\ tile' = "none" /\ picture' = 0 /\ view' = {} /\ tracks' = <<>> /\ layers' = NoLayers
      /\ owner' = "none" /\ screen' = [entry |-> 0, src |-> 0]
  BY DEF ResetRemote
<1>2. 0 \in Numbers /\ MaxTracks \in Nat
  BY RemoteMediaAssumptions DEF Numbers
<1>3. layers' \in [Layers -> Numbers] /\ (\A l \in Layers : layers'[l] = 0)
  BY <1>1, NoLayersIsTyped
<1>4. tracks' \in Seq(Tracks) /\ Len(tracks') = 0 /\ DOMAIN tracks' = {}
  BY <1>1
<1>5. VideosTyped'
  BY <1>1, <1>2, <1>3, <1>4 DEF VideosTyped, NoLayers
<1>6. InOrder' /\ Gone' /\ ScreenIsKept'
  BY <1>1, <1>4 DEF InOrder, Gone, ScreenIsKept
<1>7. Bound'
  BY <1>1, <1>3 DEF Bound, Arrived
<1>8. ViewIsCurrent' /\ LayerIsBest'
  BY <1>1 DEF ViewIsCurrent, LayerIsBest
<1> QED BY <1>5, <1>6, <1>7, <1>8 DEF VideosInv

\* The tracks are the ones there were, but that the server may have lost some.
Alike ==
  /\ tracks' \in Seq(Tracks) /\ Len(tracks') = Len(tracks) /\ DOMAIN tracks' = DOMAIN tracks
  /\ \A j \in DOMAIN tracks : /\ tracks'[j].role = tracks[j].role
                              /\ tracks'[j].state = tracks[j].state
                              /\ tracks[j].old => tracks'[j].old

\* Abandoned leaves the tracks alike.
LEMMA AbandonedAreAlike ==
  ASSUME VideosInv, NEW some, tracks' = Abandoned(some)
  PROVE  Alike /\ \A j \in DOMAIN tracks : tracks'[j].old = (tracks[j].old \/ j \in some)
<1>1. tracks \in Seq(Tracks)
  BY DEF VideosInv, VideosTyped
<1>2. /\ tracks' \in Seq(Tracks) /\ Len(tracks') = Len(tracks) /\ DOMAIN tracks' = DOMAIN tracks
      /\ \A j \in DOMAIN tracks : /\ tracks'[j].role = tracks[j].role
                                  /\ tracks'[j].state = tracks[j].state
                                  /\ tracks'[j].old = (tracks[j].old \/ j \in some)
  BY <1>1, TracksAbandoned
<1> QED BY <1>2 DEF Alike

\* So does a step that leaves them.
LEMMA SameAreAlike ==
  ASSUME VideosInv, tracks' = tracks
  PROVE  Alike
BY DEF VideosInv, VideosTyped, Alike

\* What was bound to tracks that are alike still is.
LEMMA AlikeStayBound ==
  ASSUME VideosInv, Alike
  PROVE  /\ InOrder'
         /\ \A i \in DOMAIN tracks :
              /\ Arrived(i) => i \in DOMAIN tracks' /\ tracks'[i].state \in {"live", "muted"}
              /\ Current(i)' => Current(i)
         /\ picture' = picture => Arrived(picture)' /\ (Live(picture)' <=> Live(picture))
         /\ layers' = layers => \A l \in Layers :
              /\ Arrived(layers[l])' /\ (layers[l] # 0 => tracks'[layers[l]].role = l)
         /\ screen'.entry \in {0, screen.entry} =>
              (screen'.entry # 0 => /\ screen'.entry \in DOMAIN tracks'
                                    /\ tracks'[screen'.entry].state \in {"live", "muted", "ended"})
<1>1. InOrder /\ Bound /\ VideosTyped
  BY DEF VideosInv
<1>2. InOrder'
  BY <1>1 DEF InOrder, Alike
<1>3. \A i \in DOMAIN tracks :
        /\ Arrived(i) => i \in DOMAIN tracks' /\ tracks'[i].state \in {"live", "muted"}
        /\ Current(i)' => Current(i)
  <2>1. \A i \in DOMAIN tracks : i # 0
    BY <1>1 DEF VideosTyped
  <2> QED BY <2>1 DEF Arrived, Current, Live, Alike
<1>4. picture' = picture => Arrived(picture)' /\ (Live(picture)' <=> Live(picture))
  BY <1>1 DEF Bound, Arrived, Live, Alike
<1>5. layers' = layers => \A l \in Layers :
        /\ Arrived(layers[l])' /\ (layers[l] # 0 => tracks'[layers[l]].role = l)
  BY <1>1 DEF Bound, Arrived, Live, Alike
<1>6. screen'.entry \in {0, screen.entry} =>
        (screen'.entry # 0 => /\ screen'.entry \in DOMAIN tracks'
                              /\ tracks'[screen'.entry].state \in {"live", "muted", "ended"})
  BY <1>1 DEF Bound, Alike
<1> QED BY <1>2, <1>3, <1>4, <1>5, <1>6

\* The selection changes only with the layers, the choice and their states.
LEMMA SelectStays ==
  ASSUME VideosTyped, layers' = layers, prefer' = prefer,
         \A l \in Layers : layers[l] # 0 => States'[layers[l]] = States[layers[l]]
  PROVE  Select(layers, prefer, States)' = Select(layers, prefer, States)
<1>1. PICK s1 : s1 = States
  OBVIOUS
<1>2. PICK s2 : s2 = States'
  OBVIOUS
<1>3. layers \in [Layers -> Numbers]
  BY DEF VideosTyped
<1>4. Select(layers, prefer, s2) = Select(layers, prefer, s1)
  BY <1>1, <1>2, <1>3, SelectDepends
<1>5. Select(layers, prefer, States)' = Select(layers', prefer', States')
  BY DEF Select
<1> QED BY <1>1, <1>2, <1>4, <1>5

\* The best layer of tracks that are alike is the same.
LEMMA AlikeLayers ==
  ASSUME VideosInv, Alike, layers' = layers, prefer' = prefer, picture' = picture,
         tile' = "shown" => tile = "shown"
  PROVE  LayerIsBest'
<1>1. VideosTyped /\ Bound /\ LayerIsBest
  BY DEF VideosInv
<1>2. \A l \in Layers : layers[l] # 0 => layers[l] \in DOMAIN tracks
  BY <1>1 DEF Bound, Arrived
<1>3. \A l \in Layers : layers[l] # 0 => States'[layers[l]] = States[layers[l]]
  BY <1>2 DEF States, Alike
<1>4. Select(layers, prefer, States)' = Select(layers, prefer, States)
  BY <1>1, <1>3, SelectStays
<1>6. ASSUME tile' = "shown", NEW l \in Layers, layers[l] # 0, ~tracks'[layers[l]].old
      PROVE  picture' = Select(layers, prefer, States)'
  <2>1. ~tracks[layers[l]].old
    BY <1>2, <1>6 DEF Alike
  <2>2. picture = Select(layers, prefer, States)
    BY <1>1, <1>6, <2>1 DEF LayerIsBest
  <2> QED BY <1>4, <2>2
<1> QED BY <1>6 DEF LayerIsBest

\* participant_left: all that the participant sent is old.
LEMMA LeavingIsSeen ==
  ASSUME VideosInv, Leaves
  PROVE  VideosInv'
<1>1. /\ VideosTyped /\ Bound /\ Gone /\ ViewIsCurrent
  BY DEF VideosInv
<1>2. /\ tile = "shown" /\ tile' = "leaving" /\ picture' = picture /\ layers' = NoLayers
      /\ tracks' = Abandoned({i \in DOMAIN tracks : tracks[i].role # "foreign"})
      /\ owner' = (IF owner = "p" THEN "none" ELSE owner)
      /\ screen' = [screen EXCEPT !.entry = 0] /\ cam' = cam /\ recv' = recv
      /\ IF owner = "p" THEN ShowNow ELSE UNCHANGED view
  BY DEF Leaves, choices
<1>3. Alike /\ \A j \in DOMAIN tracks : tracks[j].role # "foreign" => tracks'[j].old
  BY <1>2, AbandonedAreAlike
<1>4. 0 \in Numbers
  BY RemoteMediaAssumptions DEF Numbers
<1>5. screen' \in [entry : Numbers, src : Numbers] /\ screen'.entry = 0 /\ screen'.src = screen.src
  BY <1>1, <1>2, <1>4 DEF VideosTyped
<1>6. layers' \in [Layers -> Numbers] /\ (\A l \in Layers : layers'[l] = 0)
  BY <1>2, NoLayersIsTyped
<1>7. view' \subseteq {"camera", "screen"}
  BY <1>1, <1>2, VisibleIsTyped DEF ShowNow, VideosTyped, Visible
<1>8. VideosTyped'
  BY <1>1, <1>2, <1>3, <1>5, <1>6, <1>7 DEF VideosTyped, Alike
<1>9. InOrder' /\ Arrived(picture)' /\ (Live(picture)' <=> Live(picture))
  BY <1>2, <1>3, AlikeStayBound
<1>10. Gone'
  BY <1>2, <1>3 DEF Gone, Alike
<1>11. Arrived(screen.src)'
  BY <1>1, <1>3, <1>5 DEF Bound, Arrived, Live, Alike
<1>12. Bound'
  BY <1>5, <1>6, <1>9, <1>11 DEF Bound, Arrived
<1>13. ScreenIsKept'
  BY <1>3 DEF ScreenIsKept, Current, Screens, Alike
<1>14. ViewIsCurrent'
  <2>1. CASE owner = "p"
    BY <1>2, <2>1 DEF ViewIsCurrent, ShowNow
  <2>2. CASE owner # "p"
    <3>1. view' = view /\ owner' = owner
      BY <1>2, <2>2
    <3> QED BY <1>1, <1>2, <1>5, <1>9, <3>1 DEF ViewIsCurrent, Visible
  <2> QED BY <2>1, <2>2
<1>15. LayerIsBest'
  BY <1>2 DEF LayerIsBest
<1> QED BY <1>8, <1>9, <1>10, <1>12, <1>13, <1>14, <1>15 DEF VideosInv

\* media_state and the choice to receive: only the view follows.
LEMMA LookingAgain ==
  ASSUME VideosInv, UNCHANGED <<tile, prefer, owner, tracks, videos, mixed>>,
         IF tile # "none" THEN ShowNow ELSE UNCHANGED view
  PROVE  VideosInv'
<1> USE DEF videos
<1>1. view' \subseteq {"camera", "screen"} /\ (tile = "none" => view' = view)
  BY DEF ShowNow, Visible, VideosInv, VideosTyped
<1>2. VideosTyped'
  BY <1>1 DEF VideosInv, VideosTyped
<1>3. InOrder' /\ Gone' /\ ScreenIsKept'
  BY DEF VideosInv, InOrder, Gone, ScreenIsKept, Current, Live
<1>4. Bound'
  BY DEF VideosInv, Bound, Arrived, Live
<1>5. ViewIsCurrent'
  BY DEF ViewIsCurrent, ShowNow
<1>6. LayerIsBest'
  BY SameAreAlike, AlikeLayers
<1> QED BY <1>2, <1>3, <1>4, <1>5, <1>6 DEF VideosInv


\* What screen_share_state leaves in the screen video did not end.
SharesKeep(o) ==
  /\ screen' \in [entry : Numbers, src : Numbers]
  /\ screen'.entry \in {0, screen.entry}
  /\ \/ screen'.src \in {0, screen.src}
     \/ screen'.src = screen.entry /\ screen.entry # 0 /\ tracks[screen.entry].state # "ended"
        /\ tile # "none"
  /\ \A i \in DOMAIN tracks :
       Live(i) /\ screen.entry = i /\ (owner = "p" => screen.src = i)
         => screen'.entry = i /\ (o = "p" => screen'.src = i)

\* screen_share_state in the three cases of Shares.
LEMMA SharesIsKept ==
  ASSUME VideosTyped, NEW o \in Owners, o # owner, o = "p" => tile = "shown", screen' = Shares(o)
  PROVE  SharesKeep(o)
<1>1. screen \in [entry : Numbers, src : Numbers] /\ 0 \in Numbers
  BY RemoteMediaAssumptions DEF VideosTyped, Numbers
<1> DEFINE e == screen.entry
<1>2. e \in Numbers /\ screen.src \in Numbers
  BY <1>1
<1>3. CASE owner = "p" /\ o # "p"
  <2>1. screen' = IF e = 0 \/ screen.src # e THEN screen
                  ELSE [src |-> 0, entry |-> IF tracks[e].state = "ended" THEN 0 ELSE e]
    BY <1>3, Zenon DEF Shares
  <2>2. CASE e = 0 \/ screen.src # e
    <3>1. screen' = screen
      BY <2>1, <2>2
    <3> QED BY <1>1, <1>3, <3>1 DEF SharesKeep, Live
  <2>3. CASE e # 0 /\ screen.src = e
    <3>1. PICK k : k = IF tracks[e].state = "ended" THEN 0 ELSE e
      OBVIOUS
    <3>2. screen' = [src |-> 0, entry |-> k] /\ k \in {0, e}
      BY <2>1, <2>3, <3>1
    <3>3. screen'.entry = k /\ screen'.src = 0 /\ screen' \in [entry : Numbers, src : Numbers]
      BY <1>1, <1>2, <3>2
    <3> QED BY <1>3, <3>1, <3>2, <3>3 DEF SharesKeep, Live
  <2> QED BY <2>2, <2>3
<1>4. CASE o = "p" /\ e # 0
  <2>1. screen' = IF tracks[e].state = "ended" THEN [screen EXCEPT !.entry = 0]
                  ELSE IF tile = "none" THEN screen
                  ELSE [screen EXCEPT !.src = e]
    BY <1>4, Zenon DEF Shares
  <2>2. CASE tracks[e].state = "ended"
    <3>1. screen' = [screen EXCEPT !.entry = 0]
      BY <2>1, <2>2
    <3>2. screen' \in [entry : Numbers, src : Numbers] /\ screen'.entry = 0
          /\ screen'.src = screen.src
      BY <1>1, <3>1
    <3> QED BY <2>2, <3>2 DEF SharesKeep, Live
  <2>3. CASE tracks[e].state # "ended"
    <3>1. screen' = [screen EXCEPT !.src = e]
      BY <1>4, <2>1, <2>3
    <3>2. screen' \in [entry : Numbers, src : Numbers] /\ screen'.entry = e /\ screen'.src = e
      BY <1>1, <1>2, <3>1
    <3> QED BY <1>4, <2>3, <3>2 DEF SharesKeep, Live
  <2> QED BY <2>2, <2>3
<1>5. CASE ~(owner = "p" /\ o # "p") /\ ~(o = "p" /\ e # 0)
  <2>1. screen' = screen
    BY <1>5, Zenon DEF Shares
  <2> QED BY <1>1, <1>5, <2>1 DEF SharesKeep, Live
<1> QED BY <1>3, <1>4, <1>5

\* screen_share_state: the current screen is taken out or put in again.
LEMMA SharingIsSeen ==
  ASSUME VideosInv, NEW o \in Owners, OwnerChanges(o)
  PROVE  VideosInv'
<1>1. /\ VideosTyped /\ Bound /\ Gone /\ ScreenIsKept
  BY DEF VideosInv
<1>2. /\ o # owner /\ (o = "p" => tile = "shown") /\ owner' = o /\ screen' = Shares(o)
      /\ tile' = tile /\ layers' = layers /\ picture' = picture
      /\ prefer' = prefer /\ mixed' = mixed
      /\ IF tile # "none" THEN ShowNow ELSE UNCHANGED view
  BY DEF OwnerChanges, choices
<1>3. Alike
  <2>1. \E some : tracks' = Abandoned(some)
    BY DEF OwnerChanges
  <2> QED BY <2>1, AbandonedAreAlike
<1>4. SharesKeep(o)
  BY <1>1, <1>2, SharesIsKept
<1>5. view' \subseteq {"camera", "screen"} /\ (tile = "none" => view' = view)
  BY <1>1, <1>2 DEF ShowNow, Visible, VideosTyped
<1>6. /\ screen' \in [entry : Numbers, src : Numbers] /\ screen'.entry \in {0, screen.entry}
      /\ tile = "none" => screen'.src = 0
  BY <1>1, <1>4 DEF SharesKeep, VideosTyped
<1>7. VideosTyped'
  BY <1>1, <1>2, <1>3, <1>5, <1>6 DEF VideosTyped, Alike
<1>8. /\ InOrder' /\ Arrived(picture)'
      /\ \A l \in Layers : /\ Arrived(layers[l])' /\ (layers[l] # 0 => tracks'[layers[l]].role = l)
      /\ screen'.entry # 0 => /\ screen'.entry \in DOMAIN tracks'
                              /\ tracks'[screen'.entry].state \in {"live", "muted", "ended"}
      /\ \A i \in DOMAIN tracks : Current(i)' => Current(i)
  BY <1>2, <1>3, <1>6, AlikeStayBound
<1>9. Arrived(screen.src)'
  <2>1. screen'.src # 0 =>
          screen'.src \in DOMAIN tracks /\ tracks[screen'.src].state \in {"live", "muted"}
    BY <1>1, <1>4 DEF SharesKeep, Bound, Arrived, Live
  <2> QED BY <1>3, <2>1 DEF Arrived, Live, Alike
<1>10. Bound'
  BY <1>2, <1>8, <1>9 DEF Bound
<1>11. Gone'
  BY <1>1, <1>2, <1>3 DEF Gone, Alike
<1>12. ScreenIsKept'
  <2> SUFFICES ASSUME ~mixed, NEW i \in DOMAIN tracks, Current(i)'
               PROVE  screen'.entry = i /\ (o = "p" => screen'.src = i)
    BY <1>2, <1>3 DEF ScreenIsKept, Alike
  <2>1. Current(i)
    BY <1>8
  <2>2. Live(i) /\ screen.entry = i /\ (owner = "p" => screen.src = i)
    BY <1>1, <2>1 DEF ScreenIsKept, Current
  <2> QED BY <1>4, <2>2 DEF SharesKeep
<1>13. ViewIsCurrent'
  BY <1>2 DEF ViewIsCurrent, ShowNow
<1>14. LayerIsBest'
  BY <1>2, <1>3, AlikeLayers
<1> QED BY <1>7, <1>8, <1>10, <1>11, <1>12, <1>13, <1>14 DEF VideosInv

\* A track is published in place of those of its kind.
LEMMA PublishingIsSeen ==
  ASSUME VideosInv, NEW role \in Roles, Published(role)
  PROVE  VideosInv'
<1>1. /\ VideosTyped /\ InOrder /\ Bound /\ Gone /\ ScreenIsKept /\ ViewIsCurrent /\ LayerIsBest
  BY DEF VideosInv
<1> DEFINE t == [role |-> role, state |-> "coming", old |-> FALSE]
<1>2. PICK us : us = Abandoned({i \in DOMAIN tracks : SameKind(role, tracks[i].role)})
  OBVIOUS
<1>3. /\ us \in Seq(Tracks) /\ Len(us) = Len(tracks) /\ DOMAIN us = DOMAIN tracks
      /\ \A j \in DOMAIN tracks : /\ us[j].role = tracks[j].role
                                  /\ us[j].state = tracks[j].state
                                  /\ us[j].old = (tracks[j].old \/ SameKind(role, tracks[j].role))
  <2>1. tracks \in Seq(Tracks)
    BY <1>1 DEF VideosTyped
  <2> QED BY <1>2, <2>1, TracksAbandoned
<1>4. tracks' = Append(us, t)
  BY <1>2 DEF Published
<1>5. t \in Tracks
  BY DEF Tracks, TrackStates
<1> DEFINE n == Len(tracks) + 1
<1>6. /\ tracks' \in Seq(Tracks) /\ Len(tracks') = n /\ Len(tracks) \in Nat
      /\ DOMAIN tracks' = 1 .. n /\ DOMAIN tracks = 1 .. Len(tracks)
      /\ tracks'[n] = t /\ \A j \in DOMAIN tracks : tracks'[j] = us[j]
  BY <1>3, <1>4, <1>5, TrackAppended
<1>7. /\ \A j \in DOMAIN tracks : /\ tracks'[j].role = tracks[j].role
                                  /\ tracks'[j].state = tracks[j].state
                                  /\ tracks[j].old => tracks'[j].old
                                  /\ SameKind(role, tracks[j].role) => tracks'[j].old
      /\ tracks'[n].role = role /\ tracks'[n].state = "coming"
  <2>1. t.role = role /\ t.state = "coming"
    OBVIOUS
  <2> HIDE DEF t, n
  <2> QED BY <1>3, <1>6, <2>1
<1>8. /\ UNCHANGED <<tile, owner, cam, recv, prefer, screen, layers, picture, view, mixed>>
      /\ Len(tracks) < MaxTracks /\ (role # "foreign" => tile = "shown")
  BY DEF Published, videos, choices
<1> HIDE DEF t, n
<1>9. n = Len(tracks) + 1 /\ \A j \in DOMAIN tracks' : j \in DOMAIN tracks \/ j = n
  BY <1>6 DEF n
<1>10. VideosTyped'
  <2>1. n <= MaxTracks
    BY <1>6, <1>8, <1>9, RemoteMediaAssumptions
  <2> QED BY <1>1, <1>6, <1>8, <2>1 DEF VideosTyped
<1>11. InOrder'
  <2> SUFFICES ASSUME NEW i \in DOMAIN tracks', NEW j \in DOMAIN tracks', i < j
               PROVE  /\ tracks'[i].state = "coming" => tracks'[j].state = "coming"
                      /\ tracks'[i].role \in Screens /\ tracks'[j].role \in Screens
                           => tracks'[i].old
    BY DEF InOrder
  <2>1. i \in DOMAIN tracks
    BY <1>6, <1>9
  <2>2. CASE j \in DOMAIN tracks
    BY <1>1, <1>7, <2>1, <2>2 DEF InOrder
  <2>3. CASE j = n
    <3>1. tracks[i].role \in Screens /\ role \in Screens => SameKind(role, tracks[i].role)
      BY DEF SameKind
    <3> QED BY <1>7, <2>1, <2>3, <3>1
  <2> QED BY <1>9, <2>2, <2>3
<1>12. \A j \in DOMAIN tracks : j \in DOMAIN tracks'
  BY <1>6, <1>9
<1>13. Bound'
  BY <1>1, <1>7, <1>8, <1>12 DEF Bound, Arrived, Live
<1>14. Gone'
  BY <1>1, <1>7, <1>8, <1>9 DEF Gone
<1>15. ScreenIsKept'
  <2> SUFFICES ASSUME ~mixed, NEW i \in DOMAIN tracks', Current(i)'
               PROVE  screen.entry = i /\ (owner = "p" => screen.src = i)
    BY <1>8 DEF ScreenIsKept
  <2>1. i \in DOMAIN tracks
    BY <1>7, <1>9 DEF Current, Live
  <2>2. Current(i)
    <3>1. Live(i)' /\ tracks'[i].role \in Screens /\ ~tracks'[i].old
      BY DEF Current
    <3> QED BY <1>7, <2>1, <3>1 DEF Current, Live
  <2> QED BY <1>1, <2>1, <2>2 DEF ScreenIsKept
<1>16. ViewIsCurrent'
  <2>1. Live(picture)' <=> Live(picture)
    BY <1>1, <1>7, <1>8 DEF Bound, Arrived, Live
  <2> QED BY <1>1, <1>8, <2>1 DEF ViewIsCurrent, Visible
<1>17. LayerIsBest'
  <2>1. \A l \in Layers : layers[l] # 0 => layers[l] \in DOMAIN tracks
    BY <1>1 DEF Bound, Arrived
  <2>2. \A l \in Layers : layers[l] # 0 => States'[layers[l]] = States[layers[l]]
    BY <1>7, <1>12, <2>1 DEF States
  <2>3. Select(layers, prefer, States)' = Select(layers, prefer, States)
    BY <1>1, <1>8, <2>2, SelectStays
  <2>5. ASSUME tile' = "shown", NEW l \in Layers, layers'[l] # 0, ~tracks'[layers'[l]].old
        PROVE  picture' = Select(layers, prefer, States)'
    <3>1. ~tracks[layers[l]].old
      BY <1>7, <1>8, <2>1, <2>5
    <3>2. picture = Select(layers, prefer, States)
      BY <1>1, <1>8, <2>5, <3>1 DEF LayerIsBest
    <3> QED BY <1>8, <2>3, <3>2
  <2> QED BY <2>5 DEF LayerIsBest
<1> QED BY <1>10, <1>11, <1>13, <1>14, <1>15, <1>16, <1>17 DEF VideosInv

\* One track has another state.
Turns(i, v) ==
  /\ tracks' \in Seq(Tracks) /\ Len(tracks') = Len(tracks) /\ DOMAIN tracks' = DOMAIN tracks
  /\ i \in DOMAIN tracks /\ i # 0 /\ i \in Numbers
  /\ \A j \in DOMAIN tracks : /\ tracks'[j].role = tracks[j].role /\ tracks'[j].old = tracks[j].old
                              /\ tracks'[j].state = IF j = i THEN v ELSE tracks[j].state

\* The tracks of ontrack, mute, unmute and ended.
LEMMA TurnsIt ==
  ASSUME VideosTyped, NEW i \in DOMAIN tracks, NEW v \in TrackStates,
         tracks' = [tracks EXCEPT ![i].state = v]
  PROVE  Turns(i, v)
<1>1. tracks \in Seq(Tracks) /\ Len(tracks) <= MaxTracks
  BY DEF VideosTyped
<1>2. i # 0 /\ i \in Numbers
  BY <1>1, RemoteMediaAssumptions DEF Numbers
<1>3. /\ tracks' \in Seq(Tracks) /\ Len(tracks') = Len(tracks) /\ DOMAIN tracks' = DOMAIN tracks
      /\ \A j \in DOMAIN tracks :
           /\ tracks'[j].role = tracks[j].role /\ tracks'[j].old = tracks[j].old
           /\ tracks'[j].state = IF j = i THEN v ELSE tracks[j].state
  <2>1. PICK ts : ts = tracks
    OBVIOUS
  <2>2. PICK us : us = tracks'
    OBVIOUS
  <2>3. ts \in Seq(Tracks) /\ i \in DOMAIN ts /\ us = [ts EXCEPT ![i].state = v]
    BY <1>1, <2>1, <2>2
  <2>4. /\ us \in Seq(Tracks) /\ Len(us) = Len(ts) /\ DOMAIN us = DOMAIN ts
        /\ \A j \in DOMAIN ts : /\ us[j].role = ts[j].role /\ us[j].old = ts[j].old
                                 /\ us[j].state = IF j = i THEN v ELSE ts[j].state
    BY <2>3, TrackChanges, SMTT(30)
  <2> QED BY <2>1, <2>2, <2>4
<1> QED BY <1>2, <1>3 DEF Turns

\* Tracks stay in their order when the first that comes has arrived, or one ends.
LEMMA TurnsInOrder ==
  ASSUME VideosInv, NEW i, NEW v, Turns(i, v), v # "coming",
         tracks[i].state = "coming" => \A j \in 1 .. i - 1 : tracks[j].state # "coming"
  PROVE  InOrder'
<1>1. InOrder /\ DOMAIN tracks \subseteq Nat \ {0} /\ i \in DOMAIN tracks
  BY DEF VideosInv, VideosTyped, Turns
<1> SUFFICES ASSUME NEW j \in DOMAIN tracks, NEW k \in DOMAIN tracks, j < k
             PROVE  /\ tracks'[j].state = "coming" => tracks'[k].state = "coming"
                    /\ tracks'[j].role \in Screens /\ tracks'[k].role \in Screens => tracks'[j].old
  BY DEF InOrder, Turns
<1>2. /\ tracks[j].state = "coming" => tracks[k].state = "coming"
      /\ tracks[j].role \in Screens /\ tracks[k].role \in Screens => tracks[j].old
  BY <1>1 DEF InOrder
<1>3. tracks'[j].role \in Screens /\ tracks'[k].role \in Screens => tracks'[j].old
  BY <1>2 DEF Turns
<1>4. tracks'[j].state = "coming" => tracks'[k].state = "coming"
  <2>1. CASE k # i
    BY <1>2, <2>1 DEF Turns
  <2>2. CASE k = i
    <3>1. j \in 1 .. i - 1
      BY <1>1, <2>2
    <3>2. tracks[j].state # "coming"
      BY <1>2, <2>2, <3>1
    <3> QED BY <2>2, <3>1, <3>2 DEF Turns
  <2> QED BY <2>1, <2>2
<1> QED BY <1>3, <1>4

\* What was bound still is when a track arrives, is muted or goes on.
LEMMA TurnsStayBound ==
  ASSUME VideosInv, NEW i, NEW v, Turns(i, v),
         v \in {"live", "muted"} \/ tracks[i].state = "coming"
  PROVE  /\ \A j : j # 0 /\ Arrived(j) =>
                  j \in DOMAIN tracks' /\ tracks'[j].state \in {"live", "muted"}
         /\ picture' = picture => Arrived(picture)' /\ (Live(picture)' <=> Live(picture))
         /\ screen' = screen =>
              /\ Arrived(screen.src)'
              /\ screen'.entry # 0 => /\ screen'.entry \in DOMAIN tracks'
                                      /\ tracks'[screen'.entry].state \in {"live", "muted", "ended"}
         /\ layers' = layers =>
              \A l \in Layers : Arrived(layers[l])' /\ (layers'[l] # 0 => tracks'[layers'[l]].role = l)
<1>1. Bound
  BY DEF VideosInv
<1>2. \A j : j # 0 /\ Arrived(j) =>
                  j \in DOMAIN tracks' /\ tracks'[j].state \in {"live", "muted"}
  BY DEF Arrived, Live, Turns
<1>3. picture' = picture => Arrived(picture)' /\ (Live(picture)' <=> Live(picture))
  BY <1>1, <1>2 DEF Bound, Arrived, Live
<1>4. screen' = screen => Arrived(screen.src)'
  BY <1>1, <1>2 DEF Bound, Arrived, Live
<1>5. screen' = screen =>
        (screen'.entry # 0 => /\ screen'.entry \in DOMAIN tracks'
                              /\ tracks'[screen'.entry].state \in {"live", "muted", "ended"})
  BY <1>1 DEF Bound, Turns
<1>6. layers' = layers =>
        \A l \in Layers : Arrived(layers[l])' /\ (layers'[l] # 0 => tracks'[layers'[l]].role = l)
  BY <1>1, <1>2 DEF Bound, Arrived, Live, Turns
<1> QED BY <1>2, <1>3, <1>4, <1>5, <1>6

\* The rest of what a track that is no layer leaves alone.
LEMMA TurnsLayers ==
  ASSUME VideosInv, NEW i, NEW v, Turns(i, v), layers' = layers, prefer' = prefer, tile' = tile,
         \A l \in Layers : layers[l] # i,
         picture' = picture \/ (picture = i /\ picture' = 0)
  PROVE  LayerIsBest'
<1>1. VideosTyped /\ Bound /\ LayerIsBest
  BY DEF VideosInv
<1>2. \A l \in Layers : layers[l] # 0 => layers[l] \in DOMAIN tracks
  BY <1>1 DEF Bound, Arrived
<1>3. \A l \in Layers : layers[l] # 0 => States'[layers[l]] = States[layers[l]]
  BY <1>2 DEF States, Turns
<1>4. Select(layers, prefer, States)' = Select(layers, prefer, States)
  BY <1>1, <1>3, SelectStays
<1>5. Select(layers, prefer, States) # i
  <2>1. layers \in [Layers -> Numbers]
    BY <1>1 DEF VideosTyped
  <2>2. \/ Select(layers, prefer, States) = 0
        \/ \E l \in Layers : Select(layers, prefer, States) = layers[l]
    BY <2>1, SelectIsMapped
  <2> QED BY <2>2 DEF Turns
<1>6. ASSUME tile' = "shown", NEW l \in Layers, layers'[l] # 0, ~tracks'[layers'[l]].old
      PROVE  picture' = Select(layers, prefer, States)'
  <2>1. ~tracks[layers[l]].old
    BY <1>2, <1>6 DEF Turns
  <2>2. picture = Select(layers, prefer, States)
    BY <1>1, <1>6, <2>1 DEF LayerIsBest
  <2> QED BY <1>4, <1>5, <2>2
<1> QED BY <1>6 DEF LayerIsBest

\* A track that is selected did not end.
LEMMA SelectedArrived ==
  ASSUME layers' \in [Layers -> Numbers], \A l \in Layers : Arrived(layers[l])',
         picture' = Select(layers, prefer, States)'
  PROVE  picture' \in Numbers /\ Arrived(picture)'
<1>1. PICK m : m = layers'
  OBVIOUS
<1>2. PICK s : s = States'
  OBVIOUS
<1>3. picture' = Select(m, prefer', s)
  BY <1>1, <1>2 DEF Select
<1>4. m \in [Layers -> Numbers] /\ 0 \in Numbers
  BY <1>1, RemoteMediaAssumptions DEF Numbers
<1>5. \/ picture' = 0
      \/ \E l \in Layers : m[l] # 0 /\ picture' = m[l] /\ s[m[l]] \in {"live", "muted"}
  BY <1>3, <1>4, SelectIsMapped
<1> QED BY <1>1, <1>4, <1>5 DEF Arrived

\* showSelectedRemoteCamera.
LEMMA CameraShown ==
  ASSUME ShowCamera
  PROVE  /\ tile' # "none" /\ layers' # NoLayers => picture' = Select(layers, prefer, States)'
         /\ tile' = "none" \/ layers' = NoLayers => picture' = picture
<1>1. Select(layers, prefer, States)' = Select(layers', prefer', States')
  BY DEF Select
<1> QED BY <1>1 DEF ShowCamera

\* A track that comes is bound to nothing.
LEMMA ComingIsFree ==
  ASSUME Bound, NEW i, i # 0, tracks[i].state = "coming"
  PROVE  picture # i /\ screen.src # i /\ \A l \in Layers : layers[l] # i
BY DEF Bound, Arrived, Live

\* The screens that the server has, when another track has another state.
LEMMA TurnsScreens ==
  ASSUME VideosInv, NEW i, NEW v, Turns(i, v),
         v \in {"live", "muted"} => Live(i) \/ tracks[i].role \notin Screens,
         screen' = screen, owner' = owner, mixed' = mixed
  PROVE  ScreenIsKept'
<1>1. ScreenIsKept
  BY DEF VideosInv
<1>2. \A j \in DOMAIN tracks : Current(j)' => Current(j)
  BY DEF Current, Live, Turns
<1> QED BY <1>1, <1>2 DEF ScreenIsKept, Turns

\* The view stays true if all it depends on stays.
LEMMA VisibleStays ==
  ASSUME VideosInv, UNCHANGED <<tile, cam, recv, owner, view>>, screen'.src = screen.src,
         Live(picture)' <=> Live(picture)
  PROVE  ViewIsCurrent'
BY DEF VideosInv, ViewIsCurrent, Visible

\* updateParticipantVideoVisibility makes it true.
LEMMA ViewNow ==
  ASSUME ShowNow
  PROVE  ViewIsCurrent' /\ view' \subseteq {"camera", "screen"}
<1>1. Visible' \subseteq {"camera", "screen"}
  BY DEF Visible
<1> QED BY <1>1 DEF ViewIsCurrent, ShowNow

\* ontrack, case by case.
LEMMA ArrivalIsSeen ==
  ASSUME VideosInv, NEW i, TrackArrives(i)
  PROVE  VideosInv'
<1>1. VideosTyped /\ InOrder /\ Bound /\ Gone /\ ScreenIsKept
  BY DEF VideosInv
<1>2. /\ i \in DOMAIN tracks /\ tracks[i].state = "coming"
      /\ \A j \in 1 .. i - 1 : tracks[j].state # "coming"
      /\ UNCHANGED <<tile, cam, mic, owner, choices, remoteActs>>
      /\ \/ Misses(i) \/ ScreenArrives(i) \/ LayerArrives(i) \/ CameraArrives(i)
         \/ AudioArrives(i)
  BY <1>1, ArrivalCases
<1>3. PICK v \in {"missed", "live"} : tracks' = [tracks EXCEPT ![i].state = v]
  BY <1>2 DEF Misses, ScreenArrives, LayerArrives, CameraArrives, AudioArrives
<1>4. Turns(i, v) /\ v # "coming"
  BY <1>1, <1>2, <1>3, TurnsIt DEF TrackStates
<1>5. InOrder'
  BY <1>2, <1>4, TurnsInOrder
<1>6. Gone'
  BY <1>1, <1>2, <1>4 DEF Gone, Turns
<1>7. i # 0 /\ i \in Numbers
  BY <1>4 DEF Turns
<1>8. picture # i /\ screen.src # i /\ \A l \in Layers : layers[l] # i
  BY <1>1, <1>2, <1>7, ComingIsFree
<1>9. /\ \A j : j # 0 /\ Arrived(j) =>
                  j \in DOMAIN tracks' /\ tracks'[j].state \in {"live", "muted"}
      /\ picture' = picture => Arrived(picture)' /\ (Live(picture)' <=> Live(picture))
      /\ screen' = screen =>
           /\ Arrived(screen.src)'
           /\ screen'.entry # 0 => /\ screen'.entry \in DOMAIN tracks'
                                   /\ tracks'[screen'.entry].state \in {"live", "muted", "ended"}
      /\ layers' = layers =>
           \A l \in Layers : Arrived(layers[l])' /\ (layers'[l] # 0 => tracks'[layers'[l]].role = l)
  BY <1>2, <1>4, TurnsStayBound
<1>10. prefer' = prefer /\ recv' = recv
  BY <1>2 DEF choices
<1>11. CASE Misses(i) \/ AudioArrives(i)
  <2>1. UNCHANGED <<videos, view, mixed>>
    BY <1>11 DEF Misses, AudioArrives
  <2>2. screen' = screen /\ layers' = layers /\ picture' = picture /\ view' = view /\ mixed' = mixed
    BY <2>1 DEF videos
  <2>3. VideosTyped'
    BY <1>1, <1>2, <1>4, <2>2 DEF VideosTyped, Turns
  <2>4. Bound'
    BY <1>9, <2>2 DEF Bound
  <2>5. ScreenIsKept'
    <3>1. v \in {"live", "muted"} => tracks[i].role \notin Screens
      <4>1. CASE Misses(i)
        <5>1. tracks'[i].state = "missed"
          <6>1. Turns(i, "missed")
            BY <1>1, <1>2, <4>1, TurnsIt DEF Misses, TrackStates
          <6> QED BY <1>2, <6>1 DEF Turns
        <5>2. tracks'[i].state = v
          BY <1>2, <1>4 DEF Turns
        <5> QED BY <5>1, <5>2
      <4>2. CASE AudioArrives(i)
        BY <4>2 DEF AudioArrives, Screens
      <4> QED BY <1>11, <4>1, <4>2
    <3> QED BY <1>2, <1>4, <2>2, <3>1, TurnsScreens
  <2>6. ViewIsCurrent'
    BY <1>2, <1>9, <1>10, <2>2, VisibleStays
  <2>7. LayerIsBest'
    BY <1>2, <1>4, <1>8, <1>10, <2>2, TurnsLayers
  <2> QED BY <1>5, <1>6, <2>3, <2>4, <2>5, <2>6, <2>7 DEF VideosInv
<1>12. CASE ScreenArrives(i)
  <2>1. /\ screen' = [entry |-> i, src |-> i] /\ mixed' = (tracks[i].role = "foreign")
        /\ layers' = layers /\ picture' = picture /\ ShowNow /\ tile # "none"
        /\ tracks' = [tracks EXCEPT ![i].state = "live"] /\ IsScreenHere(tracks[i].role)
    BY <1>12 DEF ScreenArrives
  <2>2. Turns(i, "live")
    BY <1>1, <1>2, <2>1, TurnsIt DEF TrackStates
  <2>3. screen'.entry = i /\ screen'.src = i /\ screen' \in [entry : Numbers, src : Numbers]
    BY <1>7, <2>1
  <2>4. ViewIsCurrent' /\ view' \subseteq {"camera", "screen"}
    BY <2>1, ViewNow
  <2>5. VideosTyped'
    BY <1>1, <1>2, <1>4, <2>1, <2>3, <2>4 DEF VideosTyped, Turns
  <2>6. i \in DOMAIN tracks' /\ tracks'[i].state = "live"
    BY <2>2 DEF Turns
  <2>7. Bound'
    BY <1>9, <2>1, <2>3, <2>6 DEF Bound, Arrived, Live
  <2>8. ScreenIsKept'
    <3> SUFFICES ASSUME ~mixed', NEW j \in DOMAIN tracks, Current(j)' PROVE j = i
      BY <1>2, <2>2, <2>3 DEF ScreenIsKept, Turns
    <3>1. tracks[i].role \in Screens
      BY <2>1 DEF IsScreenHere, Screens
    <3>2. tracks'[j].role \in Screens /\ ~tracks'[j].old /\ tracks'[j].state \in {"live", "muted"}
      BY DEF Current, Live
    <3>3. ASSUME j # i PROVE FALSE
      <4>1. tracks[j].role \in Screens /\ ~tracks[j].old /\ tracks[j].state \in {"live", "muted"}
        BY <2>2, <3>2, <3>3 DEF Turns
      <4>2. j < i \/ i < j
        BY <1>1, <1>2, <3>3 DEF VideosTyped
      <4> QED BY <1>1, <1>2, <3>1, <4>1, <4>2 DEF InOrder
    <3> QED BY <3>3
  <2>9. LayerIsBest'
    BY <1>2, <1>4, <1>8, <1>10, <2>1, TurnsLayers
  <2> QED BY <1>5, <1>6, <2>4, <2>5, <2>7, <2>8, <2>9 DEF VideosInv
<1>13. CASE LayerArrives(i)
  <2> DEFINE r == tracks[i].role
  <2>1. /\ layers' = [layers EXCEPT ![r] = i] /\ ShowCamera /\ r \in Layers
        /\ screen' = screen /\ mixed' = mixed /\ ShowNow /\ tile # "none"
        /\ tracks' = [tracks EXCEPT ![i].state = "live"]
    BY <1>13 DEF LayerArrives
  <2>2. Turns(i, "live")
    BY <1>1, <1>2, <2>1, TurnsIt DEF TrackStates
  <2>3. i \in DOMAIN tracks' /\ tracks'[i].state = "live" /\ tracks'[i].role = r
    BY <2>2 DEF Turns
  <2>4. /\ layers' \in [Layers -> Numbers] /\ layers'[r] = i
        /\ \A l \in Layers : l # r => layers'[l] = layers[l]
    BY <1>1, <1>7, <2>1 DEF VideosTyped
  <2>5. \A l \in Layers : Arrived(layers[l])' /\ (layers'[l] # 0 => tracks'[layers'[l]].role = l)
    <3> SUFFICES ASSUME NEW l \in Layers
                 PROVE  Arrived(layers[l])' /\ (layers'[l] # 0 => tracks'[layers'[l]].role = l)
      OBVIOUS
    <3>1. CASE l = r
      BY <2>3, <2>4, <3>1 DEF Arrived, Live
    <3>2. CASE l # r
      <4>1. /\ layers'[l] = layers[l] /\ Arrived(layers[l])
            /\ layers[l] # 0 => tracks[layers[l]].role = l
        BY <1>1, <2>4, <3>2 DEF Bound
      <4> QED BY <1>4, <1>9, <4>1 DEF Arrived, Live, Turns
    <3> QED BY <3>1, <3>2
  <2>6. layers' # NoLayers
    BY <1>7, <2>1, <2>4, NoLayersIsTyped
  <2>7. picture' = Select(layers, prefer, States)'
    BY <1>2, <2>1, <2>6, CameraShown
  <2>8. picture' \in Numbers /\ Arrived(picture)'
    BY <2>4, <2>5, <2>7, SelectedArrived
  <2>9. ViewIsCurrent' /\ view' \subseteq {"camera", "screen"}
    BY <2>1, ViewNow
  <2>10. VideosTyped'
    BY <1>1, <1>2, <1>4, <2>1, <2>4, <2>8, <2>9 DEF VideosTyped, Turns
  <2>11. Bound'
    BY <1>9, <2>1, <2>5, <2>8 DEF Bound
  <2>12. ScreenIsKept'
    <3>1. r \notin Screens
      BY <2>1 DEF Layers, Screens
    <3> QED BY <1>2, <2>1, <2>2, <3>1, TurnsScreens
  <2>13. LayerIsBest'
    BY <2>7 DEF LayerIsBest
  <2> QED BY <1>5, <1>6, <2>9, <2>10, <2>11, <2>12, <2>13 DEF VideosInv
<1>14. CASE CameraArrives(i)
  <2>1. /\ picture' = i /\ tracks[i].role = "camera" /\ layers' = layers
        /\ screen' = screen /\ mixed' = mixed /\ ShowNow /\ tile # "none"
        /\ tracks' = [tracks EXCEPT ![i].state = "live"]
    BY <1>14 DEF CameraArrives
  <2>2. Turns(i, "live")
    BY <1>1, <1>2, <2>1, TurnsIt DEF TrackStates
  <2>3. i \in DOMAIN tracks' /\ tracks'[i].state = "live"
    BY <2>2 DEF Turns
  <2>4. ViewIsCurrent' /\ view' \subseteq {"camera", "screen"}
    BY <2>1, ViewNow
  <2>5. VideosTyped'
    BY <1>1, <1>2, <1>4, <1>7, <2>1, <2>4 DEF VideosTyped, Turns
  <2>6. Bound'
    BY <1>9, <2>1, <2>3 DEF Bound, Arrived, Live
  <2>7. ScreenIsKept'
    BY <1>2, <2>1, <2>2, TurnsScreens DEF Screens
  <2>8. \A l \in Layers : layers[l] = 0
    <3>1. \A j \in DOMAIN tracks : tracks[j].role \in Roles
      <4>1. \A j \in DOMAIN tracks : tracks[j] \in Tracks
        BY <1>1 DEF VideosTyped
      <4> QED BY <4>1 DEF Tracks
    <3>2. Roles \intersect Layers = {}
      BY <1>2, <2>1, <3>1, RemoteMediaAssumptions
    <3> QED BY <1>1, <3>1, <3>2 DEF Bound, Arrived
  <2>9. LayerIsBest'
    BY <2>1, <2>8 DEF LayerIsBest
  <2> QED BY <1>5, <1>6, <2>4, <2>5, <2>6, <2>7, <2>9 DEF VideosInv
<1> QED BY <1>2, <1>11, <1>12, <1>13, <1>14

\* A layer is bound under its own role.
LEMMA LayerHasItsRole ==
  ASSUME VideosInv, NEW i, i # 0, ~IsLayer(i)
  PROVE  \A l \in Layers : layers[l] # i
BY DEF VideosInv, Bound, IsLayer

\* A layer is bound only where there is a tile.
LEMMA LayersThere ==
  ASSUME VideosTyped, NEW i, i # 0, IsLayer(i)
  PROVE  layers # NoLayers /\ tile # "none"
BY NoLayersIsTyped DEF VideosTyped, IsLayer

\* mute and unmute: another layer may be the best.
LEMMA TogglingIsSeen ==
  ASSUME VideosInv, NEW i, Toggles(i)
  PROVE  VideosInv'
<1>1. VideosTyped /\ InOrder /\ Bound /\ Gone /\ ScreenIsKept
  BY DEF VideosInv
<1>2. /\ i \in DOMAIN tracks /\ Live(i) /\ UNCHANGED <<tile, cam, owner, screen, layers, mixed>>
      /\ recv' = recv /\ prefer' = prefer
      /\ IF IsLayer(i) THEN ShowCamera ELSE picture' = picture
      /\ IF IsLayer(i) /\ tile # "none" THEN ShowNow ELSE view' = view
  BY DEF Toggles, choices
<1>3. PICK v \in {"muted", "live"} : tracks' = [tracks EXCEPT ![i].state = v]
  BY DEF Toggles
<1>4. Turns(i, v) /\ v # "coming"
  BY <1>1, <1>2, <1>3, TurnsIt DEF TrackStates
<1>5. InOrder'
  BY <1>2, <1>4, TurnsInOrder DEF Live
<1>6. Gone'
  BY <1>1, <1>2, <1>4 DEF Gone, Turns
<1>7. ScreenIsKept'
  BY <1>2, <1>4, TurnsScreens
<1>8. /\ picture' = picture => Arrived(picture)' /\ (Live(picture)' <=> Live(picture))
      /\ Arrived(screen.src)'
      /\ screen'.entry # 0 => /\ screen'.entry \in DOMAIN tracks'
                              /\ tracks'[screen'.entry].state \in {"live", "muted", "ended"}
      /\ \A l \in Layers : Arrived(layers[l])' /\ (layers'[l] # 0 => tracks'[layers'[l]].role = l)
  BY <1>2, <1>4, TurnsStayBound
<1>9. i # 0 /\ layers' \in [Layers -> Numbers]
  BY <1>1, <1>2, <1>4 DEF Turns, VideosTyped
<1>10. CASE IsLayer(i)
  <2>1. layers # NoLayers /\ tile # "none"
    BY <1>1, <1>9, <1>10, LayersThere
  <2>2. layers' # NoLayers /\ tile' # "none" /\ ShowCamera /\ ShowNow
    BY <1>2, <1>10, <2>1
  <2>3. picture' = Select(layers, prefer, States)'
    BY <2>2, CameraShown DEF NoLayers
  <2>4. picture' \in Numbers /\ Arrived(picture)'
    BY <1>8, <1>9, <2>3, SelectedArrived
  <2>5. ViewIsCurrent' /\ view' \subseteq {"camera", "screen"}
    BY <2>2, ViewNow
  <2>6. VideosTyped'
    BY <1>1, <1>2, <1>4, <2>2, <2>4, <2>5 DEF VideosTyped, Turns
  <2>7. Bound'
    BY <1>8, <2>4 DEF Bound
  <2>8. LayerIsBest'
    BY <2>3 DEF LayerIsBest
  <2> QED BY <1>5, <1>6, <1>7, <2>5, <2>6, <2>7, <2>8 DEF VideosInv
<1>11. CASE ~IsLayer(i)
  <2>1. picture' = picture /\ view' = view
    BY <1>2, <1>11
  <2>2. VideosTyped'
    BY <1>1, <1>2, <1>4, <2>1 DEF VideosTyped, Turns
  <2>3. Bound'
    BY <1>8, <2>1 DEF Bound
  <2>4. ViewIsCurrent'
    BY <1>2, <1>8, <2>1, VisibleStays
  <2>5. LayerIsBest'
    BY <1>2, <1>4, <1>9, <1>11, <2>1, LayerHasItsRole, TurnsLayers
  <2> QED BY <1>5, <1>6, <1>7, <2>2, <2>3, <2>4, <2>5 DEF VideosInv
<1> QED BY <1>10, <1>11

\* What stays in the screen video when a track ends.
LEMMA EndingScreens ==
  ASSUME VideosInv, NEW i, i # 0, Turns(i, "ended"),
         screen' = IF screen.src = i THEN [screen EXCEPT !.src = 0,
                                                         !.entry = IF @ = i THEN 0 ELSE @]
                   ELSE screen
  PROVE  /\ screen' \in [entry : Numbers, src : Numbers]
         /\ screen'.src = (IF screen.src = i THEN 0 ELSE screen.src)
         /\ screen'.entry = (IF screen.src = i /\ screen.entry = i THEN 0 ELSE screen.entry)
<1>1. screen \in [entry : Numbers, src : Numbers] /\ 0 \in Numbers
  BY RemoteMediaAssumptions DEF VideosInv, VideosTyped, Numbers
<1>2. CASE screen.src = i
  <2>1. PICK k : k = IF screen.entry = i THEN 0 ELSE screen.entry
    OBVIOUS
  <2>2. screen' = [screen EXCEPT !.src = 0, !.entry = k] /\ k \in Numbers
    BY <1>1, <1>2, <2>1
  <2>3. screen' \in [entry : Numbers, src : Numbers] /\ screen'.src = 0 /\ screen'.entry = k
    BY <1>1, <2>2
  <2> QED BY <1>2, <2>1, <2>3
<1>3. CASE screen.src # i
  BY <1>1, <1>3
<1> QED BY <1>2, <1>3

\* ended: another layer takes the picture, the last one with it.
LEMMA EndingIsSeen ==
  ASSUME VideosInv, NEW i, Ends(i)
  PROVE  VideosInv'
<1>1. VideosTyped /\ InOrder /\ Bound /\ Gone /\ ScreenIsKept
  BY DEF VideosInv
<1>2. /\ i \in DOMAIN tracks /\ Live(i) /\ tracks' = [tracks EXCEPT ![i].state = "ended"]
      /\ UNCHANGED <<tile, cam, owner, mixed>> /\ recv' = recv /\ prefer' = prefer
      /\ screen' = IF screen.src = i THEN [screen EXCEPT !.src = 0,
                                                         !.entry = IF @ = i THEN 0 ELSE @]
                   ELSE screen
      /\ IF tile # "none" THEN ShowNow ELSE view' = view
  BY DEF Ends, choices
<1>3. Turns(i, "ended") /\ i # 0
  BY <1>1, <1>2, TurnsIt DEF TrackStates, Turns
<1>4. InOrder'
  BY <1>2, <1>3, TurnsInOrder DEF Live
<1>5. Gone'
  BY <1>1, <1>2, <1>3 DEF Gone, Turns
<1>6. /\ screen' \in [entry : Numbers, src : Numbers]
      /\ screen'.src = (IF screen.src = i THEN 0 ELSE screen.src)
      /\ screen'.entry = (IF screen.src = i /\ screen.entry = i THEN 0 ELSE screen.entry)
  BY <1>2, <1>3, EndingScreens
<1>7. \A j : j # 0 /\ j # i /\ Arrived(j) =>
             j \in DOMAIN tracks' /\ tracks'[j].state \in {"live", "muted"}
  BY <1>3 DEF Arrived, Live, Turns
<1>8. Arrived(screen.src)'
  BY <1>1, <1>6, <1>7 DEF Bound, Arrived, Live
<1>9. screen'.entry # 0 => /\ screen'.entry \in DOMAIN tracks'
                           /\ tracks'[screen'.entry].state \in {"live", "muted", "ended"}
  BY <1>1, <1>3, <1>6 DEF Bound, Turns
<1>10. ScreenIsKept'
  <2> SUFFICES ASSUME ~mixed, NEW j \in DOMAIN tracks, Current(j)'
               PROVE  screen'.entry = j /\ (owner = "p" => screen'.src = j)
    BY <1>2, <1>3 DEF ScreenIsKept, Turns
  <2>1. j # i /\ Current(j)
    BY <1>3 DEF Current, Live, Turns
  <2>2. screen.entry = j /\ (owner = "p" => screen.src = j)
    BY <1>1, <2>1 DEF ScreenIsKept
  <2> QED BY <1>6, <2>1, <2>2
<1>11. 0 \in Numbers
  BY RemoteMediaAssumptions DEF Numbers
<1>12. /\ tile = "none" => picture = 0 /\ screen.src = 0 /\ view = {} /\ layers = NoLayers
       /\ layers \in [Layers -> Numbers] /\ picture \in Numbers
  BY <1>1 DEF VideosTyped
<1>13. view' \subseteq {"camera", "screen"} /\ (tile = "none" => view' = view) /\ ViewIsCurrent'
  <2>1. CASE tile # "none"
    BY <1>2, <2>1, ViewNow
  <2>2. CASE tile = "none"
    BY <1>1, <1>2, <2>2 DEF ViewIsCurrent, VideosTyped
  <2> QED BY <2>1, <2>2
<1>14. CASE IsLayer(i)
  <2> DEFINE r == tracks[i].role
  <2>1. /\ layers' = [layers EXCEPT ![r] = 0] /\ r \in Layers
        /\ picture' = IF layers' # NoLayers /\ tile # "none" THEN Select(layers', prefer, States')
                      ELSE IF picture = i THEN 0 ELSE picture
    BY <1>14 DEF Ends, IsLayer
  <2>2. /\ layers' \in [Layers -> Numbers] /\ layers'[r] = 0
        /\ \A l \in Layers : l # r => layers'[l] = layers[l]
    BY <1>11, <1>12, <2>1
  <2>3. \A l \in Layers : l # r => layers[l] # i
    BY <1>1, <1>3 DEF Bound
  <2>4. \A l \in Layers : Arrived(layers[l])' /\ (layers'[l] # 0 => tracks'[layers'[l]].role = l)
    <3> SUFFICES ASSUME NEW l \in Layers
                 PROVE  Arrived(layers[l])' /\ (layers'[l] # 0 => tracks'[layers'[l]].role = l)
      OBVIOUS
    <3>1. CASE l = r
      BY <2>2, <3>1 DEF Arrived
    <3>2. CASE l # r
      <4>1. /\ layers'[l] = layers[l] /\ layers[l] # i /\ Arrived(layers[l])
            /\ (layers[l] # 0 => tracks[layers[l]].role = l)
        BY <1>1, <2>2, <2>3, <3>2 DEF Bound
      <4> QED BY <1>3, <1>7, <4>1 DEF Arrived, Live, Turns
    <3> QED BY <3>1, <3>2
  <2>5. tile # "none" /\ tile' = tile
    BY <1>1, <1>2, <1>3, <1>14, LayersThere
  <2>6. layers' # NoLayers => picture' = Select(layers, prefer, States)'
    <3>1. Select(layers, prefer, States)' = Select(layers', prefer', States')
      BY DEF Select
    <3> QED BY <1>2, <2>1, <2>5, <3>1
  <2>7. layers' = NoLayers => picture' = IF picture = i THEN 0 ELSE picture
    BY <2>1
  <2>8. picture' \in Numbers /\ Arrived(picture)'
    <3>1. CASE layers' # NoLayers
      BY <2>2, <2>4, <2>6, <3>1, SelectedArrived
    <3>2. CASE layers' = NoLayers
      BY <1>1, <1>7, <1>11, <1>12, <2>7, <3>2 DEF Bound, Arrived, Live
    <3> QED BY <3>1, <3>2
  <2>9. VideosTyped'
    BY <1>1, <1>2, <1>3, <1>6, <1>13, <2>2, <2>5, <2>8 DEF VideosTyped, Turns
  <2>10. Bound'
    BY <1>8, <1>9, <2>4, <2>8 DEF Bound
  <2>11. LayerIsBest'
    <3>1. ASSUME NEW l \in Layers, layers'[l] # 0 PROVE layers' # NoLayers
      BY <3>1, NoLayersIsTyped
    <3> QED BY <2>6, <3>1 DEF LayerIsBest, NoLayers
  <2> QED BY <1>4, <1>5, <1>10, <1>13, <2>9, <2>10, <2>11 DEF VideosInv
<1>15. CASE ~IsLayer(i)
  <2>1. picture' = (IF picture = i THEN 0 ELSE picture) /\ layers' = layers
    BY <1>15 DEF Ends
  <2>2. \A l \in Layers : layers[l] # i
    BY <1>3, <1>15, LayerHasItsRole
  <2>3. picture' \in Numbers /\ Arrived(picture)'
    BY <1>1, <1>7, <1>11, <1>12, <2>1 DEF Bound, Arrived, Live
  <2>4. \A l \in Layers : Arrived(layers[l])' /\ (layers'[l] # 0 => tracks'[layers'[l]].role = l)
    BY <1>1, <1>3, <1>7, <2>1, <2>2 DEF Bound, Arrived, Live, Turns
  <2>5. tile = "none" => picture' = 0 /\ screen'.src = 0 /\ view' = {} /\ layers' = NoLayers
    BY <1>3, <1>6, <1>12, <1>13, <2>1
  <2>6. VideosTyped'
    BY <1>1, <1>2, <1>3, <1>6, <1>12, <1>13, <2>1, <2>3, <2>5 DEF VideosTyped, Turns, NoLayers
  <2>7. Bound'
    BY <1>8, <1>9, <2>3, <2>4 DEF Bound
  <2>8. LayerIsBest'
    BY <1>2, <1>3, <2>1, <2>2, TurnsLayers
  <2> QED BY <1>4, <1>5, <1>10, <1>13, <2>6, <2>7, <2>8 DEF VideosInv
<1> QED BY <1>14, <1>15

\* setCameraLayer.
LEMMA LayerChangeIsSeen ==
  ASSUME VideosInv, LayerChanges
  PROVE  VideosInv'
<1>1. VideosTyped /\ InOrder /\ Bound /\ Gone /\ ScreenIsKept
  BY DEF VideosInv
<1>2. /\ UNCHANGED <<tile, cam, recv, owner, tracks, layers, screen, mixed>> /\ ShowCamera
      /\ IF tile # "none" /\ layers # NoLayers THEN ShowNow ELSE view' = view
  BY DEF LayerChanges
<1>3. InOrder' /\ Gone' /\ ScreenIsKept'
  BY <1>1, <1>2 DEF InOrder, Gone, ScreenIsKept, Current, Live
<1>4. /\ Arrived(screen.src)'
      /\ screen'.entry # 0 => /\ screen'.entry \in DOMAIN tracks'
                              /\ tracks'[screen'.entry].state \in {"live", "muted", "ended"}
      /\ \A l \in Layers : Arrived(layers[l])' /\ (layers'[l] # 0 => tracks'[layers'[l]].role = l)
  BY <1>1, <1>2 DEF Bound, Arrived, Live
<1>5. CASE tile # "none" /\ layers # NoLayers
  <2>1. tile' # "none" /\ layers' # NoLayers /\ ShowNow /\ layers' \in [Layers -> Numbers]
    BY <1>1, <1>2, <1>5 DEF VideosTyped
  <2>2. picture' = Select(layers, prefer, States)'
    BY <1>2, <2>1, CameraShown DEF NoLayers
  <2>3. picture' \in Numbers /\ Arrived(picture)'
    BY <1>4, <2>1, <2>2, SelectedArrived
  <2>4. ViewIsCurrent' /\ view' \subseteq {"camera", "screen"}
    BY <2>1, ViewNow
  <2>5. VideosTyped'
    BY <1>1, <1>2, <2>1, <2>3, <2>4 DEF VideosTyped
  <2>6. Bound'
    BY <1>4, <2>3 DEF Bound
  <2>7. LayerIsBest'
    BY <2>2 DEF LayerIsBest
  <2> QED BY <1>3, <2>4, <2>5, <2>6, <2>7 DEF VideosInv
<1>6. CASE ~(tile # "none" /\ layers # NoLayers)
  <2>1. picture' = picture /\ view' = view
    BY <1>2, <1>6, CameraShown DEF NoLayers
  <2>2. VideosTyped'
    BY <1>1, <1>2, <2>1 DEF VideosTyped
  <2>3. Bound'
    BY <1>1, <1>2, <1>4, <2>1 DEF Bound, Arrived, Live
  <2>4. ViewIsCurrent'
    BY <1>2, <2>1, VisibleStays DEF Live
  <2>5. LayerIsBest'
    <3>1. tile' = "shown" => \A l \in Layers : layers'[l] = 0
      BY <1>2, <1>6, NoLayersIsTyped
    <3> QED BY <3>1 DEF LayerIsBest
  <2> QED BY <1>3, <2>2, <2>3, <2>4, <2>5 DEF VideosInv
<1> QED BY <1>5, <1>6

\* Every step keeps what is shown.
LEMMA VideosKeep ==
  ASSUME RemoteInv, RemoteNext
  PROVE  VideosInv'
<1>1. VideosInv
  BY DEF RemoteInv
<1>2. ASSUME UNCHANGED shown PROVE VideosInv'
  BY <1>1, <1>2, OthersAreSeen
<1>3. CASE Joins \/ Leaves \/ Removed \/ ResetRemote
  BY <1>1, <1>3, JoiningIsSeen, LeavingIsSeen, RemovalIsSeen, ResetIsSeen
<1>4. CASE \E c \in {"on", "off"}, m \in {"on", "off"} : Announces(c, m)
  <2>1. UNCHANGED <<tile, prefer, owner, tracks, videos, mixed>> /\ tile # "none" /\ ShowNow
    BY <1>4 DEF Announces, choices
  <2> QED BY <1>1, <2>1, LookingAgain
<1>5. CASE ToggleReceive
  <2>1. /\ UNCHANGED <<tile, prefer, owner, tracks, videos, mixed>>
        /\ IF tile # "none" THEN ShowNow ELSE UNCHANGED view
    BY <1>5 DEF ToggleReceive
  <2> QED BY <1>1, <2>1, LookingAgain
<1>6. CASE \E o \in Owners : OwnerChanges(o)
  BY <1>1, <1>6, SharingIsSeen
<1>7. CASE \E role \in Roles : Published(role)
  BY <1>1, <1>7, PublishingIsSeen
<1>8. CASE \E i \in 1 .. MaxTracks : TrackArrives(i) \/ Toggles(i) \/ Ends(i)
  BY <1>1, <1>8, ArrivalIsSeen, TogglingIsSeen, EndingIsSeen
<1>9. CASE LayerChanges
  BY <1>1, <1>9, LayerChangeIsSeen
<1>10. CASE \E x \in Speakers : Speaks(x) \/ FallsSilent(x)
  <2>1. UNCHANGED shown
    BY <1>10 DEF Speaks, FallsSilent, shown, choices
  <2> QED BY <1>2, <2>1
<1>11. CASE FlushTimer \/ EnableAudio
  <2>1. UNCHANGED shown
    BY <1>11 DEF FlushTimer, EnableAudio, shown, choices
  <2> QED BY <1>2, <2>1
<1>12. CASE ToggleMicrophone \/ SwitchMicrophone
  <2>1. UNCHANGED shown
    BY <1>12 DEF ToggleMicrophone, SwitchMicrophone, shown, choices
  <2> QED BY <1>2, <2>1
<1> QED BY <1>3, <1>4, <1>5, <1>6, <1>7, <1>8, <1>9, <1>10, <1>11, <1>12 DEF RemoteNext

\* Every step keeps the invariant.
LEMMA RemoteKeeps ==
  ASSUME RemoteInv, [RemoteNext]_remoteVars
  PROVE  RemoteInv'
<1>1. CASE RemoteNext
  BY <1>1, PeerKeeps, SpeechKeeps, VideosKeep DEF RemoteInv
<1>2. CASE UNCHANGED remoteVars
  <2>1. PeerTyped' /\ SpeechInv'
    BY <1>2 DEF RemoteInv, PeerTyped, SpeechInv, SpeechTyped, PIsSilent, remoteVars
  <2>2. UNCHANGED shown
    BY <1>2 DEF remoteVars, shown, videos
  <2> QED BY <2>1, <2>2, OthersAreSeen DEF RemoteInv
<1> QED BY <1>1, <1>2

\* A set with one member has it as its greatest.
LEMMA MaxOfOne ==
  ASSUME NEW x \in Int
  PROVE  Max({x}) = x
BY DEF Max

\* The invariant implies what is promised.
LEMMA RemotePromises ==
  ASSUME RemoteInv
  PROVE  RemoteTypeOK /\ ViewIsCurrent /\ NoGhostSpeaks /\ ScreenIsShown /\ LayerIsBest
<1>1. /\ PeerTyped /\ SpeechTyped /\ PIsSilent /\ VideosTyped /\ ScreenIsKept
      /\ ViewIsCurrent /\ LayerIsBest
  BY DEF RemoteInv, SpeechInv, VideosInv
<1>2. RemoteTypeOK
  <2>1. \A i \in DOMAIN tracks : /\ tracks[i].role \in AllRoles /\ tracks[i].old \in BOOLEAN
                                 /\ tracks[i].state \in TrackStates
    <3>1. \A i \in DOMAIN tracks : tracks[i] \in Tracks
      BY <1>1 DEF VideosTyped
    <3> QED BY <3>1, RemoteMediaAssumptions DEF Tracks, TrackStates
  <2>2. {recv, offered, mixed} \subseteq BOOLEAN
    BY <1>1 DEF PeerTyped
  <2> QED BY <1>1, <2>1, <2>2, Zenon
          DEF RemoteTypeOK, PeerTyped, SpeechTyped, VideosTyped, TrackStates
<1>3. NoGhostSpeaks
  BY <1>1 DEF NoGhostSpeaks, PIsSilent
<1>4. ScreenIsShown
  <2> DEFINE own == {i \in DOMAIN tracks : Live(i) /\ tracks[i].role \in Screens /\ ~tracks[i].old}
  <2> SUFFICES ASSUME owner = "p", tile = "shown", own # {}, ~mixed
               PROVE  screen.src = Max(own) /\ "screen" \in view
    BY DEF ScreenIsShown
  <2>1. \A i \in own : screen.src = i
    BY <1>1 DEF ScreenIsKept, Current
  <2>2. PICK i \in own : TRUE
    OBVIOUS
  <2>3. own = {i} /\ screen.src = i
    BY <2>1, <2>2
  <2>4. i \in Int /\ i # 0
    BY <1>1, <2>2 DEF VideosTyped
  <2>5. screen.src = Max(own)
    BY <2>3, <2>4, MaxOfOne
  <2>6. "screen" \in view
    BY <1>1, <2>3, <2>4 DEF ViewIsCurrent, Visible
  <2> QED BY <2>5, <2>6
<1> QED BY <1>1, <1>2, <1>3, <1>4

\* What is shown of another participant by itself, over any sequence of
\* messages, tracks and choices (ontrack, updateParticipantVideoVisibility).
THEOREM RemoteMediaIsSafe ==
  RemoteSpec => []RemoteInv
BY RemoteBegins, RemoteKeeps, PTL DEF RemoteSpec

(***************************************************************************)
(* Both.                                                                   *)
(***************************************************************************)
\* The invariant of the adaptation implies what is promised.
LEMMA AdaptPromises ==
  ASSUME AdaptInv
  PROVE  TypeOK /\ LimitsObeyed /\ LabelIsTrue /\ RecordIsCurrent
<1>1. /\ AdaptTyped /\ OneIsTheLoops(queue) /\ Level(a)
      /\ LimitsObeyed /\ LabelIsTrue /\ RecordIsCurrent
  BY DEF AdaptInv, AdaptRest
<1>2. /\ a.level \in 0 .. 2 /\ a.poor \in 0 .. 2 /\ a.good \in 0 .. 5 /\ a.critical \in 0 .. 3
      /\ a.recovery \in 0 .. 5 /\ a.layer \in 1 .. 3
  BY <1>1 DEF AdaptTyped, Loops
<1>3. /\ tick.pc \in {"idle", "stats", "applying"} /\ tick.class \in Classes
      /\ camera.pc \in {"off", "opening", "on"} /\ {socket, visible, stale} \subseteq BOOLEAN
  BY <1>1 DEF AdaptTyped
<1>4. TypeOK
  BY <1>1, <1>2, <1>3, Zenon DEF TypeOK, AdaptTyped, Labels, OneIsTheLoops, Level
<1> QED BY <1>1, <1>4

\* A step of one part is none of the other.
LEMMA MediaSteps ==
  [MediaNext]_mediaVars => [Next]_vars /\ [RemoteNext]_remoteVars
BY DEF MediaNext, Sent, Received, mediaVars

\* The two parts run as they do by themselves: what adapts the sent video and
\* what shows the received media share no variable of the page.
THEOREM MediaPartsAreImplemented ==
  MediaSpec => Spec /\ RemoteSpec
<1>1. MediaInit => Init /\ RemoteInit
  BY DEF MediaInit
<1> QED BY <1>1, MediaSteps, PTL DEF MediaSpec, Spec, RemoteSpec

\* What is sent and what is shown always follow the state that they derive
\* from: the camera encoding the choices and the limit (applyProfile), the
\* chip and the recording the connection (setMeasuredConnection,
\* recordConnectionStateTransition), the view what was announced and what
\* arrived (updateParticipantVideoVisibility), and no one is named as the
\* speaker who has left (removeSpeakerAnalyzer).
THEOREM MediaIsSafe ==
  MediaSpec => []MediaInv
<1>1. AdaptInv /\ RemoteInv => MediaInv
  BY AdaptPromises, RemotePromises DEF MediaInv
<1> QED BY <1>1, MediaPartsAreImplemented, AdaptationIsSafe, RemoteMediaIsSafe, PTL

\* While the participant shares, its last screen track that arrived and lives
\* is the one that is seen; the picture is the camera layer that fits best
\* (bindRemoteScreenTrack, bindRemoteCameraTrack).
THEOREM ReceivedIsAlwaysShown ==
  MediaSpec => []ReceivedIsShown
<1>1. RemoteInv => ReceivedIsShown
  BY RemotePromises DEF ReceivedIsShown
<1> QED BY <1>1, MediaPartsAreImplemented, RemoteMediaIsSafe, PTL

\* The loop pauses the video on three critical samples in a row of this very
\* connection, and resumes it on five good ones (shouldPauseVideo,
\* shouldRecoverVideo).
THEOREM PausesHaveCause ==
  MediaSpec => PausedForCause
BY MediaPartsAreImplemented, AdaptationIsSafe, PTL
=============================================================================
