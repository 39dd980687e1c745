------------------------------ MODULE Adaptation ------------------------------
(***************************************************************************)
(* The quality loop of the meeting page (web/js/app.js,                    *)
(* web/js/adaptation-policy.js).  Once a second it measures the connection *)
(* and from several samples in a row it moves the automatic profile, picks *)
(* a camera layer, pauses the video to keep the audio, resumes it, rates   *)
(* the tiles and renames the connection chip.  The loop awaits the browser *)
(* in between, while the user, the operator and a reconnection go on.      *)
(*                                                                         *)
(* A sample is one of five classes instead of its dozen measurements, and  *)
(* counters stop at the thresholds they are compared with.                 *)
(***************************************************************************)
EXTENDS Integers, Sequences

CONSTANTS MaxChanges,  \* bound on changes of the network
          MaxDrops,    \* bound on connections that are lost
          MaxActs,     \* bound on what the user and the operator do
          Simulcast    \* simulcastEnabled

ASSUME AdaptationAssumptions ==
  {MaxChanges, MaxDrops, MaxActs} \subseteq Nat /\ Simulcast \in BOOLEAN

VARIABLES
  conn, media,  \* the peer connection (0: none), and its state
  socket,       \* the socket is open
  visible,      \* the tab is not in the background
  network,      \* how good the network is: the class of the next sample
  tick,         \* runDiagnosticsUpdate: where it waits, for which connection
  a,            \* what the loop decides on and decides: see Fresh
  mode, limit,  \* the profile the user selected; the highest one allowed
  camera,       \* the camera: off, opening with a resolved profile, or on
  queue,        \* calls of applyProfile that wait for the browser
  sent,         \* the profile of the camera encoding
  label, pending,   \* the connection chip; the level it may change to
  history, noted,   \* the recording, and the connection state it noted last
  changes, drops, acts,
  seen, calm, stale \* what the properties remember: see React, CameraOpened

vars == <<conn, media, socket, visible, network, tick, a, mode, limit, camera, queue, sent,
          label, pending, history, noted, changes, drops, acts, seen, calm, stale>>
page == <<conn, media, socket, visible, network>>
bounds == <<changes, drops, acts>>
record == <<history, noted>>

Classes == {"good", "fair", "poor", "critical", "none"}
Impaired == {"poor", "critical"}

Off == [pc |-> "off", value |-> 0, mode |-> 0]
Idle == [pc |-> "idle", conn |-> 0, class |-> "none"]
Automatic == 9   \* profile.value = "auto"
AutoTop == 1     \* automaticProfileCount - 1: two profiles, and one above
Modes == {Automatic, 2}

Fresh == [level |-> AutoTop, poor |-> 0, good |-> 0, critical |-> 0, recovery |-> 0,
          suspended |-> FALSE, automatic |-> FALSE,
          layer |-> 2, layerPoor |-> 0, layerGood |-> 0]

Init ==
  /\ conn = 0 /\ media = "new" /\ socket = FALSE /\ visible = TRUE
  /\ network = "good" /\ tick = Idle /\ a = Fresh /\ mode = Automatic /\ limit = 2
  /\ camera = Off /\ queue = <<>> /\ sent = 0
  /\ label = "Connecting" /\ pending = [level |-> "none", count |-> 0]
  /\ history = "none" /\ noted = "new"
  /\ changes = 0 /\ drops = 0 /\ acts = 0 /\ seen = 0 /\ calm = 0 /\ stale = FALSE

(***************************************************************************)
(* The policies.                                                           *)
(***************************************************************************)
Upto(n, m) == IF n < m THEN n ELSE m
Count(before, again, most) == IF again THEN Upto(before + 1, most) ELSE 0

\* resolveVideoProfile: the operator's limit caps what was selected.
Resolve(m, level, most) == Upto(IF m = Automatic THEN level ELSE m, most)

\* chooseAdaptationLevel: down after two poor samples, up after five good ones.
ChooseLevel(s) ==
  CASE s.poor >= 2 /\ s.level > 0 -> [s EXCEPT !.level = @ - 1, !.poor = 0]
    [] s.good >= 5 /\ s.level < AutoTop /\ ~(s.poor >= 2 /\ s.level > 0)
         -> [s EXCEPT !.level = @ + 1, !.good = 0]
    [] OTHER -> s

\* chooseCameraLayer.
ChooseLayer(s, class) ==
  LET poor == Count(s.layerPoor, class \in Impaired, 2)
      good == Count(s.layerGood, class = "good", 5)
  IN  [s EXCEPT !.layer = IF poor = 2 /\ @ > 1 THEN @ - 1
                          ELSE IF good = 5 /\ @ < 3 THEN @ + 1 ELSE @,
                !.layerPoor = IF poor = 2 THEN 0 ELSE poor,
                !.layerGood = IF good = 5 THEN 0 ELSE good]

\* The samples in a row.  The level's counters run in the automatic mode only.
Measure(s, class) ==
  [s EXCEPT !.critical = Count(@, class = "critical", 3),
            !.recovery = Count(@, class = "good", 5),
            !.poor = IF mode = Automatic THEN Count(@, class \in Impaired, 2) ELSE @,
            !.good = IF mode = Automatic THEN Count(@, class = "good", 5) ELSE @]

(***************************************************************************)
(* The chip.                                                               *)
(***************************************************************************)
Chip(text) == label' = text /\ pending' = [level |-> "none", count |-> 0]

LevelOf(text) ==
  CASE text = "Connected" -> "good"
    [] text = "Reconnecting" \/ text = "Fair" -> "fair"
    [] text = "Offline" \/ text = "Poor" -> "poor"
    [] OTHER -> "none"

MeasuredText(class) ==
  CASE class = "good" -> "Connected" [] class = "fair" -> "Fair" [] OTHER -> "Poor"

ChipOfAnyPeer(class) ==
  LET text == MeasuredText(class)
      level == LevelOf(text)
      count == IF pending.level = level THEN 2 ELSE 1
  IN  CASE class = "none" -> UNCHANGED <<label, pending>>
        [] class # "none" /\ level = LevelOf(label)
             -> label' = label /\ pending' = [level |-> "none", count |-> 0]
        [] class # "none" /\ level # LevelOf(label)
             -> IF count = 2 THEN Chip(text)
                ELSE label' = label /\ pending' = [level |-> level, count |-> count]

\* setMeasuredConnection: two samples in a row; "Connected" only if it is.
MeasuredChip(class) ==
  IF class = "good" /\ media # "connected" THEN UNCHANGED <<label, pending>>
  ELSE ChipOfAnyPeer(class)

(***************************************************************************)
(* The loop.                                                               *)
(***************************************************************************)
\* The interval: not in the background, and never twice at a time.
TickStarts ==
  /\ conn # 0 /\ media # "new" /\ visible /\ tick = Idle
  /\ tick' = [pc |-> "stats", conn |-> conn, class |-> "none"]
  /\ UNCHANGED <<page, a, mode, limit, camera, queue, sent, label, pending, record, bounds,
                 seen, calm, stale>>

\* The end of the loop: layer, pause or resume.  "seen" and "calm" count the
\* critical and the good samples in a row on this connection.
React(s, class) ==
  LET layered == IF Simulcast THEN ChooseLayer(s, class) ELSE s
      pause == s.critical >= 3 /\ (mode # Automatic \/ s.level = 0)
      resume == ~pause /\ class = "good" /\ s.suspended /\ s.recovery >= 5
  IN  /\ tick' = Idle
      /\ a' = IF pause THEN [layered EXCEPT !.critical = 0, !.recovery = 0,
                                            !.suspended = TRUE,
                                            !.automatic = @ \/ ~s.suspended]
              ELSE IF resume THEN [layered EXCEPT !.recovery = 0, !.suspended = FALSE,
                                                  !.automatic = FALSE]
              ELSE layered

\* The report arrives: dropped if the connection was replaced meanwhile.
StatsArrive ==
  /\ tick.pc = "stats"
  /\ IF tick.conn # conn
       THEN tick' = Idle /\ UNCHANGED <<a, queue, label, pending, seen, calm>>
       ELSE LET class == network
                measured == Measure(a, class)
                chosen == IF mode = Automatic THEN ChooseLevel(measured) ELSE measured
                paused == chosen.critical >= 3 /\ (mode # Automatic \/ chosen.level = 0)
            IN  /\ seen' = Count(seen, class = "critical", 3)
                /\ calm' = Count(calm, class = "good", 5)
                /\ IF chosen.level # a.level
                     THEN /\ tick' = [pc |-> "applying", conn |-> conn, class |-> class]
                          /\ a' = chosen
                          /\ queue' = Append(queue, [value |-> Resolve(mode, chosen.level, limit),
                                                     tick |-> TRUE])
                          /\ MeasuredChip(class)
                     ELSE /\ React(chosen, class) /\ UNCHANGED queue
                          /\ IF paused /\ ~a.suspended THEN Chip("Poor") ELSE MeasuredChip(class)
  /\ UNCHANGED <<page, mode, limit, camera, sent, record, bounds, stale>>

\* A call of applyProfile gets through: it sets the camera encoding if there is
\* a camera; the loop goes on if it was the loop that waited.
Applied ==
  /\ queue # <<>>
  /\ queue' = Tail(queue)
  /\ LET applies == camera.pc = "on"
         value == Head(queue).value
     IN  /\ sent' = IF applies THEN value ELSE sent
         /\ stale' = (stale /\ ~(applies /\ value = Resolve(mode, a.level, limit)))
  /\ IF Head(queue).tick
       THEN /\ React(a, tick.class)
            /\ IF a'.suspended /\ ~a.suspended THEN Chip("Poor") ELSE UNCHANGED <<label, pending>>
       ELSE UNCHANGED <<tick, a, label, pending>>
  /\ UNCHANGED <<page, mode, limit, camera, record, bounds, seen, calm>>

LoopHangs == tick.pc = "applying" /\ tick.conn # conn /\ UNCHANGED vars

\* The loop waited for a connection that is gone.
AppliedTooLate ==
  /\ tick.pc = "applying" /\ tick.conn # conn
  /\ React(a, tick.class)
  /\ UNCHANGED <<page, mode, limit, camera, queue, sent, label, pending, record, bounds,
                 seen, calm, stale>>

(***************************************************************************)
(* The user and the operator.                                              *)
(***************************************************************************)
Act == acts < MaxActs /\ acts' = acts + 1 /\ UNCHANGED <<changes, drops>>

Reapply(value) ==
  queue' = IF conn = 0 THEN queue ELSE Append(queue, [value |-> value, tick |-> FALSE])

\* The change handler of the profile.
ChooseProfile(m) ==
  /\ Act /\ m # mode /\ mode' = m
  /\ a' = [a EXCEPT !.level = IF m = Automatic THEN Upto(@, AutoTop) ELSE m,
                    !.poor = 0, !.good = 0]
  /\ Reapply(Resolve(m, a'.level, limit))
  /\ UNCHANGED <<page, tick, limit, camera, sent, label, pending, record, seen, calm, stale>>

\* config_update from the operator.
LimitChanges(most) ==
  /\ Act /\ most # limit /\ limit' = most /\ socket
  /\ Reapply(Resolve(mode, a.level, most))
  /\ UNCHANGED <<page, tick, a, mode, camera, sent, label, pending, record, seen, calm, stale>>

\* enableCameraOnce, where it has a capture and resolves the profile for it.
CameraOpens ==
  /\ conn # 0 /\ camera = Off
  /\ camera' = [pc |-> "opening", value |-> Resolve(mode, a.level, limit), mode |-> mode]
  /\ UNCHANGED <<page, tick, a, mode, limit, queue, sent, label, pending, record, bounds,
                 seen, calm, stale>>

\* The track is attached, and that profile applied.  A profile that the user
\* selected meanwhile is applied then; a level or a limit that changed is not.
CameraOpened ==
  /\ camera.pc = "opening"
  /\ camera' = [camera EXCEPT !.pc = "on"]
  /\ sent' = camera.value
  /\ queue' = IF mode # camera.mode
                THEN Append(queue, [value |-> Resolve(mode, a.level, limit), tick |-> FALSE])
                ELSE queue
  /\ stale' = (mode = camera.mode /\ camera.value # Resolve(mode, a.level, limit))
  /\ UNCHANGED <<page, tick, a, mode, limit, label, pending, record, bounds, seen, calm>>

CameraCloses ==
  /\ Act /\ camera.pc = "on" /\ camera' = Off /\ stale' = FALSE
  /\ UNCHANGED <<page, tick, a, mode, limit, queue, sent, label, pending, record, seen, calm>>

\* The camera button while the video is paused: setVideoSending(true).
UserResumes ==
  /\ Act /\ a.automatic
  /\ a' = [a EXCEPT !.suspended = FALSE, !.automatic = FALSE]
  /\ UNCHANGED <<page, tick, mode, limit, camera, queue, sent, label, pending, record,
                 seen, calm, stale>>

\* document.hidden.
TabMoves ==
  /\ Act /\ visible' = ~visible
  /\ UNCHANGED <<conn, media, socket, network, tick, a, mode, limit, camera, queue, sent, label,
                 pending, record, seen, calm, stale>>

\* The button that starts or stops the recording of the connection.
Record ==
  /\ Act
  /\ \/ history # "on" /\ conn # 0 /\ history' = "on" /\ noted' = media
     \/ history = "on" /\ history' = "stopped" /\ UNCHANGED noted
  /\ UNCHANGED <<page, tick, a, mode, limit, camera, queue, sent, label, pending, seen, calm, stale>>

(***************************************************************************)
(* The network and the connection.                                         *)
(***************************************************************************)
NetworkChanges(class) ==
  /\ changes < MaxChanges /\ class # network
  /\ changes' = changes + 1 /\ network' = class
  /\ UNCHANGED <<conn, media, socket, visible, tick, a, mode, limit, camera, queue, sent, label,
                 pending, record, drops, acts, seen, calm, stale>>

\* recordConnectionStateTransition.
Note(state) == noted' = (IF history = "on" THEN state ELSE noted) /\ UNCHANGED history

\* updatePeerConnectionUI, for the states it tells apart.
MediaState(state, text) ==
  /\ conn # 0 /\ media # state /\ media' = state
  /\ Note(state) /\ Chip(text)
  /\ UNCHANGED <<conn, socket, visible, network, tick, a, mode, limit, camera, queue, sent,
                 seen, calm, stale>>

MediaConnects ==
  /\ media \in {"new", "lost"} /\ MediaState("connected", "Connected") /\ UNCHANGED bounds

MediaLost ==
  /\ media = "connected" /\ drops < MaxDrops /\ drops' = drops + 1
  /\ MediaState("lost", "Reconnecting") /\ UNCHANGED <<changes, acts>>

\* The socket closes; the media go on until the reconnection.
SocketCloses ==
  /\ socket /\ drops < MaxDrops
  /\ drops' = drops + 1 /\ socket' = FALSE /\ Chip("Reconnecting")
  /\ UNCHANGED <<conn, media, visible, network, tick, a, mode, limit, camera, queue, sent, record,
                 changes, acts, seen, calm, stale>>

ResetKeepingSamples ==
  /\ conn # 0 /\ ~socket
  /\ conn' = 0 /\ media' = "new" /\ camera' = Off /\ queue' = <<>> /\ stale' = FALSE
  /\ seen' = 0 /\ calm' = 0
  /\ UNCHANGED <<a, socket, visible, network, tick, mode, limit, sent, label, pending, record, bounds>>

\* resetMediaConnection: what was counted on the old connection is forgotten,
\* and not that the video is suspended.
Reset ==
  /\ conn # 0 /\ ~socket
  /\ conn' = 0 /\ media' = "new" /\ camera' = Off /\ queue' = <<>> /\ stale' = FALSE
  /\ a' = [a EXCEPT !.critical = 0, !.recovery = 0, !.layerPoor = 0, !.layerGood = 0]
  /\ seen' = 0 /\ calm' = 0
  /\ UNCHANGED <<socket, visible, network, tick, mode, limit, sent, label, pending, record, bounds>>

\* startWebRTC.
Start ==
  /\ conn = 0 /\ socket' = TRUE /\ conn' = drops + 1 /\ Chip("Connecting")
  /\ UNCHANGED <<media, visible, network, tick, a, mode, limit, camera, queue, sent, record, bounds,
                 seen, calm, stale>>

Loop == TickStarts \/ StatsArrive \/ Applied \/ AppliedTooLate

Next ==
  \/ Loop
  \/ \E m \in Modes : ChooseProfile(m)
  \/ \E most \in {0, 2} : LimitChanges(most)
  \/ CameraOpens \/ CameraOpened \/ CameraCloses \/ UserResumes \/ TabMoves \/ Record
  \/ \E class \in Classes : NetworkChanges(class)
  \/ MediaConnects \/ MediaLost \/ SocketCloses \/ Reset \/ Start

Spec == Init /\ [][Next]_vars

\* The browser answers and its timers fire; a lost connection is replaced.
FairSpec == Spec /\ WF_vars(Loop) /\ WF_vars(Reset \/ Start) /\ WF_vars(MediaConnects)
                 /\ WF_vars(CameraOpened)

(***************************************************************************)
(* Properties.                                                             *)
(***************************************************************************)
\* The variables have their values; the loop waits for one thing at a time.
TypeOK ==
  /\ conn \in 0 .. MaxDrops + 1 /\ media \in {"new", "connected", "lost"}
  /\ {socket, visible, stale} \subseteq BOOLEAN /\ network \in Classes
  /\ tick.pc \in {"idle", "stats", "applying"} /\ tick.class \in Classes
  /\ a.level \in 0 .. 2 /\ a.poor \in 0 .. 2 /\ a.good \in 0 .. 5 /\ a.critical \in 0 .. 3
  /\ a.recovery \in 0 .. 5 /\ a.layer \in 1 .. 3
  /\ a.automatic => a.suspended
  /\ mode = Automatic => a.level <= AutoTop
  /\ mode \in Modes /\ limit \in {0, 2} /\ camera.pc \in {"off", "opening", "on"} /\ sent \in 0 .. 2
  /\ \A i \in DOMAIN queue : queue[i].tick => tick.pc = "applying" /\ tick.conn = conn
  /\ \A i, j \in DOMAIN queue : queue[i].tick /\ queue[j].tick => i = j
  /\ label \in {"Connecting", "Connected", "Reconnecting", "Fair", "Poor", "Offline"}
  /\ history \in {"none", "on", "stopped"} /\ noted \in {"new", "connected", "lost"}

\* The loop never pauses the video on less than three critical samples in a
\* row of this very connection, and in the automatic mode only at the lowest
\* profile; nor does it resume the video without five good ones
\* (shouldPauseVideo, shouldRecoverVideo, and the counters that are reset).
PausedForCause ==
  [][/\ a'.suspended /\ ~a.suspended => seen' = 3 /\ (mode = Automatic => a'.level = 0)
     /\ a.suspended /\ ~a'.suspended => calm' = 5 \/ acts' # acts]_vars

\* Once no call of applyProfile is on its way, the camera encoding has the
\* profile that the user's choice, the automatic level and the operator's
\* limit resolve to, unless level or limit changed while the camera opened.
LimitsObeyed ==
  camera.pc = "on" /\ queue = <<>> /\ ~stale => sent = Resolve(mode, a.level, limit)

\* The chip says "Connected" only of a connection whose media are connected,
\* as long as the socket is open.
LabelIsTrue == label = "Connected" /\ socket => conn # 0 /\ media = "connected"

\* A recording has the state of the connection.
RecordIsCurrent == history = "on" /\ conn # 0 /\ media # "new" => noted = media

\* If in the end the network is good, the media connected and the tab visible,
\* then the video is not left paused, the automatic profile is the highest,
\* and the chip says "Connected".
Recovers ==
  <>[](network = "good" /\ conn # 0 /\ media = "connected" /\ socket /\ visible)
    => <>[](~a.suspended /\ (mode = Automatic => a.level = AutoTop) /\ label = "Connected")
=============================================================================
