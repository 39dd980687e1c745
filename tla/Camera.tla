------------------------------- MODULE Camera -------------------------------
(***************************************************************************)
(* The camera of the local participant (web/js/app.js): the operation that *)
(* turns it on and off and retries, the start of a connection, which       *)
(* restores it, the switch to another device, and the suspension of the    *)
(* video by the adaptation and by "Protect audio".  The four of them await *)
(* captures, senders and negotiations, and share the handles that the      *)
(* variable cam holds.                                                     *)
(*                                                                         *)
(* A capture stands for a MediaStream of getUserMedia and its one video    *)
(* track; a connection for the peer connection made under one socket.  The *)
(* browser is external: a capture is granted or refused when it likes, a   *)
(* call on a closed connection is rejected at once.  Screen sharing, which *)
(* uses the same operations, is the subject of LocalScreen.                *)
(***************************************************************************)
EXTENDS Integers, Sequences, Selection, FiniteSetsExt

CONSTANTS Simulcast,     \* simulcastEnabled: cameras do not use the first m-line
          MaxCaptures,   \* captures that may be referred to at one time
          MaxCameraActs, \* bound on what the user and the adaptation do
          MaxDrops,      \* bound on connections that are lost
          MaxFailures    \* bound on captures and negotiations that fail

ASSUME CameraAssumptions ==
  /\ Simulcast \in BOOLEAN
  /\ {MaxCaptures, MaxCameraActs, MaxDrops, MaxFailures} \subseteq Nat

VARIABLES
  peer, stream, \* peer and localStream, named by the connection, or 0
  cam,          \* everything else the functions below share
  proc,         \* where the camera operation and the restoration await
  switch,       \* where replaceLocalDevice awaits
  conns, cameraActs, drops, failures,
  asked,        \* what the user asked of the operation last
  crossed,      \* two of the tasks of the camera have been under way at once
  meddled       \* an operation was under way while "Protect audio" was on or switched

vars == <<peer, stream, cam, proc, switch, conns, cameraActs, drops, failures, asked, crossed,
          meddled>>
bounds == <<conns, cameraActs, drops, failures>>

Captures == 1 .. MaxCaptures
Senders == 1 .. 4  \* the sender of videoTransceiver, and those that are added
Idle == [pc |-> "idle", peer |-> 0, cap |-> 0, sender |-> 0, try |-> 0,
         want |-> FALSE, was |-> FALSE]
NoSwitch == [pc |-> "idle", peer |-> 0, cap |-> 0, prev |-> 0, sender |-> 0]
Result(c, r) == [cam |-> c, r |-> r]

Init ==
  /\ peer = 0 /\ stream = 0
  /\ cam = [live |-> {}, enabled |-> {},      \* tracks of captures
            handle |-> 0,                     \* localCameraTrack, localCameraStream
            tracks |-> <<>>,                  \* localStream.getVideoTracks()
            attached |-> [s \in Senders |-> 0], active |-> Senders,
            sender |-> 0, negotiated |-> FALSE,
            requested |-> FALSE, target |-> "none",
            suspended |-> FALSE, automatic |-> FALSE, sends |-> <<>>,
            audioOnly |-> FALSE, before |-> FALSE, quality |-> TRUE,
            said |-> "nothing"]
  /\ proc = [p \in {"op", "restore"} |-> Idle] /\ switch = NoSwitch
  /\ conns = 0 /\ cameraActs = 0 /\ drops = 0 /\ failures = 0
  /\ asked = "none" /\ crossed = FALSE /\ meddled = FALSE

(***************************************************************************)
(* What the functions do to the shared state.                              *)
(***************************************************************************)
\* cameraOn in setLocalMediaControls, which the button shows.
CameraOn(c) == c.handle # 0 /\ c.requested /\ ~c.suspended /\ ~c.audioOnly

\* sendMediaState: others are told whether this participant's video is on.
Announce(c) ==
  [c EXCEPT !.said = IF peer = 0 THEN @
                     ELSE IF CameraOn(c) /\ c.handle \in c.enabled THEN "on" ELSE "off"]

Enable(c, track, on) ==
  [c EXCEPT !.enabled = IF track = 0 THEN @
                        ELSE IF on THEN @ \union {track} ELSE @ \ {track}]

\* setSenderEncodingActive: calls take effect in the order they are made.
Activate(c, on) ==
  [c EXCEPT !.active = IF c.sender = 0 THEN @
                       ELSE IF on THEN @ \union {c.sender} ELSE @ \ {c.sender}]

\* setVideoSending up to its await; SendingSet is the rest.
SetVideoSending(c, on, automatic, who) ==
  LET sending == on /\ ~c.audioOnly
  IN  [Activate(c, sending /\ c.requested) EXCEPT
         !.suspended = ~sending,
         !.automatic = ~sending /\ automatic /\ ~c.audioOnly,
         !.sends = Append(@, [on |-> sending, who |-> who])]

\* The first part of disableCamera: the device stops, its track is detached.
Disable(c, r, pc) ==
  Result([c EXCEPT !.requested = FALSE, !.live = @ \ {c.handle}],
         [r EXCEPT !.pc = pc, !.peer = peer, !.cap = c.handle, !.sender = c.sender])

TrackAlwaysEnabled(c) == TRUE

\* A track is sent from the start unless the video is suspended.
TrackEnabled(c) == ~c.suspended /\ ~c.audioOnly

\* enableCameraOnce has its capture: the handles and the flags are set.
Prepare(c, r) ==
  LET reused == r.cap = c.handle
      fresh == [Enable(c, r.cap, TrackEnabled(c)) EXCEPT
                  !.handle = r.cap,
                  !.tracks = IF reused \/ stream = 0 THEN @ ELSE Append(@, r.cap),
                  !.requested = @ \/ r.want,
                  !.negotiated = @ /\ c.sender # 0]
  IN  Result(fresh, [r EXCEPT !.pc = "constraining", !.sender = c.sender])

\* enableCameraOnce up to its first await.
EnableOnce(c, r) ==
  IF c.handle # 0 /\ c.handle \in c.live
    THEN Prepare(c, [r EXCEPT !.peer = peer, !.cap = c.handle])
    ELSE Result([c EXCEPT !.handle = 0], [r EXCEPT !.pc = "capturing", !.peer = peer])

\* requestCameraState is over.
Finish(c) == Result([c EXCEPT !.target = "none"], Idle)

\* After enableCamera: an automatic pause ends when the camera is turned on.
Resume(c, r) ==
  Result(SetVideoSending(c, TRUE, FALSE, "op"), [Idle EXCEPT !.pc = "resuming",
         !.want = r.want, !.was = r.was])

\* One turn of the loop of requestCameraState.
Iterate(c) ==
  LET r == [Idle EXCEPT !.want = c.target = "on", !.was = c.requested]
  IN  CASE ~r.want -> Disable(c, r, "detaching")
        [] r.want /\ peer # 0 -> EnableOnce(c, r)
        [] OTHER -> IF c.automatic THEN Resume(c, r) ELSE Finish(c)

LoopNever(c, r) == Finish(c)

\* Its condition, after an operation.
LoopAgain(c, r) ==
  IF \/ c.requested = r.was /\ (c.target = "on") = r.want
     \/ c.requested = (c.target = "on")
    THEN Finish(c) ELSE Iterate(c)

\* enableCamera after a failed attempt and its clean-up: wait, or give up.
RetryOrGiveUp(c, r) ==
  IF r.try < 2 THEN Result(c, [Idle EXCEPT !.pc = "waiting", !.try = r.try + 1,
                                           !.want = r.want, !.was = r.was])
  ELSE Finish([c EXCEPT !.requested = FALSE])

\* enableCameraOnce throws.
Failed(p, c, r) ==
  IF p = "restore"
    THEN Result(Announce(IF c.audioOnly THEN [c EXCEPT !.before = FALSE]
                                        ELSE [c EXCEPT !.requested = FALSE]),
                [Idle EXCEPT !.pc = "offering", !.peer = r.peer])
    ELSE IF c.handle # 0 \/ c.sender # 0 THEN Disable(c, r, "undoing")
    ELSE RetryOrGiveUp(c, r)

\* enableCameraOnce returns.
Enabled(p, c, r) ==
  IF p = "restore" THEN Result(c, [Idle EXCEPT !.pc = "offering", !.peer = r.peer])
  ELSE IF c.automatic THEN Resume(c, r)
  ELSE LoopAgain(c, r)

\* requestCameraState: a busy operation only learns the new target.
RequestCameraState(c, on, force) ==
  LET wanted == [c EXCEPT !.target = IF on THEN "on" ELSE "off"]
  IN  IF proc["op"].pc # "idle" THEN Result(wanted, proc["op"])
      ELSE IF force \/ c.requested # on THEN Iterate(wanted)
      ELSE Result(c, Idle)

(***************************************************************************)
(* The steps of the operation and of the restoration.                      *)
(***************************************************************************)
\* A capture stands for a MediaStream as long as something refers to it.
Refers == {cam.handle, switch.cap, proc["op"].cap, proc["restore"].cap}
          \union cam.live \union {cam.tracks[i] : i \in DOMAIN cam.tracks}
          \union {cam.attached[s] : s \in Senders}
Room == Captures \ Refers # {}
FreshCapture == CHOOSE i \in Captures \ Refers : TRUE

\* A task goes on: it changes the camera and where it awaits.
Step(p, result) ==
  /\ proc' = [proc EXCEPT ![p] = result.r] /\ cam' = result.cam
  /\ UNCHANGED <<peer, stream, switch, asked, crossed, meddled, conns, cameraActs, drops>>

At(p, pc) == proc[p].pc = pc
Stale(p) == proc[p].peer # peer
Mishap == failures < MaxFailures /\ failures' = failures + 1
Works == UNCHANGED failures

\* getUserMedia answers enableCameraOnce.
CameraCaptured(p) ==
  /\ At(p, "capturing") /\ Room
  /\ LET r == [proc[p] EXCEPT !.cap = FreshCapture]
         c == [cam EXCEPT !.live = @ \union {r.cap}]
     IN  Step(p, IF Stale(p) THEN Failed(p, cam, proc[p]) ELSE Prepare(c, r))
  /\ Works

CameraRefused(p) ==
  At(p, "capturing") /\ Step(p, Failed(p, cam, proc[p])) /\ Mishap

\* The constraints are applied: a sender is chosen and given the track.
Constrained(p) ==
  /\ At(p, "constraining")
  /\ LET r == proc[p]
         added == Min({s \in Senders \ {1} : cam.attached[s] = 0})
         bound == [cam EXCEPT !.sender = added, !.negotiated = FALSE,
                              !.attached[added] = r.cap]
     IN  Step(p,
           CASE Stale(p) -> Failed(p, [cam EXCEPT !.live = @ \ {r.cap}], r)
             [] ~Stale(p) /\ r.sender # 0 ->
                  Result(cam, [r EXCEPT !.pc = "attaching"])
             [] ~Stale(p) /\ r.sender = 0 /\ ~Simulcast /\ cam.attached[1] = 0 ->
                  Result([cam EXCEPT !.sender = 1, !.negotiated = FALSE],
                         [r EXCEPT !.pc = "attaching", !.sender = 1])
             [] OTHER ->
                  Result(Activate(bound, r.cap \in cam.enabled /\ cam.requested),
                         [r EXCEPT !.pc = "activating", !.sender = added]))
  /\ Works

\* replaceTrack answers; the encoding, which a share may have paused, resumes.
Attached(p) ==
  /\ At(p, "attaching")
  /\ LET r == proc[p]
         c == [cam EXCEPT !.attached[r.sender] = r.cap]
     IN  Step(p, IF Stale(p) THEN Failed(p, cam, r)
                 ELSE Result(Activate(c, r.cap \in c.enabled /\ c.requested),
                             [r EXCEPT !.pc = "activating"]))
  /\ Works

\* setParameters answers; only the operation negotiates, and only once.
Activated(p) ==
  /\ At(p, "activating")
  /\ Step(p, IF Stale(p) THEN Failed(p, cam, proc[p])
             ELSE IF ~cam.negotiated /\ p = "op"
                    THEN Result(cam, [proc[p] EXCEPT !.pc = "negotiating"])
             ELSE Enabled(p, Announce(cam), proc[p]))
  /\ Works

Negotiated(p) ==
  /\ At(p, "negotiating")
  /\ Step(p, IF Stale(p) THEN Failed(p, cam, proc[p])
             ELSE Enabled(p, Announce([cam EXCEPT !.negotiated = TRUE]), proc[p]))
  /\ Works

NegotiationFails(p) ==
  At(p, "negotiating") /\ Step(p, Failed(p, cam, proc[p])) /\ Mishap

\* The end of disableCamera, whoever's handle it is by now.
Detached(c, r) ==
  LET off == [c EXCEPT !.handle = 0,
                       !.attached = IF r.peer = peer /\ r.sender # 0
                                      THEN [@ EXCEPT ![r.sender] = 0] ELSE @,
                       !.tracks = Keep(@, Captures \ {r.cap})]
  IN  Announce(off)

CameraDetached ==
  LET r == proc["op"]
  IN  /\ \/ At("op", "detaching") /\ Step("op", LoopAgain(Detached(cam, r), r))
         \/ At("op", "undoing") /\ Step("op", RetryOrGiveUp(Detached(cam, r), r))
      /\ Works

RetryTimerFires ==
  LET r == proc["op"]
  IN  /\ At("op", "waiting")
      /\ Step("op", IF peer = 0 THEN Enabled("op", cam, r) ELSE EnableOnce(cam, r))
      /\ Works

\* startWebRTC from the microphone to its last negotiation.
MicrophoneReady ==
  /\ At("restore", "setup")
  /\ stream' = peer
  /\ LET c == Announce([cam EXCEPT !.handle = 0, !.sender = 0, !.negotiated = FALSE])
     IN  cam' = SetVideoSending(c, ~c.suspended, c.automatic, "restore")
  /\ proc' = [proc EXCEPT !["restore"].pc = "sending"]
  /\ UNCHANGED <<peer, switch, asked, crossed, meddled, bounds>>

RestoreCamera(c, r) ==
  IF c.requested \/ (c.audioOnly /\ c.before /\ c.quality)
    THEN EnableOnce(c, [Idle EXCEPT !.want = ~c.audioOnly])
    ELSE Result(c, [Idle EXCEPT !.pc = "offering", !.peer = r.peer])

Offered ==
  /\ At("restore", "offering")
  /\ \E ok \in BOOLEAN :
       /\ IF ok THEN Works ELSE Mishap
       /\ Step("restore", Result([cam EXCEPT !.negotiated = @ \/ (ok /\ cam.sender # 0)],
                                 Idle))

\* setVideoSending after its await; who awaited it goes on.
SendingSet ==
  /\ cam.sends # <<>>
  /\ LET send == Head(cam.sends)
         c == Announce(Enable([cam EXCEPT !.sends = Tail(@)], cam.handle,
                              send.on /\ cam.requested))
     IN  CASE send.who = "op" -> Step("op", LoopAgain(c, proc["op"]))
           [] send.who = "restore" -> Step("restore", RestoreCamera(c, proc["restore"]))
           [] OTHER -> Step("op", Result(c, proc["op"]))
  /\ Works

(***************************************************************************)
(* replaceLocalDevice("video").                                            *)
(***************************************************************************)
Busy == \/ \E p \in DOMAIN proc : proc[p].pc # "idle"
        \/ cam.sends # <<>>

AdoptKeepingHandle(c, cap, prev) ==
  LET c1 == [c EXCEPT !.live = @ \ ({prev} \ {cap}),
                      !.tracks = Append(Keep(@, Captures \ {prev}), cap)]
  IN  Announce(Enable(c1, cap, c.requested /\ ~c.suspended /\ ~c.audioOnly))

\* The new capture takes over the handles; the old ones stop.
Adopt(c, cap, prev) ==
  LET c1 == [c EXCEPT !.live = @ \ ({c.handle, prev} \ {cap}), !.handle = cap,
                      !.tracks = Append(Keep(@, Captures \ {prev}), cap)]
  IN  Announce(Enable(c1, cap, c.requested /\ ~c.suspended /\ ~c.audioOnly))

SwitchDevice ==
  /\ stream # 0 /\ switch = NoSwitch /\ cameraActs < MaxCameraActs
  /\ switch' = [NoSwitch EXCEPT !.pc = "capturing", !.peer = peer]
  /\ cameraActs' = cameraActs + 1 /\ crossed' = (crossed \/ Busy)
  /\ UNCHANGED <<peer, stream, cam, proc, asked, meddled, conns, drops, failures>>

SwitchCaptured ==
  /\ switch.pc = "capturing" /\ Room
  /\ LET prev == IF cam.tracks = <<>> THEN 0 ELSE Head(cam.tracks)
         cap == FreshCapture
         c == [cam EXCEPT !.live = @ \union {cap}]
         used == {s \in Senders : cam.attached[s] # 0}
     IN  CASE switch.peer # stream -> switch' = NoSwitch /\ UNCHANGED cam
           [] switch.peer = stream /\ used # {} ->
                /\ switch' = [switch EXCEPT !.pc = "replacing", !.cap = cap,
                                            !.prev = prev, !.sender = Min(used)]
                /\ cam' = c
           [] OTHER -> switch' = NoSwitch /\ cam' = Adopt(c, cap, prev)
  /\ UNCHANGED <<peer, stream, proc, bounds, asked, crossed, meddled>>

\* replaceTrack answers; nothing is checked again after it.
SwitchReplaced ==
  /\ switch.pc = "replacing"
  /\ cam' = IF switch.peer # peer THEN cam
            ELSE Adopt([cam EXCEPT !.attached[switch.sender] = switch.cap],
                       switch.cap, switch.prev)
  /\ switch' = NoSwitch
  /\ UNCHANGED <<peer, stream, proc, bounds, asked, crossed, meddled>>

SwitchRefused ==
  /\ switch.pc = "capturing" /\ Mishap
  /\ switch' = NoSwitch
  /\ UNCHANGED <<peer, stream, cam, proc, conns, cameraActs, drops, asked, crossed, meddled>>

(***************************************************************************)
(* The connection.                                                         *)
(***************************************************************************)
\* resetMediaConnection; a restoration under way ends at its next check.
Reset ==
  /\ peer # 0 /\ drops < MaxDrops
  /\ peer' = 0 /\ stream' = 0
  /\ cam' = [cam EXCEPT
       !.live = @ \ {cam.tracks[i] : i \in DOMAIN cam.tracks},
       !.handle = 0, !.tracks = <<>>, !.sender = 0, !.negotiated = FALSE,
       !.attached = [s \in Senders |-> 0], !.active = Senders,
       !.suspended = @ \/ cam.audioOnly, !.automatic = @ /\ ~cam.audioOnly,
       !.sends = [i \in DOMAIN @ |-> IF @[i].who = "restore"
                                       THEN [@[i] EXCEPT !.who = "none"] ELSE @[i]],
       !.said = "nothing"]
  /\ proc' = [proc EXCEPT !["restore"] = Idle]
  /\ asked' = IF At("op", "idle") THEN asked ELSE "none"
  /\ drops' = drops + 1 /\ crossed' = (crossed \/ switch # NoSwitch)
  /\ UNCHANGED <<switch, meddled, conns, cameraActs, failures>>

\* The next connection takes at least a second: rejections have arrived.
Rejected ==
  /\ cam.sends = <<>> /\ switch.pc # "replacing"
  /\ proc["op"].pc \notin {"attaching", "activating", "negotiating", "detaching", "undoing"}

Start ==
  /\ peer = 0 /\ Rejected /\ conns <= drops
  /\ peer' = conns + 1 /\ conns' = conns + 1
  /\ proc' = [proc EXCEPT !["restore"] = [Idle EXCEPT !.pc = "setup", !.peer = conns + 1]]
  /\ crossed' = (crossed \/ ~At("op", "idle") \/ switch # NoSwitch)
  /\ UNCHANGED <<stream, cam, switch, asked, meddled, cameraActs, drops, failures>>

(***************************************************************************)
(* The user and the adaptation.                                            *)
(***************************************************************************)
\* meddled: "Protect audio" copies cameraRequested into cameraBeforeAudioOnly while an
\* operation is about to change it, and writes it back without a capture.
Act(result) ==
  /\ cameraActs < MaxCameraActs /\ cameraActs' = cameraActs + 1
  /\ cam' = result.cam /\ proc' = [proc EXCEPT !["op"] = result.r]
  /\ crossed' = (crossed \/ switch # NoSwitch \/ ~At("restore", "idle"))
  /\ meddled' = (meddled \/ (result.r.pc # "idle" /\ (cam.audioOnly \/ result.cam.audioOnly)))
  /\ UNCHANGED <<peer, stream, switch, conns, drops, failures>>

\* The camera button asks for the opposite of what was asked last.
ClickCamera ==
  /\ stream # 0
  /\ LET on == IF cam.target = "none" THEN ~CameraOn(cam) ELSE cam.target = "off"
     IN  /\ on => ~cam.audioOnly /\ cam.quality
         /\ Act(RequestCameraState(cam, on, on /\ cam.automatic))
         /\ asked' = IF on THEN "on" ELSE "off"

\* "Protect audio".
ToggleAudioOnly ==
  LET on == [cam EXCEPT !.audioOnly = TRUE, !.before = cam.requested, !.requested = FALSE]
      off == [cam EXCEPT !.audioOnly = FALSE, !.requested = cam.before /\ cam.quality]
  IN  /\ Act(Result(IF cam.audioOnly THEN SetVideoSending(off, off.requested, FALSE, "none")
                    ELSE SetVideoSending(on, FALSE, FALSE, "none"), proc["op"]))
      /\ asked' = "none"

\* The camera quality, "off" among its values.
SelectQuality ==
  \E on \in BOOLEAN :
    LET c == [cam EXCEPT !.quality = on]
    IN  /\ Act(IF ~on THEN RequestCameraState(c, FALSE, TRUE)
               ELSE Result(IF c.requested THEN SetVideoSending(c, TRUE, FALSE, "none") ELSE c,
                           proc["op"]))
        /\ asked' = IF on THEN asked ELSE "off"

\* runDiagnosticsUpdate pauses the video and resumes it.
PauseVideo ==
  /\ peer # 0 /\ ~cam.suspended
  /\ Act(Result(SetVideoSending(cam, FALSE, TRUE, "none"), proc["op"]))
  /\ UNCHANGED asked

RecoverVideo ==
  /\ peer # 0 /\ cam.suspended
  /\ Act(Result(SetVideoSending(cam, TRUE, FALSE, "none"), proc["op"]))
  /\ UNCHANGED asked

(***************************************************************************)
(* Specification.                                                          *)
(***************************************************************************)
ProcSteps(p) ==
  \/ CameraCaptured(p) \/ CameraRefused(p) \/ Constrained(p) \/ Attached(p)
  \/ Activated(p) \/ Negotiated(p) \/ NegotiationFails(p)

SwitchSteps == SwitchCaptured \/ SwitchReplaced \/ SwitchRefused

Next ==
  \/ \E p \in DOMAIN proc : ProcSteps(p)
  \/ CameraDetached \/ RetryTimerFires \/ MicrophoneReady \/ Offered \/ SendingSet
  \/ SwitchDevice \/ SwitchSteps \/ Reset \/ Start
  \/ ClickCamera \/ ToggleAudioOnly \/ SelectQuality \/ PauseVideo \/ RecoverVideo

Spec == Init /\ [][Next]_vars

(***************************************************************************)
(* Properties.                                                             *)
(***************************************************************************)
Calm == ~Busy /\ switch = NoSwitch
CameraSettled == Calm /\ peer # 0 /\ stream = peer

\* A sender whose packets leave: its track is live and enabled, its encoding active.
Sending(s) == /\ s \in cam.active
              /\ cam.attached[s] \in cam.live \intersect cam.enabled

\* Every variable of the camera has its type.
TypeOK ==
  /\ peer \in 0 .. conns /\ stream \in {0, peer}
  /\ cam.live \subseteq Captures /\ cam.enabled \subseteq Captures
  /\ cam.handle \in {0} \union Captures
  /\ \A i \in DOMAIN cam.tracks : cam.tracks[i] \in Captures
  /\ cam.attached \in [Senders -> {0} \union Captures]
  /\ cam.active \subseteq Senders /\ cam.sender \in {0} \union Senders
  /\ cam.target \in {"none", "on", "off"} /\ cam.said \in {"nothing", "on", "off"}
  /\ cam.target # "none" <=> proc["op"].pc # "idle"

\* Nothing is sent that the others are not told of, and that the user does
\* not see: when nothing is under way and a track is sent, the last media_state
\* says that the video is on, and so does the button.
NothingSentUnseen ==
  CameraSettled /\ ~crossed /\ (\E s \in Senders : Sending(s)) =>
    cam.said = "on" /\ CameraOn(cam)

\* A camera that is off is off: without a device switch that met another
\* task, the only device that runs when nothing is under way is the one that
\* the next disableCamera stops.
OffStopsTheDevice ==
  Calm /\ ~crossed => cam.live \subseteq {cam.handle}

\* A camera that was on is sent again by the next connection, on a sender
\* that was negotiated, unless a capture or a negotiation failed or "Protect audio"
\* met an operation.
CameraComesBack ==
  CameraSettled /\ ~crossed /\ ~meddled /\ failures = 0 /\ cam.requested =>
    /\ cam.handle \in cam.live /\ cam.sender # 0
    /\ cam.attached[cam.sender] = cam.handle /\ cam.negotiated

\* The camera is published on one m-line: the comment in enableCameraOnce
\* (app.js:2549) says that a second one disturbs the connection.  It is published twice when a
\* click meets the restoration of the camera (app.js:3970).
OneCameraSender ==
  \A s, t \in Senders :
    cam.attached[s] # 0 /\ cam.attached[s] = cam.attached[t] => s = t

\* The last word wins: a click that finds the operation under way only leaves a
\* target, and when everything is quiet the camera is what was asked last,
\* unless it failed, the connection was lost meanwhile or "Protect audio" came in.
LastWordWins ==
  Calm /\ failures = 0 /\ ~crossed /\ ~meddled =>
    asked \in {"none", IF cam.requested THEN "on" ELSE "off"}

\* When everything is quiet the camera is what was asked last, and survives a
\* reconnection.
CameraInv == TypeOK /\ CameraComesBack /\ LastWordWins
=============================================================================
