----------------------------- MODULE LocalScreen -----------------------------
(***************************************************************************)
(* Sharing the local screen (web/js/app.js), against the lease that the    *)
(* hub grants (internal/signaling/hub.go; ScreenShare has the hub's side   *)
(* in detail).  Starting a share awaits the picker, the camera, the hub    *)
(* and the peer connection; stopping it awaits the sender.  Meanwhile the  *)
(* user ends the capture, "Protect audio" or the operator ends the share,  *)
(* the hub answers late or with an error, and the connection is lost.      *)
(*                                                                         *)
(* Every action is one task of the event loop with the microtasks that     *)
(* follow it, so what a promise rejects runs with what rejected it.        *)
(***************************************************************************)
EXTENDS Integers, Sequences

CONSTANTS MaxStarts,   \* bound on the shares the user begins
          MaxDrops,    \* bound on connections that are lost
          MaxTroubles  \* bound on failures, timeouts and what others do

ASSUME LocalScreenAssumptions == {MaxStarts, MaxDrops, MaxTroubles} \subseteq Nat

VARIABLES
  conn,           \* the connection, or 0
  live,           \* captures of the screen that are running
  screen,         \* screenStream and localScreenTrack: a capture, or 0
  sender,         \* screenSender, the connection it belongs to, its track
  start, stop,    \* screenShareStartPromise, screenShareStopPromise
  request,        \* screenShareRequest
  owner, allowed, \* screenShareOwner, screenShareEnabled
  camera,         \* cameraRequested
  lease, enabled, \* the hub: screenSharer, EnableScreenShare
  up, down,       \* the socket, in both directions
  starts, drops, troubles,
  suspended,      \* videoSuspended: no video is to be sent
  cut,            \* a connection was lost while a share was being stopped
  late,           \* a request was given up before the hub answered it
  failed          \* the last share failed to start with the camera on

vars == <<conn, live, screen, sender, start, stop, request, owner, allowed, camera,
          lease, enabled, up, down, starts, drops, troubles, suspended, cut, late, failed>>
hubVars == <<lease, enabled>>
bounds == <<starts, drops, troubles>>

Captures == 1 .. MaxStarts  \* named after the share that asked for them
NoSender == [conn |-> 0, track |-> 0, active |-> FALSE]
NoStart == [pc |-> "idle", conn |-> 0, camera |-> FALSE, cap |-> 0, denied |-> FALSE,
            ended |-> FALSE]
NoStop == [pc |-> "idle", conn |-> 0, cap |-> 0]

Init ==
  /\ conn = 1 /\ live = {} /\ screen = 0 /\ sender = NoSender
  /\ start = NoStart /\ stop = NoStop /\ request = FALSE
  /\ owner = "none" /\ allowed = TRUE /\ camera \in BOOLEAN
  /\ lease = "none" /\ enabled = TRUE /\ up = <<>> /\ down = <<>>
  /\ starts = 0 /\ drops = 0 /\ troubles = 0
  /\ suspended = FALSE /\ cut = FALSE /\ late = FALSE /\ failed = FALSE

(***************************************************************************)
(* Helpers.                                                                *)
(***************************************************************************)
Trouble == troubles < MaxTroubles /\ troubles' = troubles + 1

\* A message leaves if the socket is open.
Send(q, m) == IF conn = 0 THEN q ELSE Append(q, m)

\* requestCameraState: turning the camera on is ignored around a share.
CameraAfter(on, shared) ==
  IF on /\ (start.pc # "idle" \/ shared # 0 \/ stop.pc # "idle") THEN camera ELSE on

SendNothing(q) == q

\* setSenderEncodingActive, of the sender of the screen if there is one.
Encoding(on) == IF sender = NoSender THEN sender ELSE [sender EXCEPT !.active = on]

\* The end of every share: the hub is told, whether it granted the lease or not.
Release(q) == Send(q, "stop")

GiveUpRunning(cap, shared, q) ==
  /\ live' = live
  /\ up' = Release(q)
  /\ camera' = IF start.camera /\ ~camera /\ shared = 0 /\ ~start.denied
                 THEN CameraAfter(TRUE, shared) ELSE camera
  /\ failed' = (start.camera /\ ~start.denied /\ conn # 0)
  /\ start' = NoStart

\* The last part of startScreenShare's catch: capture, hub, camera.
GiveUp(cap, shared, q) ==
  /\ live' = live \ {cap}
  /\ up' = Release(q)
  /\ camera' = IF start.camera /\ ~camera /\ shared = 0 /\ ~start.denied
                 THEN CameraAfter(TRUE, shared) ELSE camera
  /\ failed' = (start.camera /\ ~start.denied /\ conn # 0)
  /\ start' = NoStart

\* Its first part: nothing is shared any more; a sender has to be detached.
CatchAfter(q) ==
  /\ screen' = 0 /\ request' = FALSE
  /\ IF sender = NoSender
       THEN GiveUp(screen, 0, q)
       ELSE /\ start' = [start EXCEPT !.pc = "undoing", !.cap = screen]
            /\ up' = q /\ UNCHANGED <<live, camera, failed>>

Catch == CatchAfter(up)

\* stopScreenShare up to its first await; without a sender there is none.
Stop ==
  IF stop # NoStop \/ screen = 0 THEN UNCHANGED <<stop, screen, live, up>>
  ELSE /\ screen' = 0
       /\ IF sender.conn = conn /\ conn # 0
            THEN /\ stop' = [pc |-> "pausing", conn |-> conn, cap |-> screen]
                 /\ UNCHANGED <<live, up>>
            ELSE /\ stop' = [pc |-> "resuming", conn |-> conn, cap |-> screen]
                 /\ live' = live \ {screen} /\ up' = Release(up)

(***************************************************************************)
(* startScreenShare.                                                       *)
(***************************************************************************)
\* toggleScreenShare, to start: the button is enabled.
Toggle ==
  /\ starts < MaxStarts /\ conn # 0 /\ start = NoStart /\ stop = NoStop /\ screen = 0
  /\ allowed /\ owner # "other"
  /\ start' = [NoStart EXCEPT !.pc = "picking", !.conn = conn, !.camera = camera]
  /\ starts' = starts + 1 /\ failed' = FALSE
  /\ UNCHANGED <<conn, live, screen, sender, stop, request, owner, allowed, camera,
                 hubVars, up, down, drops, troubles, suspended, cut, late>>

\* getDisplayMedia resolves; the camera is turned off.
Picked ==
  /\ start.pc = "picking"
  /\ live' = live \union {starts} /\ screen' = starts
  /\ start' = [start EXCEPT !.pc = "closing"]
  /\ camera' = FALSE
  /\ UNCHANGED <<conn, sender, stop, request, owner, allowed, hubVars, up, down,
                 bounds, suspended, cut, late, failed>>

\* The user closes the picker: NotAllowedError.
PickRefused ==
  /\ start.pc = "picking" /\ Trouble
  /\ start' = NoStart /\ up' = Release(up)
  /\ UNCHANGED <<conn, live, screen, sender, stop, request, owner, allowed, camera,
                 hubVars, down, starts, drops, suspended, cut, late, failed>>

\* The camera is off: the hub is asked for the lease.
Ask ==
  /\ start.pc = "closing"
  /\ IF conn = 0 \/ screen = 0
       THEN Catch
       ELSE /\ request' = TRUE /\ up' = Append(up, "start")
            /\ start' = [start EXCEPT !.pc = "asking"]
            /\ UNCHANGED <<screen, live, camera, failed>>
  /\ UNCHANGED <<conn, sender, stop, owner, allowed, hubVars, down, bounds, suspended, cut, late>>

\* The hub did not answer for five seconds: give the lease back, and fail.
TimeOut ==
  /\ request /\ Trouble
  /\ CatchAfter(Release(up)) /\ late' = TRUE
  /\ UNCHANGED <<conn, sender, stop, owner, allowed, hubVars, down, starts, drops, suspended, cut>>

\* The lease is granted: the sender is set up for the capture, inactive.
Granted ==
  IF start.conn # conn \/ screen = 0
    THEN Catch /\ UNCHANGED sender
    ELSE /\ start' = [start EXCEPT !.pc = "attaching"]
         /\ sender' = IF sender = NoSender
                        THEN [conn |-> conn, track |-> screen, active |-> FALSE]
                        ELSE [sender EXCEPT !.active = FALSE]
         /\ request' = FALSE /\ UNCHANGED <<screen, live, up, camera, failed>>

\* The encoding is paused and the track attached: negotiate.
Attach ==
  /\ start.pc = "attaching"
  /\ IF start.conn # conn
       THEN Catch /\ UNCHANGED sender
       ELSE /\ sender' = [sender EXCEPT !.track = screen]
            /\ start' = [start EXCEPT !.pc = "negotiating"]
            /\ UNCHANGED <<screen, request, live, up, camera, failed>>
  /\ UNCHANGED <<conn, stop, owner, allowed, hubVars, down, bounds, suspended, cut, late>>

\* renegotiateLocalMedia resolves: the encoding is activated, unless video is
\* suspended.
Activate ==
  /\ start.pc = "negotiating"
  /\ sender' = Encoding(~suspended)
  /\ start' = [start EXCEPT !.pc = "activating"]
  /\ UNCHANGED <<conn, live, screen, stop, request, owner, allowed, camera, hubVars,
                 up, down, bounds, suspended, cut, late, failed>>

NegotiationFails ==
  /\ start.pc = "negotiating" /\ Trouble /\ Catch
  /\ UNCHANGED <<conn, sender, stop, owner, allowed, hubVars, down, starts, drops,
                 suspended, cut, late>>

\* The last check, and what an 'ended' event has waited for.
Shared ==
  /\ start.pc = "activating"
  /\ IF screen = 0 \/ screen \notin live
       THEN Catch /\ UNCHANGED <<stop, sender>>
       ELSE /\ start' = NoStart
            /\ UNCHANGED <<screen, request, live, up, camera, sender, failed, stop>>
  /\ UNCHANGED <<conn, owner, allowed, hubVars, down, bounds, suspended, cut, late>>

\* The failed sender is paused and detached.
Undone ==
  /\ start.pc = "undoing"
  /\ sender' = IF sender = NoSender THEN sender
               ELSE [sender EXCEPT !.active = FALSE, !.track = 0]
  /\ GiveUp(start.cap, screen, up)
  /\ UNCHANGED <<conn, screen, stop, request, owner, allowed, hubVars, down, bounds,
                 suspended, cut, late>>

(***************************************************************************)
(* stopScreenShare.                                                        *)
(***************************************************************************)
\* Why it is called: the button, "Protect audio", or the browser's own bar.
UserStops ==
  /\ screen # 0
  /\ \/ start = NoStart /\ UNCHANGED troubles
     \/ Trouble
  /\ Stop
  /\ UNCHANGED <<conn, sender, start, request, owner, allowed, camera, hubVars, down,
                 starts, drops, suspended, cut, late, failed>>

\* The capture ends by itself; during a start the check at its end finds it.
CaptureEnds ==
  /\ screen \in live /\ Trouble
  /\ IF start # NoStart
       THEN live' = live \ {screen} /\ UNCHANGED <<stop, screen, up>>
       ELSE Stop
  /\ UNCHANGED <<conn, sender, start, request, owner, allowed, camera, hubVars, down,
                 starts, drops, suspended, cut, late, failed>>

DetachWithoutRelease ==
  /\ stop.pc = "pausing"
  /\ IF stop.conn = conn
       THEN /\ sender' = [sender EXCEPT !.track = 0, !.active = FALSE]
            /\ live' = live \ {stop.cap} /\ UNCHANGED up
            /\ stop' = [stop EXCEPT !.pc = "resuming"]
       ELSE stop' = NoStop /\ UNCHANGED <<sender, live, up>>
  /\ UNCHANGED <<conn, screen, start, request, owner, allowed, camera, hubVars, down,
                 bounds, suspended, cut, late, failed>>

\* The encoding is paused; replaceTrack(null) is called and answers.  On a
\* closed connection it is rejected, and removeTrack, tried next, throws.
Detach ==
  /\ stop.pc = "pausing"
  /\ IF stop.conn = conn
       THEN /\ sender' = [sender EXCEPT !.track = 0, !.active = FALSE]
            /\ live' = live \ {stop.cap} /\ up' = Release(up)
            /\ stop' = [stop EXCEPT !.pc = "resuming"]
       ELSE stop' = NoStop /\ UNCHANGED <<sender, live, up>>
  /\ UNCHANGED <<conn, screen, start, request, owner, allowed, camera, hubVars, down,
                 bounds, suspended, cut, late, failed>>

\* setVideoSending answers: the sender that was kept carries nothing, and is
\* active again.
Stopped ==
  /\ stop.pc = "resuming" /\ stop' = NoStop /\ sender' = Encoding(~suspended)
  /\ UNCHANGED <<conn, live, screen, start, request, owner, allowed, camera,
                 hubVars, up, down, bounds, suspended, cut, late, failed>>

\* setVideoSending, called by the quality loop, by "Protect audio" or by another
\* quality of the camera: video is suspended, or sent again.
SuspendVideo ==
  /\ Trouble /\ suspended' \in BOOLEAN /\ sender' = Encoding(~suspended')
  /\ UNCHANGED <<conn, live, screen, start, stop, request, owner, allowed, camera, hubVars,
                 up, down, starts, drops, cut, late, failed>>

(***************************************************************************)
(* Messages from the hub.                                                  *)
(***************************************************************************)
Message(m) == down # <<>> /\ Head(down) = m /\ down' = Tail(down)
StateOf == [none |-> "state none", me |-> "state me", other |-> "state other"]
States == {StateOf[o] : o \in DOMAIN StateOf}
OwnerOf(m) == CHOOSE o \in DOMAIN StateOf : StateOf[o] = m

\* The browser gives up a request that the hub may still grant.
Unanswered == "start" \in {up[i] : i \in DOMAIN up}
              \/ "state me" \in {down[i] : i \in 2 .. Len(down)}

\* screen_share_state: a request is granted, refused, or keeps waiting.
StateArrives ==
  \E m \in States :
    /\ Message(m) /\ owner' = OwnerOf(m)
    /\ CASE request /\ owner' = "me" -> Granted
         [] request /\ owner' = "other" -> Catch /\ UNCHANGED sender
         [] OTHER -> UNCHANGED <<screen, request, start, sender, live, up, camera, failed>>
    /\ late' = (late \/ (request /\ owner' = "other" /\ Unanswered))
    /\ UNCHANGED <<conn, stop, allowed, hubVars, bounds, suspended, cut>>

\* An error, of whatever request, rejects the one that is waiting.
ErrorArrives ==
  /\ Message("error")
  /\ IF request THEN Catch
     ELSE UNCHANGED <<screen, request, start, live, up, camera, failed>>
  /\ late' = (late \/ (request /\ Unanswered))
  /\ UNCHANGED <<conn, sender, stop, owner, allowed, hubVars, bounds, suspended, cut>>

\* config_update with screen_share_enabled.
ConfigArrives ==
  \E on \in BOOLEAN :
    /\ Message(IF on THEN "on" ELSE "off") /\ allowed' = on
    /\ IF on THEN UNCHANGED <<stop, screen, live, up>> ELSE Stop
    /\ UNCHANGED <<conn, sender, start, request, owner, camera, hubVars, bounds,
                   suspended, cut, late, failed>>

(***************************************************************************)
(* The hub.                                                                *)
(***************************************************************************)
Broadcast(old, new) == IF old = new THEN down ELSE Append(down, StateOf[new])

\* requestScreenShare in hub.go; what others do is a trouble.
HubHandles ==
  /\ up # <<>> /\ up' = Tail(up)
  /\ IF Head(up) = "start" /\ (~enabled \/ lease = "other")
       THEN down' = Append(down, "error") /\ UNCHANGED lease
       ELSE /\ lease' = IF Head(up) = "start" THEN "me"
                        ELSE IF lease = "me" THEN "none" ELSE lease
            /\ down' = Broadcast(lease, lease')
  /\ UNCHANGED <<conn, live, screen, sender, start, stop, request, owner, allowed,
                 camera, enabled, bounds, suspended, cut, late, failed>>

HubActs ==
  /\ conn # 0 /\ Trouble
  /\ \/ /\ lease \in {"none", "other"} /\ enabled
        /\ lease' = IF lease = "none" THEN "other" ELSE "none"
        /\ down' = Broadcast(lease, lease') /\ UNCHANGED enabled
     \/ /\ enabled' = ~enabled
        /\ lease' = IF enabled THEN "none" ELSE lease
        /\ down' = Append(Broadcast(lease, lease'), IF enabled THEN "off" ELSE "on")
     \/ down' = Append(down, "error") /\ UNCHANGED hubVars
  /\ UNCHANGED <<conn, live, screen, sender, start, stop, request, owner, allowed,
                 camera, up, starts, drops, suspended, cut, late, failed>>

(***************************************************************************)
(* The connection.                                                         *)
(***************************************************************************)

\* resetMediaConnection: what waits for the hub or a negotiation is rejected.
Reset ==
  /\ conn # 0 /\ drops < MaxDrops /\ drops' = drops + 1
  /\ conn' = 0 /\ sender' = NoSender /\ screen' = 0 /\ request' = FALSE /\ owner' = "none"
  /\ live' = live \ {screen}
  /\ start' = IF start.pc \in {"asking", "negotiating"} THEN NoStart
              ELSE start
  /\ failed' = FALSE
  /\ lease' = IF lease = "me" THEN "none" ELSE lease
  /\ up' = <<>> /\ down' = <<>>
  /\ cut' = (cut \/ stop.pc = "pausing")
  /\ UNCHANGED <<stop, allowed, camera, enabled, starts, troubles, suspended, late>>

\* A new connection; the hub replays the owner and the setting.  By then the
\* calls on the old connection have been rejected.
Connect ==
  /\ conn = 0 /\ stop.pc # "pausing" /\ start.pc \notin {"attaching", "activating", "undoing"}
  /\ conn' = drops + 1
  /\ down' = <<IF enabled THEN "on" ELSE "off", StateOf[lease]>>
  /\ UNCHANGED <<live, screen, sender, start, stop, request, owner, allowed, camera,
                 hubVars, up, bounds, suspended, cut, late, failed>>

(***************************************************************************)
(* Specification.                                                          *)
(***************************************************************************)
StartSteps ==
  \/ Picked \/ PickRefused \/ Ask \/ Attach \/ Activate \/ NegotiationFails \/ Shared \/ Undone
Messages == StateArrives \/ ErrorArrives \/ ConfigArrives

Next ==
  \/ Toggle \/ StartSteps \/ TimeOut \/ UserStops \/ CaptureEnds \/ Detach \/ Stopped
  \/ SuspendVideo \/ Messages \/ HubHandles \/ HubActs \/ Reset \/ Connect

Spec == Init /\ [][Next]_vars

\* The hub handles what it receives, messages arrive, and the hub's answer is
\* not beaten by the timeout: the timer is not needed for a start to end.
FairSpec ==
  /\ Spec
  /\ WF_vars(HubHandles) /\ WF_vars(Messages) /\ WF_vars(StartSteps \/ Detach \/ Stopped)
  /\ WF_vars(Connect)

(***************************************************************************)
(* Properties.                                                             *)
(***************************************************************************)
Quiet == start = NoStart /\ stop = NoStop /\ up = <<>> /\ down = <<>> /\ conn # 0

\* Every variable has its type; a request belongs to a start that asks.
TypeOK ==
  /\ conn \in 0 .. MaxDrops + 1 /\ live \subseteq Captures
  /\ screen \in {0} \union Captures /\ sender.conn \in {0, conn}
  /\ sender.track \in {0} \union Captures /\ sender.active \in BOOLEAN
  /\ owner \in {"none", "me", "other"} /\ lease \in {"none", "me", "other"}
  /\ {allowed, camera, enabled, suspended, cut, failed} \subseteq BOOLEAN
  /\ request <=> start.pc = "asking"

\* The lease and the share agree: when the browser has nothing under way and
\* every message has arrived, the hub's lease is this participant's exactly
\* when a capture is shared, and the browser shows the hub's owner.  Once a
\* request was given up unanswered, its late grant may be taken for that of
\* the next one; the lease is returned even then.
LeaseMatchesShare ==
  Quiet => /\ owner = lease
           /\ lease = "me" => screen # 0
           /\ screen # 0 /\ ~late => lease = "me"

\* A share that ended is over: no capture of the screen goes on unless it is
\* the one being shared, except after a connection that was lost while a
\* share was being stopped.
NoCaptureLeftOver ==
  start = NoStart /\ stop = NoStop /\ ~cut => live \subseteq {screen}

\* What is shared is sent, and nothing else: the sender carries the shared
\* capture, active unless video is suspended, and nothing once the share is over.
SharedIsSent ==
  start = NoStart /\ stop = NoStop =>
    IF screen = 0 THEN sender.track = 0
    ELSE sender.track = screen /\ sender.active = ~suspended /\ sender.conn = conn

\* Every request is answered, although the hub announces only what changes:
\* a lease that was not returned would be granted again in silence.
RequestsAnswered == request ~> ~request

\* A share that fails to start gives the camera back (app.js:5307).  It does not:
\* the request is ignored while the start is under way (app.js:2643).
CameraComesBack ==
  start = NoStart /\ failed => camera
=============================================================================
