----------------------------- MODULE RemoteMedia -----------------------------
(***************************************************************************)
(* What the meeting page shows and plays of another participant            *)
(* (web/js/app.js, web/js/remote-camera-video.js,                          *)
(* web/js/remote-screen-video.js): the participant's tile comes and goes   *)
(* with the signaling messages, the tracks come with the answers to the    *)
(* server's offers, and end or fall silent when the media do.  Nothing     *)
(* orders the two, so each handler checks what it finds.                   *)
(*                                                                         *)
(* One participant is observed, and of the others only that one of them    *)
(* may share its screen.  The microphone of the user is the second speaker.*)
(***************************************************************************)
EXTENDS Integers, Sequences, FiniteSetsExt

CONSTANTS Roles,      \* the kinds of track: see Screens, Layers and "audio"
          MaxTracks,  \* bound on tracks
          MaxRemoteActs     \* bound on what the participants do

VARIABLES
  tile,      \* the participant's tile; "leaving": for 1.2 s after the message
  cam, mic,  \* what the participant announced: see updateMediaState
  recv,      \* receiveVideoEnabled
  owner,     \* screenShareOwner
  tracks,    \* the tracks, in the order in which they were offered
  screen,    \* remoteScreenTracks, and the track in the tile's screen video
  layers,    \* remoteCameraLayerTracks
  picture,   \* the track in the tile's camera video
  prefer,    \* cameraLayer
  sound,     \* the tile's audio: none, blocked by the browser, or playing
  offered,   \* the button "Enable remote audio" is there
  view,      \* the videos that are not hidden
  voice,     \* the analyzers: of the user and of the participant
  flips,     \* pendingSpeakerStates, and whether their timer runs
  active,    \* activeSpeakers
  primary,   \* activeSpeakerId
  remoteActs,
  mixed      \* the other's track came when the participant shared again: it
             \* stays the participant's until a track of its own arrives

remoteVars == <<tile, cam, mic, recv, owner, tracks, screen, layers, picture, prefer, sound, offered,
          view, voice, flips, active, primary, remoteActs, mixed>>
speaking == <<voice, flips, active, primary>>
audio == <<sound, offered>>
videos == <<screen, layers, picture>>
choices == <<recv, prefer>>

Speakers == {"me", "p"}
Owners == {"none", "p", "other"}
Layers == {"low", "high"}
Screens == {"screen", "unnamed"}  \* with and without an id that says so
\* "foreign": the screen of the other; "camera": the only layer there is.
AllRoles == Screens \union Layers \union {"foreign", "camera", "audio"}

\* Cameras are sent with layers or without.
ASSUME RemoteMediaAssumptions ==
  /\ {MaxTracks, MaxRemoteActs} \subseteq Nat /\ Roles \subseteq AllRoles
  /\ "camera" \in Roles => Roles \intersect Layers = {}

Numbers == 0 .. MaxTracks  \* 0: no track
NoFlips == [state |-> [x \in Speakers |-> "none"], timer |-> FALSE]

RemoteInit ==
  /\ tile = "none" /\ cam = "unknown" /\ mic = [x \in Speakers |-> "unknown"]
  /\ recv = TRUE /\ owner = "none" /\ tracks = <<>> /\ screen = [entry |-> 0, src |-> 0]
  /\ layers = [l \in Layers |-> 0] /\ picture = 0 /\ prefer = "high"
  /\ sound = "none" /\ offered = FALSE /\ view = {}
  /\ voice = [x \in Speakers |-> IF x = "me" THEN "quiet" ELSE "none"] /\ flips = NoFlips
  /\ active = {} /\ primary = "none" /\ remoteActs = 0 /\ mixed = FALSE

ActOnce == remoteActs < MaxRemoteActs /\ remoteActs' = remoteActs + 1

Live(i) == i # 0 /\ tracks[i].state \in {"live", "muted"}

NoLayers == [l \in Layers |-> 0]

(***************************************************************************)
(* What is shown.                                                          *)
(***************************************************************************)
\* updateParticipantVideoVisibility.
Visible ==
  (IF cam = "on" /\ Live(picture) /\ recv /\ ~(screen.src # 0 /\ owner = "p") THEN {"camera"} ELSE {})
    \union (IF screen.src # 0 /\ owner = "p" THEN {"screen"} ELSE {})

ShowNow == view' = Visible'

\* bindRemoteCameraTrack.selectLayer: of the tracks that have not ended the
\* nearest to the preferred layer, those that are not muted before the others.
Select(map, layer, states) ==
  LET live == {l \in Layers : map[l] # 0 /\ states[map[l]] \in {"live", "muted"}}
      unmuted == {l \in live : states[map[l]] = "live"}
      from == IF unmuted # {} THEN unmuted ELSE live
  IN  IF from = {} THEN 0
      ELSE IF layer \in from THEN map[layer]
      ELSE map[CHOOSE l \in from : TRUE]

States == [i \in DOMAIN tracks |-> tracks[i].state]

KeepPicture ==
  picture' = IF tile' = "none" \/ layers' = NoLayers \/ picture # 0 THEN picture
             ELSE Select(layers', prefer', States')

\* showSelectedRemoteCamera: nothing without an entry of remoteCameraLayerTracks.
ShowCamera ==
  picture' = IF tile' = "none" \/ layers' = NoLayers THEN picture
             ELSE Select(layers', prefer', States')

(***************************************************************************)
(* Who is speaking.                                                        *)
(***************************************************************************)
\* refreshPrimarySpeaker: the loudest of those who speak and are not muted.
Refresh(who) ==
  LET eligible == {x \in who : mic[x] # "off"}
  IN  IF eligible = {} THEN primary' = "none" ELSE primary' \in eligible

Here == {x \in Speakers : x = "me" \/ tile # "none"}

\* flushSpeakerStates.
Flush(state) ==
  LET on == {x \in Speakers : state[x] = "on"} \intersect Here
      off == {x \in Speakers : state[x] = "off"} \intersect Here
  IN  /\ active' = (active \union on) \ off
      /\ flips' = [state |-> [x \in Speakers |-> "none"], timer |-> FALSE]
      /\ Refresh(active')

\* setSpeakerState: at once if the last time was 300 ms ago, or else batched.
SetSpeaker(x, state) ==
  LET next == [flips.state EXCEPT ![x] = state]
  IN  \/ Flush(next)
      \/ flips' = [state |-> next, timer |-> TRUE] /\ UNCHANGED <<active, primary>>

\* runSpeakerDetection: above the threshold for a while, and not muted.
Speaks(x) ==
  /\ voice[x] = "quiet" /\ mic[x] # "off" /\ (x = "p" => tile = "shown" /\ sound = "playing")
  /\ voice' = [voice EXCEPT ![x] = "speaking"]
  /\ SetSpeaker(x, "on")
  /\ UNCHANGED <<tile, cam, mic, owner, tracks, videos, choices, audio, view, remoteActs, mixed>>

\* Silent for a while; or muted: at once for the user, after a while for others.
FallsSilent(x) ==
  /\ voice[x] = "speaking"
  /\ voice' = [voice EXCEPT ![x] = "quiet"]
  /\ SetSpeaker(x, "off")
  /\ UNCHANGED <<tile, cam, mic, owner, tracks, videos, choices, audio, view, remoteActs, mixed>>

\* The timer of the batch.
FlushTimer ==
  /\ flips.timer /\ Flush(flips.state)
  /\ UNCHANGED <<tile, cam, mic, owner, tracks, videos, choices, audio, view, voice, remoteActs, mixed>>

SilenceLater ==
  IF voice["p"] \in {"quiet", "speaking", "stale"}
    THEN /\ voice' = [voice EXCEPT !["p"] = "none"]
         /\ active' = active \ {"p"} /\ UNCHANGED flips
         /\ Refresh(active')
    ELSE UNCHANGED speaking

\* removeSpeakerAnalyzer(p).
Silence ==
  IF voice["p"] \in {"quiet", "speaking", "stale"}
    THEN /\ voice' = [voice EXCEPT !["p"] = "none"]
         /\ active' = active \ {"p"} /\ flips' = [flips EXCEPT !.state["p"] = "none"]
         /\ Refresh(active')
    ELSE UNCHANGED speaking

\* attachSpeakerAnalyzer(p): not if there is one, be it of another element.
Analyze ==
  /\ voice' = [voice EXCEPT !["p"] = IF @ = "none" THEN "quiet" ELSE @]
  /\ UNCHANGED <<flips, active, primary>>

(***************************************************************************)
(* Signaling messages.                                                     *)
(***************************************************************************)
\* addParticipant: a new tile, or the one that is about to be removed.
Joins ==
  /\ ActOnce /\ tile \in {"none", "leaving"} /\ tile' = "shown"
  /\ cam' = "unknown" /\ mic' = [mic EXCEPT !["p"] = "unknown"]
  /\ picture' = 0 /\ sound' = "none"
  /\ screen' = IF tile = "none" THEN [screen EXCEPT !.src = 0] ELSE screen
  /\ UNCHANGED <<owner, tracks, layers, choices, offered, speaking, mixed>>
  /\ ShowNow

\* The server no longer has the tracks, which may still mute and end.
Abandoned(some) == [i \in DOMAIN tracks |-> IF i \in some THEN [tracks[i] EXCEPT !.old = TRUE]
                                            ELSE tracks[i]]

\* participant_left.
Leaves ==
  /\ ActOnce /\ tile = "shown" /\ tile' = "leaving"
  /\ tracks' = Abandoned({i \in DOMAIN tracks : tracks[i].role # "foreign"})
  /\ layers' = NoLayers /\ screen' = [screen EXCEPT !.entry = 0]
  /\ owner' = IF owner = "p" THEN "none" ELSE owner
  /\ Silence /\ mixed' = FALSE
  /\ UNCHANGED <<cam, mic, picture, choices, audio>>
  /\ IF owner = "p" THEN ShowNow ELSE UNCHANGED view

\* The removal timer.
Removed ==
  /\ tile = "leaving" /\ tile' = "none"
  /\ layers' = NoLayers /\ picture' = 0 /\ screen' = [screen EXCEPT !.src = 0]
  /\ sound' = "none" /\ view' = {}
  /\ voice' = [voice EXCEPT !["p"] = IF @ = "none" THEN @ ELSE "stale"]
  /\ UNCHANGED <<cam, mic, owner, tracks, choices, offered, flips, active, primary, remoteActs, mixed>>

\* media_state; "off" is also a paused camera.
Announces(c, m) ==
  /\ ActOnce /\ tile # "none" /\ (cam # c \/ mic["p"] # m)
  /\ cam' = c /\ mic' = [mic EXCEPT !["p"] = m]
  /\ UNCHANGED <<tile, owner, tracks, videos, choices, audio, speaking, mixed>>
  /\ ShowNow

\* What is in the screen video after screen_share_state: the old owner's track
\* is taken out, the new owner's that is still there is put in again.
Shares(o) ==
  CASE owner = "p" /\ o # "p"
         -> IF screen.entry = 0 \/ screen.src # screen.entry THEN screen
            ELSE [src |-> 0,
                  entry |-> IF tracks[screen.entry].state = "ended" THEN 0 ELSE screen.entry]
    [] o = "p" /\ screen.entry # 0
         -> IF tracks[screen.entry].state = "ended" THEN [screen EXCEPT !.entry = 0]
            ELSE IF tile = "none" THEN screen
            ELSE [screen EXCEPT !.src = screen.entry]
    [] OTHER -> screen

\* screen_share_state.  Of a share that ends the server keeps the publication,
\* for the next one, or not.
OwnerChanges(o) ==
  /\ ActOnce /\ o # owner /\ (o = "p" => tile = "shown")
  /\ owner' = o
  /\ screen' = Shares(o)
  /\ \E some \in {{}, {i \in DOMAIN tracks :
                         IF owner = "p" THEN tracks[i].role \in Screens
                         ELSE tracks[i].role = "foreign"}} : tracks' = Abandoned(some)
  /\ UNCHANGED <<tile, cam, mic, layers, picture, choices, audio, speaking, mixed>>
  /\ IF tile # "none" THEN ShowNow ELSE UNCHANGED view

(***************************************************************************)
(* Tracks.                                                                 *)
(***************************************************************************)
SameKind(r1, r2) == r1 = r2 \/ {r1, r2} \subseteq Screens

\* The server publishes a track, in place of one of the kind that there was;
\* the offer is on its way.
Published(role) ==
  /\ Len(tracks) < MaxTracks
  /\ role \in Screens => owner = "p"
  /\ role = "foreign" => owner = "other"
  /\ role \notin {"foreign"} => tile = "shown"
  /\ tracks' = Append(Abandoned({i \in DOMAIN tracks : SameKind(role, tracks[i].role)}),
                   [role |-> role, state |-> "coming", old |-> FALSE])
  /\ UNCHANGED <<tile, cam, mic, owner, videos, choices, audio, view, speaking, remoteActs, mixed>>

\* Whose screen ontrack takes a track to be: the owner's, whatever the track
\* says, as long as there is one.
IsScreenHere(role) ==
  \/ /\ owner = "p"
     /\ role \in Screens \union {"foreign"}
  \/ /\ owner = "none"
     /\ role = "screen"

\* ontrack.  A track of nobody's tile, or of the other's, is missed here.
TrackArrives(i) ==
  LET role == tracks[i].role
      nobodys == tile = "none" \/ (role \in Screens \union {"foreign"} /\ ~IsScreenHere(role))
  IN  /\ i \in DOMAIN tracks /\ tracks[i].state = "coming"
      /\ \A j \in 1 .. i - 1 : tracks[j].state # "coming"
      /\ tracks' = [tracks EXCEPT ![i].state = IF nobodys THEN "missed" ELSE "live"]
      /\ UNCHANGED <<tile, cam, mic, owner, choices, remoteActs>>
      /\ CASE nobodys -> UNCHANGED <<videos, audio, view, speaking, mixed>>
           [] ~nobodys /\ IsScreenHere(role)
                -> /\ screen' = [entry |-> i, src |-> i]
                   /\ mixed' = (role = "foreign")
                   /\ UNCHANGED <<layers, picture, audio, speaking>> /\ ShowNow
           [] ~nobodys /\ role \in Layers
                -> /\ layers' = [layers EXCEPT ![role] = i] /\ ShowCamera
                   /\ UNCHANGED <<screen, audio, speaking, mixed>> /\ ShowNow
           [] ~nobodys /\ role = "camera"
                -> picture' = i /\ UNCHANGED <<screen, layers, audio, speaking, mixed>> /\ ShowNow
           [] ~nobodys /\ role = "audio"
                -> /\ Analyze
                   /\ \/ sound' = "playing" /\ offered' = FALSE
                      \/ sound' = "blocked" /\ offered' = TRUE
                   /\ UNCHANGED <<videos, view, mixed>>

IsLayer(i) == tracks[i].role \in Layers /\ layers[tracks[i].role] = i

\* The media of a track stop or go on: "mute", "unmute".
Toggles(i) ==
  /\ i \in DOMAIN tracks /\ Live(i) /\ tracks[i].role # "audio" /\ ActOnce
  /\ tracks' = [tracks EXCEPT ![i].state = IF @ = "live" THEN "muted" ELSE "live"]
  /\ UNCHANGED <<tile, cam, mic, owner, screen, layers, choices, audio, speaking, mixed>>
  /\ IF IsLayer(i) THEN ShowCamera ELSE UNCHANGED picture
  /\ IF IsLayer(i) /\ tile # "none" THEN ShowNow ELSE UNCHANGED view

\* "ended".  A layer that ends is replaced by another; the last one takes the
\* picture with it, as does a track without layers.
Ends(i) ==
  /\ i \in DOMAIN tracks /\ Live(i) /\ ActOnce
  /\ tracks' = [tracks EXCEPT ![i].state = "ended"]
  /\ screen' = IF screen.src = i THEN [screen EXCEPT !.src = 0,
                                                     !.entry = IF @ = i THEN 0 ELSE @]
               ELSE screen
  /\ IF IsLayer(i)
       THEN /\ layers' = [layers EXCEPT ![tracks[i].role] = 0]
            /\ picture' = IF layers' # NoLayers /\ tile # "none" THEN Select(layers', prefer, States')
                          ELSE IF picture = i THEN 0 ELSE picture
       ELSE picture' = (IF picture = i THEN 0 ELSE picture) /\ UNCHANGED layers
  /\ UNCHANGED <<tile, cam, mic, owner, choices, audio, speaking, mixed>>
  /\ IF tile # "none" THEN ShowNow ELSE UNCHANGED view

(***************************************************************************)
(* The user, and the connection.                                           *)
(***************************************************************************)
\* setCameraLayer: the loop of Adaptation prefers another layer.
LayerChanges ==
  /\ ActOnce /\ prefer' = (IF prefer = "low" THEN "high" ELSE "low")
  /\ UNCHANGED <<tile, tracks, layers>>
  /\ ShowCamera
  /\ UNCHANGED <<cam, mic, recv, owner, screen, audio, speaking, mixed>>
  /\ IF tile # "none" /\ layers # NoLayers THEN ShowNow ELSE UNCHANGED view

\* setReceiveVideo.
ToggleReceive ==
  /\ ActOnce /\ recv' = ~recv
  /\ UNCHANGED <<tile, cam, mic, owner, tracks, videos, prefer, audio, speaking, mixed>>
  /\ IF tile # "none" THEN ShowNow ELSE UNCHANGED view

\* The button "Enable remote audio".
EnableAudio ==
  /\ offered /\ offered' = FALSE
  /\ sound' = IF sound = "blocked" /\ tile = "shown" THEN "playing" ELSE sound
  /\ UNCHANGED <<tile, cam, mic, owner, tracks, videos, choices, view, speaking, remoteActs, mixed>>

\* The user's microphone.
ToggleMicrophone ==
  /\ ActOnce /\ mic' = [mic EXCEPT !["me"] = IF @ = "off" THEN "on" ELSE "off"]
  /\ UNCHANGED <<tile, cam, owner, tracks, videos, choices, audio, view, speaking, mixed>>

\* Another microphone: the analyzer is removed and attached.
SwitchMicrophone ==
  /\ ActOnce /\ voice' = [voice EXCEPT !["me"] = "quiet"]
  /\ active' = active \ {"me"} /\ flips' = [flips EXCEPT !.state["me"] = "none"]
  /\ Refresh(active')
  /\ UNCHANGED <<tile, cam, mic, owner, tracks, videos, choices, audio, view, mixed>>

\* resetMediaConnection, and the start on a new connection.
ResetRemote ==
  /\ ActOnce /\ tile' = "none" /\ tracks' = <<>> /\ screen' = [entry |-> 0, src |-> 0]
  /\ layers' = NoLayers /\ picture' = 0 /\ owner' = "none" /\ view' = {}
  /\ sound' = "none" /\ offered' = FALSE
  /\ voice' = [x \in Speakers |-> IF x = "me" THEN "quiet" ELSE "none"]
  /\ flips' = NoFlips /\ active' = {} /\ mixed' = FALSE
  /\ UNCHANGED <<cam, mic, choices, primary>>

RemoteNext ==
  \/ Joins \/ Leaves \/ Removed
  \/ \E c \in {"on", "off"}, m \in {"on", "off"} : Announces(c, m)
  \/ \E o \in Owners : OwnerChanges(o)
  \/ \E role \in Roles : Published(role)
  \/ \E i \in 1 .. MaxTracks : TrackArrives(i) \/ Toggles(i) \/ Ends(i)
  \/ \E x \in Speakers : Speaks(x) \/ FallsSilent(x)
  \/ FlushTimer
  \/ LayerChanges \/ ToggleReceive \/ EnableAudio \/ ToggleMicrophone \/ SwitchMicrophone \/ ResetRemote

RemoteSpec == RemoteInit /\ [][RemoteNext]_remoteVars

(***************************************************************************)
(* Properties.                                                             *)
(***************************************************************************)
\* The variables have their values, and there is no picture without a tile.
RemoteTypeOK ==
  /\ tile \in {"none", "shown", "leaving"} /\ cam \in {"unknown", "on", "off"}
  /\ mic \in [Speakers -> {"unknown", "on", "off"}] /\ {recv, offered, mixed} \subseteq BOOLEAN
  /\ owner \in Owners
  /\ \A i \in DOMAIN tracks : /\ tracks[i].role \in AllRoles /\ tracks[i].old \in BOOLEAN
                              /\ tracks[i].state \in {"coming", "live", "muted", "ended", "missed"}
  /\ screen \in [entry : Numbers, src : Numbers] /\ layers \in [Layers -> Numbers]
  /\ picture \in Numbers /\ prefer \in Layers /\ sound \in {"none", "blocked", "playing"}
  /\ view \subseteq {"camera", "screen"} /\ active \subseteq Speakers
  /\ voice \in [Speakers -> {"none", "quiet", "speaking", "stale"}]
  /\ primary \in Speakers \union {"none"} /\ remoteActs \in 0 .. MaxRemoteActs
  /\ tile = "none" => picture = 0 /\ screen.src = 0 /\ view = {} /\ layers = NoLayers

\* While the participant shares, the last track of that share which arrived and
\* has not ended is the one on screen, and it can be seen - unless the track of
\* the other's share before was offered late (see the README).
ScreenIsShown ==
  LET own == {i \in DOMAIN tracks : Live(i) /\ tracks[i].role \in Screens /\ ~tracks[i].old}
  IN  owner = "p" /\ tile = "shown" /\ own # {} /\ ~mixed
        => screen.src = Max(own) /\ "screen" \in view

\* The picture is the layer that fits best of those there are, whatever muted,
\* ended, arrived or was preferred last.
LayerIsBest ==
  tile = "shown" /\ (\E l \in Layers : layers[l] # 0 /\ ~tracks[layers[l]].old)
    => picture = Select(layers, prefer, States)

\* What is hidden and what is not follows from what was announced and from the
\* tracks there are: no handler forgets to look again.
ViewIsCurrent == tile # "none" => view = Visible

\* Nobody speaks who has left; no batched flip brings the speaker back.
NoGhostSpeaks == "p" \in active => tile = "shown"
=============================================================================
