----------------------------- MODULE Microphone -----------------------------
(***************************************************************************)
(* The microphone of the meeting page (web/js/app.js): its capture when a  *)
(* connection is made, the button and its keys, push-to-talk, and the      *)
(* switch to another device, which awaits the new capture, the sender and  *)
(* a negotiation while the user goes on clicking and the connection may    *)
(* be lost.                                                                *)
(*                                                                         *)
(* Every action is one task of the event loop.  replaceTrack takes effect  *)
(* before the function that awaits it continues, so the two are two        *)
(* actions.                                                                *)
(***************************************************************************)
EXTENDS Integers, FiniteSetsExt, SequencesExt, Selection

CONSTANTS MaxLinks,     \* bound on the connections that are made
          MaxSwitches,  \* bound on the changes of the device
          MaxRefusals   \* bound on captures that fail

ASSUME MicrophoneAssumptions ==
  MaxLinks \in Nat \ {0} /\ MaxSwitches \in Nat /\ MaxRefusals \in Nat

VARIABLES
  link,     \* the connection: down, asking, ready, up; lost before or cut
            \* after localStream was set, and not yet reset
  epoch,    \* how many connections were made
  setups,   \* connections whose microphone capture has not answered
  tracks,   \* what each capture is: live, enabled
  stream,   \* the audio tracks of localStream
  senders,  \* the tracks of the audio senders, 0 for none; the reserved one first
  pressed, usable,  \* the microphone button: aria-pressed, not disabled
  told,     \* the last media_state sent
  talking,  \* pushToTalkActive
  switches, \* the calls of replaceLocalDevice: pc, connection, new and old track
  refusals,
  wasOn,    \* clicked on when the connection was lost, and not touched since
  crossed   \* a device switch met another one, or the end of the connection

micVars == <<link, epoch, setups, tracks, stream, senders, pressed, usable, told,
             talking, switches, refusals, wasOn, crossed>>

Captured == DOMAIN tracks
Fresh == Len(tracks) + 1
Mic == IF stream = <<>> THEN 0 ELSE Head(stream)
IsOn(t) == t # 0 /\ tracks[t].on
Open == link \in {"asking", "ready", "up"}
Idle == \A s \in DOMAIN switches : switches[s].pc \in {"done", "failed"}

MicInit ==
  /\ link = "down" /\ epoch = 0 /\ setups = {} /\ tracks = <<>> /\ stream = <<>>
  /\ senders = <<>> /\ pressed = FALSE /\ usable = FALSE /\ told = FALSE
  /\ talking = FALSE /\ switches = <<>> /\ refusals = 0
  /\ wasOn = FALSE /\ crossed = FALSE

\* setLocalMediaControls and sendMediaState, of a stream and its tracks.
ShowFor(st, trs) ==
  /\ usable' = (st # <<>>)
  /\ pressed' = (st # <<>> /\ trs[Head(st)].on)
TellFor(st, trs) ==
  told' = IF Open THEN st # <<>> /\ trs[Head(st)].on ELSE told

(***************************************************************************)
(* The connection.                                                         *)
(***************************************************************************)
\* startWebRTC up to getUserMedia: the audio transceiver has been reserved.
StartMedia ==
  /\ link = "down" /\ epoch < MaxLinks
  /\ link' = "asking" /\ epoch' = epoch + 1 /\ setups' = setups \union {epoch'}
  /\ senders' = <<0>> /\ usable' = FALSE
  /\ UNCHANGED <<tracks, stream, pressed, told, talking, switches, refusals, wasOn, crossed>>

\* getUserMedia answers.  The capture of an abandoned connection is stopped;
\* otherwise it takes the state of the button, and becomes localStream.
Capture ==
  \E e \in setups :
    /\ setups' = setups \ {e}
    /\ IF e = epoch /\ link = "asking"
         THEN /\ tracks' = Append(tracks, [live |-> TRUE, on |-> pressed])
              /\ stream' = <<Fresh>> /\ link' = "ready" /\ ShowFor(stream', tracks')
         ELSE UNCHANGED <<link, tracks, stream, pressed, usable>>
    /\ UNCHANGED <<epoch, senders, told, talking, switches, refusals, wasOn, crossed>>

\* It is refused: the meeting goes on without a microphone.
CaptureRefused ==
  \E e \in setups :
    /\ refusals < MaxRefusals /\ refusals' = refusals + 1
    /\ setups' = setups \ {e}
    /\ IF e = epoch /\ link = "asking"
         THEN link' = "ready" /\ ShowFor(stream, tracks)
         ELSE UNCHANGED <<link, pressed, usable>>
    /\ UNCHANGED <<epoch, tracks, stream, senders, told, talking, switches, wasOn, crossed>>

\* What addTrack sends, up to a track that is sent already: there it throws.
Unsent == LET sent == {i \in DOMAIN stream : Contains(senders, stream[i])}
          IN  SubSeq(stream, 1, IF sent = {} THEN Len(stream) ELSE Min(sent) - 1)

\* The device list is read: the others are told, and the track is sent, by
\* the reserved sender if it is free.
SendTrack ==
  /\ link = "ready" /\ link' = "up"
  /\ TellFor(stream, tracks)
  /\ senders' = IF Unsent # <<>> /\ Head(senders) = 0 THEN Unsent \o Tail(senders)
                ELSE senders \o Unsent
  /\ UNCHANGED <<epoch, setups, tracks, stream, pressed, usable, talking, switches,
                 refusals, wasOn, crossed>>

\* The socket closes; the media connection is reset when it is made again.
Lose ==
  /\ Open /\ link' = IF link = "asking" THEN "lost" ELSE "cut"
  /\ wasOn' = IF link = "asking" THEN wasOn ELSE pressed /\ ~talking
  /\ UNCHANGED <<epoch, setups, tracks, stream, senders, pressed, usable, told, talking,
                 switches, refusals, crossed>>

\* resetMediaConnection.
ResetConnection ==
  /\ link \in {"lost", "cut"} /\ link' = "down"
  /\ tracks' = [t \in Captured |-> IF Contains(stream, t)
                                     THEN [tracks[t] EXCEPT !.live = FALSE] ELSE tracks[t]]
  /\ stream' = <<>> /\ senders' = <<>> /\ ShowFor(<<>>, tracks)
  /\ crossed' = (crossed \/ ~Idle)
  /\ UNCHANGED <<epoch, setups, told, talking, switches, refusals, wasOn>>

(***************************************************************************)
(* The button and the keys.                                                *)
(***************************************************************************)
\* A click on the button, which is ignored while it is disabled.
Toggled ==
  IF ~usable \/ stream = <<>> THEN UNCHANGED <<tracks, pressed, usable, told>>
  ELSE /\ tracks' = [tracks EXCEPT ![Mic].on = ~@]
       /\ ShowFor(stream, tracks') /\ TellFor(stream, tracks')

Click ==
  /\ Toggled /\ wasOn' = FALSE
  /\ UNCHANGED <<link, epoch, setups, stream, senders, talking, switches, refusals, crossed>>

\* Space is pressed: push-to-talk begins, whether the click did anything.
SpaceDown ==
  /\ ~talking /\ ~pressed /\ talking' = TRUE /\ Toggled /\ wasOn' = FALSE
  /\ UNCHANGED <<link, epoch, setups, stream, senders, switches, refusals, crossed>>

SpaceUp ==
  /\ talking /\ talking' = FALSE /\ Toggled /\ wasOn' = FALSE
  /\ UNCHANGED <<link, epoch, setups, stream, senders, switches, refusals, crossed>>

(***************************************************************************)
(* replaceLocalDevice, for audio.                                          *)
(***************************************************************************)
\* The user selects a device: its capture is asked for.
SelectDevice ==
  /\ link \in {"ready", "up", "cut"} /\ Len(switches) < MaxSwitches
  /\ switches' = Append(switches, [pc |-> "asking", epoch |-> epoch, next |-> 0, prev |-> 0])
  /\ crossed' = (crossed \/ ~Idle)
  /\ UNCHANGED <<link, epoch, setups, tracks, stream, senders, pressed, usable, told,
                 talking, refusals, wasOn>>

Current(s) == switches[s].epoch = epoch /\ link # "down"
End(s) == switches' = [switches EXCEPT ![s].pc = "done"]

FinishUnseen(s, st, trs) == End(s) /\ UNCHANGED <<pressed, usable, told>>

\* What ends a switch: the button and the others learn the state.
Finish(s, st, trs) == End(s) /\ ShowFor(st, trs) /\ TellFor(st, trs)

\* The new track takes the place of the previous one in localStream, and its
\* state, unless another track is first there.
TakePlace(next, prev) ==
  /\ stream' = Append(Keep(stream, Captured \ {prev}), next)
  /\ tracks' = [t \in Captured \union {next} |->
       IF t = next
         THEN [live |-> TRUE, on |-> Head(stream') = next /\ (prev = 0 \/ IsOn(prev))]
       ELSE IF t = prev THEN [tracks[t] EXCEPT !.live = FALSE] ELSE tracks[t]]

\* The capture answers.  With a sender its track is replaced; without one the
\* reserved sender, if there is one, adopts the new track.
DeviceOpens(s) ==
  LET call(pc) == [pc |-> pc, epoch |-> epoch, next |-> Fresh, prev |-> Mic]
      sends == \E i \in DOMAIN senders : senders[i] # 0
  IN
  /\ switches[s].pc = "asking"
  /\ IF ~Current(s) THEN End(s) /\ UNCHANGED <<tracks, stream, pressed, usable, told>>
     ELSE IF sends
       THEN /\ tracks' = Append(tracks, [live |-> TRUE, on |-> TRUE])
            /\ switches' = [switches EXCEPT ![s] = call("replacing")]
            /\ UNCHANGED <<stream, pressed, usable, told>>
       ELSE /\ TakePlace(Fresh, Mic)
            /\ switches' = [switches EXCEPT ![s] = call("adopting")]
            /\ UNCHANGED <<pressed, usable, told>>
  /\ UNCHANGED <<link, epoch, setups, senders, talking, refusals, wasOn, crossed>>

DeviceRefused(s) ==
  /\ switches[s].pc = "asking" /\ refusals < MaxRefusals /\ refusals' = refusals + 1
  /\ End(s)
  /\ UNCHANGED <<link, epoch, setups, tracks, stream, senders, pressed, usable, told,
                 talking, wasOn, crossed>>

\* The first sender with a track, or the reserved one.
Target == IF \E i \in DOMAIN senders : senders[i] # 0
            THEN Min({i \in DOMAIN senders : senders[i] # 0}) ELSE 1

\* replaceTrack takes effect.  On a connection that was closed it is rejected
\* or never answers, and the new capture is left running.
Replaced(s) ==
  /\ switches[s].pc \in {"replacing", "adopting"}
  /\ IF Current(s)
       THEN /\ senders' = [senders EXCEPT ![Target] = switches[s].next]
            /\ switches' = [switches EXCEPT ![s].pc =
                              IF @ = "replacing" THEN "replaced" ELSE "negotiating"]
       ELSE End(s) /\ UNCHANGED senders
  /\ UNCHANGED <<link, epoch, setups, tracks, stream, pressed, usable, told, talking,
                 refusals, wasOn, crossed>>

\* The continuation of a replaced track.
SwitchOver(s) ==
  /\ switches[s].pc = "replaced"
  /\ IF Current(s)
       THEN /\ TakePlace(switches[s].next, switches[s].prev)
            /\ Finish(s, stream', tracks')
       ELSE End(s) /\ UNCHANGED <<tracks, stream, pressed, usable, told>>
  /\ UNCHANGED <<link, epoch, setups, senders, talking, refusals, wasOn, crossed>>

\* The offer of an adopted track is answered, or was rejected by a reset.
Negotiated(s) ==
  /\ switches[s].pc = "negotiating"
  /\ IF Current(s) THEN Open /\ Finish(s, stream, tracks)
     ELSE End(s) /\ UNCHANGED <<pressed, usable, told>>
  /\ UNCHANGED <<link, epoch, setups, tracks, stream, senders, talking, refusals,
                 wasOn, crossed>>

\* It is not answered in time: the socket is closed, the button left as it was.
OfferTimesOut(s) ==
  /\ switches[s].pc = "negotiating" /\ Current(s) /\ Open
  /\ refusals < MaxRefusals /\ refusals' = refusals + 1
  /\ switches' = [switches EXCEPT ![s].pc = "failed"] /\ link' = "cut"
  /\ wasOn' = (pressed /\ ~talking)
  /\ UNCHANGED <<epoch, setups, tracks, stream, senders, pressed, usable, told, talking,
                 crossed>>

(***************************************************************************)
(* Specification.                                                          *)
(***************************************************************************)
Switching ==
  \E s \in DOMAIN switches :
    \/ DeviceOpens(s) \/ DeviceRefused(s) \/ Replaced(s) \/ SwitchOver(s)
    \/ Negotiated(s) \/ OfferTimesOut(s)

MicNext ==
  \/ StartMedia \/ Capture \/ CaptureRefused \/ SendTrack \/ Lose \/ ResetConnection
  \/ Click \/ SpaceDown \/ SpaceUp \/ SelectDevice \/ Switching

MicSpec == MicInit /\ [][MicNext]_micVars

(***************************************************************************)
(* Properties.                                                             *)
(***************************************************************************)
\* Every variable has its type.
MicTypeOK ==
  /\ link \in {"down", "asking", "ready", "up", "lost", "cut"}
  /\ setups \subseteq 1 .. epoch
  /\ \A t \in Captured : tracks[t] \in [live : BOOLEAN, on : BOOLEAN]
  /\ {stream[i] : i \in DOMAIN stream} \subseteq Captured
  /\ {senders[i] : i \in DOMAIN senders} \subseteq Captured \union {0}
  /\ {pressed, usable, told, talking, wasOn, crossed} \subseteq BOOLEAN

Sent(t) == Contains(senders, t) /\ tracks[t].live /\ tracks[t].on

\* Muted is silent: a microphone that the others could hear is one whose
\* button is pressed.  What a running switch has just put into the sender is
\* excepted: until the code after replaceTrack has run, the new device is
\* heard even if the one before it was muted.  So is a device whose offer is
\* not answered: it is heard until the connection is reset.
MutedIsSilent ==
  \A t \in Captured :
    Sent(t) => \/ pressed
               \/ \E s \in DOMAIN switches :
                    switches[s].next = t /\ switches[s].pc # "done"

\* Who shows an open microphone is heard, and the others are told what the
\* button shows: once no switch is running, and none has met another or a reset.
HeardWhenOn ==
  link = "up" /\ Idle /\ ~crossed =>
    /\ told = pressed
    /\ pressed => Sent(Mic)

\* No microphone stays open that the page does not hold any more.
MicrophonesClose ==
  Idle /\ ~crossed =>
    \A t \in Captured : tracks[t].live => Contains(stream, t)

\* A reconnection restores the microphone (app.js:3921): one that was on when
\* the connection was lost, and that the user did not touch since, is on again
\* when the next connection has captured it.  It is not: the button it would be
\* restored from was reset with the old connection (app.js:3708).
MicrophoneComesBack ==
  [][link = "asking" /\ link' = "ready" /\ stream' # <<>> /\ wasOn => pressed']_micVars
=============================================================================
