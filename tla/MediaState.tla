------------------------------ MODULE MediaState ------------------------------
(***************************************************************************)
(* What the meeting page does with the media of a call: the adaptation of  *)
(* the sent video to the network, and the showing of the received media.   *)
(* They share no state, so a behaviour is about one of the two.            *)
(***************************************************************************)
EXTENDS Adaptation, RemoteMedia

VARIABLE way  \* of the media: "sent" or "received"

mediaVars == <<way, vars, remoteVars>>

MediaInit == Init /\ RemoteInit /\ way \in {"sent", "received"}

Sent(A) == way = "sent" /\ A /\ UNCHANGED <<way, remoteVars>>
Received(A) == way = "received" /\ A /\ UNCHANGED <<way, vars>>

MediaNext == Sent(Next) \/ Received(RemoteNext)

\* The fairness of Adaptation; what is received is only required to be safe.
MediaSpec ==
  /\ MediaInit /\ [][MediaNext]_mediaVars
  /\ WF_mediaVars(Sent(Loop)) /\ WF_mediaVars(Sent(Reset \/ Start))
  /\ WF_mediaVars(Sent(MediaConnects)) /\ WF_mediaVars(Sent(CameraOpened))

(***************************************************************************)
(* Properties.                                                             *)
(***************************************************************************)
\* What is sent and what is shown follow the state that they derive from: the
\* profile the limits, the chip and the recording the connection, the view what
\* was announced, and the stage who is there.
MediaInv ==
  /\ TypeOK /\ LimitsObeyed /\ LabelIsTrue /\ RecordIsCurrent
  /\ RemoteTypeOK /\ ViewIsCurrent /\ NoGhostSpeaks

\* Of the tracks that arrived, the right ones are seen.
ReceivedIsShown == ScreenIsShown /\ LayerIsBest
=============================================================================
