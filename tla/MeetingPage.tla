---------------------------- MODULE MeetingPage ----------------------------
(***************************************************************************)
(* The meeting's screen in the browser: the chat with its sidebar, and the *)
(* stage with its tiles.  They share the page and no state: what one does  *)
(* leaves the other alone, so a behaviour uses one of them.                *)
(***************************************************************************)
EXTENDS ChatPage, Stage

VARIABLE region  \* the half of the screen that is used

meetingPageVars == <<region, allVars, stageVars>>

MeetingPageInit == InitPage /\ StageInit /\ region \in {"chat", "stage"}

MeetingPageNext ==
  /\ \/ region = "chat" /\ NextPage /\ UNCHANGED stageVars
     \/ region = "stage" /\ StageNext /\ UNCHANGED allVars
  /\ UNCHANGED region

MeetingPageSpec == MeetingPageInit /\ [][MeetingPageNext]_meetingPageVars

(***************************************************************************)
(* Properties.                                                             *)
(***************************************************************************)
\* What is shown is what there is: the replay is the end of the conversation, the
\* rail what the hub sent, the badge counts it, one panel is open, a pin has its
\* tile, and an expanded tile is one that is shown.
MeetingPageInv ==
  /\ PageTypeOK /\ HistoryIsTail /\ RailShowsFeed /\ BadgeIsExact /\ OnePanelIsShown
  /\ StageTypeOK /\ PinsAreShown /\ FocusIsShown
=============================================================================
