--------------------------- MODULE MeetingControls ---------------------------
(***************************************************************************)
(* The parts of the meeting page that share no state (web/js/app.js), in   *)
(* one specification: the local screen and its adaptation, the microphone, *)
(* the people, and the grid of tiles.  "part" says which of them runs.     *)
(***************************************************************************)
EXTENDS LocalScreen, ScreenAdaptation, Microphone, People, Layout

VARIABLE part  \* screen, adaptation, microphone, people or layout

controlsVars == <<part, vars, adaptVars, micVars, peopleVars, layoutVars>>

ScreenPart(A) ==
  part = "screen" /\ A /\ UNCHANGED <<part, adaptVars, micVars, peopleVars, layoutVars>>
AdaptPart(A) ==
  part = "adaptation" /\ A /\ UNCHANGED <<part, vars, micVars, peopleVars, layoutVars>>

ControlsInit ==
  /\ part \in {"screen", "adaptation", "microphone", "people", "layout"}
  /\ Init /\ AdaptInit /\ MicInit /\ PeopleInit /\ LayoutInit
  /\ camera => part = "screen"
  /\ heavy => part = "adaptation"
  /\ width # 0 \/ height # 0 => part = "layout"

ControlsNext ==
  \/ ScreenPart(Next)
  \/ AdaptPart(AdaptNext)
  \/ part = "microphone" /\ MicNext /\ UNCHANGED <<part, vars, adaptVars, peopleVars, layoutVars>>
  \/ part = "people" /\ PeopleNext /\ UNCHANGED <<part, vars, adaptVars, micVars, layoutVars>>
  \/ part = "layout" /\ LayoutNext /\ UNCHANGED <<part, vars, adaptVars, micVars, peopleVars>>

\* The fairness of LocalScreen and of ScreenAdaptation.
ControlsSpec ==
  /\ ControlsInit /\ [][ControlsNext]_controlsVars
  /\ WF_controlsVars(ScreenPart(HubHandles)) /\ WF_controlsVars(ScreenPart(Messages))
  /\ WF_controlsVars(ScreenPart(StartSteps \/ Detach \/ Stopped))
  /\ WF_controlsVars(ScreenPart(Connect))
  /\ WF_controlsVars(AdaptPart(Tick)) /\ WF_controlsVars(AdaptPart(Stats))
  /\ WF_controlsVars(AdaptPart(Answered))

(***************************************************************************)
(* Properties.                                                             *)
(***************************************************************************)
\* What is shared is sent, with the parameters that were decided last, and no
\* microphone stays open that the page does not hold; the list and the tiles show what
\* is known of the people, and the grid is nearly the best.
ControlsInv ==
  /\ TypeOK /\ SharedIsSent /\ AdaptTypeOK /\ AppliedIsCurrent
  /\ MicTypeOK /\ MicrophonesClose /\ PeopleTypeOK /\ ListIsCurrent /\ TilesAreCurrent
  /\ LayoutTypeOK /\ NearlyBest

\* The microphone button tells the truth both ways.
ButtonIsTrue == MutedIsSilent /\ HeardWhenOn

\* What the bitrate control learned is kept, and it learns until it fits.
LearnsItsFloor == LearnedIsKept /\ FloorIsReached

=============================================================================
