-------------------------------- MODULE Pages --------------------------------
(***************************************************************************)
(* The two pages that poll the server with plain requests: the operator's  *)
(* page and the lobby.  A tab shows one of them; they share no state, and  *)
(* what is said of a page is said of every tab that shows it.              *)
(***************************************************************************)
EXTENDS AdminPage, Lobby

VARIABLE tab  \* the page: "admin" or "lobby"

pagesVars == <<tab, adminVars, lobbyVars>>

PagesInit == AdminInit /\ LobbyInit /\ tab \in {"admin", "lobby"}

PagesNext ==
  /\ \/ tab = "admin" /\ AdminNext /\ UNCHANGED lobbyVars
     \/ tab = "lobby" /\ LobbyNext /\ UNCHANGED adminVars
  /\ UNCHANGED tab

InAdmin == tab = "admin"
InLobby == tab = "lobby"

\* AdminFairness and LobbyFairness, of the page that is shown.
PagesFairness ==
  /\ WF_adminVars(InAdmin /\ (ServePolicy \/ PolicyArrives))
  /\ WF_adminVars(InAdmin /\ (ServeLoad \/ LoadArrives))
  /\ WF_adminVars(InAdmin /\ (Update \/ SaveArrives))
  /\ WF_adminVars(InAdmin /\ Snapshot) /\ WF_adminVars(InAdmin /\ Publish)
  /\ WF_adminVars(InAdmin /\ \E ok \in BOOLEAN : HealthArrives(ok))
  /\ WF_adminVars(InAdmin /\ \E watch \in BOOLEAN : MetricsArrive(watch))
  /\ WF_adminVars(InAdmin /\ Refreshed) /\ WF_adminVars(InAdmin /\ RefreshTimer)
  /\ WF_lobbyVars(InLobby /\ DebounceTimer) /\ WF_lobbyVars(InLobby /\ PollTimer)
  /\ WF_lobbyVars(InLobby /\ Serve) /\ WF_lobbyVars(InLobby /\ Arrive)
  /\ WF_lobbyVars(InLobby /\ ConfigArrives)

PagesSpec == PagesInit /\ [][PagesNext]_pagesVars /\ PagesFairness

(***************************************************************************)
(* Properties.                                                             *)
(***************************************************************************)
\* A visible page refreshes its status and denies no failure, and in a meeting
\* nothing of the lobby goes on.
PagesInv == AdminTypeOK /\ StatusIsKept /\ LobbyTypeOK /\ QuietInMeeting

\* The form shows what the server stores, and the meeting does what it stores.
StoreIsFollowed == FormIsServed /\ MeetingFollowsStore

\* The save button comes back, and so does the list of who is in the room.
PagesSettle == SaveSettles /\ RosterCatchesUp
=============================================================================
