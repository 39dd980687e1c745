------------------------------ MODULE ChatPage ------------------------------
(***************************************************************************)
(* The chat as the page of one member, Me, shows it (web/js/app.js,        *)
(* chat-history.js): the lines of the rail, the tracker that keeps a       *)
(* replay from being shown twice, the unread badge, the "new messages"     *)
(* hint, and the panels of the meeting, of which one is open at a time.    *)
(*                                                                         *)
(* The page is composed with the room of ChatHistory: each step of the     *)
(* hub that reaches Me's socket is one step with the handler that renders  *)
(* it, every other step leaves the page alone.  A connection that is lost  *)
(* leaves the page as it is until the next one is set up; leaving the      *)
(* meeting clears it at once.                                              *)
(*                                                                         *)
(* What the list is made of, its limit of 300 lines, the focus, the titles *)
(* and the toasts are left out.                                            *)
(***************************************************************************)
EXTENDS ChatHistory, Selection

CONSTANTS Me,            \* the member whose page this is
          Panels,        \* the panels but the chat that may be opened
          RetriesEarly   \* may "Retry" be pressed before the reconnection timer?

ASSUME PageAssumptions ==
  /\ Me \in Members
  /\ Panels \subseteq {"people", "settings"}
  /\ RetriesEarly \in BOOLEAN

VARIABLES
  lines,     \* the messages in the rail, in order
  applied,   \* what chatHistoryTracker has applied
  panel,     \* meetingViewState.openPanel
  rail,      \* the chat rail: "hidden", "shown", or "closing" for a tick
  sidebar,   \* is the sidebar open?
  popover,   \* is the connection popover open?
  unread,    \* unreadMessages
  pinned,    \* chatPinnedToBottom
  hint,      \* is the "new messages" button shown?
  page,      \* is the meeting on the page?
  fresh,     \* history variable: messages since the chat was last open
  unnoticed  \* history variable: those that came while the rail was closing

marks == <<unread, pinned, hint, fresh, unnoticed>>
views == <<panel, rail, sidebar, popover>>
pageVars == <<lines, applied, page, marks, views>>
allVars == <<vars, pageVars>>

InitPage ==
  /\ Init
  /\ lines = <<>> /\ applied = {}
  /\ panel = "none" /\ rail = "hidden" /\ sidebar = FALSE /\ popover = FALSE
  /\ unread = 0 /\ pinned = TRUE /\ hint = FALSE
  /\ page = FALSE
  /\ fresh = {} /\ unnoticed = {}

Connected == step[Me] \in {"in", "send"}

----------------------------------------------------------------------------
(* The lines.                                                              *)

\* What addChatMessage does to the badge and the hint for the lines of new, of
\* which those in counted are not the system's.
Mark(counted) ==
  /\ unread' = IF rail = "hidden" THEN unread + Cardinality(counted) ELSE unread
  /\ hint' = (hint \/ (rail # "hidden" /\ ~pinned))
  /\ fresh' = IF panel = "chat" THEN fresh ELSE fresh \cup counted
  /\ unnoticed' = IF rail = "closing" THEN unnoticed \cup counted ELSE unnoticed
  /\ UNCHANGED pinned

\* chatHistoryTracker.apply.
Unapplied(entries) == Keep(entries, ToSet(entries) \ applied)

\* A participant state with the retained history: the meeting is on the page and
\* what was not applied before is added, one's own messages too.
ShowHistory ==
  LET new == Unapplied(history) IN
  /\ lines' = lines \o new
  /\ applied' = applied \cup ToSet(history)
  /\ page' = TRUE
  /\ IF new = <<>> THEN UNCHANGED marks ELSE Mark(ToSet(new))
  /\ UNCHANGED views

\* chat_message.
ShowMessage(m) ==
  /\ lines' = Append(lines, m)
  /\ Mark({m})
  /\ UNCHANGED <<applied, page, views>>

\* The system's line that somebody joined or left.
ShowNotice ==
  /\ Mark({})
  /\ UNCHANGED <<lines, applied, page, views>>

Cleared ==
  /\ lines' = <<>> /\ applied' = {}
  /\ unread' = 0 /\ pinned' = TRUE /\ hint' = FALSE
  /\ fresh' = {} /\ unnoticed' = {}

\* A connection is set up: the replay starts from an empty rail.
ClearRail == Cleared /\ UNCHANGED <<page, views>>

----------------------------------------------------------------------------
(* The panels.                                                             *)

\* setChatOpen(false): the rail goes with the next tick.
Closing == IF rail = "hidden" THEN "hidden" ELSE "closing"

\* closeOpenPanel.
ClosePanels == panel' = "none" /\ rail' = Closing /\ sidebar' = FALSE

Leaving ==
  /\ ClosePanels /\ Cleared
  /\ page' = FALSE
  /\ UNCHANGED popover

\* setOpenPanel("chat") with the chat not open, and setChatOpen(true).
OpenChat ==
  /\ page /\ panel # "chat"
  /\ panel' = "chat" /\ rail' = "shown" /\ sidebar' = FALSE /\ popover' = FALSE
  /\ unread' = 0 /\ fresh' = {} /\ unnoticed' = {}
  /\ UNCHANGED <<vars, lines, applied, page, pinned, hint>>

\* Mutant of OpenSidebar: the popover is left open.
OpenSidebarBeside(p) ==
  /\ page /\ panel # p
  /\ panel' = p /\ rail' = Closing /\ sidebar' = TRUE
  /\ UNCHANGED <<vars, lines, applied, page, marks, popover>>

\* setOpenPanel("people"), also from the popover's own button.
OpenSidebar(p) ==
  /\ page /\ panel # p
  /\ panel' = p /\ rail' = Closing /\ sidebar' = TRUE /\ popover' = FALSE
  /\ UNCHANGED <<vars, lines, applied, page, marks>>

\* The same control again, the close buttons and the backdrop; a click outside
\* the popover has closed it before.
ClosePanel(clicked) ==
  /\ page
  /\ panel # "none" \/ rail # "hidden"
  /\ ClosePanels
  /\ popover' = (popover /\ ~clicked)
  /\ UNCHANGED <<vars, lines, applied, page, marks>>

OpenPopover ==
  /\ page /\ ~popover
  /\ ClosePanels
  /\ popover' = TRUE
  /\ UNCHANGED <<vars, lines, applied, page, marks>>

\* Its own buttons, and any click outside.
ClosePopover ==
  /\ page /\ popover
  /\ popover' = FALSE
  /\ UNCHANGED <<vars, lines, applied, page, marks, panel, rail, sidebar>>

\* The Escape key.
Escape ==
  /\ page
  /\ popover \/ panel # "none"
  /\ ClosePanels
  /\ popover' = FALSE
  /\ UNCHANGED <<vars, lines, applied, page, marks>>

\* chatCloseTimer.
HideRail ==
  /\ rail = "closing"
  /\ rail' = "hidden"
  /\ UNCHANGED <<vars, lines, applied, page, marks, panel, sidebar, popover>>

\* The list is scrolled, away from its end or back to it (or by the button).
Scroll ==
  /\ page /\ rail # "hidden" /\ lines # <<>>
  /\ pinned' = ~pinned
  /\ hint' = (hint /\ pinned)
  /\ UNCHANGED <<vars, lines, applied, page, views, unread, fresh, unnoticed>>

----------------------------------------------------------------------------
(* The steps of the room, with what Me's page makes of them.               *)

\* Me connects: first, or again when the reconnection timer fires; the popover's
\* Retry button connects before it does.
Connect ==
  /\ TakeSlot(Me)
  /\ \/ ClearRail
     \/ RetriesEarly /\ page /\ popover /\ popover' = FALSE
        /\ UNCHANGED <<lines, applied, page, marks, panel, rail, sidebar>>

Welcome == Admit(Me) /\ ShowHistory

Say(m) == rail = "shown" /\ Send(Me, m) /\ ShowMessage(m)

\* Somebody else's message.
Hear(p) ==
  /\ p # Me /\ Record(p)
  /\ IF Connected THEN ShowMessage(message[p]) ELSE UNCHANGED pageVars

\* Somebody else joins or leaves.
Notice(p) ==
  /\ p # Me /\ (Admit(p) \/ Leave(p))
  /\ IF Connected THEN ShowNotice ELSE UNCHANGED pageVars

\* Me leaves the meeting, or loses the connection.
Depart ==
  /\ Leave(Me)
  /\ Leaving \/ UNCHANGED pageVars

\* Steps of the room that no page hears of.
Unheard ==
  /\ \/ \E p \in Members \ {Me} : TakeSlot(p) \/ \E m \in Messages : Send(p, m)
     \/ \E p \in Members : CancelExpiry(p) \/ FailJoin(p) \/ FreeSlot(p)
                           \/ CheckSchedule(p) \/ Arm(p)
     \/ Record(Me)
     \/ Fire \/ CheckEmpty \/ DeleteHistory
     \/ (\E v \in BOOLEAN : Post(v)) \/ Clear
  /\ UNCHANGED pageVars

PageStep ==
  \/ OpenChat \/ (\E p \in Panels : OpenSidebar(p))
  \/ (\E clicked \in BOOLEAN : ClosePanel(clicked))
  \/ OpenPopover \/ ClosePopover \/ Escape \/ HideRail \/ Scroll

NextPage ==
  \/ Connect \/ Welcome \/ (\E m \in Messages : Say(m)) \/ Depart
  \/ (\E p \in Members : Hear(p) \/ Notice(p))
  \/ Unheard \/ PageStep

PageSpec == InitPage /\ [][NextPage]_allVars

----------------------------------------------------------------------------
(* Properties.                                                             *)

\* Type invariant of the room and the page.
PageTypeOK ==
  /\ TypeOK
  /\ lines \in Seq(Messages) /\ applied \subseteq Messages
  /\ panel \in {"none", "chat"} \cup Panels
  /\ rail \in {"hidden", "shown", "closing"}
  /\ sidebar \in BOOLEAN /\ popover \in BOOLEAN
  /\ unread \in Nat /\ pinned \in BOOLEAN /\ hint \in BOOLEAN
  /\ page \in BOOLEAN
  /\ unnoticed \subseteq fresh /\ fresh \subseteq Messages

\* While Me is in the room, its rail shows what the hub sent it since the
\* connection was set up, in order and each message once; nothing of an earlier
\* connection is left (app.js:3669, chat-history.js:3).
RailShowsFeed == Connected /\ ~RetriesEarly => lines = feed[Me]

\* The panel the page takes for open is the one that is shown, and alone: no
\* rail, sidebar or popover is left behind by another that was opened.
OnePanelIsShown ==
  /\ panel = "chat" <=> rail = "shown"
  /\ panel \in Panels <=> sidebar
  /\ popover => panel = "none"

\* The badge counts exactly the messages that came since the chat was last
\* open, but those of the tick in which it closed and those that are shown again
\* after a retry that did not wait for the timer, and is off while it is open;
\* the hint is shown only to somebody who has scrolled away from the end.
BadgeIsExact ==
  /\ panel = "chat" => unread = 0
  /\ rail = "hidden" /\ ~RetriesEarly => unread = Cardinality(fresh \ unnoticed)
  /\ hint => ~pinned
=============================================================================
