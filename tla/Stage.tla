-------------------------------- MODULE Stage --------------------------------
(***************************************************************************)
(* The stage of the meeting page (web/js/app.js, web/js/meeting-layout.js):*)
(* the tiles of the participants, their pages, pins and the menu of a      *)
(* tile, the expanded tile, and the camera subscriptions that follow from  *)
(* what is shown.  A dozen handlers change it, and each has to finish with *)
(* the right ones of three refreshes: Count (the automatic pin), Paginate  *)
(* (what is shown and subscribed) and Render (where a tile is placed).     *)
(*                                                                         *)
(* The variable "view" is what these functions share; every action is the  *)
(* handler of one event and applies the refreshes that the handler calls.  *)
(***************************************************************************)
EXTENDS Integers, Sequences, SequencesExt, FiniteSets, Selection

CONSTANTS People, Self,  \* participants, and the one whose page this is
          None,        \* no participant
          PageSize,    \* participantPageSize
          MaxActs,     \* bound on what the user does
          Simulcast    \* simulcastEnabled

ASSUME StageAssumptions ==
  /\ Self \in People /\ None \notin People
  /\ PageSize \in Nat \ {0} /\ MaxActs \in Nat /\ Simulcast \in BOOLEAN

VARIABLES
  view,  \* see ViewType
  left,  \* participantRemovalTimers: tiles of those who left, for 1.2 s
  late,  \* pins of somebody who has left, made after that
  acts

stageVars == <<view, left, late, acts>>

Layers == {"low", "medium", "high"}

\* order: participantElements and participantOrder; known: localParticipantID
\* is set; auto, dismissed: the automatic pin and the pair it was dismissed
\* for; hidden: tiles hidden by the user; shown: tiles whose item is not
\* hidden; placed: the container an item was last put in; mode: the container
\* that the last render showed; menu, orphan: participantMenuOwner, and
\* whether its item was removed; sent: the last subscription of the socket.
StageInit ==
  /\ view = [order |-> <<>>, known |-> FALSE, open |-> FALSE, pins |-> <<>>, auto |-> None,
             dismissed |-> {}, hidden |-> {}, self |-> TRUE, receive |-> TRUE,
             layer |-> "medium", owner |-> None, page |-> 0, shown |-> {},
             placed |-> [p \in People |-> "none"], mode |-> "grid", focus |-> None,
             menu |-> None, orphan |-> FALSE, sent |-> {None}]
  /\ left = {} /\ late = {} /\ acts = 0

(***************************************************************************)
(* Helpers.                                                                *)
(***************************************************************************)
Tiles(v) == ToSet(v.order)
IsSelf(v, p) == v.known /\ p = Self

\* The remote tiles that are divided into pages.
Listed(v) == Keep(v.order, {p \in Tiles(v) \ v.hidden : ~IsSelf(v, p)})

IndexIn(s, p) == CHOOSE i \in 1 .. Len(s) : s[i] = p
PageOf(s, p) == (IndexIn(s, p) - 1) \div PageSize
LastPage(s) == IF s = <<>> THEN 0 ELSE (Len(s) - 1) \div PageSize
Remove1(s, p) == Keep(s, ToSet(s) \ {p})
LastTwo(s) == SubSeq(s, Len(s) - 1, Len(s))

\* participantPairKey: a pair is the user and one other.
Pair(v) == IF v.known /\ Len(v.order) = 2 /\ Self \in Tiles(v) THEN Tiles(v) ELSE {}

\* sendVideoSubscriptions, what is sent last on an open socket.
Subscribe(v, ids) ==
  IF v.open /\ v.known THEN [v EXCEPT !.sent = IF v.receive THEN ids ELSE {}] ELSE v

\* The page follows who shares the screen, then the first pin, and exists.
PageAfter(v) ==
  LET s == Listed(v)
      many == Len(s) > PageSize
      pins == Keep(v.pins, ToSet(s))
      page == IF many /\ v.owner \in ToSet(s) THEN PageOf(s, v.owner) ELSE v.page
      pinned == IF many /\ \E i \in 1 .. Len(pins) : PageOf(s, pins[i]) # page
                  THEN PageOf(s, pins[1]) ELSE page
  IN  IF pinned > LastPage(s) THEN LastPage(s) ELSE pinned

OnPage(v, page) == {p \in ToSet(Listed(v)) : PageOf(Listed(v), p) = page}

\* Asks for the cameras of what is shown only.
ForgetHidden(v) == Subscribe(v, {p \in v.shown : ~IsSelf(v, p)})

\* updateParticipantPagination.
Paginate(v) ==
  LET page == PageAfter(v)
      shown == {p \in Tiles(v) : IF IsSelf(v, p) THEN v.self
                                 ELSE p \in OnPage(v, page) \/ (p \in ToSet(v.pins) \ v.hidden)}
      closed == ~v.orphan /\ v.menu # None /\ v.menu \notin shown
      next == [v EXCEPT !.page = page, !.shown = shown,
                        !.menu = IF closed THEN None ELSE v.menu]
  IN  Subscribe(next, {p \in Tiles(v) : ~IsSelf(v, p) /\ (p \in shown \/ p \in v.hidden)})

\* renderMeetingLayout: every tile goes to a container or to the parking; an
\* expanded tile that is not there any more is given up.
Render(v) ==
  LET visible == {p \in v.shown : p \notin v.hidden /\ (v.self \/ ~IsSelf(v, p))}
      mode == IF v.pins = <<>> THEN "grid" ELSE "pinned"
      place(p) == IF p \notin visible THEN "parked"
                  ELSE IF mode = "grid" THEN "grid"
                  ELSE IF p \in ToSet(v.pins) THEN "main" ELSE "strip"
  IN  [v EXCEPT !.mode = mode,
                !.placed = [p \in People |-> IF p \in Tiles(v) THEN place(p) ELSE "none"],
                !.focus = IF v.focus \in v.shown THEN v.focus ELSE None]

\* reconcileAutomaticParticipantPin: in a pair the other one is pinned, unless
\* the user changed a pin in this pair or hid the tile.
Reconcile(v) ==
  LET pair == Pair(v)
      keep == pair # {} /\ v.auto \in Tiles(v) \ v.hidden
      pins == IF keep THEN v.pins ELSE Remove1(v.pins, v.auto)
      dismissed == IF v.dismissed = pair THEN pair ELSE {}
      other == pair \ ({Self} \union v.hidden)
      next == [v EXCEPT !.dismissed = dismissed, !.pins = pins,
                        !.auto = IF keep THEN v.auto ELSE None]
  IN  IF dismissed = {} /\ ~keep /\ pins = <<>> /\ other # {}
        THEN LET p == CHOOSE p \in other : TRUE IN [next EXCEPT !.pins = <<p>>, !.auto = p]
        ELSE next

\* updateParticipantCount.
Count(v) ==
  LET next == Reconcile(v)
  IN  IF next.pins = v.pins THEN Paginate(next) ELSE Render(Paginate(next))

\* setPinnedParticipant: a pin is toggled; two at most; a tile that does not
\* exist clears them all.
SetPinned(v, p, user) ==
  LET next == [v EXCEPT !.dismissed = IF user THEN Pair(v) ELSE v.dismissed,
                        !.auto = IF user \/ v.auto = p THEN None ELSE v.auto]
      valid == p \in Tiles(v) /\ (~IsSelf(v, p) \/ v.self)
      pins == IF ~valid THEN <<>>
              ELSE IF p \in ToSet(v.pins) THEN Remove1(v.pins, p)
              ELSE IF Len(v.pins) < 2 THEN Append(v.pins, p) ELSE LastTwo(Append(v.pins, p))
  IN  Render(Paginate([next EXCEPT !.pins = pins]))

\* setParticipantTileHidden(p, true), for a remote tile.
HideTile(v, p) ==
  IF p \notin Tiles(v) \/ p \in v.hidden THEN v
  ELSE LET next == [v EXCEPT !.hidden = @ \union {p}]
           auto == p \in ToSet(v.pins) /\ v.auto = p
           pinned == [next EXCEPT !.dismissed = IF auto THEN Pair(v) ELSE @,
                                  !.auto = IF auto THEN None ELSE @,
                                  !.pins = Remove1(@, p)]
       IN  Render(Paginate(pinned))

\* setParticipantTileHidden(p, false): its page is turned to.
UnhideTile(v, p) ==
  LET next == [v EXCEPT !.hidden = @ \ {p}]
  IN  Render(Paginate([next EXCEPT !.page = PageOf(Listed(next), p)]))

\* setSelfViewVisibility: the own tile is unpinned first.  It is not a tile
\* that can be pinned any more, so that clears the other pin too.
SetSelf(v, on) ==
  LET next == [v EXCEPT !.self = on]
      unpinned == IF ~on /\ v.known /\ Self \in ToSet(v.pins)
                    THEN SetPinned(next, Self, FALSE) ELSE next
  IN  Render(Paginate(unpinned))

\* updateScreenShareUI.
ScreenUI(v) == Render(Paginate(v))

CloseMenu(v) == [v EXCEPT !.menu = None, !.orphan = FALSE]

\* addParticipant, for somebody new.
Add(v, p) ==
  LET next == [v EXCEPT !.order = Append(@, p), !.shown = @ \union {p}, !.placed[p] = "grid"]
      drawn == Render(ScreenUI(Count(next)))
  IN  IF v.known THEN Paginate(drawn) ELSE drawn

(***************************************************************************)
(* Messages and timers.                                                    *)
(***************************************************************************)
\* A pin that is made while a tile waits for its removal outlives the tile.
Noted == late' = {p \in ToSet(view'.pins) :
                    \/ p \in left \ ToSet(view.pins)
                    \/ p \in late /\ (p \in left' \/ p \notin Tiles(view'))}

Joined == view.open /\ view.known /\ Self \in Tiles(view)

\* The hub admits the user: the first message on a socket.
Admitted ==
  /\ view.open /\ Self \notin Tiles(view)
  /\ view' = Paginate(Count([Add(view, Self) EXCEPT !.known = TRUE]))
  /\ UNCHANGED <<left, acts>> /\ Noted

Arrives(p) ==
  /\ Joined /\ p \notin Tiles(view)
  /\ view' = Add(view, p)
  /\ UNCHANGED <<left, acts>> /\ Noted

\* A session is resumed before its tile was removed.
Returns(p) ==
  /\ Joined /\ p \in left
  /\ left' = left \ {p}
  /\ LET v == IF view.menu = p THEN CloseMenu(view) ELSE view
     IN  view' = Paginate(Count(v))
  /\ UNCHANGED acts /\ Noted

\* participant_left: the pin is removed now, the tile later.
Leaves(p) ==
  /\ Joined /\ p \in Tiles(view) \ (left \union {Self})
  /\ left' = left \union {p}
  /\ LET closed == IF view.menu = p THEN CloseMenu(view) ELSE view
         pinned == IF p \in ToSet(closed.pins) THEN SetPinned(closed, p, FALSE) ELSE closed
     IN  view' = IF p = view.owner THEN ScreenUI([pinned EXCEPT !.owner = None]) ELSE pinned
  /\ UNCHANGED acts /\ Noted

TileRemovedOnly(p) ==
  /\ p \in left
  /\ left' = left \ {p}
  /\ LET v == [view EXCEPT !.order = Remove1(@, p), !.shown = @ \ {p}, !.placed[p] = "none",
                           !.orphan = @ \/ view.menu = p]
     IN  view' = v
  /\ UNCHANGED acts /\ Noted

\* The removal timer of a tile.
TileRemoved(p) ==
  /\ p \in left
  /\ left' = left \ {p}
  /\ LET v == [view EXCEPT !.order = Remove1(@, p), !.shown = @ \ {p}, !.placed[p] = "none",
                           !.orphan = @ \/ view.menu = p,
                           !.focus = IF @ = p THEN None ELSE @]
     IN  view' = Render(Count(v))
  /\ UNCHANGED acts /\ Noted

\* screen_share_state.
ScreenState(o) ==
  /\ Joined /\ o \in (Tiles(view) \ left) \union {None} /\ o # view.owner
  /\ view' = Render(ScreenUI([view EXCEPT !.owner = o]))
  /\ UNCHANGED <<left, acts>> /\ Noted

\* refreshPrimarySpeaker.
SpeakerChanges == view' = Render(view) /\ UNCHANGED <<left, acts>> /\ Noted

Opened ==
  /\ ~view.open /\ view.order = <<>>
  /\ view' = [view EXCEPT !.open = TRUE, !.sent = {None}]
  /\ UNCHANGED <<left, acts>> /\ Noted

(***************************************************************************)
(* The user.                                                               *)
(***************************************************************************)
Act == Self \in Tiles(view) /\ acts < MaxActs /\ acts' = acts + 1 /\ UNCHANGED left

\* A tile the user can see: its container is displayed and it is not hidden.
Seen(p) ==
  /\ p \in view.shown /\ view.focus \in {None, p}
  /\ view.placed[p] \in (IF view.mode = "grid" THEN {"grid"} ELSE {"main", "strip"})

OpenMenu(p) ==
  /\ Act /\ Seen(p) /\ view.menu # p
  /\ view' = [view EXCEPT !.menu = p, !.orphan = FALSE]
  /\ Noted

DismissMenu == Act /\ view.menu # None /\ view' = CloseMenu(view) /\ Noted

MenuPin ==
  /\ Act /\ view.menu # None
  /\ view' = CloseMenu(SetPinned(view, view.menu, TRUE))
  /\ Noted

MenuHide ==
  /\ Act /\ view.menu \notin {None, Self}
  /\ view' = CloseMenu(HideTile(view, view.menu))
  /\ Noted

MenuSelf ==
  /\ Act /\ view.menu = Self
  /\ view' = CloseMenu(SetSelf(view, FALSE))
  /\ Noted

\* setStageFocusParticipant, or clearStageFocus if the tile is expanded.
MenuExpand ==
  /\ Act /\ view.menu # None
  /\ LET p == view.menu
         allowed == p \in view.shown \ view.hidden /\ (p = Self => view.self)
     IN  view' = CloseMenu([view EXCEPT !.focus = IF @ = p THEN None
                                                  ELSE IF allowed THEN p ELSE @])
  /\ Noted

ExitExpanded ==
  /\ Act /\ view.focus # None
  /\ view' = [view EXCEPT !.focus = None]
  /\ Noted

\* "Show tile" of the list of people.
ShowTile(p) ==
  /\ Act /\ p \in view.hidden \intersect Tiles(view)
  /\ view' = UnhideTile(view, p)
  /\ Noted

ToggleSelfView == Act /\ view' = SetSelf(view, ~view.self) /\ Noted

ToggleReceive ==
  /\ Act /\ view' = Paginate([view EXCEPT !.receive = ~@]) /\ Noted

\* setParticipantPage; the buttons are not displayed around an expanded tile.
TurnPage(d) ==
  /\ Act /\ view.focus = None /\ view.page + d \in 0 .. LastPage(Listed(view))
  /\ view' = Paginate([view EXCEPT !.page = @ + d])
  /\ Noted

\* setCameraLayer, from the adaptation: it asks only for what is shown.
SetLayer(l) ==
  /\ Act /\ Simulcast /\ l # view.layer
  /\ view' = ForgetHidden([view EXCEPT !.layer = l])
  /\ Noted

(***************************************************************************)
(* The connection.                                                         *)
(***************************************************************************)
Drop == view.open /\ view' = [view EXCEPT !.open = FALSE] /\ UNCHANGED <<left, acts>> /\ Noted

PinsCleared(v) ==
  Paginate(CloseMenu([v EXCEPT !.order = <<>>, !.pins = <<>>, !.page = 0, !.shown = {},
                               !.placed = [p \in People |-> "none"]]))

\* resetMediaConnection: what belongs to the user (hidden tiles, self-view)
\* outlives the connection.
Reset ==
  /\ ~view.open /\ view.order # <<>>
  /\ view' = [PinsCleared(view) EXCEPT !.owner = None]
  /\ left' = {}
  /\ UNCHANGED acts /\ Noted

\* The leave button, and a later join under another identifier, under which
\* the old automatic pin and expanded tile mean nothing.
LeaveMeeting ==
  /\ Self \in Tiles(view) /\ acts < MaxActs /\ acts' = acts + 1
  /\ left' = {}
  /\ view' = [PinsCleared([view EXCEPT !.open = FALSE]) EXCEPT
                !.known = FALSE, !.hidden = {}, !.receive = TRUE, !.layer = "medium",
                !.owner = None, !.auto = None, !.dismissed = {}, !.focus = None]
  /\ Noted

StageNext ==
  \/ Admitted \/ Opened \/ Drop \/ Reset \/ SpeakerChanges
  \/ \E p \in People \ {Self} : Arrives(p) \/ Returns(p) \/ Leaves(p) \/ TileRemoved(p) \/ ShowTile(p)
  \/ \E o \in People \union {None} : ScreenState(o)
  \/ \E p \in People : OpenMenu(p)
  \/ DismissMenu \/ MenuPin \/ MenuHide \/ MenuSelf \/ MenuExpand \/ ExitExpanded
  \/ ToggleSelfView \/ ToggleReceive \/ LeaveMeeting
  \/ \E d \in {-1, 1} : TurnPage(d)
  \/ \E l \in Layers : SetLayer(l)

StageSpec == StageInit /\ [][StageNext]_stageVars

(***************************************************************************)
(* Properties.                                                             *)
(***************************************************************************)
\* The values of the view: identifiers, and the sets drawn from the roster.
ViewType(v) ==
  /\ v.order \in Seq(People) /\ v.pins \in Seq(People)
  /\ {v.auto, v.owner, v.focus, v.menu} \subseteq People \union {None}
  /\ v.dismissed \subseteq People /\ v.hidden \subseteq People \ {Self}
  /\ {v.known, v.open, v.self, v.receive, v.orphan} \subseteq BOOLEAN
  /\ v.layer \in Layers /\ v.mode \in {"grid", "pinned"}
  /\ v.shown \subseteq Tiles(v) /\ v.page \in 0 .. LastPage(Listed(v))
  /\ v.placed \in [People -> {"none", "grid", "main", "strip", "parked"}]
  /\ \A p \in People : v.placed[p] = "none" <=> p \notin Tiles(v)
  /\ v.sent = {None} \/ v.sent \subseteq People \ {Self}

\* The variables have their values; a participant has one tile and is pinned
\* once, only a tile has a removal timer, and a page exists.
StageTypeOK ==
  /\ ViewType(view)
  /\ IsInjective(view.order) /\ IsInjective(view.pins) /\ Len(view.pins) <= 2
  /\ left \subseteq Tiles(view) \ {Self} /\ late \subseteq People /\ acts \in 0 .. MaxActs

\* Whatever joined, left, was pinned, hidden, shared or paged, the last
\* subscription of the socket asks for the cameras of the remote tiles that
\* are shown, and of no other but those the user hid (updateParticipant-
\* Pagination, set_video_subscriptions); with incoming video off, for none.
SubscriptionsMatch ==
  Joined =>
    LET shown == view.shown \ {Self}
        all == shown \union (view.hidden \intersect Tiles(view))
    IN  IF ~view.receive THEN view.sent = {}
        ELSE shown \subseteq view.sent /\ view.sent \subseteq all /\ (~Simulcast => view.sent = all)

\* A pin never shows an empty place: who is pinned has a tile, which is shown
\* in the main area, unless it was pinned (by the user, or as the automatic
\* pin) while the tile of somebody who had left waited for its removal; and
\* the automatic pin exists in a pair only (reconcileAutomaticParticipantPin).
PinsAreShown ==
  Self \in Tiles(view) =>
    /\ \A p \in ToSet(view.pins) \ late :
         p \in view.shown \ view.hidden /\ view.placed[p] = "main" /\ view.mode = "pinned"
    /\ view.auto # None => Tiles(view) = {Self, view.auto} /\ view.auto \in ToSet(view.pins)

\* An expanded tile, which suppresses all the others, is a tile that is shown,
\* and so is the tile of an open menu, unless it was removed under the menu.
FocusIsShown ==
  Self \in Tiles(view) =>
    /\ view.focus # None => view.focus \in view.shown \ view.hidden
    /\ view.menu # None /\ ~view.orphan => view.menu \in view.shown

\* The tiles of the current page are displayed ("Page 2 of 2; showing 1
\* participants", app.js:861): none is left in the parking.  They are when the page
\* is turned, until something else renders (app.js:875).
PageIsDisplayed ==
  Self \in Tiles(view) => \A p \in view.shown : view.placed[p] # "parked"
=============================================================================
