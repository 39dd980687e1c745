------------------------------- MODULE People -------------------------------
(***************************************************************************)
(* What the meeting page shows of the people (web/js/app.js): the tiles'   *)
(* labels and hand badges, the list of participants, and the reactions.    *)
(* All of it is derived: every handler that changes a participant's state, *)
(* the screen owner or the incoming video has to refresh what depends on   *)
(* it, and the list is rebuilt only if its signature changed.              *)
(*                                                                         *)
(* Every action is the handler of one message, click or timer.             *)
(***************************************************************************)
EXTENDS Integers, FiniteSets, SequencesExt, Selection

CONSTANTS Remotes,  \* the other participants
          Medias,   \* [mic, camera] of the media_state messages
          MaxActs   \* bound on messages and clicks

ASSUME PeopleAssumptions ==
  /\ "me" \notin Remotes /\ IsFiniteSet(Remotes) /\ MaxActs \in Nat
  /\ Medias \subseteq [mic : {"on", "off"}, camera : {"on", "off", "paused"}]

VARIABLES
  people,     \* participantElements, in their order
  tile,       \* what each tile's dataset holds
  removal,    \* participantRemovalTimers
  hiddenIds,  \* hiddenParticipantIDs
  receive,    \* receiveVideoEnabled
  sharer,     \* screenShareOwner, or "none"
  pendingHand, handTimer,  \* pendingHandState, handStatePendingTimer
  rows, signature,         \* the list of participants, peopleListSignature
  label,      \* element.state
  badge,      \* handIndicator and handOrder: -1 hidden, 0 no number
  reaction,   \* reactionElements with their timers: whose is shown
  departed,   \* a departure changed the queue of hands, not yet the badges
  acts

peopleVars == <<people, tile, removal, hiddenIds, receive, sharer, pendingHand, handTimer,
                rows, signature, label, badge, reaction, departed, acts>>
shown == <<rows, signature, label, badge>>

Ids == Remotes \union {"me"}
Present == ToSet(people)
Tiles == [conn : {"connected", "disconnected", "left"}, mic : {"unknown", "on", "off"},
          camera : {"unknown", "on", "off", "paused"}, hand : BOOLEAN, order : Nat]
Unknown == [conn |-> "connected", mic |-> "unknown", camera |-> "unknown",
            hand |-> FALSE, order |-> 0]

(***************************************************************************)
(* What is derived from the state t of the tiles, the owner s of the       *)
(* screen and the incoming video r.                                        *)
(***************************************************************************)
\* updateParticipantTileState.
LabelOf(p, t, s, r) ==
  CASE t[p].conn = "left" -> "left"
    [] t[p].conn = "disconnected" -> "reconnecting"
    [] t[p].camera = "paused" -> "paused"
    [] t[p].camera = "on" /\ p # "me" /\ ~r -> "incoming off"
    [] t[p].camera = "off" /\ p # s -> "off"
    [] t[p].camera = "unknown" -> "connecting"
    [] OTHER -> "none"

Raised(ps, t) == {p \in ToSet(ps) : t[p].hand}

\* updateRaisedHandsUI, of one tile.
BadgeOf(p, ps, t) ==
  IF ~t[p].hand THEN -1
  ELSE IF Cardinality(Raised(ps, t)) < 2 THEN 0 ELSE t[p].order

\* A row of renderPeopleList.
RowOf(p, ps, t, r, h) ==
  [who |-> p,
   state |-> CASE t[p].conn = "left" -> "left"
               [] t[p].conn = "disconnected" -> "reconnecting"
               [] t[p].mic = "off" -> "muted"
               [] t[p].camera = "on" /\ p # "me" /\ ~r -> "incoming off"
               [] t[p].camera \in {"paused", "off", "unknown"} -> t[p].camera
               [] OTHER -> "connected",
   hand |-> BadgeOf(p, ps, t), showTile |-> p \in h]

RowsOf(ps, t, r, h) == [i \in DOMAIN ps |-> RowOf(ps[i], ps, t, r, h)]

SignatureOf(ps, t, r, h) == [i \in DOMAIN ps |-> <<ps[i], t[ps[i]], r, ps[i] \in h>>]

\* renderPeopleList.
RenderList ==
  LET now == SignatureOf(people', tile', receive', hiddenIds') IN
  /\ signature' = now
  /\ rows' = IF now = signature THEN rows
             ELSE RowsOf(people', tile', receive', hiddenIds')

\* updateParticipantTileState, of the tiles of ps.
Relabel(ps) ==
  label' = [p \in Ids |-> IF p \in ps THEN LabelOf(p, tile', sharer', receive') ELSE label[p]]

\* updateRaisedHandsUI.
RefreshHands ==
  /\ badge' = [p \in Ids |-> IF p \in ToSet(people') THEN BadgeOf(p, people', tile')
                              ELSE -1]
  /\ departed' = FALSE

PeopleInit ==
  /\ people = <<>> /\ tile = [p \in Ids |-> Unknown] /\ removal = {} /\ hiddenIds = {}
  /\ receive = TRUE /\ sharer = "none" /\ pendingHand = "none" /\ handTimer = FALSE
  /\ rows = <<>> /\ signature = <<>> /\ label = [p \in Ids |-> "none"]
  /\ badge = [p \in Ids |-> -1] /\ reaction = {} /\ departed = FALSE /\ acts = 0

Acts == acts < MaxActs /\ acts' = acts + 1

(***************************************************************************)
(* Messages.                                                               *)
(***************************************************************************)
\* addParticipant, of a new participant: "me" is the first.
Joins(p, hand) ==
  /\ Acts /\ p \notin Present /\ (people = <<>> <=> p = "me")
  /\ people' = Append(people, p)
  /\ tile' = [tile EXCEPT ![p] = [Unknown EXCEPT !.hand = hand,
                                   !.order = IF hand THEN Cardinality(Raised(people, tile)) + 1
                                             ELSE 0]]
  /\ UNCHANGED <<removal, hiddenIds, receive, sharer, pendingHand, handTimer, reaction>>
  /\ Relabel({p}) /\ RefreshHands /\ RenderList

\* One that left less than 1.2 s ago: its tile is taken up again.
Returns(p) ==
  /\ Acts /\ p \in removal /\ removal' = removal \ {p}
  /\ tile' = [tile EXCEPT ![p].conn = "connected", ![p].mic = "unknown",
                          ![p].camera = "unknown"]
  /\ UNCHANGED <<people, hiddenIds, receive, sharer, pendingHand, handTimer, badge,
                 reaction, departed>>
  /\ Relabel({p}) /\ RenderList

\* updateMediaState; of oneself it follows setLocalMediaControls.
MediaState(p, m) ==
  /\ Acts /\ p \in Present
  /\ tile' = [tile EXCEPT ![p].mic = m.mic, ![p].camera = m.camera]
  /\ UNCHANGED <<people, removal, hiddenIds, receive, sharer, pendingHand, handTimer,
                 badge, reaction, departed>>
  /\ Relabel({p}) /\ RenderList

\* updateParticipantHandState; the hub gives no two participants one order.
HandState(p, raised, order) ==
  /\ Acts /\ p \in Present
  /\ raised => order \notin {tile[q].order : q \in Present \ {p}}
  /\ tile' = [tile EXCEPT ![p].hand = raised, ![p].order = IF raised THEN order ELSE 0]
  /\ pendingHand' = IF p = "me" /\ pendingHand = (IF raised THEN "raise" ELSE "lower")
                      THEN "none" ELSE pendingHand
  /\ UNCHANGED <<people, removal, hiddenIds, receive, sharer, handTimer, label, reaction>>
  /\ RefreshHands /\ RenderList

\* normalizeRaisedHandOrders: by order, then by place.
Normalized(ps, t) ==
  LET index(p) == CHOOSE i \in DOMAIN ps : ps[i] = p
      before(p, q) == t[p].order < t[q].order
                      \/ (t[p].order = t[q].order /\ index(p) < index(q))
      place(p) == Cardinality({q \in Raised(ps, t) : before(q, p)}) + 1
  IN  [p \in Ids |-> IF p \in Raised(ps, t) THEN [t[p] EXCEPT !.order = place(p)] ELSE t[p]]

\* participant_left: the tile stays for 1.2 s; the badges are not refreshed.
Leaves(p) ==
  /\ Acts /\ p \in Present \ {"me"} /\ removal' = removal \union {p}
  /\ tile' = Normalized(people, [tile EXCEPT ![p].conn = "left", ![p].hand = FALSE,
                                             ![p].order = 0])
  /\ sharer' = IF p = sharer THEN "none" ELSE sharer
  /\ departed' = (departed \/ \E q \in Present : tile'[q].order # tile[q].order)
  /\ UNCHANGED <<people, hiddenIds, receive, pendingHand, handTimer, badge, reaction>>
  /\ Relabel(IF p = sharer THEN Present ELSE {p}) /\ RenderList

\* screen_share_state.
ShareState(p) ==
  /\ Acts /\ p \in Present \union {"none"} /\ sharer' = p
  /\ UNCHANGED <<people, tile, removal, hiddenIds, receive, pendingHand, handTimer, rows,
                 signature, badge, reaction, departed>>
  /\ Relabel(Present)

\* emoji_reaction: a reaction is shown, and the timer of an older one is reset.
React(p) ==
  /\ Acts /\ p \in Present /\ reaction' = reaction \union {p}
  /\ UNCHANGED <<people, tile, removal, hiddenIds, receive, sharer, pendingHand, handTimer,
                 shown, departed>>

\* An error message: the hand button is free again.
ErrorMessage ==
  /\ Acts /\ pendingHand # "none" /\ pendingHand' = "none"
  /\ UNCHANGED <<people, tile, removal, hiddenIds, receive, sharer, handTimer, rows,
                 signature, label, reaction>>
  /\ RefreshHands

(***************************************************************************)
(* The user.                                                               *)
(***************************************************************************)
\* setReceiveVideo.
ReceiveVideo ==
  /\ Acts /\ people # <<>> /\ receive' = ~receive
  /\ UNCHANGED <<people, tile, removal, hiddenIds, sharer, pendingHand, handTimer, badge,
                 reaction, departed>>
  /\ Relabel(Present \ {"me"}) /\ RenderList

\* setParticipantTileHidden.
HideTile(p) ==
  /\ Acts /\ p \in Present \ {"me"}
  /\ hiddenIds' = IF p \in hiddenIds THEN hiddenIds \ {p} ELSE hiddenIds \union {p}
  /\ UNCHANGED <<people, tile, removal, receive, sharer, pendingHand, handTimer, label,
                 badge, reaction, departed>>
  /\ RenderList

\* A click on the hand button, and sendHandState.
RaiseHandClick ==
  /\ Acts /\ people # <<>> /\ pendingHand = "none"
  /\ pendingHand' = IF tile["me"].hand THEN "lower" ELSE "raise"
  /\ handTimer' = TRUE
  /\ UNCHANGED <<people, tile, removal, hiddenIds, receive, sharer, rows, signature, label,
                 reaction>>
  /\ RefreshHands

(***************************************************************************)
(* Timers, and the connection.                                             *)
(***************************************************************************)
RemovalTimer(p) ==
  /\ p \in removal /\ removal' = removal \ {p}
  /\ people' = Keep(people, Ids \ {p})
  /\ departed' = (departed \/ tile[p].hand)
  /\ UNCHANGED <<tile, hiddenIds, receive, sharer, pendingHand, handTimer, label, badge,
                 reaction, acts>>
  /\ RenderList

ReactionTimer(p) ==
  /\ p \in reaction /\ reaction' = reaction \ {p}
  /\ UNCHANGED <<people, tile, removal, hiddenIds, receive, sharer, pendingHand, handTimer,
                 shown, departed, acts>>

\* The echo of a hand request is lost: the button is freed.
HandTimer ==
  /\ handTimer /\ handTimer' = FALSE
  /\ UNCHANGED <<people, tile, removal, hiddenIds, receive, sharer, rows, signature, label,
                 reaction, acts>>
  /\ pendingHand' = "none"
  /\ IF pendingHand = "none" THEN UNCHANGED <<badge, departed>> ELSE RefreshHands

\* setParticipantConnectionState: of every other tile, even of who has left.
ConnectionState(state) ==
  /\ Acts /\ people # <<>>
  /\ tile' = [p \in Ids |-> IF p \in Present \ {"me"} THEN [tile[p] EXCEPT !.conn = state]
                            ELSE tile[p]]
  /\ UNCHANGED <<people, removal, hiddenIds, receive, sharer, pendingHand, handTimer,
                 badge, reaction, departed>>
  /\ Relabel(Present \ {"me"}) /\ RenderList

\* The socket closes, and resetMediaConnection before the next one.
ResetPeople ==
  /\ Acts /\ people # <<>> /\ people' = <<>> /\ removal' = {} /\ sharer' = "none"
  /\ pendingHand' = "none"
  /\ UNCHANGED <<tile, hiddenIds, receive, handTimer, label, reaction>>
  /\ RefreshHands /\ RenderList

PeopleNext ==
  \/ \E p \in Ids :
       \/ \E hand \in BOOLEAN : Joins(p, hand)
       \/ Returns(p) \/ Leaves(p) \/ React(p) \/ HideTile(p)
       \/ RemovalTimer(p) \/ ReactionTimer(p)
       \/ \E m \in Medias : MediaState(p, m)
       \/ HandState(p, FALSE, 0)
       \/ \E order \in 1 .. Cardinality(Ids) : HandState(p, TRUE, order)
  \/ \E p \in Ids \union {"none"} : ShareState(p)
  \/ \E state \in {"connected", "disconnected"} : ConnectionState(state)
  \/ ErrorMessage \/ ReceiveVideo \/ RaiseHandClick \/ HandTimer \/ ResetPeople

PeopleSpec == PeopleInit /\ [][PeopleNext]_peopleVars

(***************************************************************************)
(* Properties.                                                             *)
(***************************************************************************)
\* Every variable has its type.
PeopleTypeOK ==
  /\ people \in Seq(Ids) /\ IsInjective(people) /\ tile \in [Ids -> Tiles]
  /\ removal \subseteq Present \ {"me"} /\ hiddenIds \subseteq Remotes
  /\ sharer \in Ids \union {"none"} /\ pendingHand \in {"none", "raise", "lower"}
  /\ reaction \subseteq Ids /\ {receive, handTimer, departed} \subseteq BOOLEAN

\* The list of participants shows what is known of them: the signature that
\* saves a rebuild leaves out nothing that a row depends on.
ListIsCurrent == rows = RowsOf(people, tile, receive, hiddenIds)

\* The tiles do, too: a label follows the connection, the camera, the incoming
\* video and the owner of the screen; a badge the queue of hands, until a
\* departure changes it: then the badges stay as they are.
TilesAreCurrent ==
  \A p \in Present :
    /\ label[p] = LabelOf(p, tile, sharer, receive)
    /\ ~departed => badge[p] = BadgeOf(p, people, tile)
=============================================================================
