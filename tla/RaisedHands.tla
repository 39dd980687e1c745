---------------------------- MODULE RaisedHands ----------------------------
(***************************************************************************)
(* Raised hands from the meeting table to every browser: the hand_state    *)
(* handler and the admission of internal/signaling/hub.go around the table *)
(* of module Meeting, and the tiles of web/js/app.js that show the queue.  *)
(*                                                                         *)
(* Meeting.SetRaisedHand returns the records it renumbered; the handler    *)
(* broadcasts them one by one, holding no lock in between, and copies the  *)
(* sender's own record into client.participant.  The copy is what a        *)
(* resumed connection carries on with and shows to others.  Connections of *)
(* one participant do not overlap (module Sessions), except that a join    *)
(* which takes over a live session copies the record while the old         *)
(* connection may still be in a handler.                                   *)
(***************************************************************************)
EXTENDS Meeting

CONSTANT DepartureChoices  \* sets of "leave", "drop" and "takeover"

VARIABLES
  departures,  \* which of them happen: one of DepartureChoices, chosen at the start
  doing,     \* next step of each participant's goroutine
  changed,  \* the handler's records still to be broadcast
  copy,     \* hand order in client.participant, zero for a lowered hand
  heir,     \* the copy a takeover made, or NoHeir
  tiles,    \* each browser's participantOrder: whom it has a tile for
  fading,   \* tiles of departed participants whose removal timer runs
  number    \* dataset.handOrder of each tile, zero when handRaised is false

tableVars == <<vars, departures>>
browserVars == <<tiles, fading, number>>
handsVars == <<tableVars, doing, changed, copy, heir, browserVars>>

NoHeir == -1

\* Hub.roomMembers.
Room == {p \in Ids : doing[p] \in {"announce", "in", "telling"}}

\* Participants inside their grace window, left out of the roster replay.
InGrace == {p \in Ids : doing[p] \in {"tellAway", "away"}}

HandsInit ==
  /\ Init
  /\ departures \in DepartureChoices
  /\ doing = [p \in Ids |-> "new"]
  /\ changed = [p \in Ids |-> <<>>]
  /\ copy = [p \in Ids |-> 0]
  /\ heir = [p \in Ids |-> NoHeir]
  /\ tiles = [p \in Ids |-> <<>>]
  /\ fading = [p \in Ids |-> {}]
  /\ number = [p \in Ids |-> [q \in Ids |-> 0]]

Does(p, s) == doing' = [doing EXCEPT ![p] = s]

----------------------------------------------------------------------------
(* The browser.                                                            *)

\* normalizeRaisedHandOrders: raised tiles are renumbered from 1, by their
\* number and, where that ties, by their place.
Normalized(numbers, place) ==
  LET shownRaised == {q \in Ids : numbers[q] > 0 /\ q \in ToSet(place)}
      At(q) == CHOOSE i \in DOMAIN place : place[i] = q
      Before(q, r) == numbers[q] < numbers[r] \/ (numbers[q] = numbers[r] /\ At(q) < At(r))
  IN [q \in Ids |-> IF q \in shownRaised
                    THEN 1 + Cardinality({r \in shownRaised : Before(r, q)})
                    ELSE numbers[q]]

\* addParticipant in every browser of receivers: a tile that is still there is
\* kept as it is, hand included; only its removal is called off.
AddTile(receivers, p, hand) ==
  LET fresh(m) == m \in receivers /\ p \notin ToSet(tiles[m]) IN
  /\ tiles' = [m \in Ids |-> IF fresh(m) THEN Append(tiles[m], p) ELSE tiles[m]]
  /\ number' = [m \in Ids |-> IF fresh(m) THEN [number[m] EXCEPT ![p] = hand] ELSE number[m]]
  /\ fading' = [m \in Ids |-> IF m \in receivers THEN fading[m] \ {p} ELSE fading[m]]

\* participant_left: the hand is lowered, the others are renumbered, and the
\* tile is removed 1.2 seconds later.
FadeTile(receivers, p) ==
  LET hit(m) == m \in receivers /\ p \in ToSet(tiles[m]) IN
  /\ number' = [m \in Ids |-> IF hit(m)
                              THEN Normalized([number[m] EXCEPT ![p] = 0], tiles[m])
                              ELSE number[m]]
  /\ fading' = [m \in Ids |-> IF hit(m) THEN fading[m] \union {p} ELSE fading[m]]
  /\ UNCHANGED tiles

RemoveTile(m, p) ==
  /\ p \in fading[m]
  /\ fading' = [fading EXCEPT ![m] = @ \ {p}]
  /\ tiles' = [tiles EXCEPT ![m] = Dequeue(@, p)]
  /\ number' = [number EXCEPT ![m][p] = 0]
  /\ UNCHANGED <<tableVars, doing, changed, copy, heir>>

\* updateParticipantHandState in every browser of the room that has the tile.
ShowHand(p, hand) ==
  number' = [m \in Ids |-> IF m \in Room /\ p \in ToSet(tiles[m])
                           THEN [number[m] EXCEPT ![p] = hand] ELSE number[m]]

----------------------------------------------------------------------------
(* The hub.                                                                *)

Enter(p) ==
  /\ doing[p] = "new"
  /\ Join(p)
  /\ Does(p, "joined")
  /\ UNCHANGED <<departures, changed, copy, heir, browserVars>>

\* Mutant of ShowRoster: the roster replay leaves out the hands.
ShowRosterWithoutHands(p) ==
  LET present == {q \in participants : q \notin InGrace /\ q # p} IN
  /\ doing[p] \in {"joined", "over"}
  /\ \E others \in SetToSeqs(present) : tiles' = [tiles EXCEPT ![p] = <<p>> \o others]
  /\ number' = [number EXCEPT ![p] = [q \in Ids |-> IF q = p THEN copy[p] ELSE 0]]
  /\ fading' = [fading EXCEPT ![p] = {}]
  /\ Does(p, IF doing[p] = "over" THEN "in" ELSE "announce")
  /\ UNCHANGED <<tableVars, changed, copy, heir>>

\* admit: the browser starts empty, and is sent its own record from
\* client.participant and everybody else's from the table.
ShowRoster(p) ==
  LET present == {q \in participants : q \notin InGrace /\ q # p} IN
  /\ doing[p] \in {"joined", "over"}
  /\ \E others \in SetToSeqs(present) : tiles' = [tiles EXCEPT ![p] = <<p>> \o others]
  /\ number' = [number EXCEPT ![p] = [q \in Ids |-> IF q = p THEN copy[p]
                                                    ELSE IF q \in present THEN order[q]
                                                    ELSE 0]]
  /\ fading' = [fading EXCEPT ![p] = {}]
  /\ Does(p, IF doing[p] = "over" THEN "in" ELSE "announce")
  /\ UNCHANGED <<tableVars, changed, copy, heir>>

\* broadcastExcept(joined), with the connection's copy of the record; a
\* takeover of a live session is not announced.
Announce(p) ==
  /\ doing[p] = "announce"
  /\ AddTile(Room \ {p}, p, copy[p])
  /\ Does(p, "in")
  /\ UNCHANGED <<tableVars, changed, copy, heir>>

\* hand_state: one critical section of the meeting, then the broadcasts.  A
\* hand that is already up (or down) changes nothing and is not broadcast.
Raise(p) ==
  /\ doing[p] = "in"
  /\ RaiseHand(p)
  /\ changed' = [changed EXCEPT ![p] = << <<p, order'[p]>> >>]
  /\ Does(p, "telling")
  /\ UNCHANGED <<departures, copy, heir, browserVars>>

Lower(p) ==
  /\ doing[p] = "in"
  /\ LowerHand(p)
  /\ changed' = [changed EXCEPT ![p] =
       << <<p, 0>> >> \o [i \in DOMAIN raisedHandIDs' |-> <<raisedHandIDs'[i], i>>]]
  /\ Does(p, "telling")
  /\ UNCHANGED <<departures, copy, heir, browserVars>>

\* Mutant of TellHand: client.participant is not kept up to date.
TellHandOnly(p) ==
  LET record == Head(changed[p]) IN
  /\ doing[p] = "telling"
  /\ ShowHand(record[1], record[2])
  /\ changed' = [changed EXCEPT ![p] = Tail(@)]
  /\ Does(p, IF Len(changed[p]) = 1 THEN "in" ELSE "telling")
  /\ UNCHANGED <<tableVars, copy, heir, tiles, fading>>

TellHand(p) ==
  LET record == Head(changed[p]) IN
  /\ doing[p] = "telling"
  /\ ShowHand(record[1], record[2])
  /\ copy' = IF record[1] = p THEN [copy EXCEPT ![p] = record[2]] ELSE copy
  /\ changed' = [changed EXCEPT ![p] = Tail(@)]
  /\ Does(p, IF Len(changed[p]) = 1 THEN "in" ELSE "telling")
  /\ UNCHANGED <<tableVars, heir, tiles, fading>>

\* A departure that keeps no slot: Meeting.Leave, then the left event.
Depart(p) ==
  /\ "leave" \in departures
  /\ doing[p] = "in"
  /\ heir[p] = NoHeir
  /\ Leave(p)
  /\ Does(p, "tellLeft")
  /\ UNCHANGED <<departures, changed, copy, heir, browserVars>>

TellLeft(p) ==
  /\ doing[p] = "tellLeft"
  /\ FadeTile(Room, p)
  /\ Does(p, "left")
  /\ UNCHANGED <<tableVars, changed, copy, heir>>

\* A lost connection: the left event is sent, the hand stays raised in the table.
LoseConnection(p) ==
  /\ "drop" \in departures
  /\ doing[p] = "in"
  /\ heir[p] = NoHeir
  /\ Does(p, "tellAway")
  /\ UNCHANGED <<tableVars, changed, copy, heir, browserVars>>

TellAway(p) ==
  /\ doing[p] = "tellAway"
  /\ FadeTile(Room, p)
  /\ Does(p, "away")
  /\ UNCHANGED <<tableVars, changed, copy, heir>>

\* The window lapses, or the token comes back in time.
Expire(p) ==
  /\ doing[p] = "away"
  /\ Leave(p)
  /\ Does(p, "left")
  /\ UNCHANGED <<departures, changed, copy, heir, browserVars>>

Resume(p) ==
  /\ doing[p] = "away"
  /\ Does(p, "joined")
  /\ UNCHANGED <<tableVars, changed, copy, heir, browserVars>>

\* reclaim of a live session: the new connection copies the record and waits
\* for the old one, which finishes its handler before it ends.
TakeOver(p) ==
  /\ "takeover" \in departures
  /\ doing[p] \in {"in", "telling"}
  /\ heir[p] = NoHeir
  /\ heir' = [heir EXCEPT ![p] = copy[p]]
  /\ UNCHANGED <<tableVars, doing, changed, copy, browserVars>>

Succeed(p) ==
  /\ doing[p] = "in"
  /\ heir[p] # NoHeir
  /\ copy' = [copy EXCEPT ![p] = heir[p]]
  /\ heir' = [heir EXCEPT ![p] = NoHeir]
  /\ Does(p, "over")
  /\ UNCHANGED <<tableVars, changed, browserVars>>

\* The operator's limit.
SetLimit(limit) ==
  /\ SetMaxParticipants(limit)
  /\ UNCHANGED <<departures, doing, changed, copy, heir, browserVars>>

Idle == (\A p \in Ids : doing[p] \in {"left", "new"}) /\ UNCHANGED handsVars

HandsNext ==
  \/ \E p \in Ids :
       \/ Enter(p) \/ ShowRoster(p) \/ Announce(p) \/ Raise(p) \/ Lower(p) \/ TellHand(p)
       \/ Depart(p) \/ TellLeft(p) \/ LoseConnection(p) \/ TellAway(p) \/ Expire(p) \/ Resume(p)
       \/ TakeOver(p) \/ Succeed(p)
       \/ \E m \in Ids : RemoveTile(m, p)
  \/ \E limit \in Limits : SetLimit(limit)
  \/ Idle

HandsSpec == HandsInit /\ [][HandsNext]_handsVars

----------------------------------------------------------------------------
(* Properties.                                                             *)

\* Type invariant; records are owed only by a handler that is still telling.
HandsTypeOK ==
  /\ TypeOK
  /\ departures \in DepartureChoices
  /\ doing \in [Ids -> {"new", "joined", "announce", "in", "telling", "tellLeft",
                       "left", "tellAway", "away", "over"}]
  /\ \A p \in Ids : (doing[p] = "telling") <=> changed[p] # <<>>
  /\ copy \in [Ids -> Nat]
  /\ heir \in [Ids -> Nat \union {NoHeir}]
  /\ \A m \in Ids : fading[m] \subseteq ToSet(tiles[m])
  /\ number \in [Ids -> [Ids -> Nat]]

HandsQuiet == \A p \in Ids : doing[p] \in {"new", "in", "left", "away"} /\ heir[p] = NoHeir

\* Once the broadcasts are through, no raised hand is hidden: whoever has a
\* hand up in the meeting has it up in everybody else's browser, whatever the
\* order in which the broadcasts of several handlers arrived.  (A lost connection
\* may hide one: its hand stays up in the table while its tile is gone.)
NoHiddenHand ==
  HandsQuiet /\ "drop" \notin departures => \A m, p \in Room : m # p /\ raised[p] => number[m][p] > 0

\* A connection knows whether its participant's hand is up, so that a resumed
\* session shows it.  (A takeover may copy an older record.)
CopyKnowsHand ==
  "takeover" \notin departures
    => \A p \in Ids : doing[p] \in {"in", "away"} => (copy[p] > 0 <=> raised[p])

\* Once the broadcasts are through, no lowered hand is shown as raised.  One may be:
\* an older record may be broadcast after a newer one (hub.go:858).
NoPhantomHand ==
  HandsQuiet => \A m, p \in Room : number[m][p] > 0 => raised[p]
=============================================================================
