------------------------------ MODULE Sessions ------------------------------
(***************************************************************************)
(* Connections, reconnect tokens and meeting slots in the signaling hub    *)
(* (internal/signaling/hub.go and admission.go).                           *)
(*                                                                         *)
(* Every WebSocket connection is served by one goroutine that reads, joins *)
(* or resumes a participant, is admitted to the room, and runs a cleanup   *)
(* when its loop returns.  Hub.mu is taken and released several times on   *)
(* the way, so each critical section, and each call made between two of    *)
(* them, is an action of its own; pc[c] says which one comes next.  Beside *)
(* the connections run the grace timers and Hub.Close.                     *)
(*                                                                         *)
(* A fresh join creates a participant identifier and a reconnect token     *)
(* together and neither is ever given out again, so one value of Ids       *)
(* stands for both.                                                        *)
(*                                                                         *)
(* The messages of the room are reduced to what they tell a member about   *)
(* who is present: view[c] is the set of participants connection c has     *)
(* been sent a join for and no later leave.  Every connection has one FIFO *)
(* outbound queue, so the order of enqueueing is the order the browser     *)
(* sees.                                                                   *)
(***************************************************************************)
EXTENDS Integers, FiniteSets

CONSTANTS Conns,            \* connections a behaviour may open
          Ids,              \* participants (and tokens) it may create
          None,             \* "no connection" or "no participant"
          MaxParticipants,  \* Meeting.max
          GraceChoices,     \* whether ReconnectTimeout may be positive, zero
          AdmissionFaults,  \* may peer setup fail or the join deadline pass?
          Shutdowns         \* may the process be told to stop?

ASSUME SessionAssumptions ==
  /\ None \notin Conns /\ None \notin Ids
  /\ MaxParticipants \in Nat
  /\ GraceChoices \subseteq BOOLEAN
  /\ AdmissionFaults \in BOOLEAN /\ Shutdowns \in BOOLEAN

VARIABLES
  pc,            \* next step of each connection's goroutine
  who,           \* client.participant.ID and client.reconnectToken
  prev,          \* the client whose "finished" channel reclaim waits on
  turn,          \* how many connections have carried the participant so far
  resumed,       \* client.resumed
  takeover,      \* activeTakeover, a local of the join path
  joined,        \* client.joined and client.announced, set together
  intentional,   \* client.intentionalLeave
  expired,       \* client.admissionExpired
  severed,       \* connections whose socket the server has closed
  room,          \* Hub.roomMembers
  active,        \* Hub.activeTokens
  pending,       \* Hub.pending: the client whose entry a token has
  timer,         \* the entry's grace timer
  participants,  \* keys of Meeting.participants
  created,       \* identifiers uuid.NewString has returned
  issued,        \* tokens that were sent to their browser
  peers,         \* Router.peers: whose peer is registered for a participant
  view,          \* who each room member has been told is present
  audience,      \* the snapshot of members disconnect takes
  closed,        \* Hub.closed
  evicting       \* entries Hub.Close removed whose slots it has yet to free

connVars == <<pc, who, prev, turn, resumed, takeover, joined, intentional, expired>>
hubVars == <<severed, room, active, pending, timer, closed, evicting>>
slotVars == <<participants, created, issued, peers>>
viewVars == <<view, audience>>
vars == <<connVars, hubVars, slotVars, viewVars>>

\* Steps of a connection's goroutine, in program order.
JoinSteps == {"open", "named", "waiting", "setup", "admit"}
RoomSteps == {"announce", "room"}
CleanupSteps == {"cleanup", "drop", "retire", "teardown", "grace", "remove",
                 "tellGone", "tellLeft", "arm"}
Steps == {"none", "done"} \union JoinSteps \union RoomSteps \union CleanupSteps

\* Hub.clients: registered by ServeHTTP and not yet cleaned up.
Clients == {c \in Conns : pc[c] \in JoinSteps \union RoomSteps \union {"cleanup"}}

Init ==
  /\ pc = [c \in Conns |-> "none"]
  /\ who = [c \in Conns |-> None]
  /\ prev = [c \in Conns |-> None]
  /\ turn = [c \in Conns |-> 0]
  /\ resumed = [c \in Conns |-> FALSE]
  /\ takeover = [c \in Conns |-> FALSE]
  /\ joined = [c \in Conns |-> FALSE]
  /\ intentional = [c \in Conns |-> FALSE]
  /\ expired = [c \in Conns |-> FALSE]
  /\ severed = {}
  /\ room = {}
  /\ active = [p \in Ids |-> None]
  /\ pending = [p \in Ids |-> None]
  /\ timer = [c \in Conns |-> "off"]
  /\ participants = {}
  /\ created = {}
  /\ issued = {}
  /\ peers = [p \in Ids |-> None]
  /\ view = [c \in Conns |-> {}]
  /\ audience = [c \in Conns |-> {}]
  /\ closed = FALSE
  /\ evicting = {}

Goto(c, step) == pc' = [pc EXCEPT ![c] = step]

----------------------------------------------------------------------------
(* The read loop and the join path of ServeHTTP.                           *)

\* The upgraded socket is registered unless the hub has been closed.
Connect(c) ==
  /\ pc[c] = "none"
  /\ ~closed
  /\ Goto(c, "open")
  /\ UNCHANGED <<who, prev, turn, resumed, takeover, joined, intentional, expired,
                 hubVars, slotVars, viewVars>>

\* readMessage fails, or the loop gives up on a socket that exceeded its join
\* or password attempts.
LoopExit(c) ==
  /\ pc[c] \in {"open", "room"}
  /\ Goto(c, "cleanup")
  /\ UNCHANGED <<who, prev, turn, resumed, takeover, joined, intentional, expired,
                 hubVars, slotVars, viewVars>>

\* A leave message with the connection's own participant_id.
LeaveMessage(c) ==
  /\ pc[c] = "room"
  /\ c \notin severed
  /\ intentional' = [intentional EXCEPT ![c] = TRUE]
  /\ Goto(c, "cleanup")
  /\ UNCHANGED <<who, prev, turn, resumed, takeover, joined, expired,
                 hubVars, slotVars, viewVars>>

\* A join whose token (if any) names no session: Meeting.Join takes a slot.
\* A full meeting answers with an error and changes nothing.
JoinFresh(c, p) ==
  /\ pc[c] = "open"
  /\ c \notin severed
  /\ p \notin created
  /\ Cardinality(participants) < MaxParticipants
  /\ participants' = participants \union {p}
  /\ created' = created \union {p}
  /\ who' = [who EXCEPT ![c] = p]
  /\ turn' = [turn EXCEPT ![c] = 1]
  /\ Goto(c, "named")
  /\ UNCHANGED <<prev, resumed, takeover, joined, intentional, expired,
                 hubVars, issued, peers, viewVars>>

\* The critical section after Meeting.Join: the new token becomes active.
BindToken(c) ==
  /\ pc[c] = "named"
  /\ active' = [active EXCEPT ![who[c]] = c]
  /\ Goto(c, "setup")
  /\ UNCHANGED <<who, prev, turn, resumed, takeover, joined, intentional, expired,
                 severed, room, pending, timer, closed, evicting, slotVars, viewVars>>

\* reclaim: a join that presents token p continues the session of the
\* connection q, either q's pending entry or, failing that, the still active q.
TakeSession(c, p, q) ==
  /\ pc[c] = "open"
  /\ c \notin severed
  /\ p \in issued
  /\ who' = [who EXCEPT ![c] = p]
  /\ prev' = [prev EXCEPT ![c] = q]
  /\ turn' = [turn EXCEPT ![c] = turn[q] + 1]
  /\ resumed' = [resumed EXCEPT ![c] = TRUE]
  /\ active' = [active EXCEPT ![p] = c]
  /\ Goto(c, "waiting")

\* timer.Stop: a callback that already runs is not recalled.
StopTimer(q) == timer' = [timer EXCEPT ![q] = IF @ = "armed" THEN "stopped" ELSE @]

ReclaimPending(c, p) ==
  /\ pending[p] # None
  /\ TakeSession(c, p, pending[p])
  /\ pending' = [pending EXCEPT ![p] = None]
  /\ StopTimer(pending[p])
  /\ UNCHANGED <<takeover, joined, intentional, expired, severed, room, closed,
                 evicting, slotVars, viewVars>>

ReclaimActive(c, p) ==
  /\ pending[p] = None
  /\ active[p] # None
  /\ TakeSession(c, p, active[p])
  /\ takeover' = [takeover EXCEPT ![c] = TRUE]
  /\ UNCHANGED <<joined, intentional, expired, severed, room, pending, timer, closed,
                 evicting, slotVars, viewVars>>

\* previous.conn.Close() after the lock is released.
ClosePrevious(c) ==
  /\ pc[c] = "waiting"
  /\ prev[c] \notin severed
  /\ severed' = severed \union {prev[c]}
  /\ UNCHANGED <<connVars, room, active, pending, timer, closed, evicting,
                 slotVars, viewVars>>

\* Mutant of AwaitPrevious: closing the socket is taken for the end of the
\* previous connection's cleanup.
AwaitPreviousSocket(c) ==
  /\ pc[c] = "waiting"
  /\ prev[c] \in severed
  /\ Goto(c, "setup")
  /\ UNCHANGED <<who, prev, turn, resumed, takeover, joined, intentional, expired,
                 hubVars, slotVars, viewVars>>

\* Mutant of AwaitPrevious: a join does not wait for a cleanup that takes its
\* time and goes back to reading messages.
AwaitPreviousBriefly(c) ==
  /\ pc[c] = "waiting"
  /\ prev[c] \in severed
  /\ Goto(c, IF pc[prev[c]] = "done" THEN "setup" ELSE "open")
  /\ UNCHANGED <<who, prev, turn, resumed, takeover, joined, intentional, expired,
                 hubVars, slotVars, viewVars>>

\* <-previous.finished
AwaitPrevious(c) ==
  /\ pc[c] = "waiting"
  /\ prev[c] \in severed
  /\ pc[prev[c]] = "done"
  /\ Goto(c, "setup")
  /\ UNCHANGED <<who, prev, turn, resumed, takeover, joined, intentional, expired,
                 hubVars, slotVars, viewVars>>

\* The peer connection is created and registered with the router.
RegisterPeer(c) ==
  /\ pc[c] = "setup"
  /\ peers' = [peers EXCEPT ![who[c]] = c]
  /\ Goto(c, "admit")
  /\ UNCHANGED <<who, prev, turn, resumed, takeover, joined, intentional, expired,
                 hubVars, participants, created, issued, viewVars>>

\* "unable to initialize WebRTC"
PeerSetupFails(c) ==
  /\ AdmissionFaults
  /\ pc[c] = "setup"
  /\ Goto(c, "cleanup")
  /\ UNCHANGED <<who, prev, turn, resumed, takeover, joined, intentional, expired,
                 hubVars, slotVars, viewVars>>

\* expireAdmission: the fixed join deadline of a connection not yet admitted.
ExpireAdmission(c) ==
  /\ AdmissionFaults
  /\ pc[c] \in JoinSteps
  /\ ~expired[c]
  /\ expired' = [expired EXCEPT ![c] = TRUE]
  /\ severed' = severed \union {c}
  /\ UNCHANGED <<pc, who, prev, turn, resumed, takeover, joined, intentional,
                 room, active, pending, timer, closed, evicting, slotVars, viewVars>>

\* Participants whose grace window is open, which the roster replay leaves out.
InGrace == {p \in Ids : pending[p] # None}

\* admit: one critical section enqueues the response, with the token in it,
\* and the roster of the meeting.
Admit(c) ==
  /\ pc[c] = "admit"
  /\ ~closed /\ ~expired[c]
  /\ room' = room \union {c}
  /\ issued' = issued \union {who[c]}
  /\ view' = [view EXCEPT ![c] = (participants \ {who[c]}) \ InGrace]
  /\ Goto(c, "announce")
  /\ UNCHANGED <<who, prev, turn, resumed, takeover, joined, intentional, expired,
                 severed, active, pending, timer, closed, evicting,
                 participants, created, peers, audience>>

AdmitFails(c) ==
  /\ pc[c] = "admit"
  /\ closed \/ expired[c]
  /\ Goto(c, "cleanup")
  /\ UNCHANGED <<who, prev, turn, resumed, takeover, joined, intentional, expired,
                 hubVars, slotVars, viewVars>>

\* Members other than c are told that p is present, or gone.
TellJoined(members, p) ==
  view' = [d \in Conns |-> IF d \in members THEN view[d] \union {p} ELSE view[d]]
TellGoneTo(members, p) ==
  view' = [d \in Conns |-> IF d \in members THEN view[d] \ {p} ELSE view[d]]

\* Mutant of Announce: no resumed session is announced.
AnnounceUnlessResumed(c) ==
  /\ pc[c] = "announce"
  /\ IF resumed[c] THEN UNCHANGED view ELSE TellJoined(room \ {c}, who[c])
  /\ joined' = [joined EXCEPT ![c] = TRUE]
  /\ Goto(c, "room")
  /\ UNCHANGED <<who, prev, turn, resumed, takeover, intentional, expired,
                 hubVars, slotVars, audience>>

\* broadcastExcept(joined) unless the session was taken over while active,
\* then joined and announced are set and the loop goes on reading.
Announce(c) ==
  /\ pc[c] = "announce"
  /\ IF takeover[c] THEN UNCHANGED view ELSE TellJoined(room \ {c}, who[c])
  /\ joined' = [joined EXCEPT ![c] = TRUE]
  /\ Goto(c, "room")
  /\ UNCHANGED <<who, prev, turn, resumed, takeover, intentional, expired,
                 hubVars, slotVars, audience>>

----------------------------------------------------------------------------
(* The deferred cleanup of ServeHTTP and disconnect.                       *)

\* The client leaves clients and roomMembers; a connection without a
\* participant has nothing to disconnect.
Cleanup(c) ==
  /\ pc[c] = "cleanup"
  /\ room' = room \ {c}
  /\ view' = [view EXCEPT ![c] = {}]
  /\ Goto(c, IF who[c] = None THEN "done" ELSE "drop")
  /\ UNCHANGED <<who, prev, turn, resumed, takeover, joined, intentional, expired,
                 severed, active, pending, timer, closed, evicting, slotVars, audience>>

\* First critical section of disconnect: was the session superseded, is the
\* departure eligible for the grace window, and who is to hear about it.
Drop(c) ==
  LET p == who[c]
      superseded == active[p] # c
  IN
  /\ pc[c] = "drop"
  /\ active' = IF superseded THEN active ELSE [active EXCEPT ![p] = None]
  /\ audience' = [audience EXCEPT ![c] = {d \in room : who[d] # p}]
  /\ \/ /\ superseded
        /\ Goto(c, "retire")
     \/ /\ ~superseded
        /\ \E grace \in GraceChoices :
             Goto(c, IF grace /\ ~intentional[c] /\ ~closed /\ (joined[c] \/ resumed[c])
                     THEN "grace" ELSE "teardown")
  /\ UNCHANGED <<who, prev, turn, resumed, takeover, joined, intentional, expired,
                 severed, room, pending, timer, closed, evicting, slotVars, view>>

\* Router.Unregister removes whichever peer is registered for the participant.
Unregister(p) == peers' = [peers EXCEPT ![p] = None]

\* teardownClientMedia of a superseded session, whose slot lives on.
Retire(c) ==
  /\ pc[c] = "retire"
  /\ Unregister(who[c])
  /\ Goto(c, "done")
  /\ audience' = [audience EXCEPT ![c] = {}]
  /\ UNCHANGED <<who, prev, turn, resumed, takeover, joined, intentional, expired,
                 hubVars, participants, created, issued, view>>

\* teardownClientMedia of a departure without a grace window.
Teardown(c) ==
  /\ pc[c] = "teardown"
  /\ Unregister(who[c])
  /\ Goto(c, "remove")
  /\ UNCHANGED <<who, prev, turn, resumed, takeover, joined, intentional, expired,
                 hubVars, participants, created, issued, viewVars>>

\* Second critical section of disconnect for a graceful departure: the token
\* gets a pending entry, unless the hub was closed in the meantime.
OpenGrace(c) ==
  /\ pc[c] = "grace"
  /\ IF closed
     THEN Goto(c, "remove") /\ UNCHANGED pending
     ELSE Goto(c, "tellLeft") /\ pending' = [pending EXCEPT ![who[c]] = c]
  /\ UNCHANGED <<who, prev, turn, resumed, takeover, joined, intentional, expired,
                 severed, room, active, timer, closed, evicting, slotVars, viewVars>>

\* The left event goes to the members of the first section's snapshot.
TellLeft(c) ==
  /\ pc[c] = "tellLeft"
  /\ TellGoneTo(audience[c] \intersect room, who[c])
  /\ audience' = [audience EXCEPT ![c] = {}]
  /\ Goto(c, "arm")
  /\ UNCHANGED <<who, prev, turn, resumed, takeover, joined, intentional, expired,
                 hubVars, slotVars>>

\* Mutant of ArmTimer: a session that was resumed once gets no second window.
ArmTimerOnce(c) ==
  /\ pc[c] = "arm"
  /\ timer' = IF pending[who[c]] = c /\ ~resumed[c]
              THEN [timer EXCEPT ![c] = "armed"] ELSE timer
  /\ Goto(c, "done")
  /\ UNCHANGED <<who, prev, turn, resumed, takeover, joined, intentional, expired,
                 severed, room, active, pending, closed, evicting, slotVars, viewVars>>

\* Third critical section: the timer is armed if the entry is still there.
ArmTimer(c) ==
  /\ pc[c] = "arm"
  /\ timer' = IF pending[who[c]] = c THEN [timer EXCEPT ![c] = "armed"] ELSE timer
  /\ Goto(c, "done")
  /\ UNCHANGED <<who, prev, turn, resumed, takeover, joined, intentional, expired,
                 severed, room, active, pending, closed, evicting, slotVars, viewVars>>

\* removeClientParticipant: only an announced departure that still held a slot
\* is broadcast.
Remove(c) ==
  /\ pc[c] = "remove"
  /\ participants' = participants \ {who[c]}
  /\ Goto(c, IF joined[c] /\ who[c] \in participants THEN "tellGone" ELSE "done")
  /\ audience' = [audience EXCEPT ![c] = {}]
  /\ UNCHANGED <<who, prev, turn, resumed, takeover, joined, intentional, expired,
                 hubVars, created, issued, peers, view>>

TellGone(c) ==
  /\ pc[c] = "tellGone"
  /\ TellGoneTo(room, who[c])
  /\ Goto(c, "done")
  /\ UNCHANGED <<who, prev, turn, resumed, takeover, joined, intentional, expired,
                 hubVars, slotVars, audience>>

----------------------------------------------------------------------------
(* The grace timer of the entry that connection c left behind.             *)

TimerFires(c) ==
  /\ timer[c] = "armed"
  /\ timer' = [timer EXCEPT ![c] = "fired"]
  /\ UNCHANGED <<connVars, severed, room, active, pending, closed, evicting,
                 slotVars, viewVars>>

\* Mutant of ExpireEntry: the entry is not compared with the callback's own.
ExpireAnyEntry(c) ==
  /\ timer[c] = "fired"
  /\ pending' = [pending EXCEPT ![who[c]] = None]
  /\ timer' = [timer EXCEPT ![c] = "lapsed"]
  /\ UNCHANGED <<connVars, severed, room, active, closed, evicting, slotVars, viewVars>>

\* The callback removes the entry if it is still its own.
ExpireEntry(c) ==
  /\ timer[c] = "fired"
  /\ IF pending[who[c]] = c
     THEN /\ pending' = [pending EXCEPT ![who[c]] = None]
          /\ timer' = [timer EXCEPT ![c] = "lapsed"]
     ELSE /\ timer' = [timer EXCEPT ![c] = "stopped"]
          /\ UNCHANGED pending
  /\ UNCHANGED <<connVars, severed, room, active, closed, evicting, slotVars, viewVars>>

\* teardownClientMedia, then Meeting.Leave.
ExpireMedia(c) ==
  /\ timer[c] = "lapsed"
  /\ Unregister(who[c])
  /\ timer' = [timer EXCEPT ![c] = "leaving"]
  /\ UNCHANGED <<connVars, severed, room, active, pending, closed, evicting,
                 participants, created, issued, viewVars>>

ExpireSlot(c) ==
  /\ timer[c] = "leaving"
  /\ participants' = participants \ {who[c]}
  /\ timer' = [timer EXCEPT ![c] = "stopped"]
  /\ UNCHANGED <<connVars, severed, room, active, pending, closed, evicting,
                 created, issued, peers, viewVars>>

----------------------------------------------------------------------------
(* Hub.Close.                                                              *)

\* Its critical section takes every pending entry.  The code stops the timers
\* after the unlock; a callback that runs in between finds its entry gone, as
\* a stopped one would, so both are one step here.
CloseHub ==
  /\ Shutdowns
  /\ ~closed
  /\ closed' = TRUE
  /\ evicting' = InGrace
  /\ pending' = [p \in Ids |-> None]
  /\ timer' = [c \in Conns |-> IF c \in {pending[p] : p \in InGrace} /\ timer[c] = "armed"
                               THEN "stopped" ELSE timer[c]]
  /\ UNCHANGED <<connVars, severed, room, active, slotVars, viewVars>>

\* Meeting.Leave for each of them.
CloseFreesSlot(p) ==
  /\ p \in evicting
  /\ evicting' = evicting \ {p}
  /\ participants' = participants \ {p}
  /\ UNCHANGED <<connVars, severed, room, active, pending, timer, closed,
                 created, issued, peers, viewVars>>

\* conn.Close for every registered client.
CloseSockets ==
  /\ closed
  /\ evicting = {}
  /\ ~(Clients \subseteq severed)
  /\ severed' = severed \union Clients
  /\ UNCHANGED <<connVars, room, active, pending, timer, closed, evicting,
                 slotVars, viewVars>>

\* Every connection has been used up, or the closed hub refuses the rest: the
\* bound of the model, not a deadlock.
Idle == (\A c \in Conns : pc[c] = "done" \/ (closed /\ pc[c] = "none")) /\ UNCHANGED vars

JoinPath(c) ==
  \/ Connect(c) \/ LoopExit(c) \/ LeaveMessage(c)
  \/ \E p \in Ids : JoinFresh(c, p) \/ ReclaimPending(c, p) \/ ReclaimActive(c, p)
  \/ BindToken(c) \/ ClosePrevious(c) \/ AwaitPrevious(c)
  \/ RegisterPeer(c) \/ PeerSetupFails(c) \/ ExpireAdmission(c)
  \/ Admit(c) \/ AdmitFails(c) \/ Announce(c)

CleanupPath(c) ==
  \/ Cleanup(c) \/ Drop(c) \/ Retire(c) \/ Teardown(c) \/ OpenGrace(c)
  \/ TellLeft(c) \/ ArmTimer(c) \/ Remove(c) \/ TellGone(c)

TimerPath(c) == TimerFires(c) \/ ExpireEntry(c) \/ ExpireMedia(c) \/ ExpireSlot(c)

ClosePath == CloseHub \/ (\E p \in Ids : CloseFreesSlot(p)) \/ CloseSockets

Next == (\E c \in Conns : JoinPath(c) \/ CleanupPath(c) \/ TimerPath(c)) \/ ClosePath \/ Idle

Spec == Init /\ [][Next]_vars

----------------------------------------------------------------------------
(* Properties.                                                             *)

\* Type invariant; a connection has a participant from its join on, and one that
\* waits has someone to wait for.
TypeOK ==
  /\ pc \in [Conns -> Steps]
  /\ who \in [Conns -> Ids \union {None}]
  /\ prev \in [Conns -> Conns \union {None}]
  /\ \A c \in Conns : who[c] = None => pc[c] \in {"none", "open", "cleanup", "done"}
  /\ \A c \in Conns : pc[c] = "waiting" => prev[c] # None
  /\ turn \in [Conns -> Nat]
  /\ resumed \in [Conns -> BOOLEAN]
  /\ takeover \in [Conns -> BOOLEAN]
  /\ joined \in [Conns -> BOOLEAN]
  /\ intentional \in [Conns -> BOOLEAN]
  /\ expired \in [Conns -> BOOLEAN]
  /\ severed \subseteq Conns
  /\ room \subseteq Conns
  /\ active \in [Ids -> Conns \union {None}]
  /\ pending \in [Ids -> Conns \union {None}]
  /\ timer \in [Conns -> {"off", "armed", "fired", "lapsed", "leaving", "stopped"}]
  /\ participants \subseteq Ids
  /\ created \subseteq Ids
  /\ issued \subseteq Ids
  /\ peers \in [Ids -> Conns \union {None}]
  /\ view \in [Conns -> SUBSET Ids]
  /\ audience \in [Conns -> SUBSET Conns]
  /\ closed \in BOOLEAN
  /\ evicting \subseteq Ids

\* Connections past the point where they may act for their participant.
Acting(c) == pc[c] \in ({"named", "setup", "admit"} \union RoomSteps \union CleanupSteps)
             /\ who[c] # None

\* At any moment at most one connection acts for a participant: a resumed
\* connection proceeds only after the cleanup of the one it replaced is over,
\* however many connections present the same token in a row.
OneActingSession ==
  \A c, d \in Conns : Acting(c) /\ Acting(d) /\ who[c] = who[d] => c = d

\* No slot leaks: a participant of the meeting has a connection that has not
\* finished, or an entry in the grace table whose timer runs or will be armed,
\* or a timer callback or shutdown that is about to free the slot.
SlotHasOwner ==
  \A p \in participants :
    \/ \E c \in Conns : who[c] = p /\ pc[c] # "done"
    \/ /\ pending[p] # None
       /\ timer[pending[p]] \in {"armed", "fired"}
    \/ \E c \in Conns : who[c] = p /\ timer[c] \in {"lapsed", "leaving"}
    \/ p \in evicting

\* No slot is freed under a live session: a stale timer, a superseded
\* connection's cleanup or a shutdown never removes a participant whose
\* connection is joining or in the room.
LiveSessionKeepsSlot ==
  \A c \in Conns :
    pc[c] \in {"named", "waiting", "setup", "admit"} \union RoomSteps
      => who[c] \in participants

\* The media router knows the live connection's peer: the deferred teardown of
\* an older connection of the same participant never unregisters it.
LiveSessionIsRegistered ==
  \A c \in Conns : pc[c] \in {"admit"} \union RoomSteps => peers[who[c]] = c

\* No admission has failed or passed its deadline so far.
NoFailedAdmission ==
  \A c \in Conns :
    /\ ~expired[c]
    /\ who[c] # None /\ pc[c] \in CleanupSteps \union {"done"} => joined[c]

\* Everyone who is in the room is visible to everyone else in the room, whatever
\* order departures, resumptions and takeovers take.  (A takeover that is not
\* announced leaves a hole if the session it took over was never announced
\* because its admission failed.)
EveryoneIsVisible ==
  NoFailedAdmission =>
    \A c, d \in Conns :
      pc[c] = "room" /\ pc[d] = "room" /\ c # d => who[d] \in view[c]

\* Nobody in the room is shown a participant who has no connection left that
\* could still announce a departure.  Somebody may be: who is admitted after the
\* snapshot of disconnect hears of nothing (hub.go:390).
NoGhosts ==
  \A c \in room : \A p \in view[c] :
    \E d \in Conns : who[d] = p /\ pc[d] # "done"

\* A participant that keeps its slot can be resumed with its token, unless it
\* left on purpose, its window has lapsed or the process is stopping.  It cannot in
\* the middle of disconnect, which moves the token in two steps (hub.go:380).
HeldSlotIsReclaimable ==
  \A c \in Conns :
    /\ who[c] \in issued \intersect participants
    /\ pc[c] \in {"drop", "teardown", "grace", "tellLeft", "arm"}
    /\ ~intentional[c]
    /\ ~closed
    => active[who[c]] # None \/ pending[who[c]] # None

\* The connection that occupies the slot of p: past its join, not yet cleaning up.
Occupies(c, p) == who[c] = p /\ pc[c] \in {"named", "setup", "admit"} \union RoomSteps
Tenant == [p \in Ids |-> IF \E c \in Conns : Occupies(c, p)
                         THEN CHOOSE c \in Conns : Occupies(c, p)
                         ELSE None]

\* The hub keeps the promise of module Tenancy: joins, resumptions, cleanups,
\* grace timers and shutdown are its four actions or invisible to it.
Contract == INSTANCE Tenancy WITH slots <- participants,
                                  former <- created \ participants,
                                  tenant <- Tenant
ImplementsTenancy == Contract!Spec

\* The server's own steps are not put off for ever: goroutines run, armed
\* timers fire, a severed socket makes the next read fail.
Fairness ==
  /\ \A c \in Conns :
       /\ WF_vars(LoopExit(c) /\ c \in severed)
       /\ WF_vars(BindToken(c)) /\ WF_vars(ClosePrevious(c)) /\ WF_vars(AwaitPrevious(c))
       /\ WF_vars(RegisterPeer(c) \/ PeerSetupFails(c))
       /\ WF_vars(Admit(c) \/ AdmitFails(c)) /\ WF_vars(Announce(c))
       /\ WF_vars(CleanupPath(c))
       /\ WF_vars(TimerPath(c))
  /\ WF_vars(CloseSockets)
  /\ \A p \in Ids : WF_vars(CloseFreesSlot(p))

FairSpec == Spec /\ Fairness

\* A join that resumes a session is not left hanging: the chain of superseded
\* connections unwinds and every one of them is admitted or cleaned up.
ResumeCompletes ==
  \A c \in Conns : pc[c] = "waiting" ~> pc[c] \in {"room", "done"}

\* A disconnected participant is removed after the grace window or comes back.
GraceEnds ==
  \A p \in Ids : pending[p] # None ~> (p \notin participants \/ active[p] # None)

\* Closing the hub empties the meeting.
CloseEmptiesMeeting == closed ~> [](participants = {})

\* What the hub keeps about its connections is consistent: every slot has an owner
\* that will free it or resume it, and a live session has its slot and its peer
\* in the router.
SessionsInv == TypeOK /\ SlotHasOwner /\ LiveSessionKeepsSlot /\ LiveSessionIsRegistered

\* No slot is kept for ever: the grace windows end, and so does the meeting when
\* the process stops.
SlotsAreFreed == GraceEnds /\ CloseEmptiesMeeting
=============================================================================
