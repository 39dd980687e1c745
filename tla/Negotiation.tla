---------------------------- MODULE Negotiation ----------------------------
(***************************************************************************)
(* Offer and answer between a browser and the hub over one signaling       *)
(* connection: web/js/renegotiation-queue.js and the negotiation part of   *)
(* web/js/app.js on one side, handleWebRTCMessage and sendOffer of         *)
(* internal/signaling/hub.go on the other.                                 *)
(*                                                                         *)
(* Both sides offer.  The hub is impolite: it ignores an offer that        *)
(* collides with its own.  The browser is polite: it rolls its offer back, *)
(* answers, and offers again.  In the browser everything that touches the  *)
(* peer connection is an operation of one promise chain, and an operation  *)
(* awaits in between; requests, messages and the watchdog's timer come     *)
(* meanwhile.  In the hub the read loop and the router's calls of sendOffer*)
(* meet on negotiationMu.                                                  *)
(*                                                                         *)
(* Descriptions are reduced to what they cover: an offer of the browser to *)
(* its number and the media changes it includes, one of the hub to the     *)
(* number of track changes it includes, and both to the generation of the  *)
(* hub's ICE credentials, which only a restart renews.                     *)
(***************************************************************************)
EXTENDS Integers, Sequences, FiniteSets

CONSTANTS Reqs,         \* calls of renegotiateLocalMedia
          MaxChanges,   \* track changes of the router
          MaxRestarts,  \* ICE restarts the browser asks for
          MaxCands,     \* candidates each side gathers
          MaxFaults,    \* descriptions one side fails to make or rejects
          MaxEvents,    \* restarts and candidates together, less the failures before them
          Drops         \* may the connection be lost?

ASSUME NegotiationAssumptions ==
  /\ {MaxChanges, MaxRestarts, MaxCands, MaxFaults, MaxEvents} \subseteq Nat
  /\ Drops \in BOOLEAN

VARIABLES
  \* renegotiation-queue.js
  req,        \* what became of each request's promise
  batch,      \* inFlight
  pumping, closed, watchdog,
  \* app.js
  up,         \* isCurrentWebRTC: this socket is open and not replaced
  chain,      \* operations queued by enqueuePeerNegotiation
  at,         \* how far the first of them has come
  sig,        \* peer.signalingState
  offered,    \* the outstanding local offer: its number and changes
  number,     \* offers the browser has created
  remoteSet,  \* remoteDescriptionSet
  held,       \* pendingCandidates
  bgen, brgen,\* ICE generations of its local and remote description
  bknows,     \* track changes of the hub it has been offered
  \* hub.go
  ready, inFlight, pendingOffer, pendingRestart,  \* negotiationReady, offerInFlight, ...
  sremote,    \* client.remoteDescription
  squeue,     \* client.pendingCandidates
  slocal,     \* client.pendingLocalCandidates
  sstep,      \* where the read loop is
  answer,     \* the answer it is about to write
  sgen, srgen,\* ICE generations of its local and remote description
  has,        \* changes of the browser it has applied
  changes, calls,  \* the router's track changes; sendOffer calls to come
  \* the connection
  toHub, toBrowser,
  restarts, bcands, scands, faults, early

queueVars == <<req, batch, pumping, closed, watchdog>>
peerVars == <<sig, offered, number, remoteSet, held, bgen, brgen, bknows>>
chainVars == <<chain, at>>
hubNeg == <<ready, inFlight, pendingOffer, pendingRestart>>
hubIce == <<sremote, squeue, slocal, sgen, srgen>>
hubVars == <<hubNeg, hubIce, sstep, answer, has, changes, calls>>
wires == <<toHub, toBrowser>>
bounds == <<restarts, bcands, scands, faults, early>>
vars == <<queueVars, up, chainVars, peerVars, hubVars, wires, bounds>>

NoOffer == [n |-> 0, incl |-> {}]

Init ==
  /\ req = [r \in Reqs |-> "new"]
  /\ batch = {} /\ pumping = FALSE /\ closed = FALSE /\ watchdog = FALSE
  /\ up = TRUE
  /\ chain = <<>> /\ at = "start"
  /\ sig = "stable" /\ offered = NoOffer /\ number = 0
  /\ remoteSet = FALSE /\ held = <<>>
  /\ bgen = -1 /\ brgen = -1 /\ bknows = 0
  /\ ready = FALSE /\ inFlight = FALSE /\ pendingOffer = FALSE /\ pendingRestart = FALSE
  /\ sremote = FALSE /\ squeue = <<>> /\ slocal = <<>> /\ sgen = 0 /\ srgen = -1
  /\ sstep = "read" /\ answer = NoOffer /\ has = {} /\ changes = 0 /\ calls = 0
  /\ toHub = <<>> /\ toBrowser = <<>>
  /\ restarts = 0 /\ bcands = 0 /\ scands = 0 /\ faults = 0 /\ early = FALSE

\* The bound on the restarts and the candidates, one less for a failure before them.
Bounded == restarts + bcands + scands + faults < MaxEvents

\* A peer connection fails to make a description or rejects one.
Fault == faults < MaxFaults /\ faults' = faults + 1

----------------------------------------------------------------------------
(* The queue.  A state of it is a record, so that its functions, which call*)
(* one another, compose.                                                   *)

Queue == [req |-> req, batch |-> batch, pumping |-> pumping, closed |-> closed,
          watchdog |-> watchdog, chain |-> chain]
Pending(q) == {r \in Reqs : q.req[r] = "pending"}

SetQueue(q) ==
  /\ req' = q.req /\ batch' = q.batch /\ pumping' = q.pumping
  /\ closed' = q.closed /\ watchdog' = q.watchdog

Settle(q, requests, outcome) ==
  [q EXCEPT !.req = [r \in Reqs |-> IF r \in requests THEN outcome ELSE q.req[r]]]

Close(q) ==
  IF q.closed THEN q
  ELSE [Settle(q, q.batch \union Pending(q), "failed")
          EXCEPT !.closed = TRUE, !.watchdog = FALSE, !.batch = {}]

\* stable is isStable() and current isCurrent(), as they are when pump is called.
Pump(q, current, stable) ==
  CASE q.closed \/ q.pumping \/ q.batch # {} \/ Pending(q) = {} -> q
    [] OTHER ->
       IF ~current THEN Close(q)
       ELSE IF ~stable THEN [q EXCEPT !.watchdog = TRUE]
       ELSE [Settle(q, Pending(q), "inFlight")
               EXCEPT !.batch = Pending(q), !.watchdog = TRUE, !.pumping = TRUE,
                      !.chain = Append(q.chain, [op |-> "sendOffer"])]

\* Mutant of Answered: an answer settles every request.
AnsweredAll(q, current) ==
  IF q.closed THEN q
  ELSE IF ~current THEN Close(q)
  ELSE [Settle(q, q.batch \union Pending(q), "ok") EXCEPT !.watchdog = FALSE, !.batch = {}]

Answered(q, current) ==
  IF q.closed THEN q
  ELSE IF ~current THEN Close(q)
  ELSE Pump([Settle(q, q.batch, "ok") EXCEPT !.watchdog = FALSE, !.batch = {}], TRUE, TRUE)

Rollback(q) ==
  IF q.closed \/ q.batch = {} THEN q
  ELSE [Settle(q, q.batch, "pending") EXCEPT !.batch = {}, !.watchdog = TRUE]

\* Mutant of Failed: what waits behind the batch is not looked at again.
FailedAlone(q, current, stable) ==
  IF q.closed \/ q.batch = {} THEN q
  ELSE [Settle(q, q.batch, "failed") EXCEPT !.watchdog = FALSE, !.batch = {}]

Failed(q, current, stable) ==
  IF q.closed \/ q.batch = {} THEN q
  ELSE Pump([Settle(q, q.batch, "failed") EXCEPT !.watchdog = FALSE, !.batch = {}],
            current, stable)

\* What follows sendOffer's promise: the outcome is looked at only if the batch
\* is still the one in flight, then pump runs again if anything waits.
Settled(q, mine, outcome, current, stable) ==
  LET live == q.batch = mine /\ mine # {}
      q1 == CASE ~live \/ outcome = "sent" -> q
              [] live /\ outcome = "unsent" ->
                   [Settle(q, mine, "pending") EXCEPT !.watchdog = FALSE, !.batch = {}]
              [] live /\ outcome = "failed" ->
                   [Settle(q, mine, "failed") EXCEPT !.watchdog = FALSE, !.batch = {}]
  IN Pump([q1 EXCEPT !.pumping = FALSE], current, stable)

----------------------------------------------------------------------------
(* The browser.                                                            *)

\* renegotiateLocalMedia after a change of the local media.
Request(r) ==
  /\ req[r] = "new"
  /\ IF closed THEN SetQueue([Queue EXCEPT !.req[r] = "failed"]) /\ UNCHANGED chain
     ELSE IF ~up THEN /\ SetQueue([Close(Queue) EXCEPT !.req[r] = "failed"])
                      /\ UNCHANGED chain
     ELSE LET q == Pump([Queue EXCEPT !.req[r] = "pending"], TRUE, sig = "stable")
          IN SetQueue(q) /\ chain' = q.chain
  /\ UNCHANGED <<up, at, peerVars, hubVars, wires, bounds>>

\* The watchdog's timer: the queue closes and onTimeout closes the socket.
WatchdogFires ==
  /\ watchdog
  /\ SetQueue(Close([Queue EXCEPT !.watchdog = FALSE]))
  /\ up' = FALSE
  /\ UNCHANGED <<chainVars, peerVars, hubVars, wires, bounds>>

\* The connection is lost or replaced.
Drop ==
  /\ Drops /\ up
  /\ up' = FALSE
  /\ UNCHANGED <<queueVars, chainVars, peerVars, hubVars, wires, bounds>>

\* resetMediaConnection closes the queue of a connection that is gone.
Reset ==
  /\ ~up /\ ~closed
  /\ SetQueue(Close(Queue))
  /\ UNCHANGED <<up, chainVars, peerVars, hubVars, wires, bounds>>

\* handleWebRTCMessage puts an operation on the chain; peer and socket are the
\* current ones.
Receive ==
  /\ up /\ toBrowser # <<>>
  /\ toBrowser' = Tail(toBrowser)
  /\ chain' = IF Head(toBrowser).op = "error" THEN chain ELSE Append(chain, Head(toBrowser))
  /\ UNCHANGED <<queueVars, up, at, peerVars, hubVars, toHub, bounds>>

\* The first operation of the chain.
Running(op, step) == chain # <<>> /\ Head(chain).op = op /\ at = step

\* An operation ends and leaves the queue in state q.
Finish(q) ==
  /\ SetQueue(q)
  /\ chain' = Tail(q.chain)
  /\ at' = "start"

\* An operation of a connection that is gone ends without effect on the peer.
\* sendOffer throws, which rejects its batch; so does an operation whose
\* description was being set when the connection was lost.
Stale ==
  /\ ~up /\ chain # <<>>
  /\ \/ Head(chain).op = "sendOffer" /\ Finish(Settled(Queue, batch, "failed", FALSE, TRUE))
     \/ Head(chain).op # "sendOffer" /\ at = "start" /\ Finish(Queue)
     \/ Head(chain).op = "offer" /\ Finish(Pump(Queue, FALSE, TRUE))
     \/ Head(chain).op = "answer" /\ at = "start" /\ Finish(Failed(Queue, FALSE, TRUE))
     \/ Head(chain).op = "answer" /\ at = "remote" /\ Finish(Answered(Queue, FALSE))
  /\ UNCHANGED <<up, peerVars, hubVars, wires, bounds>>

\* sendOffer: false if the connection is not stable, else createOffer.
CreateOffer ==
  /\ up /\ Running("sendOffer", "start")
  /\ IF sig # "stable"
     THEN /\ Finish(Settled(Queue, batch, "unsent", TRUE, FALSE))
          /\ UNCHANGED <<offered, number>>
     ELSE /\ number' = number + 1
          /\ offered' = [n |-> number + 1, incl |-> {r \in Reqs : req[r] # "new"}]
          /\ at' = "created"
          /\ UNCHANGED <<queueVars, chain>>
  /\ UNCHANGED <<up, sig, remoteSet, held, bgen, brgen, bknows, hubVars, wires, bounds>>

\* createOffer or setLocalDescription rejects: so does sendOffer.
FailOffer ==
  /\ up /\ Fault
  /\ Running("sendOffer", "created") \/ (Running("sendOffer", "start") /\ sig = "stable")
  /\ offered' = NoOffer
  /\ Finish(Settled(Queue, batch, "failed", TRUE, TRUE))
  /\ UNCHANGED <<up, sig, number, remoteSet, held, bgen, brgen, bknows, hubVars, wires,
                 restarts, bcands, scands, early>>

SetLocalOffer ==
  /\ up /\ Running("sendOffer", "created")
  /\ sig' = "have-local-offer"
  /\ bgen' = IF bgen < 0 THEN 0 ELSE bgen
  /\ at' = "local"
  /\ UNCHANGED <<queueVars, up, chain, offered, number, remoteSet, held, brgen, bknows,
                 hubVars, wires, bounds>>

TransmitOffer ==
  /\ up /\ Running("sendOffer", "local")
  /\ remoteSet' = FALSE
  /\ toHub' = Append(toHub, [op |-> "offer", n |-> offered.n, incl |-> offered.incl])
  /\ Finish(Settled(Queue, batch, "sent", TRUE, FALSE))
  /\ UNCHANGED <<up, sig, offered, number, held, bgen, brgen, bknows, hubVars,
                 toBrowser, bounds>>

\* Candidates that were held back are added; one that is ahead of the remote
\* description it is added to is lost.
TooEarly(cands, generation) == \E i \in DOMAIN cands : cands[i] > generation

\* An offer of the hub that collides with the browser's own: roll back.
RollBack ==
  /\ up /\ Running("offer", "start") /\ sig = "have-local-offer"
  /\ SetQueue(Rollback(Queue))
  /\ sig' = "stable" /\ offered' = NoOffer
  /\ at' = "rolledBack"
  /\ UNCHANGED <<up, chain, number, remoteSet, held, bgen, brgen, bknows, hubVars, wires, bounds>>

\* The offer can be set.
Offered == Running("offer", "rolledBack") \/ (Running("offer", "start") /\ sig # "have-local-offer")

\* Set it, add what was held back.
AcceptOffer ==
  /\ up /\ Offered
  /\ sig' = "have-remote-offer"
  /\ brgen' = Head(chain).gen /\ bknows' = Head(chain).knows
  /\ remoteSet' = TRUE
  /\ held' = <<>> /\ early' = (early \/ TooEarly(held, Head(chain).gen))
  /\ at' = "remote"
  /\ UNCHANGED <<queueVars, up, chain, offered, number, bgen, hubVars, wires,
                 restarts, bcands, scands, faults>>

\* The rollback, the offer or the answer to it is rejected: what came before stands,
\* and the queue is resumed.
RejectOffer ==
  /\ up /\ Fault
  /\ \E step \in {"start", "rolledBack", "remote"} : Running("offer", step)
  /\ Finish(Pump(Queue, TRUE, sig = "stable"))
  /\ UNCHANGED <<up, peerVars, hubVars, wires, restarts, bcands, scands, early>>

SetLocalAnswer ==
  /\ up /\ Running("offer", "remote")
  /\ sig' = "stable"
  /\ bgen' = brgen
  /\ at' = "local"
  /\ UNCHANGED <<queueVars, up, chain, offered, number, remoteSet, held, brgen, bknows,
                 hubVars, wires, bounds>>

SendAnswer ==
  /\ up /\ Running("offer", "local")
  /\ toHub' = Append(toHub, [op |-> "answer", gen |-> bgen])
  /\ Finish(Pump(Queue, TRUE, TRUE))
  /\ UNCHANGED <<up, peerVars, hubVars, toBrowser, bounds>>

\* An answer of the hub: set it, add what was held back.  A stray one fails the
\* batch in flight.
TakeAnswer ==
  /\ up /\ Running("answer", "start")
  /\ IF sig # "have-local-offer"
     THEN /\ Finish(Failed(Queue, TRUE, sig = "stable"))
          /\ UNCHANGED <<sig, offered, remoteSet, held, brgen, early>>
     ELSE /\ sig' = "stable" /\ offered' = NoOffer
          /\ remoteSet' = TRUE
          /\ brgen' = Head(chain).gen
          /\ held' = <<>> /\ early' = (early \/ TooEarly(held, Head(chain).gen))
          /\ at' = "remote"
          /\ UNCHANGED <<queueVars, chain>>
  /\ UNCHANGED <<up, number, bgen, bknows, hubVars, wires, restarts, bcands, scands, faults>>

\* The candidates were added: the batch in flight has its answer.
ResolveAnswer ==
  /\ up /\ Running("answer", "remote")
  /\ Finish(Answered(Queue, TRUE))
  /\ UNCHANGED <<up, peerVars, hubVars, wires, bounds>>

\* The browser rejects it: the batch fails, and the local offer still stands.
RejectAnswer ==
  /\ up /\ Running("answer", "start") /\ sig = "have-local-offer" /\ Fault
  /\ Finish(Failed(Queue, TRUE, FALSE))
  /\ UNCHANGED <<up, peerVars, hubVars, wires, restarts, bcands, scands, early>>

TakeCandidate ==
  /\ up /\ Running("candidate", "start")
  /\ IF remoteSet
     THEN early' = (early \/ Head(chain).gen > brgen) /\ UNCHANGED held
     ELSE held' = Append(held, Head(chain).gen) /\ UNCHANGED early
  /\ Finish(Queue)
  /\ UNCHANGED <<up, sig, offered, number, remoteSet, bgen, brgen, bknows, hubVars, wires,
                 restarts, bcands, scands, faults>>

\* onicecandidate, any time after a local description was set.
GatherCandidate ==
  /\ up /\ bgen >= 0 /\ bcands < MaxCands /\ Bounded
  /\ bcands' = bcands + 1
  /\ toHub' = Append(toHub, [op |-> "candidate", gen |-> bgen])
  /\ UNCHANGED <<queueVars, up, chainVars, peerVars, hubVars, toBrowser,
                 restarts, scands, faults, early>>

\* requestIceRestart
AskRestart ==
  /\ up /\ brgen >= 0 /\ restarts < MaxRestarts /\ Bounded
  /\ restarts' = restarts + 1
  /\ toHub' = Append(toHub, [op |-> "ice_restart"])
  /\ UNCHANGED <<queueVars, up, chainVars, peerVars, hubVars, toBrowser,
                 bcands, scands, faults, early>>

----------------------------------------------------------------------------
(* The hub.                                                                *)

\* sendOfferWithPeer, one critical section.  The peer may be unable to make an
\* offer when the answer to the one before was rejected.
SendOffer(restart) ==
  /\ IF ~ready \/ inFlight
     THEN /\ pendingOffer' = TRUE /\ pendingRestart' = (pendingRestart \/ restart)
          /\ UNCHANGED <<inFlight, sgen, sremote, toBrowser>>
     ELSE /\ \/ /\ inFlight' = TRUE
                /\ sgen' = IF restart THEN sgen + 1 ELSE sgen
                /\ sremote' = (sremote /\ ~restart)
                /\ toBrowser' = Append(toBrowser, [op |-> "offer", knows |-> changes, gen |-> sgen'])
             \/ /\ faults > 0
                /\ UNCHANGED <<inFlight, sgen, sremote, toBrowser>>
          /\ UNCHANGED <<pendingOffer, pendingRestart>>
  /\ UNCHANGED ready

\* The router changes a track and calls sendOffer from another goroutine.
TrackChange ==
  /\ up /\ changes < MaxChanges
  /\ changes' = changes + 1 /\ calls' = calls + 1
  /\ UNCHANGED <<queueVars, up, chainVars, peerVars, hubNeg, hubIce, sstep, answer, has,
                 wires, bounds>>

RouterOffers ==
  /\ up /\ calls > 0
  /\ calls' = calls - 1
  /\ SendOffer(FALSE)
  /\ UNCHANGED <<queueVars, up, chainVars, peerVars, squeue, slocal, srgen, sstep, answer,
                 has, changes, toHub, bounds>>

\* sendOrQueueLocalCandidate, for the candidates of the current credentials.
LocalCandidate ==
  /\ up /\ scands < MaxCands /\ Bounded /\ (srgen >= 0 \/ sstep # "read")
  /\ scands' = scands + 1
  /\ IF ready
     THEN toBrowser' = Append(toBrowser, [op |-> "candidate", gen |-> sgen]) /\ UNCHANGED slocal
     ELSE slocal' = Append(slocal, sgen) /\ UNCHANGED toBrowser
  /\ UNCHANGED <<queueVars, up, chainVars, peerVars, hubNeg, sremote, squeue, sgen, srgen,
                 sstep, answer, has, changes, calls, toHub, restarts, bcands, faults, early>>

\* The read loop takes the next message.
Reads(op) == /\ up /\ sstep = "read" /\ toHub # <<>> /\ Head(toHub).op = op
             /\ toHub' = Tail(toHub)

\* An offer that collides with the hub's own is ignored.
IgnoreOffer ==
  /\ Reads("offer") /\ inFlight
  /\ UNCHANGED <<queueVars, up, chainVars, peerVars, hubVars, toBrowser, bounds>>

\* Mutant of ApplyOffer: negotiationReady stays set while the answer is on its way.
ApplyOfferStayingReady ==
  /\ Reads("offer") /\ ~inFlight
  /\ has' = has \union Head(toHub).incl
  /\ sremote' = TRUE /\ srgen' = sgen
  /\ early' = (early \/ TooEarly(squeue, sgen)) /\ squeue' = <<>>
  /\ answer' = [n |-> Head(toHub).n, incl |-> Head(toHub).incl]
  /\ sstep' = "answering"
  /\ UNCHANGED <<queueVars, up, chainVars, peerVars, ready, inFlight, pendingOffer,
                 pendingRestart, slocal, sgen, changes, calls, toBrowser,
                 restarts, bcands, scands, faults>>

\* Set the offer, apply queued candidates, create the answer.
ApplyOffer ==
  /\ Reads("offer") /\ ~inFlight
  /\ has' = has \union Head(toHub).incl
  /\ sremote' = TRUE /\ srgen' = sgen
  /\ early' = (early \/ TooEarly(squeue, sgen)) /\ squeue' = <<>>
  /\ ready' = FALSE
  /\ answer' = [n |-> Head(toHub).n, incl |-> Head(toHub).incl]
  /\ sstep' = "answering"
  /\ UNCHANGED <<queueVars, up, chainVars, peerVars, inFlight, pendingOffer, pendingRestart,
                 slocal, sgen, changes, calls, toBrowser, restarts, bcands, scands, faults>>

\* The first of the candidates held back that cannot be added ends the flush;
\* the ones behind it stay.
Unusable(k, generation) ==
  /\ k \in DOMAIN squeue
  /\ squeue' = SubSeq(squeue, k + 1, Len(squeue))
  /\ early' = (early \/ TooEarly(SubSeq(squeue, 1, k), generation))

\* SetRemoteOffer, a candidate held back or CreateAnswer fails: an error goes back.
\* Once a description was rejected, the hub's peer may refuse every offer.
RefuseOffer ==
  /\ Reads("offer") /\ ~inFlight
  /\ Fault \/ (faults > 0 /\ UNCHANGED faults)
  /\ toBrowser' = Append(toBrowser, [op |-> "error"])
  /\ \/ UNCHANGED <<has, sremote, srgen, squeue, early>>
     \/ /\ has' = has \union Head(toHub).incl /\ srgen' = sgen
        /\ \/ (\E k \in DOMAIN squeue : Unusable(k, sgen)) /\ UNCHANGED sremote
           \/ sremote' = TRUE /\ squeue' = <<>> /\ early' = (early \/ TooEarly(squeue, sgen))
  /\ UNCHANGED <<queueVars, up, chainVars, peerVars, hubNeg, slocal, sgen, sstep, answer,
                 changes, calls, restarts, bcands, scands>>

\* The answer is written after negotiationMu was released.
WriteAnswer ==
  /\ up /\ sstep = "answering"
  /\ toBrowser' = Append(toBrowser, [op |-> "answer", n |-> answer.n, gen |-> sgen])
  /\ answer' = NoOffer
  /\ sstep' = "answered"
  /\ UNCHANGED <<queueVars, up, chainVars, peerVars, hubNeg, hubIce, has, changes, calls,
                 toHub, bounds>>

\* The second critical section: held candidates go out, and a pending offer is
\* taken over.
BecomeReady ==
  /\ up /\ sstep = "answered"
  /\ toBrowser' = toBrowser \o [i \in DOMAIN slocal |-> [op |-> "candidate", gen |-> slocal[i]]]
  /\ slocal' = <<>>
  /\ ready' = TRUE
  /\ sstep' = CASE pendingOffer /\ pendingRestart -> "restart"
                [] pendingOffer /\ ~pendingRestart -> "reoffer"
                [] OTHER -> "read"
  /\ pendingOffer' = FALSE /\ pendingRestart' = FALSE
  /\ UNCHANGED <<queueVars, up, chainVars, peerVars, inFlight, sremote, squeue, sgen, srgen,
                 answer, has, changes, calls, toHub, bounds>>

\* sendOffer after the critical section that took the pending offer over.
Reoffer ==
  /\ up /\ sstep \in {"reoffer", "restart"}
  /\ SendOffer(sstep = "restart")
  /\ sstep' = "read"
  /\ UNCHANGED <<queueVars, up, chainVars, peerVars, squeue, slocal, srgen, answer, has,
                 changes, calls, toHub, bounds>>

\* The hub's offer is not in flight any more, and a pending one is taken over.
AnswerTaken ==
  /\ inFlight' = FALSE
  /\ sstep' = CASE pendingOffer /\ pendingRestart -> "restart"
                [] pendingOffer /\ ~pendingRestart -> "reoffer"
                [] OTHER -> "read"
  /\ pendingOffer' = FALSE /\ pendingRestart' = FALSE

ApplyAnswer ==
  /\ Reads("answer") /\ inFlight
  /\ sremote' = TRUE /\ srgen' = Head(toHub).gen
  /\ early' = (early \/ TooEarly(squeue, Head(toHub).gen)) /\ squeue' = <<>>
  /\ AnswerTaken
  /\ UNCHANGED <<queueVars, up, chainVars, peerVars, ready, slocal, sgen, answer, has,
                 changes, calls, toBrowser, restarts, bcands, scands, faults>>

\* SetRemoteAnswer or a candidate held back fails: all else is as if it had not.
RefuseAnswer ==
  /\ Reads("answer") /\ inFlight /\ Fault
  /\ \/ UNCHANGED <<sremote, srgen, squeue, early>>
     \/ /\ sremote' = TRUE /\ srgen' = Head(toHub).gen
        /\ \E k \in DOMAIN squeue : Unusable(k, Head(toHub).gen)
  /\ AnswerTaken
  /\ toBrowser' = Append(toBrowser, [op |-> "error"])
  /\ UNCHANGED <<queueVars, up, chainVars, peerVars, ready, slocal, sgen, answer, has,
                 changes, calls, restarts, bcands, scands>>

\* addOrQueueCandidate
RemoteCandidate ==
  /\ Reads("candidate")
  /\ IF sremote
     THEN early' = (early \/ Head(toHub).gen > srgen) /\ UNCHANGED squeue
     ELSE squeue' = Append(squeue, Head(toHub).gen) /\ UNCHANGED early
  /\ UNCHANGED <<queueVars, up, chainVars, peerVars, hubNeg, sremote, slocal, sgen, srgen,
                 sstep, answer, has, changes, calls, toBrowser,
                 restarts, bcands, scands, faults>>

RestartRequest ==
  /\ Reads("ice_restart")
  /\ SendOffer(TRUE)
  /\ UNCHANGED <<queueVars, up, chainVars, peerVars, squeue, slocal, srgen, sstep, answer,
                 has, changes, calls, bounds>>

----------------------------------------------------------------------------

Browser == \/ CreateOffer \/ FailOffer \/ SetLocalOffer \/ TransmitOffer
           \/ RollBack \/ AcceptOffer \/ RejectOffer \/ SetLocalAnswer \/ SendAnswer
           \/ TakeAnswer \/ ResolveAnswer \/ RejectAnswer \/ TakeCandidate \/ Stale
Hub == \/ IgnoreOffer \/ ApplyOffer \/ RefuseOffer \/ WriteAnswer \/ BecomeReady \/ Reoffer
       \/ ApplyAnswer \/ RefuseAnswer \/ RemoteCandidate \/ RestartRequest

\* Nothing is left to be negotiated.
Idle == /\ chain = <<>>
        /\ ~up \/ (toHub = <<>> /\ toBrowser = <<>>)
        /\ UNCHANGED vars

Next == \/ \E r \in Reqs : Request(r)
        \/ WatchdogFires \/ Drop \/ Reset
        \/ Receive \/ GatherCandidate \/ AskRestart \/ Browser
        \/ TrackChange \/ RouterOffers \/ LocalCandidate \/ Hub
        \/ Idle

Spec == Init /\ [][Next]_vars

\* The first request, which startWebRTC makes when the peer is set up.
FirstRequest == (\A r \in Reqs : req[r] = "new") /\ (\E r \in Reqs : Request(r))

\* Messages are delivered, promises go on, armed timers fire, goroutines run,
\* a lost connection is noticed, and startWebRTC reaches its end.
Fairness == /\ WF_vars(FirstRequest)
            /\ WF_vars(Receive) /\ WF_vars(Browser) /\ WF_vars(Hub)
            /\ WF_vars(RouterOffers) /\ WF_vars(WatchdogFires) /\ WF_vars(Reset)
FairSpec == Spec /\ Fairness

----------------------------------------------------------------------------
(* Properties.                                                             *)

Gens == Nat \union {-1}
\* Type invariant; what is in flight is the queue's batch, and a closed queue is empty.
TypeOK ==
  /\ req \in [Reqs -> {"new", "pending", "inFlight", "ok", "failed"}]
  /\ batch = {r \in Reqs : req[r] = "inFlight"}
  /\ closed => Pending(Queue) = {} /\ batch = {}
  /\ {pumping, closed, watchdog, up, remoteSet, ready, inFlight, pendingOffer,
      pendingRestart, sremote, early} \subseteq BOOLEAN
  /\ at \in {"start", "created", "rolledBack", "local", "remote"}
  /\ sig \in {"stable", "have-local-offer", "have-remote-offer"}
  /\ {bgen, brgen, srgen, sgen} \subseteq Gens
  /\ bknows \in 0 .. MaxChanges /\ changes \in 0 .. MaxChanges /\ calls \in 0 .. changes
  /\ sstep \in {"read", "answering", "answered", "reoffer", "restart"}
  /\ has \subseteq Reqs

\* A request is never left to wait with nothing that would end the wait: the
\* watchdog is armed, or the pump is running and will look again.
NoUnguardedWait ==
  (batch \union Pending(Queue)) # {} /\ ~closed => watchdog \/ pumping

\* A promise of renegotiateLocalMedia that was kept means that the hub has
\* applied an offer made after the change, whatever offers collided meanwhile.
KeptPromises == \A r \in Reqs : req[r] = "ok" => r \in has

\* The hub answers only the offer that is outstanding in the browser: no offer
\* that was rolled back is ever answered.
AnswersMatch ==
  up => \A i \in DOMAIN toBrowser :
          toBrowser[i].op = "answer" => toBrowser[i].n = offered.n

\* No side adds a candidate before the description whose credentials it carries,
\* as long as no description fails or is rejected.
CandidatesInTime == faults = 0 => ~early

\* Every request comes to an end: negotiated, or rejected so that its caller
\* can tell, even if either side fails to make or rejects an offer or an answer,
\* or the connection is lost.
RequestsSettle == \A r \in Reqs : req[r] \in {"pending", "inFlight"} ~> req[r] \in {"ok", "failed"}

\* A track change of the router reaches the browser, through collisions and
\* offers that were put off, unless a description fails or is rejected or
\* the connection ends.
ChangesArrive ==
  \A n \in 1 .. MaxChanges : changes = n ~> (bknows >= n \/ ~up \/ faults > 0)

\* The two peers stay in step: nothing waits unguarded, an answer is to the offer
\* that is outstanding, and no candidate is early.
NegotiationInv == TypeOK /\ NoUnguardedWait /\ AnswersMatch /\ CandidatesInTime

\* Requests and track changes come to an end.
NegotiationSettles == RequestsSettle /\ ChangesArrive
=============================================================================
