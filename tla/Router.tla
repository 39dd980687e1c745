------------------------------- MODULE Router -------------------------------
(***************************************************************************)
(* The subscriptions of internal/media/router.go: which publication is     *)
(* forwarded to which participant, and by which sender of which peer       *)
(* connection.                                                             *)
(*                                                                         *)
(* Every call decides under Router.mu what has to change and changes the   *)
(* peer connections after the unlock (applyTrackOps), one operation at a   *)
(* time; a subscription is checked again before it is recorded.  The       *)
(* offers to the participants concerned come last.  Calls are made by the  *)
(* goroutine of a participant's connection, one at a time, and for each    *)
(* remote track by the goroutine on which Pion delivers it.                *)
(*                                                                         *)
(* Pion is external: AddTrack fails on a closed connection at most, and    *)
(* ReplaceTrack where it likes.  Simulcast layers are publications of the  *)
(* role "camera"; "screen" stands for audio too, except for Unpublish.     *)
(***************************************************************************)
EXTENDS Naturals, FiniteSets

CONSTANTS Participants,
          Publishers, \* those of them who send media
          Setups,     \* [roles, returns]: what they send, and how often somebody
                      \* comes back; one is chosen at the start
          MaxPubs,    \* remote tracks at a time
          MaxSenders  \* numbers for senders

ASSUME PublishersTakePart == Publishers \subseteq Participants

VARIABLES
  setup,          \* one of Setups
  peers,          \* number of the connection that is registered, or 0
  links,          \* connections made so far
  pubs,           \* Router.pubs: publications, told apart by a number
  targets,        \* publication.tracks and senders of all publications
  subscriptions,  \* videoSubscriptions: {}, or {S} when S was set
  call,           \* what the goroutine's call has left to do
  sending,        \* senders in the registered peer connections
  stale,          \* those whose senders changed after their last offer
  asked,          \* the page's last subscription on this connection: {} or {S}
  returned        \* history variable: who has come back, and how

peerVars == <<peers, links, subscriptions, asked, returned>>
pionVars == <<sending, stale>>
routerVars == <<setup, peerVars, pubs, targets, call, pionVars>>

Publications == [source : Participants, role : setup.roles, n : 1..MaxPubs]
Goroutines == Participants \union (1..MaxPubs)
Registered == {id \in Participants : peers[id] > 0}

NoCall == [ops |-> {}, adding |-> {}, offers |-> {}]
Free(g) == call[g] = NoCall

RouterInit ==
  /\ setup \in Setups
  /\ peers = [id \in Participants |-> 0]
  /\ links = peers
  /\ pubs = {} /\ targets = {} /\ sending = {} /\ stale = {} /\ returned = {}
  /\ subscriptions = [id \in Participants |-> {}]
  /\ asked = subscriptions
  /\ call = [g \in Goroutines |-> NoCall]

----------------------------------------------------------------------------
(* Decisions, made under the lock.                                         *)

\* publicationKey.
Key(pub) == <<pub.source, pub.role>>

\* shouldSubscribeLocked.
ShouldSubscribe(pub, id) ==
  /\ pub.source # id
  /\ pub.role = "camera" => \A cameras \in subscriptions[id] : pub.source \in cameras

Served(pub, id) == \E t \in targets : t.pub = pub /\ t.to = id

\* queueSubscriptionLocked; the receiver's wishes are only looked at later.  A
\* publication is queued for its own source, too, to be rejected after AddTrack;
\* that detour is left out.
Additions(wanted, id, link) ==
  {[add |-> TRUE, pub |-> pub, to |-> id, link |-> link, sender |-> [n |-> 0, to |-> id, link |-> link]] :
     pub \in {p \in wanted : p.source # id /\ ~Served(p, id)}}

\* The RemoveTrack operations that go with the removal of targets.
Removals(gone) ==
  {[add |-> FALSE, pub |-> t.pub, to |-> t.to, link |-> peers[t.to], sender |-> t.sender] : t \in gone}

\* Goroutine g is left with these operations, and an offer to each connection
\* that they concern.
Decide(g, ops) ==
  call' = [call EXCEPT ![g] =
             [ops |-> ops, adding |-> {}, offers |-> {<<op.to, op.link>> : op \in ops}]]

\* The targets of publications, which removePublicationLocked takes along.
TargetsOf(some) == {t \in targets : t.pub \in some}

Withdraw(g, some) ==
  /\ pubs' = pubs \ some
  /\ targets' = targets \ TargetsOf(some)
  /\ Decide(g, Removals(TargetsOf(some)))
  /\ UNCHANGED <<setup, peerVars, pionVars>>

----------------------------------------------------------------------------
(* The calls.                                                              *)

\* The connection that was registered for id is closed, or will be shortly.
Abandon(id) ==
  /\ sending' = {s \in sending : s.to # id}
  /\ stale' = {c \in stale : c[1] # id}

\* Register, for a first connection, after a takeover (whose cleanup has called
\* Unregister), or by a resume in the grace window (which has not).
Register(id) ==
  LET link == links[id] + 1
      how == IF peers[id] > 0 THEN "grace" ELSE "takeover"
  IN
  /\ Free(id)
  /\ links[id] > 0 => Cardinality(returned) < setup.returns
  /\ links' = [links EXCEPT ![id] = link]
  /\ peers' = [peers EXCEPT ![id] = link]
  /\ asked' = [asked EXCEPT ![id] = {}]
  /\ returned' = IF links[id] > 0 THEN returned \union {<<id, how, link>>} ELSE returned
  /\ Decide(id, Additions(pubs, id, link))
  /\ Abandon(id)
  /\ UNCHANGED <<setup, subscriptions, pubs, targets>>

\* Mutant of SubscriptionsWithout: the wishes of the participant outlive it.
SubscriptionsBarring(id) ==
  [other \in Participants |-> {cameras \ {id} : cameras \in subscriptions[other]}]

\* What Unregister leaves of the subscriptions: neither those of id nor those to id.
SubscriptionsWithout(id) ==
  [other \in Participants |->
     IF other = id THEN {} ELSE {cameras \ {id} : cameras \in subscriptions[other]}]

\* Unregister, and the close of the peer connection after it.
Unregister(id) ==
  LET own == {p \in pubs : p.source = id} IN
  /\ Free(id)
  /\ id \in Registered
  /\ peers' = [peers EXCEPT ![id] = 0]
  /\ subscriptions' = SubscriptionsWithout(id)
  /\ asked' = [asked EXCEPT ![id] = {}]
  /\ pubs' = pubs \ own
  /\ targets' = {t \in targets \ TargetsOf(own) : t.to # id}
  /\ Decide(id, Removals({t \in TargetsOf(own) : t.to # id}))
  /\ Abandon(id)
  /\ UNCHANGED <<setup, links, returned>>

\* Numbers for a new track.
FreeTracks ==
  {n \in 1..MaxPubs :
     /\ Free(n)
     /\ \A p \in pubs : p.n # n
     /\ \A g \in Goroutines : \A op \in call[g].ops \union call[g].adding : op.pub.n # n}

\* Publish: a track that replaces one of the same key takes over its senders,
\* except where ReplaceTrack fails (or, for another codec, everywhere).
Publish(source, role, n) ==
  LET pub == [source |-> source, role |-> role, n |-> n]
      replaced == {p \in pubs : Key(p) = Key(pub)}
      before == TargetsOf(replaced)
  IN
  /\ n \in FreeTracks /\ \A m \in FreeTracks : n <= m
  /\ source \in Registered
  /\ \E moved \in SUBSET before :
       LET reached == {t.to : t \in moved} IN
       /\ targets' = (targets \ before) \union {[t EXCEPT !.pub = pub] : t \in moved}
       /\ Decide(n, Removals(before \ moved) \union
                    UNION {Additions({pub}, id, peers[id]) : id \in Registered \ reached})
  /\ pubs' = (pubs \ replaced) \union {pub}
  /\ UNCHANGED <<setup, peerVars, pionVars>>

\* SetVideoSubscriptionsWithLayer, for a page that sends what differs from what
\* it has sent on this connection.
SetVideoSubscriptions(id, cameras) ==
  LET Wanted(p) == p.role = "camera" => p.source \in cameras
      others == {p \in pubs : p.source # id}
      unwanted == {t \in targets : t.to = id /\ ~Wanted(t.pub)}
  IN
  /\ Free(id)
  /\ id \in Registered
  /\ asked[id] # {cameras}
  /\ asked' = [asked EXCEPT ![id] = {cameras}]
  /\ subscriptions' = [subscriptions EXCEPT ![id] = {cameras}]
  /\ targets' = targets \ unwanted
  /\ Decide(id, Removals(unwanted) \union Additions({p \in others : Wanted(p)}, id, peers[id]))
  /\ UNCHANGED <<setup, peers, links, returned, pubs, pionVars>>

\* Unpublish, called by releaseScreenShare.
UnpublishScreen(id) ==
  /\ Free(id)
  /\ Withdraw(id, {p \in pubs : Key(p) = <<id, "screen">>})

\* reportPublicationReadStop, on the goroutine that forwards the track.
ReadStops(pub) ==
  /\ Free(pub.n)
  /\ pub \in pubs
  /\ Withdraw(pub.n, {pub})

----------------------------------------------------------------------------
(* applyTrackOps and dispatchOffers, without the lock.                     *)

\* What goroutine g may do next: a removal comes before additions of its key.
NextOps(g) ==
  IF call[g].adding # {} THEN {}
  ELSE {op \in call[g].ops :
          op.add => \A other \in call[g].ops : other.add \/ Key(other.pub) # Key(op.pub)}

\* The least number that no sender has.
Fresh(n) ==
  LET used == {s.n : s \in sending} \union {t.sender.n : t \in targets}
  IN n \notin used /\ 1..(n - 1) \subseteq used

\* What is added to a connection that is not registered any more does no harm:
\* it is refused, or removed again.
AddTrack(g, op) ==
  /\ op \in NextOps(g)
  /\ op.add
  /\ \/ /\ op.link = peers[op.to]
        /\ \E n \in 1..MaxSenders :
             LET sender == [n |-> n, to |-> op.to, link |-> op.link] IN
             /\ Fresh(n)
             /\ sending' = sending \union {sender}
             /\ call' = [call EXCEPT ![g].ops = @ \ {op}, ![g].adding = {[op EXCEPT !.sender = sender]}]
        /\ stale' = stale \union {<<op.to, op.link>>}
     \/ /\ op.link # peers[op.to]
        /\ call' = [call EXCEPT ![g].ops = @ \ {op}]
        /\ UNCHANGED pionVars
  /\ UNCHANGED <<setup, peerVars, pubs, targets>>

\* Mutant of Valid: the wishes are not looked at again.
ValidThen(op) ==
  /\ op.pub \in pubs
  /\ peers[op.to] = op.link
  /\ ~Served(op.pub, op.to)
  /\ op.pub.source # op.to

\* The decision is checked again under the lock.
Valid(op) ==
  /\ op.pub \in pubs
  /\ peers[op.to] = op.link
  /\ ~Served(op.pub, op.to)
  /\ ShouldSubscribe(op.pub, op.to)

Install(g, op) ==
  /\ op \in call[g].adding
  /\ IF Valid(op)
     THEN /\ targets' = targets \union {[pub |-> op.pub, to |-> op.to, sender |-> op.sender]}
          /\ call' = [call EXCEPT ![g].adding = {}]
     ELSE /\ call' = [call EXCEPT ![g].adding = {}, ![g].ops = @ \union {[op EXCEPT !.add = FALSE]}]
          /\ UNCHANGED targets
  /\ UNCHANGED <<setup, peerVars, pubs, pionVars>>

\* RemoveTrack refuses a sender of another connection.
RemoveTrack(g, op) ==
  /\ op \in NextOps(g)
  /\ ~op.add
  /\ call' = [call EXCEPT ![g].ops = @ \ {op}]
  /\ IF op.sender \in sending
     THEN /\ sending' = sending \ {op.sender}
          /\ stale' = stale \union {<<op.to, op.link>>}
     ELSE UNCHANGED pionVars
  /\ UNCHANGED <<setup, peerVars, pubs, targets>>

\* The offers run concurrently, each on its own connection.  That an offer is
\* answered, or made again, is the subject of module Negotiation.
Offer(g) ==
  /\ call[g].ops = {} /\ call[g].adding = {}
  /\ call[g].offers # {}
  /\ call' = [call EXCEPT ![g] = NoCall]
  /\ stale' = stale \ call[g].offers
  /\ UNCHANGED <<setup, peerVars, pubs, targets, sending>>

CallsAreOver == \A g \in Goroutines : Free(g)

RouterNext ==
  \/ \E id \in Publishers, role \in setup.roles, n \in FreeTracks : Publish(id, role, n)
  \/ \E id \in Participants :
       \/ Register(id) \/ Unregister(id) \/ UnpublishScreen(id)
       \/ \E cameras \in SUBSET (Participants \ {id}) : SetVideoSubscriptions(id, cameras)
  \/ \E pub \in pubs : ReadStops(pub)
  \/ \E g \in Goroutines :
       \/ \E op \in call[g].ops : AddTrack(g, op) \/ RemoveTrack(g, op)
       \/ \E op \in call[g].adding : Install(g, op)
       \/ Offer(g)

RouterSpec == RouterInit /\ [][RouterNext]_routerVars

----------------------------------------------------------------------------
(* Properties.                                                             *)

Senders == [n : 1..MaxSenders, to : Participants, link : Nat \ {0}]

RouterTypeOK ==
  /\ setup \in Setups
  /\ {links, peers} \subseteq [Participants -> Nat]
  /\ \A id \in Participants : peers[id] \in {0, links[id]}
  /\ subscriptions \in [Participants -> SUBSET SUBSET Participants]
  /\ asked \in [Participants -> SUBSET SUBSET Participants]
  /\ pubs \subseteq Publications
  /\ targets \subseteq [pub : pubs, to : Registered, sender : Senders]
  /\ sending \subseteq {s \in Senders : s.link = peers[s.to]}
  /\ stale \subseteq {<<id, peers[id]>> : id \in Registered}
  /\ returned \subseteq Participants \X {"grace", "takeover"} \X Nat

\* When no call is under way, the router forwards to whom it should, by one
\* sender each, every track of a registered connection is fed, and its browser
\* has been offered what changed: whatever publications, subscriptions and
\* departures happened between a decision and the operations it took
\* (router.go:832-868).
RouterIsExact ==
  CallsAreOver =>
    /\ \A pub \in pubs, id \in Registered :
         Cardinality({t \in targets : t.pub = pub /\ t.to = id}) = IF ShouldSubscribe(pub, id) THEN 1 ELSE 0
    /\ \A s \in sending : \E t \in targets : t.sender = s
    /\ stale = {}

Receives(id, pub) ==
  \E t \in targets : t.pub = pub /\ t.to = id /\ t.sender \in sending

\* What the page of id wants of the publication, as far as it has said.
WantsToSee(id, pub) ==
  /\ pub.source # id
  /\ pub.role = "camera" => \A cameras \in asked[id] : pub.source \in cameras

CameBack(id, how) == \E r \in returned : r[1] = id /\ r[2] = how

\* What a page has asked for flows to it, by its own connection, once the calls
\* are over.  Two ways to come back are left out: who resumes within the grace
\* window, and whoever watches a camera that was taken over (see README).
MediaFlows ==
  CallsAreOver => \A pub \in pubs, id \in Registered :
    /\ WantsToSee(id, pub)
    /\ pub.source \in Registered
    /\ ~CameBack(id, "grace")
    /\ pub.role = "camera" => ~CameBack(pub.source, "takeover")
    => Receives(id, pub)

\* Not so: what a page has asked for flows to it whoever came back.
MediaKeepsFlowing ==
  CallsAreOver => \A pub \in pubs, id \in Registered :
    WantsToSee(id, pub) /\ pub.source \in Registered => Receives(id, pub)
=============================================================================
