-------------------------- MODULE HubFeaturesProofs --------------------------
(*****************************************************************************)
(* Proofs about the features of the hub: the forwarding of media, the table  *)
(* of members with its queue of raised hands, the broadcasts of the hands, the *)
(* right to share the screen, and these together.                            *)
(*****************************************************************************)
EXTENDS HubFeatures, FiniteSetTheorems, TLAPS

(*****************************************************************************)
(* The router: whatever calls cross, once they are over it forwards to whom it *)
(* should.                                                                   *)
(*****************************************************************************)
Pubs == [source : Participants, role : setup.roles, n : 1..MaxPubs]
AllSenders == [n : Nat, to : Participants, link : Nat \ {0}]
Operations == [add : BOOLEAN, pub : Pubs, to : Participants, link : Nat \ {0}, sender : AllSenders]
Calls == [ops : SUBSET Operations, adding : SUBSET Operations,
          offers : SUBSET (Participants \X Nat)]

Types ==
  /\ RouterTypeOK
  /\ call \in [Goroutines -> Calls]

\* The operations of g that hold a sender: it was added and not installed yet, or
\* has to be removed.
Held(g) == call[g].adding \union {op \in call[g].ops : ~op.add}
Pending(g) == {op \in call[g].ops : op.add} \union call[g].adding

\* Connections are numbered: a new one has a number that nothing refers to.
Numbered ==
  /\ \A t \in targets : t.sender.to = t.to /\ t.sender.link <= links[t.to]
  /\ \A g \in Goroutines : \A op \in call[g].ops \union call[g].adding :
       op.sender.to = op.to /\ op.sender.link <= op.link /\ op.link <= links[op.to]
  /\ \A g \in Goroutines : \A op, other \in call[g].adding :
       op.add /\ op.sender.link = op.link /\ op = other
  /\ \A id \in Participants : peers[id] = 0 => subscriptions[id] = {} /\ asked[id] = {}

\* Whoever holds a sender of a registered connection holds one that is there.
Alive ==
  /\ \A t \in targets : t.sender.link = peers[t.to] => t.sender \in sending
  /\ \A g \in Goroutines : \A op \in Held(g) :
       op.sender.link = peers[op.to] => op.sender \in sending

\* No sender is held twice, and none is forgotten.
OneHolder ==
  /\ \A t, u \in targets : t.sender = u.sender => t = u
  /\ \A t \in targets, g \in Goroutines : \A op \in Held(g) : op.sender # t.sender
  /\ \A g, h \in Goroutines : \A op \in Held(g), other \in Held(h) :
       op.sender = other.sender => g = h /\ op = other
NoneForgotten ==
  \A s \in sending :
    \/ \E t \in targets : t.sender = s
    \/ \E g \in Goroutines : \E op \in Held(g) : op.sender = s

\* Publications and targets are told apart by their keys, and nobody is forwarded
\* what it should not get.
Keyed ==
  /\ \A p, q \in pubs : Key(p) = Key(q) => p = q
  /\ \A t, u \in targets : t.pub = u.pub /\ t.to = u.to => t = u
  /\ \A t \in targets : ShouldSubscribe(t.pub, t.to)

\* Who should be forwarded a publication and is not has a subscription pending.
WillBeServed ==
  \A media \in pubs, id \in Registered :
    ShouldSubscribe(media, id) /\ ~Served(media, id)
      => \E g \in Goroutines : \E op \in Pending(g) : op.pub = media /\ op.to = id /\ op.link = peers[id]

\* Every connection that is touched will be offered.
WillBeOffered ==
  /\ \A g \in Goroutines : \A op \in call[g].ops \union call[g].adding :
       <<op.to, op.link>> \in call[g].offers
  /\ \A c \in stale : \E g \in Goroutines : c \in call[g].offers

RouterInv ==
  /\ Types /\ Numbered /\ Alive /\ OneHolder /\ NoneForgotten
  /\ Keyed /\ WillBeServed /\ WillBeOffered

\* What the router knows of a page's wishes, short of those who came back.
WishesKnown ==
  \A id \in Participants : ~CameBack(id, "grace") =>
    /\ \A t \in targets : t.to = id => t.sender.link = peers[id]
    /\ asked[id] = {} => subscriptions[id] = {}
    /\ \A wish \in asked[id], known \in subscriptions[id] : \A x \in wish \ known :
         CameBack(x, "takeover") \/ (peers[x] = 0 /\ links[x] > 0)

----------------------------------------------------------------------------
(* What a call leaves of the goroutines' work.                             *)

\* The goroutine that decides is given its operations; the others go on.
LEMMA Decided ==
  ASSUME NEW g \in Goroutines, NEW ops \in SUBSET Operations,
         Types, setup' = setup, Decide(g, ops)
  PROVE  /\ call' \in [Goroutines -> Calls]
         /\ call'[g].ops = ops /\ call'[g].adding = {}
         /\ call'[g].offers = {<<op.to, op.link>> : op \in ops}
         /\ \A h \in Goroutines \ {g} : call'[h] = call[h]
<1>1. {<<op.to, op.link>> : op \in ops} \subseteq Participants \X Nat
  BY DEF Operations
<1>2. [ops |-> ops, adding |-> {}, offers |-> {<<op.to, op.link>> : op \in ops}] \in Calls
  BY <1>1 DEF Calls
<1>3. Calls' = Calls
  BY DEF Calls, Operations, Pubs, AllSenders
<1> QED  BY <1>2 DEF Decide, Types

\* Types of what the properties look at.
LEMMA Typing ==
  ASSUME Types
  PROVE  /\ \A id \in Participants : links[id] \in Nat /\ peers[id] \in Nat /\ peers[id] \in {0, links[id]}
         /\ \A t \in targets : t.pub \in pubs /\ t.to \in Registered /\ t.sender \in AllSenders
         /\ \A p \in pubs : p \in Pubs /\ p.source \in Participants
         /\ \A g \in Goroutines : \A op \in call[g].ops \union call[g].adding : op \in Operations
         /\ \A op \in Operations : op.to \in Participants /\ op.link \in Nat /\ op.sender.link \in Nat
  BY DEF Types, RouterTypeOK, Calls, Operations, AllSenders, Pubs, Publications, Senders

\* Removals and additions are operations, and each names its target.
LEMMA RemovalsAreOperations ==
  ASSUME Types, Numbered, NEW gone \in SUBSET targets
  PROVE  /\ Removals(gone) \in SUBSET Operations
         /\ \A op \in Removals(gone) :
              /\ ~op.add /\ op.link = peers[op.to] /\ op.sender.to = op.to /\ op.sender.link <= op.link
              /\ \E t \in gone : t.pub = op.pub /\ t.to = op.to /\ t.sender = op.sender
         /\ \A t \in gone : \E op \in Removals(gone) : op.sender = t.sender /\ op.to = t.to
         /\ \A op, other \in Removals(gone) :
              OneHolder /\ op.sender = other.sender => op = other
<1> DEFINE Op(t) == [add |-> FALSE, pub |-> t.pub, to |-> t.to, link |-> peers[t.to], sender |-> t.sender]
<1>1. ASSUME NEW t \in gone
      PROVE  /\ Op(t) \in Operations
             /\ ~Op(t).add /\ Op(t).link = peers[Op(t).to] /\ Op(t).sender.to = Op(t).to
             /\ Op(t).sender.link <= Op(t).link
             /\ Op(t).pub = t.pub /\ Op(t).to = t.to /\ Op(t).sender = t.sender
  <2>1. /\ t.pub \in Pubs /\ t.to \in Participants /\ t.sender \in AllSenders
        /\ peers[t.to] \in Nat \ {0} /\ t.sender.to = t.to /\ t.sender.link <= peers[t.to]
    BY DEF Types, RouterTypeOK, Numbered, Pubs, Publications, AllSenders, Senders, Registered
  <2> QED  BY <2>1 DEF Operations
<1>2. Removals(gone) = {Op(t) : t \in gone}
  BY DEF Removals
<1> HIDE DEF Op
<1> QED  BY <1>1, <1>2 DEF OneHolder

\* What Subscribe and Publish plan to add are operations on targets of the room.
LEMMA AdditionsAreOperations ==
  ASSUME Types, NEW wanted \in SUBSET Pubs, NEW id \in Participants, NEW link \in Nat \ {0}
  PROVE  /\ Additions(wanted, id, link) \in SUBSET Operations
         /\ \A op \in Additions(wanted, id, link) :
              /\ op.add /\ op.link = link /\ op.to = id /\ op.sender.to = id /\ op.sender.link = link
              /\ op.pub \in wanted /\ op.pub.source # id /\ ~Served(op.pub, id)
         /\ \A media \in wanted : media.source # id /\ ~Served(media, id)
              => \E op \in Additions(wanted, id, link) : op.pub = media
<1> DEFINE Op(p) == [add |-> TRUE, pub |-> p, to |-> id, link |-> link,
                     sender |-> [n |-> 0, to |-> id, link |-> link]]
           chosen == {p \in wanted : p.source # id /\ ~Served(p, id)}
<1>1. ASSUME NEW p \in chosen
      PROVE  /\ Op(p) \in Operations
             /\ Op(p).add /\ Op(p).link = link /\ Op(p).to = id /\ Op(p).sender.to = id
             /\ Op(p).sender.link = link /\ Op(p).pub = p
  BY DEF Operations, AllSenders
<1>2. Additions(wanted, id, link) = {Op(p) : p \in chosen}
  BY DEF Additions
<1> HIDE DEF Op
<1> QED  BY <1>1, <1>2

----------------------------------------------------------------------------
(* Every step preserves the invariant: one lemma per kind of step.         *)

\* removePublicationLocked, for publications of any number.
LEMMA WithdrawStep ==
  ASSUME NEW g \in Goroutines, NEW some \in SUBSET pubs,
         RouterInv, Free(g), Withdraw(g, some)
  PROVE  RouterInv'
<1> DEFINE gone == TargetsOf(some)
<1> USE DEF RouterInv
<1>0. gone \in SUBSET targets
  BY DEF TargetsOf
<1>1. /\ Removals(gone) \in SUBSET Operations
      /\ \A op \in Removals(gone) :
           /\ ~op.add /\ op.link = peers[op.to] /\ op.sender.to = op.to /\ op.sender.link <= op.link
           /\ \E t \in gone : t.pub = op.pub /\ t.to = op.to /\ t.sender = op.sender
      /\ \A t \in gone : \E op \in Removals(gone) : op.sender = t.sender /\ op.to = t.to
      /\ \A op, other \in Removals(gone) : op.sender = other.sender => op = other
  BY <1>0, RemovalsAreOperations
<1>2. /\ pubs' = pubs \ some /\ targets' = targets \ gone
      /\ UNCHANGED <<setup, peers, links, subscriptions, asked, returned, sending, stale>>
      /\ Decide(g, Removals(gone))
  BY DEF Withdraw, peerVars, pionVars
<1>3. /\ call' \in [Goroutines -> Calls]
      /\ call'[g].ops = Removals(gone) /\ call'[g].adding = {}
      /\ call'[g].offers = {<<op.to, op.link>> : op \in Removals(gone)}
      /\ \A h \in Goroutines \ {g} : call'[h] = call[h]
  BY <1>1, <1>2, Decided
<1>4. call[g].ops = {} /\ call[g].adding = {} /\ call[g].offers = {}
  BY DEF Free, NoCall
<1>5. Held(g)' = Removals(gone) /\ Held(g) = {} /\ Pending(g) = {}
  BY <1>1, <1>3, <1>4 DEF Held, Pending
<1>6. \A h \in Goroutines \ {g} : Held(h)' = Held(h) /\ Pending(h)' = Pending(h)
  BY <1>3 DEF Held, Pending
<1> HIDE DEF gone
<1>7. Types'
  <2>1. /\ Calls' = Calls /\ Publications' = Publications /\ Senders' = Senders
        /\ Registered' = Registered
    BY <1>2 DEF Calls, Operations, Pubs, AllSenders, Publications, Senders, Registered
  <2>2. targets' \subseteq [pub : pubs', to : Registered, sender : Senders]
    BY <1>2 DEF Types, RouterTypeOK, gone, TargetsOf
  <2> QED  BY <1>2, <1>3, <2>1, <2>2 DEF Types, RouterTypeOK
<1>8. Numbered'
  BY <1>0, <1>1, <1>2, <1>3, Typing DEF Numbered
<1>9. Alive'
  BY <1>0, <1>1, <1>2, <1>5, <1>6 DEF Alive
<1>10. OneHolder'
  BY <1>0, <1>1, <1>2, <1>5, <1>6 DEF OneHolder, Keyed
<1>11. NoneForgotten'
  BY <1>0, <1>1, <1>2, <1>5, <1>6 DEF NoneForgotten
<1>12. Keyed'
  BY <1>0, <1>2 DEF Keyed, Key, ShouldSubscribe
<1>13. WillBeServed'
  BY <1>0, <1>2, <1>5, <1>6 DEF WillBeServed, Registered, ShouldSubscribe, Served, gone, TargetsOf
<1>14. WillBeOffered'
  BY <1>1, <1>2, <1>3, <1>4 DEF WillBeOffered
<1> QED  BY <1>7, <1>8, <1>9, <1>10, <1>11, <1>12, <1>13, <1>14

\* Register: the new connection starts without senders and is served what is published.
LEMMA RegisterStep ==
  ASSUME NEW id \in Participants, RouterInv, Register(id)
  PROVE  RouterInv'
<1> DEFINE link == links[id] + 1
           ops == Additions(pubs, id, link)
<1> USE DEF RouterInv
<1>1. link \in Nat \ {0} /\ link > links[id] /\ pubs \in SUBSET Pubs /\ id \in Goroutines
  BY DEF Types, RouterTypeOK, Publications, Pubs, Goroutines
<1>2. /\ ops \in SUBSET Operations
      /\ \A op \in ops : /\ op.add /\ op.link = link /\ op.to = id
                         /\ op.sender.to = id /\ op.sender.link = link
      /\ \A media \in pubs : media.source # id /\ ~Served(media, id) => \E op \in ops : op.pub = media
  <2>1. Types /\ link \in Nat \ {0} /\ pubs \in SUBSET Pubs
    BY <1>1
  <2> HIDE DEF link, RouterInv
  <2>2. /\ Additions(pubs, id, link) \in SUBSET Operations
        /\ \A op \in Additions(pubs, id, link) :
             /\ op.add /\ op.link = link /\ op.to = id /\ op.sender.to = id /\ op.sender.link = link
             /\ op.pub \in pubs /\ op.pub.source # id /\ ~Served(op.pub, id)
        /\ \A media \in pubs : media.source # id /\ ~Served(media, id)
             => \E op \in Additions(pubs, id, link) : op.pub = media
    BY <2>1, AdditionsAreOperations, SMTT(30)
  <2> QED  BY <2>2
<1>3. /\ links' = [links EXCEPT ![id] = link] /\ peers' = [peers EXCEPT ![id] = link]
      /\ asked' = [asked EXCEPT ![id] = {}]
      /\ sending' = {s \in sending : s.to # id} /\ stale' = {c \in stale : c[1] # id}
      /\ UNCHANGED <<setup, subscriptions, pubs, targets>>
      /\ Decide(id, ops)
      /\ returned' \in {returned, returned \union {<<id, "grace", link>>}, returned \union {<<id, "takeover", link>>}}
  BY DEF Register, Abandon
<1>4. /\ call' \in [Goroutines -> Calls]
      /\ call'[id].ops = ops /\ call'[id].adding = {}
      /\ call'[id].offers = {<<op.to, op.link>> : op \in ops}
      /\ \A h \in Goroutines \ {id} : call'[h] = call[h]
  BY <1>1, <1>2, <1>3, Decided
<1>5. call[id].ops = {} /\ call[id].adding = {} /\ call[id].offers = {}
  BY DEF Free, NoCall, Register
<1>6. Held(id)' = {} /\ Held(id) = {} /\ Pending(id) = {} /\ Pending(id)' = ops
  BY <1>2, <1>4, <1>5 DEF Held, Pending
<1>7. \A h \in Goroutines \ {id} : Held(h)' = Held(h) /\ Pending(h)' = Pending(h)
  BY <1>4 DEF Held, Pending
<1>8. /\ links'[id] = link /\ peers'[id] = link
      /\ \A x \in Participants \ {id} : links'[x] = links[x] /\ peers'[x] = peers[x] /\ asked'[x] = asked[x]
      /\ asked'[id] = {} /\ Registered' = Registered \union {id}
  BY <1>1, <1>3 DEF Types, RouterTypeOK, Registered
<1> HIDE DEF link, ops
<1>9. Types'
  <2>1. /\ Calls' = Calls /\ Publications' = Publications /\ Senders' = Senders
    BY <1>3 DEF Calls, Operations, Pubs, AllSenders, Publications, Senders
  <2>2. sending' \subseteq {s \in Senders : s.link = peers'[s.to]}
    BY <1>3, <1>8 DEF Types, RouterTypeOK, Senders
  <2>3. stale' \subseteq {<<x, peers'[x]>> : x \in Registered'}
    BY <1>3, <1>8 DEF Types, RouterTypeOK, Registered
  <2>4. returned' \subseteq Participants \X {"grace", "takeover"} \X Nat
    BY <1>1, <1>3 DEF Types, RouterTypeOK
  <2>5. /\ {links', peers'} \subseteq [Participants -> Nat]
        /\ \A x \in Participants : peers'[x] \in {0, links'[x]}
        /\ asked' \in [Participants -> SUBSET SUBSET Participants]
    BY <1>1, <1>3, <1>8 DEF Types, RouterTypeOK
  <2> QED  BY <1>3, <1>4, <1>8, <2>1, <2>2, <2>3, <2>4, <2>5 DEF Types, RouterTypeOK
<1>10. Numbered'
  <2>1. \A x \in Participants, n \in Nat : n <= links[x] => n <= links'[x]
    BY <1>1, <1>8, Typing
  <2>2. \A t \in targets : t.sender.to = t.to /\ t.sender.link <= links'[t.to]
    BY <2>1, Typing DEF Numbered, AllSenders, Registered
  <2>3. \A h \in Goroutines \ {id} : \A op \in call[h].ops \union call[h].adding :
          op.sender.to = op.to /\ op.sender.link <= op.link /\ op.link <= links'[op.to]
    BY <2>1, Typing DEF Numbered, Operations
  <2>4. \A op \in ops : op.sender.to = op.to /\ op.sender.link <= op.link /\ op.link <= links'[op.to]
    BY <1>1, <1>2, <1>8
  <2> QED  BY <1>1, <1>3, <1>4, <1>8, <2>2, <2>3, <2>4, Typing DEF Numbered
<1>11. Alive'
  <2>1. ASSUME NEW s \in AllSenders, s.link <= links[s.to], s.link = peers'[s.to]
        PROVE  s.to # id /\ s.link = peers[s.to]
    BY <1>1, <1>8, <2>1, Typing DEF AllSenders
  <2>2. \A t \in targets : t.sender.link = peers'[t.sender.to] => t.sender \in sending'
    BY <1>3, <2>1, Typing DEF Alive, Numbered
  <2>3. \A h \in Goroutines \ {id} : \A op \in Held(h) :
          op.sender.link = peers'[op.sender.to] => op.sender \in sending'
    <3>1. \A h \in Goroutines : \A op \in Held(h) :
            op.sender \in AllSenders /\ op.sender.to = op.to /\ op.sender.link <= links[op.to]
      BY Typing DEF Held, Numbered, Operations, AllSenders
    <3> QED  BY <1>3, <2>1, <3>1 DEF Alive
  <2>4. \A h \in Goroutines \ {id} : \A op \in Held(h) : op.sender.to = op.to
    BY DEF Held, Numbered
  <2>5. \A t \in targets : t.sender.to = t.to
    BY DEF Numbered
  <2> QED  BY <1>3, <1>6, <1>7, <2>2, <2>3, <2>4, <2>5 DEF Alive
<1>12. OneHolder'
  BY <1>3, <1>6, <1>7 DEF OneHolder
<1>13. NoneForgotten'
  BY <1>3, <1>6, <1>7 DEF NoneForgotten
<1>14. Keyed'
  BY <1>3 DEF Keyed, Key, ShouldSubscribe
<1>15. WillBeServed'
  BY <1>1, <1>2, <1>3, <1>6, <1>7, <1>8 DEF WillBeServed, ShouldSubscribe, Served
<1>16. WillBeOffered'
  BY <1>2, <1>3, <1>4, <1>5 DEF WillBeOffered
<1> QED  BY <1>9, <1>10, <1>11, <1>12, <1>13, <1>14, <1>15, <1>16

\* Unregister: the senders of the connection, and those of what it published, are gone.
LEMMA UnregisterStep ==
  ASSUME NEW id \in Participants, RouterInv, Unregister(id)
  PROVE  RouterInv'
<1> DEFINE own == {p \in pubs : p.source = id}
           kept == {t \in targets \ TargetsOf(own) : t.to # id}
           gone == {t \in TargetsOf(own) : t.to # id}
<1> USE DEF RouterInv
<1>0. id \in Goroutines /\ gone \in SUBSET targets /\ own \subseteq pubs
  BY DEF Goroutines, TargetsOf
<1>1. /\ Removals(gone) \in SUBSET Operations
      /\ \A op \in Removals(gone) :
           /\ ~op.add /\ op.link = peers[op.to] /\ op.sender.to = op.to /\ op.sender.link <= op.link
           /\ \E t \in gone : t.pub = op.pub /\ t.to = op.to /\ t.sender = op.sender
      /\ \A t \in gone : \E op \in Removals(gone) : op.sender = t.sender /\ op.to = t.to
      /\ \A op, other \in Removals(gone) : op.sender = other.sender => op = other
  <2> HIDE DEF gone
  <2> QED  BY <1>0, RemovalsAreOperations
<1>2. /\ peers' = [peers EXCEPT ![id] = 0] /\ asked' = [asked EXCEPT ![id] = {}]
      /\ subscriptions' = [other \in Participants |->
           IF other = id THEN {} ELSE {cameras \ {id} : cameras \in subscriptions[other]}]
      /\ pubs' = pubs \ own /\ targets' = kept
      /\ sending' = {s \in sending : s.to # id} /\ stale' = {c \in stale : c[1] # id}
      /\ UNCHANGED <<setup, links, returned>>
      /\ Decide(id, Removals(gone))
      /\ Free(id) /\ id \in Registered
  BY DEF Unregister, SubscriptionsWithout, Abandon
<1>3. /\ call' \in [Goroutines -> Calls]
      /\ call'[id].ops = Removals(gone) /\ call'[id].adding = {}
      /\ call'[id].offers = {<<op.to, op.link>> : op \in Removals(gone)}
      /\ \A h \in Goroutines \ {id} : call'[h] = call[h]
  BY <1>0, <1>1, <1>2, Decided
<1>4. call[id].ops = {} /\ call[id].adding = {} /\ call[id].offers = {}
  BY <1>2 DEF Free, NoCall
<1>5. Held(id)' = Removals(gone) /\ Held(id) = {} /\ Pending(id) = {}
  BY <1>1, <1>3, <1>4 DEF Held, Pending
<1>6. \A h \in Goroutines \ {id} : Held(h)' = Held(h) /\ Pending(h)' = Pending(h)
  BY <1>3 DEF Held, Pending
<1>7. /\ peers'[id] = 0 /\ asked'[id] = {} /\ subscriptions'[id] = {}
      /\ \A x \in Participants \ {id} : peers'[x] = peers[x] /\ asked'[x] = asked[x]
      /\ Registered' = Registered \ {id}
  BY <1>2 DEF Types, RouterTypeOK, Registered
<1>8. \A x \in Participants \ {id} : subscriptions'[x] = {cameras \ {id} : cameras \in subscriptions[x]}
  BY <1>2
<1>9. \A t \in targets : t \in kept <=> t.to # id /\ t.pub.source # id
  BY Typing DEF TargetsOf
<1>10. \A t \in gone : t \in targets /\ t.to # id /\ t.pub.source = id
  BY DEF TargetsOf
<1>11. \A t \in targets : t.to # id /\ t.pub.source = id => t \in gone
  BY Typing DEF TargetsOf
<1>12. kept \subseteq targets
  OBVIOUS
<1> HIDE DEF gone, kept
<1>13. Types'
  <2>1. /\ Calls' = Calls /\ Publications' = Publications /\ Senders' = Senders
    BY <1>2 DEF Calls, Operations, Pubs, AllSenders, Publications, Senders
  <2>2. sending' \subseteq {s \in Senders : s.link = peers'[s.to]}
    BY <1>2, <1>7 DEF Types, RouterTypeOK, Senders
  <2>3. stale' \subseteq {<<x, peers'[x]>> : x \in Registered'}
    BY <1>2, <1>7 DEF Types, RouterTypeOK, Registered
  <2>4. /\ {links', peers'} \subseteq [Participants -> Nat]
        /\ \A x \in Participants : peers'[x] \in {0, links'[x]}
        /\ asked' \in [Participants -> SUBSET SUBSET Participants]
    BY <1>2, <1>7 DEF Types, RouterTypeOK
  <2>5. subscriptions' \in [Participants -> SUBSET SUBSET Participants]
    BY <1>2, <1>7, <1>8 DEF Types, RouterTypeOK
  <2>6. targets' \subseteq [pub : pubs', to : Registered', sender : Senders]
    <3>1. targets \subseteq [pub : pubs, to : Registered, sender : Senders]
      BY DEF Types, RouterTypeOK
    <3>2. \A t \in kept : t.pub \in pubs' /\ t.to \in Registered'
      BY <1>2, <1>7, <1>9, <1>12, Typing
    <3> QED  BY <1>2, <1>12, <3>1, <3>2
  <2> QED  BY <1>2, <1>3, <2>1, <2>2, <2>3, <2>4, <2>5, <2>6 DEF Types, RouterTypeOK
<1>14. Numbered'
  <2>1. \A op \in Removals(gone) : op.link <= links[op.to]
    BY <1>1, Typing
  <2> QED  BY <1>1, <1>2, <1>3, <1>7, <1>8, <1>12, <2>1, Typing DEF Numbered
<1>15. Alive'
  <2>1. \A s \in sending : s.to # id => s \in sending'
    BY <1>2
  <2>2. \A t \in targets : t.to # id /\ t.sender.link = peers[t.to] => t.sender \in sending'
    BY <2>1 DEF Alive, Numbered
  <2>3. \A t \in kept : t.sender.link = peers'[t.to] => t.sender \in sending'
    BY <1>7, <1>9, <1>12, <2>2, Typing DEF Registered
  <2>4. \A op \in Removals(gone) : op.sender.link = peers'[op.to] => op.sender \in sending'
    BY <1>1, <1>7, <1>10, <2>2, Typing DEF Registered
  <2>5. ASSUME NEW h \in Goroutines \ {id}, NEW op \in Held(h), op.sender.link = peers'[op.to]
        PROVE  op.sender \in sending'
    <3>1. op \in call[h].ops \union call[h].adding
      BY DEF Held
    <3>2. op.sender.to = op.to /\ op.to \in Participants
      BY <3>1, Typing DEF Numbered
    <3>3. CASE op.to # id
      BY <1>7, <2>1, <2>5, <3>2, <3>3 DEF Alive
    <3>4. CASE op.to = id
      BY <1>7, <2>5, <3>1, <3>4, Typing DEF Operations, AllSenders
    <3> QED  BY <3>3, <3>4
  <2> QED  BY <1>2, <1>5, <1>6, <2>3, <2>4, <2>5 DEF Alive
<1>16. OneHolder'
  BY <1>0, <1>1, <1>2, <1>5, <1>6, <1>9, <1>10, <1>12 DEF OneHolder, Keyed
<1>17. NoneForgotten'
  <2>1. ASSUME NEW t \in targets, t.to # id
        PROVE  t \in kept \/ \E op \in Removals(gone) : op.sender = t.sender
    BY <1>1, <1>9, <1>11, <2>1
  <2>2. \A t \in targets : t.sender.to = t.to
    BY DEF Numbered
  <2> QED  BY <1>0, <1>2, <1>5, <1>6, <2>1, <2>2 DEF NoneForgotten
<1>18. Keyed'
  <2>1. \A t \in kept : ShouldSubscribe(t.pub, t.to)'
    BY <1>8, <1>9, <1>12, Typing DEF Keyed, ShouldSubscribe, Registered
  <2> QED  BY <1>0, <1>2, <1>12, <2>1 DEF Keyed, Key
<1>19. WillBeServed'
  <2> SUFFICES ASSUME NEW media \in pubs', NEW x \in Registered', ShouldSubscribe(media, x)', ~Served(media, x)'
               PROVE  \E g \in Goroutines : \E op \in Pending(g)' :
                        op.pub = media /\ op.to = x /\ op.link = peers'[x]
    BY DEF WillBeServed
  <2>1. media \in pubs /\ media.source # id /\ x \in Registered /\ x # id /\ x \in Participants
    BY <1>2, <1>7 DEF Registered
  <2>2. ~Served(media, x)
    BY <1>2, <1>9, <2>1 DEF Served
  <2>3. ShouldSubscribe(media, x)
    <3>1. \A cameras \in subscriptions[x] : cameras \ {id} \in subscriptions'[x]
      BY <1>8, <2>1
    <3> QED  BY <3>1 DEF ShouldSubscribe
  <2> QED  BY <1>5, <1>6, <1>7, <2>1, <2>2, <2>3 DEF WillBeServed
<1>20. WillBeOffered'
  BY <1>1, <1>2, <1>3, <1>4 DEF WillBeOffered
<1> QED  BY <1>13, <1>14, <1>15, <1>16, <1>17, <1>18, <1>19, <1>20

\* Subscribe: what is wished for and published is planned for.
LEMMA SubscribeStep ==
  ASSUME NEW id \in Participants, NEW cameras \in SUBSET Participants,
         RouterInv, SetVideoSubscriptions(id, cameras)
  PROVE  RouterInv'
<1> DEFINE Wanted(p) == p.role = "camera" => p.source \in cameras
           chosen == {p \in pubs : p.source # id /\ Wanted(p)}
           gone == {t \in targets : t.to = id /\ ~Wanted(t.pub)}
           link == peers[id]
           ops == Removals(gone) \union Additions(chosen, id, link)
<1> USE DEF RouterInv
<1>0. /\ id \in Goroutines /\ gone \in SUBSET targets /\ chosen \in SUBSET Pubs /\ Types
      /\ link \in Nat \ {0}
  BY Typing DEF Goroutines, SetVideoSubscriptions, Registered
<1>1. /\ Removals(gone) \in SUBSET Operations
      /\ \A op \in Removals(gone) :
           /\ ~op.add /\ op.link = peers[op.to] /\ op.sender.to = op.to /\ op.sender.link <= op.link
           /\ \E t \in gone : t.pub = op.pub /\ t.to = op.to /\ t.sender = op.sender
      /\ \A t \in gone : \E op \in Removals(gone) : op.sender = t.sender /\ op.to = t.to
      /\ \A op, other \in Removals(gone) : op.sender = other.sender => op = other
  <2> HIDE DEF gone
  <2> QED  BY <1>0, RemovalsAreOperations
<1>2. /\ Additions(chosen, id, link) \in SUBSET Operations
      /\ \A op \in Additions(chosen, id, link) :
           /\ op.add /\ op.link = link /\ op.to = id /\ op.sender.to = id /\ op.sender.link = link
           /\ op.pub \in chosen /\ op.pub.source # id /\ ~Served(op.pub, id)
      /\ \A media \in chosen : media.source # id /\ ~Served(media, id)
           => \E op \in Additions(chosen, id, link) : op.pub = media
  <2> HIDE DEF chosen, link, RouterInv
  <2> QED  BY <1>0, AdditionsAreOperations
<1>3. /\ asked' = [asked EXCEPT ![id] = {cameras}]
      /\ subscriptions' = [subscriptions EXCEPT ![id] = {cameras}]
      /\ targets' = targets \ gone
      /\ UNCHANGED <<setup, peers, links, returned, pubs, sending, stale>>
      /\ Decide(id, ops)
      /\ Free(id) /\ id \in Registered
  <2>1. {p \in {q \in pubs : q.source # id} : Wanted(p)} = chosen
    OBVIOUS
  <2> QED  BY <2>1 DEF SetVideoSubscriptions, pionVars
<1>4. /\ call' \in [Goroutines -> Calls]
      /\ call'[id].ops = ops /\ call'[id].adding = {}
      /\ call'[id].offers = {<<op.to, op.link>> : op \in ops}
      /\ \A h \in Goroutines \ {id} : call'[h] = call[h]
  <2>1. ops \in SUBSET Operations
    BY <1>1, <1>2
  <2> HIDE DEF ops
  <2> QED  BY <1>0, <1>3, <2>1, Decided
<1>5. call[id].ops = {} /\ call[id].adding = {} /\ call[id].offers = {}
  BY <1>3 DEF Free, NoCall
<1>6. /\ Held(id)' = Removals(gone) /\ Held(id) = {}
      /\ Pending(id)' = Additions(chosen, id, link) /\ Pending(id) = {}
  BY <1>1, <1>2, <1>4, <1>5 DEF Held, Pending
<1>7. \A h \in Goroutines \ {id} : Held(h)' = Held(h) /\ Pending(h)' = Pending(h)
  BY <1>4 DEF Held, Pending
<1>8. /\ subscriptions'[id] = {cameras} /\ asked'[id] = {cameras}
      /\ \A x \in Participants \ {id} : subscriptions'[x] = subscriptions[x] /\ asked'[x] = asked[x]
  BY <1>3 DEF Types, RouterTypeOK
<1>9. \A t \in targets : t \in gone <=> t.to = id /\ ~Wanted(t.pub)
  OBVIOUS
<1> HIDE DEF gone
<1>10. Types'
  <2>1. /\ Calls' = Calls /\ Publications' = Publications /\ Senders' = Senders
        /\ Registered' = Registered
    BY <1>3 DEF Calls, Operations, Pubs, AllSenders, Publications, Senders, Registered
  <2>2. /\ asked' \in [Participants -> SUBSET SUBSET Participants]
        /\ subscriptions' \in [Participants -> SUBSET SUBSET Participants]
    BY <1>3 DEF Types, RouterTypeOK
  <2>3. targets' \subseteq [pub : pubs', to : Registered', sender : Senders]
    BY <1>3, <2>1 DEF Types, RouterTypeOK
  <2> QED  BY <1>3, <1>4, <2>1, <2>2, <2>3 DEF Types, RouterTypeOK
<1>11. Numbered'
  <2>1. \A op \in ops : op.sender.to = op.to /\ op.sender.link <= op.link /\ op.link <= links[op.to]
    BY <1>0, <1>1, <1>2, Typing
  <2>2. \A x \in Participants : peers[x] = 0 => x # id
    BY <1>3 DEF Registered
  <2> HIDE DEF ops
  <2> QED  BY <1>3, <1>4, <1>8, <2>1, <2>2 DEF Numbered
<1>12. Alive'
  BY <1>0, <1>1, <1>3, <1>6, <1>7 DEF Alive
<1>13. OneHolder'
  BY <1>0, <1>1, <1>3, <1>6, <1>7 DEF OneHolder
<1>14. NoneForgotten'
  BY <1>0, <1>1, <1>3, <1>6, <1>7 DEF NoneForgotten
<1>15. Keyed'
  <2>1. \A t \in targets' : ShouldSubscribe(t.pub, t.to)'
    BY <1>3, <1>8, <1>9, Typing DEF Keyed, ShouldSubscribe, Registered
  <2> QED  BY <1>3, <2>1 DEF Keyed, Key
<1>16. WillBeServed'
  <2> SUFFICES ASSUME NEW media \in pubs', NEW x \in Registered', ShouldSubscribe(media, x)', ~Served(media, x)'
               PROVE  \E g \in Goroutines : \E op \in Pending(g)' :
                        op.pub = media /\ op.to = x /\ op.link = peers'[x]
    BY DEF WillBeServed
  <2>1. media \in pubs /\ x \in Registered /\ x \in Participants
    BY <1>3 DEF Registered
  <2>2. CASE x = id
    <3>1. media \in chosen
      BY <1>8, <2>1, <2>2 DEF ShouldSubscribe
    <3>2. ~Served(media, id)
      BY <1>3, <1>9, <2>2, <3>1 DEF Served
    <3> QED  BY <1>0, <1>2, <1>3, <1>6, <2>2, <3>1, <3>2
  <2>3. CASE x # id
    <3>1. ShouldSubscribe(media, x) /\ ~Served(media, x)
      BY <1>3, <1>8, <1>9, <2>1, <2>3 DEF ShouldSubscribe, Served
    <3> QED  BY <1>3, <1>6, <1>7, <2>1, <3>1 DEF WillBeServed
  <2> QED  BY <2>2, <2>3
<1>17. WillBeOffered'
  <2> HIDE DEF ops
  <2> QED  BY <1>3, <1>4, <1>5 DEF WillBeOffered
<1> QED  BY <1>10, <1>11, <1>12, <1>13, <1>14, <1>15, <1>16, <1>17

\* OnTrack: the publication is planned for every target that wishes for it.
LEMMA PublishStep ==
  ASSUME NEW source \in Publishers, NEW role \in setup.roles, NEW n \in FreeTracks,
         RouterInv, Publish(source, role, n)
  PROVE  RouterInv'
<1> DEFINE media == [source |-> source, role |-> role, n |-> n]
           replaced == {p \in pubs : Key(p) = Key(media)}
           before == TargetsOf(replaced)
           Moved(t) == [t EXCEPT !.pub = media]
           New(moved) == UNION {Additions({media}, id, peers[id]) : id \in Registered \ {t.to : t \in moved}}
<1> USE DEF RouterInv
<1>1. PICK moved \in SUBSET before :
        /\ targets' = (targets \ before) \union {Moved(t) : t \in moved}
        /\ Decide(n, Removals(before \ moved) \union New(moved))
  BY DEF Publish
<1>2. /\ pubs' = (pubs \ replaced) \union {media}
      /\ UNCHANGED <<setup, peers, links, subscriptions, asked, returned, sending, stale>>
  BY DEF Publish, peerVars, pionVars
<1> DEFINE gone == before \ moved
           reached == {t.to : t \in moved}
           new == New(moved)
           ops == Removals(gone) \union new
<1>3. /\ n \in Goroutines /\ n \in 1..MaxPubs /\ source \in Participants /\ media \in Pubs /\ Free(n)
      /\ \A p \in pubs : p.n # n
      /\ \A g \in Goroutines : \A op \in call[g].ops \union call[g].adding : op.pub.n # n
  BY PublishersTakePart DEF FreeTracks, Goroutines, Pubs
<1>4. /\ media \notin pubs /\ Key(media) = <<source, role>> /\ media.source = source /\ media.role = role
      /\ \A t \in targets : t.pub # media
      /\ \A p, q \in replaced : p = q
      /\ replaced \subseteq pubs /\ gone \in SUBSET targets /\ moved \in SUBSET targets
  BY <1>3, Typing DEF TargetsOf, Keyed, Key
<1>5. /\ \A t \in targets : t \in before <=> t.pub \in replaced
      /\ before \subseteq targets
  BY DEF TargetsOf
<1>6. \A t \in targets : Moved(t).pub = media /\ Moved(t).to = t.to /\ Moved(t).sender = t.sender
  BY DEF Types, RouterTypeOK
<1>7. /\ Removals(gone) \in SUBSET Operations
      /\ \A op \in Removals(gone) :
           /\ ~op.add /\ op.link = peers[op.to] /\ op.sender.to = op.to /\ op.sender.link <= op.link
           /\ \E t \in gone : t.pub = op.pub /\ t.to = op.to /\ t.sender = op.sender
      /\ \A t \in gone : \E op \in Removals(gone) : op.sender = t.sender /\ op.to = t.to
      /\ \A op, other \in Removals(gone) : op.sender = other.sender => op = other
  <2> HIDE DEF gone
  <2> QED  BY <1>4, RemovalsAreOperations
<1> HIDE DEF media, replaced, gone, before
<1>8. ASSUME NEW id \in Registered
      PROVE  /\ Additions({media}, id, peers[id]) \in SUBSET Operations
             /\ \A op \in Additions({media}, id, peers[id]) :
                  /\ op.add /\ op.link = peers[id] /\ op.to = id /\ op.sender.to = id
                  /\ op.sender.link = peers[id]
                  /\ op.pub \in {media} /\ op.pub.source # id /\ ~Served(op.pub, id)
             /\ \A p \in {media} : p.source # id /\ ~Served(p, id)
                  => \E op \in Additions({media}, id, peers[id]) : op.pub = p
  <2>1. {media} \in SUBSET Pubs /\ id \in Participants /\ peers[id] \in Nat \ {0} /\ Types
    BY <1>3, Typing DEF Registered
  <2> HIDE DEF RouterInv
  <2> QED  BY <2>1, AdditionsAreOperations
<1>9. /\ new \in SUBSET Operations
      /\ \A op \in new : /\ op.add /\ op.link = peers[op.to] /\ op.sender.to = op.to
                         /\ op.sender.link = op.link /\ op.pub = media /\ op.to \in Registered
      /\ \A id \in Registered \ reached : source # id =>
           \E op \in new : op.pub = media /\ op.to = id /\ op.link = peers[id]
  <2>1. \A id \in Registered : ~Served(media, id)
    BY <1>4 DEF Served
  <2>3. \A op \in new : \E id \in Registered : op \in Additions({media}, id, peers[id])
    OBVIOUS
  <2>4. \A id \in Registered \ reached : \A op \in Additions({media}, id, peers[id]) : op \in new
    OBVIOUS
  <2> HIDE DEF new, New, reached
  <2>2. new \in SUBSET Operations
    <3>1. ASSUME NEW id \in Registered, NEW op \in Additions({media}, id, peers[id])
          PROVE  op \in Operations
      <4>1. Additions({media}, id, peers[id]) \in SUBSET Operations
        BY <1>8
      <4> QED  BY <3>1, <4>1, Zenon
    <3>2. \A op \in new : op \in Operations
      BY <2>3, <3>1, Zenon
    <3> QED  BY <3>2, Zenon
  <2>5. ASSUME NEW op \in new
        PROVE  /\ op.add /\ op.link = peers[op.to] /\ op.sender.to = op.to
               /\ op.sender.link = op.link /\ op.pub = media /\ op.to \in Registered
    <3>1. PICK id \in Registered : op \in Additions({media}, id, peers[id])
      BY <2>3
    <3>2. /\ op.add /\ op.link = peers[id] /\ op.to = id /\ op.sender.to = id
          /\ op.sender.link = peers[id] /\ op.pub \in {media}
      BY <1>8, <3>1, ZenonT(30)
    <3> QED  BY <3>2
  <2>6. ASSUME NEW id \in Registered \ reached, source # id
        PROVE  \E op \in new : op.pub = media /\ op.to = id /\ op.link = peers[id]
    <3>1. \E op \in Additions({media}, id, peers[id]) : op.pub = media
      BY <1>4, <1>8, <2>1, <2>6
    <3>2. PICK op \in Additions({media}, id, peers[id]) : op.pub = media
      BY <3>1, Zenon
    <3>3. op.link = peers[id] /\ op.to = id
      BY <1>8, <3>2, SMTT(30)
    <3>4. op \in new
      BY <2>4, <3>2, Zenon
    <3> QED  BY <3>2, <3>3, <3>4, Zenon
  <2> QED  BY <2>2, <2>5, <2>6
<1> HIDE DEF new, New
<1>10. /\ call' \in [Goroutines -> Calls]
       /\ call'[n].ops = ops /\ call'[n].adding = {}
       /\ call'[n].offers = {<<op.to, op.link>> : op \in ops}
       /\ \A h \in Goroutines \ {n} : call'[h] = call[h]
  <2>1. ops \in SUBSET Operations /\ Decide(n, ops) /\ Types
    BY <1>1, <1>7, <1>9 DEF gone, new
  <2> HIDE DEF ops, RouterInv
  <2> QED  BY <1>2, <1>3, <2>1, Decided
<1>11. call[n].ops = {} /\ call[n].adding = {} /\ call[n].offers = {}
  BY <1>3 DEF Free, NoCall
<1>12. /\ Held(n)' = Removals(gone) /\ Held(n) = {}
       /\ Pending(n)' = new /\ Pending(n) = {}
  BY <1>7, <1>9, <1>10, <1>11 DEF Held, Pending
<1>13. \A h \in Goroutines \ {n} : Held(h)' = Held(h) /\ Pending(h)' = Pending(h)
  BY <1>10 DEF Held, Pending
\* A target is one of before, and so is its sender's holder.
<1>14. /\ \A u \in targets' : \E t \in targets :
            /\ u.sender = t.sender /\ u.to = t.to
            /\ \/ u = t /\ t \notin before
               \/ u = Moved(t) /\ u.pub = media /\ t \in moved
       /\ \A t \in targets : t \notin before => t \in targets'
       /\ \A t \in moved : Moved(t) \in targets' /\ Moved(t).sender = t.sender
                           /\ Moved(t).to = t.to /\ Moved(t).pub = media
       /\ \A t \in targets : t \in before => t \in gone \/ t \in moved
       /\ \A t \in gone : t \notin moved /\ t \in before
       /\ \A t \in moved : t \in before
  <2> HIDE DEF Moved
  <2> QED  BY <1>1, <1>4, <1>6 DEF gone
<1> HIDE DEF Moved, ops
<1>15. Types'
  <2>1. /\ Calls' = Calls /\ Publications' = Publications /\ Senders' = Senders
        /\ Registered' = Registered
    BY <1>2 DEF Calls, Operations, Pubs, AllSenders, Publications, Senders, Registered
  <2>2. pubs' \subseteq Publications
    BY <1>2, <1>3 DEF Types, RouterTypeOK, Pubs, Publications
  <2>3. targets' \subseteq [pub : pubs', to : Registered', sender : Senders]
    <3>1. targets \subseteq [pub : pubs, to : Registered, sender : Senders]
      BY DEF Types, RouterTypeOK
    <3>2. \A t \in targets \ before : t \in [pub : pubs', to : Registered', sender : Senders]
      BY <1>2, <1>5, <2>1, <3>1
    <3>3. \A t \in moved : Moved(t) \in [pub : pubs', to : Registered', sender : Senders]
      BY <1>2, <1>4, <2>1, <3>1 DEF Moved
    <3> QED  BY <1>1, <3>2, <3>3
  <2> QED  BY <1>2, <1>10, <2>1, <2>2, <2>3 DEF Types, RouterTypeOK
<1>16. Numbered'
  <2>1. \A op \in ops : op.sender.to = op.to /\ op.sender.link <= op.link /\ op.link <= links[op.to]
    BY <1>7, <1>9, Typing DEF ops
  <2>2. \A u \in targets' : u.sender.to = u.to /\ u.sender.link <= links[u.to]
    BY <1>14 DEF Numbered
  <2> QED  BY <1>2, <1>10, <2>1, <2>2 DEF Numbered
<1>17. Alive'
  BY <1>2, <1>7, <1>4, <1>12, <1>13, <1>14 DEF Alive
<1>18. OneHolder'
  <2>1. \A t, u \in targets' : t.sender = u.sender => t = u
    BY <1>14 DEF OneHolder
  <2>2. \A u \in targets' : \A op \in Removals(gone) : op.sender # u.sender
    BY <1>4, <1>7, <1>14 DEF OneHolder
  <2> QED  BY <1>4, <1>7, <1>12, <1>13, <1>14, <2>1, <2>2 DEF OneHolder
<1>19. NoneForgotten'
  <2>1. ASSUME NEW t \in targets
        PROVE  (\E u \in targets' : u.sender = t.sender) \/ (\E op \in Removals(gone) : op.sender = t.sender)
    BY <1>7, <1>14
  <2> QED  BY <1>2, <1>3, <1>12, <1>13, <2>1 DEF NoneForgotten
<1>20. Keyed'
  <2>1. \A p, q \in pubs' : Key(p) = Key(q) => p = q
    BY <1>2 DEF Keyed, Key, replaced
  <2>2. \A t, u \in moved : t.to = u.to => t = u
    BY <1>4, <1>5, <1>14 DEF Keyed
  <2>3. \A t, u \in targets' : t.pub = u.pub /\ t.to = u.to => t = u
    BY <1>4, <1>14, <2>2 DEF Keyed
  <2>4. \A t \in moved : ShouldSubscribe(media, t.to)
    BY <1>4, <1>5, <1>14 DEF Keyed, ShouldSubscribe, replaced, Key
  <2>5. \A t \in targets' : ShouldSubscribe(t.pub, t.to)
    BY <1>14, <2>4 DEF Keyed
  <2> QED  BY <1>2, <2>1, <2>3, <2>5 DEF Keyed, ShouldSubscribe, Key
<1>21. WillBeServed'
  <2> SUFFICES ASSUME NEW p \in pubs', NEW x \in Registered', ShouldSubscribe(p, x)', ~Served(p, x)'
               PROVE  \E g \in Goroutines : \E op \in Pending(g)' :
                        op.pub = p /\ op.to = x /\ op.link = peers'[x]
    BY DEF WillBeServed
  <2>1. x \in Registered /\ x \in Participants /\ ShouldSubscribe(p, x)
    BY <1>2 DEF Registered, ShouldSubscribe
  <2>2. CASE p = media
    <3>1. x \notin reached
      BY <1>14, <2>2 DEF Served
    <3>2. source # x
      BY <1>4, <2>1, <2>2 DEF ShouldSubscribe
    <3> QED  BY <1>2, <1>3, <1>9, <1>12, <2>1, <2>2, <3>1, <3>2
  <2>3. CASE p # media
    <3>1. p \in pubs \ replaced
      BY <1>2, <2>3
    <3>2. ~Served(p, x)
      BY <1>5, <1>14, <3>1 DEF Served
    <3> QED  BY <1>2, <1>12, <1>13, <2>1, <3>1, <3>2 DEF WillBeServed
  <2> QED  BY <2>2, <2>3
<1>22. WillBeOffered'
  BY <1>2, <1>10, <1>11 DEF WillBeOffered
<1> QED  BY <1>15, <1>16, <1>17, <1>18, <1>19, <1>20, <1>21, <1>22

\* AddTrack: the goroutine holds the sender that it has just made.
LEMMA AddTrackStep ==
  ASSUME NEW g \in Goroutines, NEW op \in call[g].ops, RouterInv, AddTrack(g, op)
  PROVE  RouterInv'
<1> USE DEF RouterInv
<1>1. /\ op.add /\ call[g].adding = {} /\ op \in Operations
      /\ UNCHANGED <<setup, peers, links, subscriptions, asked, returned, pubs, targets>>
  BY Typing DEF AddTrack, NextOps, peerVars
<1>2. CASE /\ op.link # peers[op.to]
           /\ call' = [call EXCEPT ![g].ops = @ \ {op}]
           /\ UNCHANGED <<sending, stale>>
  <2>1. /\ call'[g].ops = call[g].ops \ {op} /\ call'[g].adding = {}
        /\ call'[g].offers = call[g].offers
        /\ \A h \in Goroutines \ {g} : call'[h] = call[h]
    BY <1>1, <1>2 DEF Types, Calls
  <2>2. /\ Held(g)' = Held(g) /\ Pending(g)' = Pending(g) \ {op}
        /\ \A h \in Goroutines \ {g} : Held(h)' = Held(h) /\ Pending(h)' = Pending(h)
    BY <1>1, <2>1 DEF Held, Pending
  <2>3. Types'
    <3>1. /\ Calls' = Calls /\ Publications' = Publications /\ Senders' = Senders
          /\ Registered' = Registered
      BY <1>1 DEF Calls, Operations, Pubs, AllSenders, Publications, Senders, Registered
    <3>2. call' \in [Goroutines -> Calls]
      BY <1>2 DEF Types, Calls
    <3> QED  BY <1>1, <1>2, <3>1, <3>2 DEF Types, RouterTypeOK
  <2>4. Numbered' /\ Alive' /\ OneHolder' /\ NoneForgotten'
    BY <1>1, <1>2, <2>1, <2>2 DEF Numbered, Alive, OneHolder, NoneForgotten
  <2>5. Keyed'
    BY <1>1 DEF Keyed, Key, ShouldSubscribe
  <2>6. WillBeServed'
    BY <1>1, <1>2, <2>2 DEF WillBeServed, ShouldSubscribe, Served, Registered
  <2>7. WillBeOffered'
    BY <1>1, <1>2, <2>1 DEF WillBeOffered
  <2> QED  BY <2>3, <2>4, <2>5, <2>6, <2>7
<1>3. ASSUME NEW n \in 1..MaxSenders,
             op.link = peers[op.to],
             Fresh(n),
             sending' = sending \union {[n |-> n, to |-> op.to, link |-> op.link]},
             call' = [call EXCEPT ![g].ops = @ \ {op},
                                  ![g].adding = {[op EXCEPT !.sender = [n |-> n, to |-> op.to, link |-> op.link]]}],
             stale' = stale \union {<<op.to, op.link>>}
      PROVE  RouterInv'
  <2> DEFINE sender == [n |-> n, to |-> op.to, link |-> op.link]
             held == [op EXCEPT !.sender = sender]
  <2>1. /\ sender \in Senders /\ sender \in AllSenders /\ sender.n = n
        /\ sender.to = op.to /\ sender.link = op.link
    BY <1>1, Typing DEF Operations, Senders, AllSenders
  <2>2. /\ held \in Operations /\ held.add /\ held.pub = op.pub /\ held.to = op.to
        /\ held.link = op.link /\ held.sender = sender
    BY <1>1, <2>1 DEF Operations
  <2> HIDE DEF sender, held
  <2>3. /\ call'[g].ops = call[g].ops \ {op} /\ call'[g].adding = {held}
        /\ call'[g].offers = call[g].offers
        /\ \A h \in Goroutines \ {g} : call'[h] = call[h]
    BY <1>3 DEF Types, Calls, held, sender
  <2>4. /\ Held(g)' = Held(g) \union {held} /\ Pending(g)' = (Pending(g) \ {op}) \union {held}
        /\ \A h \in Goroutines \ {g} : Held(h)' = Held(h) /\ Pending(h)' = Pending(h)
    BY <1>1, <2>2, <2>3 DEF Held, Pending
  \* The number is not in use, on this connection or in a target.
  <2>5. /\ \A s \in sending : s # sender
        /\ \A t \in targets : t.sender # sender
        /\ \A h \in Goroutines : \A other \in Held(h) : other.sender # sender
    <3>1. /\ \A s \in sending : s # sender
          /\ \A t \in targets : t.sender # sender
      BY <1>3, <2>1 DEF Fresh
    <3>2. \A h \in Goroutines : \A other \in Held(h) : other.sender.to = other.to
      BY DEF Held, Numbered
    <3> QED  BY <1>3, <2>1, <3>1, <3>2 DEF Alive
  <2>6. Types'
    <3>1. /\ Calls' = Calls /\ Publications' = Publications /\ Senders' = Senders
          /\ Registered' = Registered
      BY <1>1 DEF Calls, Operations, Pubs, AllSenders, Publications, Senders, Registered
    <3>2. call' \in [Goroutines -> Calls]
      <4>1. call' = [call EXCEPT ![g].ops = @ \ {op}, ![g].adding = {held}]
        BY <1>3 DEF held, sender
      <4> QED  BY <2>2, <4>1, ZenonT(30) DEF Types, Calls
    <3>3. stale' \subseteq {<<id, peers[id]>> : id \in Registered}
      <4>1. op.to \in Registered
        BY <1>1, <1>3, Typing DEF Operations, Registered
      <4> QED  BY <1>3, <4>1 DEF Types, RouterTypeOK
    <3>4. sending' \subseteq {s \in Senders : s.link = peers[s.to]}
      BY <1>3, <2>1 DEF Types, RouterTypeOK, sender
    <3> QED  BY <1>1, <3>1, <3>2, <3>3, <3>4 DEF Types, RouterTypeOK
  <2>7. Numbered'
    BY <1>1, <2>1, <2>2, <2>3, Typing DEF Numbered
  <2>8. sending' = sending \union {sender}
    BY <1>3 DEF sender
  <2>9. Alive'
    BY <1>1, <2>2, <2>4, <2>8 DEF Alive
  <2>10. OneHolder'
    BY <1>1, <2>2, <2>4, <2>5 DEF OneHolder
  <2>11. NoneForgotten'
    BY <1>1, <2>2, <2>4, <2>8 DEF NoneForgotten
  <2>12. Keyed'
    BY <1>1 DEF Keyed, Key, ShouldSubscribe
  <2>13. WillBeServed'
    BY <1>1, <2>2, <2>4 DEF WillBeServed, ShouldSubscribe, Served, Registered
  <2>14. WillBeOffered'
    <3>1. <<op.to, op.link>> \in call'[g].offers
      BY <2>3 DEF WillBeOffered
    <3>2. \A c \in stale' : \E h \in Goroutines : c \in call'[h].offers
      BY <1>3, <2>3, <3>1 DEF WillBeOffered
    <3>3. \A other \in call'[g].ops \union call'[g].adding : <<other.to, other.link>> \in call'[g].offers
      BY <2>2, <2>3, <3>1 DEF WillBeOffered
    <3> QED  BY <2>3, <3>2, <3>3 DEF WillBeOffered
  <2> QED  BY <2>6, <2>7, <2>9, <2>10, <2>11, <2>12, <2>13, <2>14
<1> QED  BY <1>2, <1>3 DEF AddTrack, pionVars

\* RemoveTrack: whoever removes a sender is its only holder.
LEMMA RemoveTrackStep ==
  ASSUME NEW g \in Goroutines, NEW op \in call[g].ops, RouterInv, RemoveTrack(g, op)
  PROVE  RouterInv'
<1> USE DEF RouterInv
<1>1. /\ ~op.add /\ op \in Held(g) /\ op \in Operations /\ op.sender.to = op.to
      /\ op.sender.link <= op.link /\ op.link <= links[op.to]
      /\ UNCHANGED <<setup, peers, links, subscriptions, asked, returned, pubs, targets>>
      /\ call' = [call EXCEPT ![g].ops = @ \ {op}]
      /\ sending' = sending \ {op.sender}
      /\ stale' = IF op.sender \in sending THEN stale \union {<<op.to, op.link>>} ELSE stale
  BY Typing DEF RemoveTrack, Held, Numbered, peerVars, pionVars
<1>2. /\ call'[g].ops = call[g].ops \ {op} /\ call'[g].adding = call[g].adding
      /\ call'[g].offers = call[g].offers
      /\ \A h \in Goroutines \ {g} : call'[h] = call[h]
  BY <1>1 DEF Types, Calls
<1>3. /\ Held(g)' = Held(g) \ {op} /\ Pending(g)' = Pending(g)
      /\ \A h \in Goroutines \ {g} : Held(h)' = Held(h) /\ Pending(h)' = Pending(h)
  BY <1>1, <1>2 DEF Held, Pending, Numbered
<1>4. op.sender \in sending => op.link = peers[op.to] /\ op.to \in Registered
  BY <1>1, Typing DEF Types, RouterTypeOK, Operations, AllSenders, Senders, Registered
<1>5. Types'
  <2>1. /\ Calls' = Calls /\ Publications' = Publications /\ Senders' = Senders
        /\ Registered' = Registered
    BY <1>1 DEF Calls, Operations, Pubs, AllSenders, Publications, Senders, Registered
  <2>2. call' \in [Goroutines -> Calls]
    BY <1>1 DEF Types, Calls
  <2>3. stale' \subseteq {<<id, peers[id]>> : id \in Registered}
    BY <1>1, <1>4 DEF Types, RouterTypeOK
  <2> QED  BY <1>1, <2>1, <2>2, <2>3 DEF Types, RouterTypeOK
<1>6. Numbered'
  BY <1>1, <1>2 DEF Numbered
<1>7. Alive' /\ OneHolder' /\ NoneForgotten'
  BY <1>1, <1>3 DEF Alive, OneHolder, NoneForgotten
<1>8. Keyed'
  BY <1>1 DEF Keyed, Key, ShouldSubscribe
<1>9. WillBeServed'
  BY <1>1, <1>3 DEF WillBeServed, ShouldSubscribe, Served, Registered
<1>10. WillBeOffered'
  BY <1>1, <1>2 DEF WillBeOffered
<1> QED  BY <1>5, <1>6, <1>7, <1>8, <1>9, <1>10

\* The second look under the lock: the sender goes to a target, or is removed.
LEMMA InstallStep ==
  ASSUME NEW g \in Goroutines, NEW op \in call[g].adding, RouterInv, Install(g, op)
  PROVE  RouterInv'
<1> USE DEF RouterInv
<1>1. /\ UNCHANGED <<setup, peers, links, subscriptions, asked, returned, pubs, sending, stale>>
      /\ op \in Operations /\ op.add /\ op.sender.to = op.to /\ op.sender.link = op.link
      /\ op.link <= links[op.to] /\ call[g].adding = {op} /\ op \in Held(g)
  BY Typing DEF Install, peerVars, pionVars, Numbered, Held
<1>2. /\ Calls' = Calls /\ Publications' = Publications /\ Senders' = Senders
      /\ Registered' = Registered
  BY <1>1 DEF Calls, Operations, Pubs, AllSenders, Publications, Senders, Registered
<1>3. CASE Valid(op)
  <2> DEFINE target == [pub |-> op.pub, to |-> op.to, sender |-> op.sender]
  <2>1. target.pub = op.pub /\ target.to = op.to /\ target.sender = op.sender
    OBVIOUS
  <2>2. targets' = targets \union {target} /\ call' = [call EXCEPT ![g].adding = {}]
    BY <1>3 DEF Install
  <2>3. /\ call'[g].ops = call[g].ops /\ call'[g].adding = {} /\ call'[g].offers = call[g].offers
        /\ \A h \in Goroutines \ {g} : call'[h] = call[h]
    BY <2>2 DEF Types, Calls
  <2>4. /\ Held(g)' = Held(g) \ {op}
        /\ \A other \in Pending(g) : other # op => other \in Pending(g)'
        /\ \A h \in Goroutines \ {g} : Held(h)' = Held(h) /\ Pending(h)' = Pending(h)
    BY <1>1, <2>3 DEF Held, Pending
  <2>5. Types'
    <3>1. call' \in [Goroutines -> Calls]
      BY <2>2 DEF Types, Calls
    <3>2. target \in [pub : pubs, to : Registered, sender : Senders]
      BY <1>1, <1>3, Typing DEF Valid, Alive, Types, RouterTypeOK, Operations, Registered
    <3>3. targets' \subseteq [pub : pubs', to : Registered', sender : Senders]
      BY <1>1, <1>2, <2>2, <3>2 DEF Types, RouterTypeOK
    <3> QED  BY <1>1, <1>2, <2>2, <3>1, <3>3 DEF Types, RouterTypeOK
  <2> HIDE DEF target
  <2>6. Numbered'
    BY <1>1, <2>1, <2>2, <2>3 DEF Numbered
  <2>7. Alive' /\ NoneForgotten'
    BY <1>1, <2>1, <2>2, <2>4 DEF Alive, NoneForgotten
  <2>8. OneHolder'
    BY <1>1, <2>1, <2>2, <2>4 DEF OneHolder
  <2>9. Keyed'
    BY <1>1, <1>3, <2>1, <2>2 DEF Keyed, Key, ShouldSubscribe, Valid, Served
  <2>10. WillBeServed'
    BY <1>1, <2>1, <2>2, <2>4 DEF WillBeServed, ShouldSubscribe, Served, Registered
  <2>11. WillBeOffered'
    BY <1>1, <2>3 DEF WillBeOffered
  <2> QED  BY <2>5, <2>6, <2>7, <2>8, <2>9, <2>10, <2>11
<1>4. CASE ~Valid(op)
  <2> DEFINE removal == [op EXCEPT !.add = FALSE]
  <2>1. /\ removal \in Operations /\ ~removal.add /\ removal.pub = op.pub /\ removal.to = op.to
        /\ removal.link = op.link /\ removal.sender = op.sender
    BY <1>1 DEF Operations
  <2>2. UNCHANGED targets /\ call' = [call EXCEPT ![g].adding = {}, ![g].ops = @ \union {removal}]
    BY <1>4 DEF Install
  <2> HIDE DEF removal
  <2>3. /\ call'[g].ops = call[g].ops \union {removal} /\ call'[g].adding = {}
        /\ call'[g].offers = call[g].offers
        /\ \A h \in Goroutines \ {g} : call'[h] = call[h]
    BY <2>2 DEF Types, Calls
  <2>4. /\ Held(g)' = (Held(g) \ {op}) \union {removal}
        /\ \A other \in Pending(g) : other # op => other \in Pending(g)'
        /\ \A h \in Goroutines \ {g} : Held(h)' = Held(h) /\ Pending(h)' = Pending(h)
    BY <1>1, <2>1, <2>3 DEF Held, Pending
  <2>5. Types'
    <3>1. call' \in [Goroutines -> Calls]
      BY <2>1, <2>2, ZenonT(30) DEF Types, Calls
    <3> QED  BY <1>1, <1>2, <2>2, <3>1 DEF Types, RouterTypeOK
  <2>6. Numbered'
    <3>1. removal.sender.to = removal.to /\ removal.sender.link <= removal.link /\ removal.link <= links[removal.to]
      BY <1>1, <2>1 DEF Numbered
    <3>2. \A h \in Goroutines : \A other \in call'[h].ops \union call'[h].adding :
            other = removal \/ other \in call[h].ops \union call[h].adding
      BY <2>3
    <3>3. \A h \in Goroutines : \A other \in call'[h].ops \union call'[h].adding :
            other.sender.to = other.to /\ other.sender.link <= other.link /\ other.link <= links[other.to]
      BY <3>1, <3>2 DEF Numbered
    <3>4. \A h \in Goroutines : call'[h].adding \subseteq call[h].adding
      BY <2>3
    <3>5. \A h \in Goroutines : \A other, another \in call'[h].adding :
            other.add /\ other.sender.link = other.link /\ other = another
      BY <3>4 DEF Numbered
    <3>6. UNCHANGED <<links, peers, subscriptions, asked, targets>>
      BY <1>1, <2>2
    <3> QED  BY <3>3, <3>5, <3>6 DEF Numbered
  <2>7. Alive' /\ NoneForgotten'
    BY <1>1, <2>1, <2>2, <2>4 DEF Alive, NoneForgotten
  <2>8. OneHolder'
    BY <1>1, <2>1, <2>2, <2>4 DEF OneHolder
  <2>9. Keyed'
    BY <1>1, <2>2 DEF Keyed, Key, ShouldSubscribe
  <2>10. WillBeServed'
    BY <1>1, <1>4, <2>2, <2>4 DEF WillBeServed, ShouldSubscribe, Served, Registered, Valid
  <2>11. WillBeOffered'
    BY <1>1, <2>1, <2>3 DEF WillBeOffered
  <2> QED  BY <2>5, <2>6, <2>7, <2>8, <2>9, <2>10, <2>11
<1> QED  BY <1>3, <1>4

\* An offer of a target leaves the senders as they are.
LEMMA OfferStep ==
  ASSUME NEW g \in Goroutines, RouterInv, Offer(g)
  PROVE  RouterInv'
<1> USE DEF RouterInv
<1>1. /\ call[g].ops = {} /\ call[g].adding = {} /\ call' = [call EXCEPT ![g] = NoCall]
      /\ stale' = stale \ call[g].offers
      /\ UNCHANGED <<setup, peers, links, subscriptions, asked, returned, pubs, targets, sending>>
  BY DEF Offer, peerVars
<1>2. /\ call'[g].ops = {} /\ call'[g].adding = {} /\ call'[g].offers = {}
      /\ \A h \in Goroutines \ {g} : call'[h] = call[h]
  BY <1>1 DEF Types, NoCall
<1>3. /\ Held(g) = {} /\ Held(g)' = {} /\ Pending(g) = {} /\ Pending(g)' = {}
      /\ \A h \in Goroutines \ {g} : Held(h)' = Held(h) /\ Pending(h)' = Pending(h)
  BY <1>1, <1>2 DEF Held, Pending
<1>4. Types'
  <2>1. /\ Calls' = Calls /\ Publications' = Publications /\ Senders' = Senders
        /\ Registered' = Registered
    BY <1>1 DEF Calls, Operations, Pubs, AllSenders, Publications, Senders, Registered
  <2>2. call' \in [Goroutines -> Calls]
    BY <1>1 DEF Types, Calls, NoCall
  <2> QED  BY <1>1, <2>1, <2>2 DEF Types, RouterTypeOK
<1>5. Numbered' /\ Alive' /\ OneHolder' /\ NoneForgotten'
  BY <1>1, <1>2, <1>3 DEF Numbered, Alive, OneHolder, NoneForgotten
<1>6. Keyed'
  BY <1>1 DEF Keyed, Key, ShouldSubscribe
<1>7. WillBeServed'
  BY <1>1, <1>3 DEF WillBeServed, ShouldSubscribe, Served, Registered
<1>8. WillBeOffered'
  BY <1>1, <1>2 DEF WillBeOffered
<1> QED  BY <1>4, <1>5, <1>6, <1>7, <1>8

\* An empty router.
LEMMA RouterStarts == RouterInit => RouterInv /\ WishesKnown
<1> SUFFICES ASSUME RouterInit PROVE RouterInv /\ WishesKnown
  OBVIOUS
<1> USE DEF RouterInit
<1>1. Types
  <2>1. NoCall \in Calls
    BY DEF NoCall, Calls
  <2> QED  BY <2>1 DEF Types, RouterTypeOK
<1>2. \A g \in Goroutines : call[g].ops = {} /\ call[g].adding = {} /\ call[g].offers = {}
  BY DEF NoCall
<1>3. Numbered /\ Alive /\ OneHolder /\ NoneForgotten
  BY <1>2 DEF Numbered, Alive, OneHolder, NoneForgotten, Held
<1>4. Keyed /\ WillBeServed /\ WillBeOffered
  BY <1>2 DEF Keyed, WillBeServed, WillBeOffered
<1>5. WishesKnown
  BY DEF WishesKnown
<1> QED  BY <1>1, <1>3, <1>4, <1>5 DEF RouterInv

\* Every step of the router keeps its invariant.
LEMMA RouterStep == RouterInv /\ [RouterNext]_routerVars => RouterInv'
<1> SUFFICES ASSUME RouterInv, [RouterNext]_routerVars PROVE RouterInv'
  OBVIOUS
<1>1. ASSUME NEW id \in Publishers, NEW role \in setup.roles, NEW n \in FreeTracks, Publish(id, role, n)
      PROVE  RouterInv'
  BY <1>1, PublishStep
<1>2. ASSUME NEW id \in Participants, Register(id)
      PROVE  RouterInv'
  BY <1>2, RegisterStep
<1>3. ASSUME NEW id \in Participants, Unregister(id)
      PROVE  RouterInv'
  BY <1>3, UnregisterStep
<1>4. ASSUME NEW id \in Participants, UnpublishScreen(id)
      PROVE  RouterInv'
  <2>1. /\ id \in Goroutines /\ {p \in pubs : Key(p) = <<id, "screen">>} \in SUBSET pubs
        /\ Free(id) /\ Withdraw(id, {p \in pubs : Key(p) = <<id, "screen">>})
    BY <1>4 DEF UnpublishScreen, Goroutines
  <2> QED  BY <2>1, WithdrawStep
<1>5. ASSUME NEW id \in Participants, NEW cameras \in SUBSET (Participants \ {id}),
             SetVideoSubscriptions(id, cameras)
      PROVE  RouterInv'
  BY <1>5, SubscribeStep
<1>6. ASSUME NEW media \in pubs, ReadStops(media)
      PROVE  RouterInv'
  <2>1. /\ media.n \in Goroutines /\ {media} \in SUBSET pubs
        /\ Free(media.n) /\ Withdraw(media.n, {media})
    BY <1>6 DEF ReadStops, Goroutines, RouterInv, Types, RouterTypeOK, Publications
  <2> QED  BY <2>1, WithdrawStep
<1>7. ASSUME NEW g \in Goroutines, NEW op \in call[g].ops, AddTrack(g, op) \/ RemoveTrack(g, op)
      PROVE  RouterInv'
  BY <1>7, AddTrackStep, RemoveTrackStep
<1>8. ASSUME NEW g \in Goroutines, NEW op \in call[g].adding, Install(g, op)
      PROVE  RouterInv'
  BY <1>8, InstallStep
<1>9. ASSUME NEW g \in Goroutines, Offer(g)
      PROVE  RouterInv'
  BY <1>9, OfferStep
<1>10. CASE UNCHANGED routerVars
  <2>1. UNCHANGED <<setup, peers, links, pubs, targets, subscriptions, call, sending, stale, asked, returned>>
    BY <1>10 DEF routerVars, peerVars, pionVars
  <2>2. /\ \A g \in Goroutines : Held(g)' = Held(g) /\ Pending(g)' = Pending(g)
        /\ Calls' = Calls /\ Publications' = Publications /\ Senders' = Senders /\ Registered' = Registered
    BY <2>1 DEF Held, Pending, Calls, Operations, Pubs, AllSenders, Publications, Senders, Registered
  <2>3. Types' /\ Numbered' /\ Alive' /\ OneHolder'
    BY <2>1, <2>2 DEF RouterInv, Types, RouterTypeOK, Numbered, Alive, OneHolder
  <2>4. NoneForgotten' /\ Keyed' /\ WillBeServed' /\ WillBeOffered'
    BY <2>1, <2>2 DEF RouterInv, NoneForgotten, Keyed, Key, WillBeServed, WillBeOffered, ShouldSubscribe, Served
  <2> QED  BY <2>3, <2>4 DEF RouterInv
<1> QED  BY <1>1, <1>2, <1>3, <1>4, <1>5, <1>6, <1>7, <1>8, <1>9, <1>10 DEF RouterNext

----------------------------------------------------------------------------
(* What the router knows of the pages' wishes.                             *)

\* A step that leaves the participants alone, and whose targets are fed as those
\* before it were, or by the receivers' present connections.
LEMMA WishesStay ==
  ASSUME WishesKnown, UNCHANGED <<peers, links, subscriptions, asked, returned>>,
         \A u \in targets' : \/ \E t \in targets : u.to = t.to /\ u.sender = t.sender
                             \/ u.sender.link = peers[u.to]
  PROVE  WishesKnown'
BY DEF WishesKnown, CameBack

\* Every step keeps what is known of the wishes.
LEMMA WishesStep == RouterInv /\ WishesKnown /\ [RouterNext]_routerVars => WishesKnown'
<1> SUFFICES ASSUME RouterInv, WishesKnown, [RouterNext]_routerVars PROVE WishesKnown'
  OBVIOUS
<1>0. Types /\ Numbered
  BY DEF RouterInv
<1>1. ASSUME NEW id \in Publishers, NEW role \in setup.roles, NEW n \in FreeTracks, Publish(id, role, n)
      PROVE  WishesKnown'
  <2> DEFINE media == [source |-> id, role |-> role, n |-> n]
             before == TargetsOf({p \in pubs : Key(p) = Key(media)})
             Moved(t) == [t EXCEPT !.pub = media]
  <2>1. \A t \in targets : Moved(t).to = t.to /\ Moved(t).sender = t.sender
    BY <1>0 DEF Types, RouterTypeOK
  <2>2. \E moved \in SUBSET before : targets' = (targets \ before) \union {Moved(t) : t \in moved}
    BY <1>1 DEF Publish
  <2>3. before \subseteq targets
    BY DEF TargetsOf
  <2> HIDE DEF Moved, before
  <2>4. \A u \in targets' : \E t \in targets : u.to = t.to /\ u.sender = t.sender
    BY <2>1, <2>2, <2>3
  <2>5. UNCHANGED <<peers, links, subscriptions, asked, returned>>
    BY <1>1 DEF Publish, peerVars
  <2> QED  BY <2>4, <2>5, WishesStay
<1>2. ASSUME NEW id \in Participants, Register(id)
      PROVE  WishesKnown'
  <2> DEFINE link == links[id] + 1
  <2>1. /\ links' = [links EXCEPT ![id] = link] /\ peers' = [peers EXCEPT ![id] = link]
        /\ asked' = [asked EXCEPT ![id] = {}]
        /\ UNCHANGED <<subscriptions, targets>>
        /\ links[id] = 0 => returned' = returned
        /\ links[id] > 0 /\ peers[id] > 0 => returned' = returned \union {<<id, "grace", link>>}
        /\ links[id] > 0 /\ ~(peers[id] > 0) => returned' = returned \union {<<id, "takeover", link>>}
    BY <1>2 DEF Register
  <2>2. /\ asked'[id] = {} /\ \A x \in Participants \ {id} : asked'[x] = asked[x]
        /\ \A x \in Participants \ {id} : peers'[x] = peers[x] /\ links'[x] = links[x]
    BY <2>1, <1>0 DEF Types, RouterTypeOK
  <2>3. \A x : \A how : CameBack(x, how) => CameBack(x, how)'
    BY <2>1, <1>0, Typing DEF CameBack
  <2>4. CASE peers[id] > 0
    <3>1. CameBack(id, "grace")'
      <4>1. <<id, "grace", link>> \in returned' /\ <<id, "grace", link>>[1] = id /\ <<id, "grace", link>>[2] = "grace"
        BY <1>0, <2>1, <2>4, Typing
      <4> QED  BY <4>1 DEF CameBack
    <3> QED  BY <1>0, <2>1, <2>2, <2>3, <2>4, <3>1, Typing DEF WishesKnown
  <2>5. CASE peers[id] = 0
    <3>1. subscriptions[id] = {} /\ \A t \in targets : t.to # id
      BY <1>0, <2>5, Typing DEF Numbered, Registered
    <3>2. links[id] > 0 => CameBack(id, "takeover")'
      <4> SUFFICES ASSUME links[id] > 0 PROVE CameBack(id, "takeover")'
        OBVIOUS
      <4>1. <<id, "takeover", link>> \in returned' /\ <<id, "takeover", link>>[1] = id /\ <<id, "takeover", link>>[2] = "takeover"
        BY <2>1, <2>5
      <4> QED  BY <4>1 DEF CameBack
    <3>3. ASSUME NEW x \in Participants, ~CameBack(x, "grace")', x # id
          PROVE  /\ \A t \in targets' : t.to = x => t.sender.link = peers'[x]
                 /\ asked'[x] = {} => subscriptions'[x] = {}
                 /\ \A wish \in asked'[x], known \in subscriptions'[x] : \A y \in wish \ known :
                      CameBack(y, "takeover")' \/ (peers'[y] = 0 /\ links'[y] > 0)
      <4>1. ~CameBack(x, "grace")
        BY <2>3, <3>3
      <4>2. /\ \A t \in targets : t.to = x => t.sender.link = peers[x]
            /\ asked[x] = {} => subscriptions[x] = {}
            /\ \A wish \in asked[x], known \in subscriptions[x] : \A y \in wish \ known :
                 CameBack(y, "takeover") \/ (peers[y] = 0 /\ links[y] > 0)
        BY <4>1 DEF WishesKnown
      <4>3. \A wish \in asked[x] : wish \subseteq Participants
        BY <1>0 DEF Types, RouterTypeOK
      <4> QED  BY <2>1, <2>2, <2>3, <3>2, <3>3, <4>2, <4>3
    <3> QED  BY <2>1, <2>2, <3>1, <3>3 DEF WishesKnown
  <2> QED  BY <2>4, <2>5, <1>0, Typing
<1>3. ASSUME NEW id \in Participants, Unregister(id)
      PROVE  WishesKnown'
  <2>1. /\ peers' = [peers EXCEPT ![id] = 0] /\ asked' = [asked EXCEPT ![id] = {}]
        /\ subscriptions' = [other \in Participants |->
             IF other = id THEN {} ELSE {cameras \ {id} : cameras \in subscriptions[other]}]
        /\ targets' \subseteq targets /\ \A t \in targets' : t.to # id
        /\ UNCHANGED <<links, returned>> /\ id \in Registered
    BY <1>3 DEF Unregister, SubscriptionsWithout
  <2>2. /\ peers'[id] = 0 /\ links[id] > 0 /\ asked'[id] = {} /\ subscriptions'[id] = {}
        /\ \A x \in Participants \ {id} : /\ peers'[x] = peers[x] /\ asked'[x] = asked[x]
                                          /\ subscriptions'[x] = {cameras \ {id} : cameras \in subscriptions[x]}
    BY <1>0, <2>1, Typing DEF Types, RouterTypeOK, Registered
  <2>3. ASSUME NEW x \in Participants, ~CameBack(x, "grace"), x # id
        PROVE  /\ \A t \in targets' : t.to = x => t.sender.link = peers'[x]
               /\ asked'[x] = {} => subscriptions'[x] = {}
               /\ \A wish \in asked'[x], known \in subscriptions'[x] : \A y \in wish \ known :
                    CameBack(y, "takeover") \/ (peers'[y] = 0 /\ links'[y] > 0)
    <3>1. /\ \A t \in targets : t.to = x => t.sender.link = peers[x]
          /\ asked[x] = {} => subscriptions[x] = {}
          /\ \A wish \in asked[x], known \in subscriptions[x] : \A y \in wish \ known :
               CameBack(y, "takeover") \/ (peers[y] = 0 /\ links[y] > 0)
      BY <2>3 DEF WishesKnown
    <3>2. \A wish \in asked[x] : wish \subseteq Participants
      BY <1>0 DEF Types, RouterTypeOK
    <3>3. ASSUME NEW wish \in asked[x], NEW known \in subscriptions[x], NEW y \in wish \ (known \ {id})
          PROVE  CameBack(y, "takeover") \/ (peers'[y] = 0 /\ links'[y] > 0)
      BY <2>1, <2>2, <3>1, <3>2
    <3> QED  BY <2>1, <2>2, <2>3, <3>1, <3>3
  <2>4. \A x : \A how : CameBack(x, how)' <=> CameBack(x, how)
    BY <2>1 DEF CameBack
  <2> QED  BY <2>1, <2>2, <2>3, <2>4 DEF WishesKnown
<1>4. ASSUME NEW g, NEW some, Withdraw(g, some)
      PROVE  WishesKnown'
  <2>1. targets' \subseteq targets /\ UNCHANGED <<peers, links, subscriptions, asked, returned>>
    BY <1>4 DEF Withdraw, peerVars
  <2> QED  BY <2>1, WishesStay
<1>5. ASSUME NEW id \in Participants, NEW cameras, SetVideoSubscriptions(id, cameras)
      PROVE  WishesKnown'
  <2>1. /\ asked' = [asked EXCEPT ![id] = {cameras}]
        /\ subscriptions' = [subscriptions EXCEPT ![id] = {cameras}]
        /\ targets' \subseteq targets /\ UNCHANGED <<peers, links, returned>>
    BY <1>5 DEF SetVideoSubscriptions
  <2>2. /\ asked'[id] = {cameras} /\ subscriptions'[id] = {cameras}
        /\ \A x \in Participants \ {id} : asked'[x] = asked[x] /\ subscriptions'[x] = subscriptions[x]
    BY <1>0, <2>1 DEF Types, RouterTypeOK
  <2> QED  BY <2>1, <2>2 DEF WishesKnown, CameBack
<1>6. ASSUME NEW g \in Goroutines, NEW op \in call[g].adding, Install(g, op)
      PROVE  WishesKnown'
  <2>1. UNCHANGED <<peers, links, subscriptions, asked, returned>>
    BY <1>6 DEF Install, peerVars
  <2>2. \A u \in targets' : u \in targets \/ u.sender.link = peers[u.to]
    BY <1>0, <1>6 DEF Install, Valid, Numbered
  <2> QED  BY <2>1, <2>2, WishesStay
<1>7. ASSUME NEW g \in Goroutines, NEW op, AddTrack(g, op) \/ RemoveTrack(g, op) \/ Offer(g)
      PROVE  WishesKnown'
  <2>1. UNCHANGED <<peers, links, subscriptions, asked, returned, targets>>
    BY <1>7 DEF AddTrack, RemoveTrack, Offer, peerVars
  <2> QED  BY <2>1, WishesStay
<1>8. CASE UNCHANGED routerVars
  BY <1>8, WishesStay DEF routerVars, peerVars
<1> QED
  BY <1>1, <1>2, <1>3, <1>4, <1>5, <1>6, <1>7, <1>8 DEF RouterNext, UnpublishScreen, ReadStops

----------------------------------------------------------------------------
(* The theorems.                                                           *)

\* When no call is under way, no operation is planned.
LEMMA CallsOver ==
  ASSUME CallsAreOver
  PROVE  /\ \A g \in Goroutines : Held(g) = {} /\ Pending(g) = {} /\ call[g].offers = {}
BY DEF CallsAreOver, Free, NoCall, Held, Pending

\* The inductive invariant and the types of the tables.
THEOREM RouterInvHolds == RouterSpec => [](RouterInv /\ WishesKnown)
<1>1. RouterInv /\ WishesKnown /\ [RouterNext]_routerVars => (RouterInv /\ WishesKnown)'
  BY RouterStep, WishesStep
<1> QED  BY <1>1, RouterStarts, PTL DEF RouterSpec

\* router.go keeps its tables consistent: every target belongs to a publication and
\* a registered connection, and every sender to a connection that is registered.
THEOREM RouterTypeCorrect == RouterSpec => []RouterTypeOK
<1>1. RouterInv => RouterTypeOK
  BY DEF RouterInv, Types
<1> QED  BY <1>1, RouterInvHolds, PTL

\* applyTrackOps after any crossing of calls: when they are over, the router
\* forwards exactly what it should, once, and nothing else is being sent.
THEOREM RouterIsExactAlways == RouterSpec => []RouterIsExact
<1>1. RouterInv => RouterIsExact
  <2> SUFFICES ASSUME RouterInv, CallsAreOver
               PROVE  /\ \A media \in pubs, id \in Registered :
                           Cardinality({t \in targets : t.pub = media /\ t.to = id})
                             = IF ShouldSubscribe(media, id) THEN 1 ELSE 0
                      /\ \A s \in sending : \E t \in targets : t.sender = s
                      /\ stale = {}
    BY DEF RouterIsExact
  <2>1. ASSUME NEW media \in pubs, NEW id \in Registered
        PROVE  Cardinality({t \in targets : t.pub = media /\ t.to = id})
                 = IF ShouldSubscribe(media, id) THEN 1 ELSE 0
    <3> DEFINE to == {t \in targets : t.pub = media /\ t.to = id}
    <3>1. CASE ShouldSubscribe(media, id)
      <4>1. Served(media, id)
        BY <3>1, CallsOver DEF RouterInv, WillBeServed
      <4>2. PICK t \in targets : t.pub = media /\ t.to = id
        BY <4>1 DEF Served
      <4>3. to = {t}
        BY <4>2 DEF RouterInv, Keyed
      <4> QED  BY <3>1, <4>3, FS_Singleton
    <3>2. CASE ~ShouldSubscribe(media, id)
      <4>1. to = {}
        BY <3>2 DEF RouterInv, Keyed
      <4> QED  BY <3>2, <4>1, FS_EmptySet
    <3> QED  BY <3>1, <3>2
  <2>2. \A s \in sending : \E t \in targets : t.sender = s
    BY CallsOver DEF RouterInv, NoneForgotten
  <2>3. stale = {}
    BY CallsOver DEF RouterInv, WillBeOffered
  <2> QED  BY <2>1, <2>2, <2>3
<1> QED  BY <1>1, RouterInvHolds, PTL

\* What a page has asked for flows to it, by a sender of its own connection that
\* Pion has: with the two exceptions that MediaFlows names.
THEOREM MediaFlowsAlways == RouterSpec => []MediaFlows
<1>1. RouterInv /\ WishesKnown => MediaFlows
  <2> SUFFICES ASSUME RouterInv, WishesKnown, CallsAreOver, NEW media \in pubs, NEW id \in Registered,
                      WantsToSee(id, media), media.source \in Registered, ~CameBack(id, "grace"),
                      media.role = "camera" => ~CameBack(media.source, "takeover")
               PROVE  Receives(id, media)
    BY DEF MediaFlows
  <2>1. /\ \A t \in targets : t.to = id => t.sender.link = peers[id]
        /\ asked[id] = {} => subscriptions[id] = {}
        /\ \A wish \in asked[id], known \in subscriptions[id] : \A x \in wish \ known :
             CameBack(x, "takeover") \/ (peers[x] = 0 /\ links[x] > 0)
    BY DEF WishesKnown, Registered
  <2>2. ShouldSubscribe(media, id)
    <3>1. ASSUME media.role = "camera", NEW known \in subscriptions[id]
          PROVE  media.source \in known
      <4>1. PICK wish \in asked[id] : TRUE
        BY <2>1, <3>1
      <4>2. media.source \in wish
        BY <3>1 DEF WantsToSee
      <4>3. ~(peers[media.source] = 0)
        BY DEF Registered
      <4> QED  BY <2>1, <3>1, <4>2, <4>3
    <3> QED  BY <3>1 DEF ShouldSubscribe, WantsToSee
  <2>3. PICK t \in targets : t.pub = media /\ t.to = id
    BY <2>2, CallsOver DEF RouterInv, WillBeServed, Served
  <2>4. t.sender \in sending
    BY <2>1, <2>3 DEF RouterInv, Alive
  <2> QED  BY <2>3, <2>4 DEF Receives
<1> QED  BY <1>1, RouterInvHolds, PTL

----------------------------------------------------------------------------
(* The membership table.                                                   *)

\* The queue holds each identifier at most once.
NoDuplicates(queue) ==
  \A i, j \in DOMAIN queue : queue[i] = queue[j] => i = j

\* A value that occurs in a duplicate-free queue is found at its place.
LEMMA PositionIsPlace ==
  ASSUME NEW queue \in Seq(Ids), NoDuplicates(queue), NEW i \in DOMAIN queue
  PROVE  Position(queue, queue[i]) = i
  BY DEF Position, NoDuplicates

\* Deleting the entry at place k shifts the later entries up by one.
LEMMA RemoveAtShifts ==
  ASSUME NEW queue \in Seq(Ids), NEW k \in DOMAIN queue
  PROVE  /\ RemoveAt(queue, k) \in Seq(Ids)
         /\ Len(RemoveAt(queue, k)) = Len(queue) - 1
         /\ \A i \in 1..Len(queue) - 1 :
              RemoveAt(queue, k)[i] = IF i < k THEN queue[i] ELSE queue[i + 1]
<1> DEFINE front == SubSeq(queue, 1, k - 1)
           back == SubSeq(queue, k + 1, Len(queue))
<1>1. k \in Nat /\ 1 <= k /\ k <= Len(queue) /\ Len(queue) \in Nat
  OBVIOUS
<1>2. front \in Seq(Ids) /\ Len(front) = k - 1 /\ \A i \in 1..k - 1 : front[i] = queue[i]
  BY <1>1
<1>3. /\ back \in Seq(Ids) /\ Len(back) = Len(queue) - k
      /\ \A i \in 1..Len(queue) - k : back[i] = queue[k + i]
  BY <1>1
<1>4. RemoveAt(queue, k) = front \o back
  BY DEF RemoveAt
<1> HIDE DEF front, back
<1>5. QED
  BY <1>1, <1>2, <1>3, <1>4, SMTT(30)

\* Dequeue of an identifier in the queue removes it, keeps everyone else and
\* keeps them in the same relative order.
LEMMA DequeueKeepsOthers ==
  ASSUME NEW queue \in Seq(Ids), NoDuplicates(queue), NEW id \in Ids
  PROVE  /\ Dequeue(queue, id) \in Seq(Ids)
         /\ NoDuplicates(Dequeue(queue, id))
         /\ \A x \in Ids : (\E i \in DOMAIN Dequeue(queue, id) : Dequeue(queue, id)[i] = x)
                           <=> (x # id /\ \E i \in DOMAIN queue : queue[i] = x)
         /\ \A i, j \in DOMAIN Dequeue(queue, id), m, n \in DOMAIN queue :
              /\ Dequeue(queue, id)[i] = queue[m]
              /\ Dequeue(queue, id)[j] = queue[n]
              /\ m < n
              => i < j
<1> DEFINE rest == Dequeue(queue, id)
           k == Position(queue, id)
<1>1. CASE ~ \E i \in DOMAIN queue : queue[i] = id
  <2>1. rest = queue
    BY <1>1 DEF Dequeue
  <2>2. QED
    BY <1>1, <2>1 DEF NoDuplicates
<1>2. CASE \E i \in DOMAIN queue : queue[i] = id
  <2>1. k \in DOMAIN queue /\ queue[k] = id
    BY <1>2 DEF Position
  <2>2. rest = RemoveAt(queue, k)
    BY <1>2 DEF Dequeue
  <2> HIDE DEF k, rest
  <2>3. /\ rest \in Seq(Ids)
        /\ DOMAIN rest = 1..Len(queue) - 1
        /\ \A i \in 1..Len(queue) - 1 :
             rest[i] = IF i < k THEN queue[i] ELSE queue[i + 1]
    BY <2>1, <2>2, RemoveAtShifts
  <2>4. DOMAIN queue = 1..Len(queue) /\ Len(queue) \in Nat /\ k \in 1..Len(queue)
    BY <2>1
  <2>5. \A i \in DOMAIN rest :
          /\ i \in Int
          /\ i < k => i \in DOMAIN queue /\ rest[i] = queue[i]
          /\ ~(i < k) => i + 1 \in DOMAIN queue /\ rest[i] = queue[i + 1] /\ i + 1 > k
    BY <2>3, <2>4
  <2>6. \A m \in DOMAIN queue :
          /\ m < k => m \in DOMAIN rest /\ rest[m] = queue[m]
          /\ m > k => m - 1 \in DOMAIN rest /\ rest[m - 1] = queue[m]
    BY <2>3, <2>4
  <2>7. NoDuplicates(rest)
    BY <2>4, <2>5 DEF NoDuplicates
  <2>8. ASSUME NEW x \in Ids
        PROVE  (\E i \in DOMAIN rest : rest[i] = x) <=>
               (x # id /\ \E i \in DOMAIN queue : queue[i] = x)
    <3>1. ASSUME NEW i \in DOMAIN rest, rest[i] = x
          PROVE  x # id /\ \E m \in DOMAIN queue : queue[m] = x
      BY <2>1, <2>4, <2>5, <3>1 DEF NoDuplicates
    <3>2. ASSUME x # id, NEW m \in DOMAIN queue, queue[m] = x
          PROVE  \E i \in DOMAIN rest : rest[i] = x
      <4>1. m # k /\ m \in Int /\ k \in Int
        BY <2>1, <2>4, <3>2
      <4>2. CASE m < k
        BY <2>6, <3>2, <4>2
      <4>3. CASE m > k
        BY <2>6, <3>2, <4>3
      <4>4. QED
        BY <4>1, <4>2, <4>3
    <3>3. QED
      BY <3>1, <3>2
  <2>9. ASSUME NEW i \in DOMAIN rest, NEW j \in DOMAIN rest,
               NEW m \in DOMAIN queue, NEW n \in DOMAIN queue,
               rest[i] = queue[m], rest[j] = queue[n], m < n
        PROVE  i < j
    <3>1. m = (IF i < k THEN i ELSE i + 1) /\ n = (IF j < k THEN j ELSE j + 1)
      BY <2>4, <2>5, <2>9 DEF NoDuplicates
    <3>2. QED
      BY <2>4, <2>5, <2>9, <3>1
  <2>10. QED
    BY <2>3, <2>7, <2>8, <2>9 DEF rest
<1>3. QED
  BY <1>1, <1>2

\* Type invariant of the membership table.
THEOREM MeetingTypeOK == Spec => []TypeOK
<1>1. Init => TypeOK
  BY DEF Init, TypeOK
<1>2. TypeOK /\ [Next]_vars => TypeOK'
  <2> SUFFICES ASSUME TypeOK, [Next]_vars
               PROVE  TypeOK'
    OBVIOUS
  <2> USE LimitsAssumption DEF TypeOK
  <2>1. ASSUME NEW id \in Ids, Join(id)
        PROVE  TypeOK'
    BY <2>1 DEF Join
  <2>2. ASSUME NEW queue \in Seq(Ids), NEW id \in Ids
        PROVE  Dequeue(queue, id) \in Seq(Ids)
    <3>1. ASSUME NEW k \in DOMAIN queue
          PROVE  RemoveAt(queue, k) \in Seq(Ids)
      BY RemoveAtShifts
    <3>2. QED
      BY <3>1 DEF Dequeue, Position
  <2>3. ASSUME NEW orders \in [Ids -> Nat], NEW queue \in Seq(Ids)
        PROVE  Reindexed(orders, queue) \in [Ids -> Nat]
    <3>1. ASSUME NEW id \in Ids, \E i \in DOMAIN queue : queue[i] = id
          PROVE  Position(queue, id) \in Nat
      BY <3>1 DEF Position
    <3>2. QED
      BY <3>1 DEF Reindexed
  <2>4. ASSUME NEW id \in Ids, Leave(id)
        PROVE  TypeOK'
    <3>1. raisedHandIDs' \in Seq(Ids)
      BY <2>2, <2>4 DEF Leave
    <3>2. order' \in [Ids -> Nat]
      BY <2>3, <2>4, <3>1 DEF Leave
    <3>3. QED
      BY <2>4, <3>1, <3>2 DEF Leave
  <2>5. ASSUME NEW id \in Ids, RaiseHand(id)
        PROVE  TypeOK'
    BY <2>5 DEF RaiseHand
  <2>6. ASSUME NEW id \in Ids, LowerHand(id)
        PROVE  TypeOK'
    <3>1. raisedHandIDs' \in Seq(Ids)
      BY <2>2, <2>6 DEF LowerHand
    <3>2. order' \in [Ids -> Nat]
      BY <2>3, <2>6, <3>1 DEF LowerHand
    <3>3. QED
      BY <2>6, <3>1, <3>2 DEF LowerHand
  <2>7. ASSUME NEW limit \in Limits, SetMaxParticipants(limit)
        PROVE  TypeOK'
    BY <2>7 DEF SetMaxParticipants
  <2>8. CASE UNCHANGED vars
    BY <2>8 DEF vars
  <2>9. QED
    BY <2>1, <2>4, <2>5, <2>6, <2>7, <2>8 DEF Next
<1>3. QED
  BY <1>1, <1>2, PTL DEF Spec

\* What HandQueueConsistent says of given records and a given queue.
Agree(hands, orders, queue) ==
  /\ \A x \in Ids : hands[x] <=> \E i \in DOMAIN queue : queue[i] = x
  /\ NoDuplicates(queue)
  /\ \A i \in DOMAIN queue : orders[queue[i]] = i
  /\ \A x \in Ids : ~hands[x] => orders[x] = 0

\* Dequeuing and renumbering, shared by Leave and SetRaisedHand, keeps the
\* records and the queue in agreement.
LEMMA DequeueStaysConsistent ==
  ASSUME NEW hands \in [Ids -> BOOLEAN], NEW orders \in [Ids -> Nat],
         NEW queue \in Seq(Ids), Agree(hands, orders, queue), NEW id \in Ids
  PROVE  Agree([hands EXCEPT ![id] = FALSE],
               Reindexed([orders EXCEPT ![id] = 0], Dequeue(queue, id)),
               Dequeue(queue, id))
<1> DEFINE newHands == [hands EXCEPT ![id] = FALSE]
           rest == Dequeue(queue, id)
           newOrders == Reindexed([orders EXCEPT ![id] = 0], rest)
<1>0. NoDuplicates(queue)
  BY DEF Agree
<1>1. /\ rest \in Seq(Ids)
      /\ NoDuplicates(rest)
      /\ \A x \in Ids : (\E i \in DOMAIN rest : rest[i] = x) <=>
                        (x # id /\ \E i \in DOMAIN queue : queue[i] = x)
  BY <1>0, DequeueKeepsOthers
<1> HIDE DEF rest
<1>2. \A x \in Ids : newHands[x] <=> \E i \in DOMAIN rest : rest[i] = x
  BY <1>1 DEF Agree
<1>3. ASSUME NEW i \in DOMAIN rest
      PROVE  newOrders[rest[i]] = i
  <2>1. rest[i] \in Ids /\ Position(rest, rest[i]) = i
    BY <1>1, PositionIsPlace
  <2>2. QED
    BY <2>1 DEF Reindexed
<1>4. ASSUME NEW x \in Ids, ~newHands[x]
      PROVE  newOrders[x] = 0
  <2>1. newOrders[x] = [orders EXCEPT ![id] = 0][x]
    BY <1>2, <1>4 DEF Reindexed
  <2>2. QED
    BY <1>4, <2>1 DEF Agree
<1>5. QED
  BY <1>1, <1>2, <1>3, <1>4 DEF Agree, rest

\* The records and the queue of raised hands agree in every reachable state:
\* SetRaisedHand and Leave keep HandOrder equal to the queue position.
THEOREM HandsAndQueueAgree == Spec => []HandQueueConsistent
<1>1. Init => HandQueueConsistent
  BY DEF Init, HandQueueConsistent
<1>2. TypeOK /\ HandQueueConsistent /\ [Next]_vars => HandQueueConsistent'
  <2> SUFFICES ASSUME TypeOK, HandQueueConsistent, [Next]_vars
               PROVE  HandQueueConsistent'
    OBVIOUS
  <2>0. Agree(raised, order, raisedHandIDs)
    BY DEF HandQueueConsistent, Agree, NoDuplicates
  <2>1. ASSUME NEW id \in Ids, Join(id)
        PROVE  HandQueueConsistent'
    BY <2>1 DEF Join, HandQueueConsistent, TypeOK
  <2>2. ASSUME NEW id \in Ids, Leave(id)
        PROVE  HandQueueConsistent'
    <3>1. Agree(raised', order', raisedHandIDs')
      BY <2>2, <2>0, DequeueStaysConsistent DEF Leave, TypeOK
    <3>2. \A x \in Ids : raised'[x] => x \in participants'
      BY <2>2 DEF Leave, HandQueueConsistent, TypeOK
    <3>3. QED
      BY <3>1, <3>2 DEF HandQueueConsistent, Agree, NoDuplicates
  <2>3. ASSUME NEW id \in Ids, RaiseHand(id)
        PROVE  HandQueueConsistent'
    <3>1. /\ Len(raisedHandIDs') = Len(raisedHandIDs) + 1
          /\ DOMAIN raisedHandIDs' = 1..Len(raisedHandIDs) + 1
          /\ DOMAIN raisedHandIDs = 1..Len(raisedHandIDs)
          /\ Len(raisedHandIDs) \in Nat
          /\ \A i \in DOMAIN raisedHandIDs : raisedHandIDs'[i] = raisedHandIDs[i]
          /\ raisedHandIDs'[Len(raisedHandIDs) + 1] = id
      BY <2>3 DEF RaiseHand, TypeOK
    <3>2. \A i \in DOMAIN raisedHandIDs : raisedHandIDs[i] \in Ids /\ raisedHandIDs[i] # id
      BY <2>3 DEF RaiseHand, TypeOK, HandQueueConsistent
    <3>3. \A i \in DOMAIN raisedHandIDs' :
            \/ i \in DOMAIN raisedHandIDs
            \/ i = Len(raisedHandIDs) + 1
      BY <3>1
    <3>4. \A i, j \in DOMAIN raisedHandIDs' : raisedHandIDs'[i] = raisedHandIDs'[j] => i = j
      BY <3>1, <3>2, <3>3 DEF HandQueueConsistent
    <3>5. \A i \in DOMAIN raisedHandIDs' : order'[raisedHandIDs'[i]] = i
      BY <2>3, <3>1, <3>2, <3>3 DEF RaiseHand, TypeOK, HandQueueConsistent
    <3>6. \A x \in Ids : raised'[x] <=> \E i \in DOMAIN raisedHandIDs' : raisedHandIDs'[i] = x
      <4>1. ASSUME NEW x \in Ids, raised'[x]
            PROVE  \E i \in DOMAIN raisedHandIDs' : raisedHandIDs'[i] = x
        <5>1. CASE x = id
          BY <3>1, <5>1
        <5>2. CASE x # id
          BY <2>3, <3>1, <4>1, <5>2 DEF RaiseHand, TypeOK, HandQueueConsistent
        <5>3. QED
          BY <5>1, <5>2
      <4>2. ASSUME NEW i \in DOMAIN raisedHandIDs'
            PROVE  raised'[raisedHandIDs'[i]]
        BY <2>3, <3>1, <3>2, <3>3 DEF RaiseHand, TypeOK, HandQueueConsistent
      <4>3. QED
        BY <4>1, <4>2
    <3>7. \A x \in Ids : ~raised'[x] => order'[x] = 0
      BY <2>3 DEF RaiseHand, TypeOK, HandQueueConsistent
    <3>8. \A x \in Ids : raised'[x] => x \in participants'
      BY <2>3 DEF RaiseHand, TypeOK, HandQueueConsistent
    <3>9. QED
      BY <3>4, <3>5, <3>6, <3>7, <3>8 DEF HandQueueConsistent
  <2>4. ASSUME NEW id \in Ids, LowerHand(id)
        PROVE  HandQueueConsistent'
    <3>1. Agree(raised', order', raisedHandIDs')
      BY <2>4, <2>0, DequeueStaysConsistent DEF LowerHand, TypeOK
    <3>2. \A x \in Ids : raised'[x] => x \in participants'
      BY <2>4 DEF LowerHand, HandQueueConsistent, TypeOK
    <3>3. QED
      BY <3>1, <3>2 DEF HandQueueConsistent, Agree, NoDuplicates
  <2>5. ASSUME NEW limit \in Limits, SetMaxParticipants(limit)
        PROVE  HandQueueConsistent'
    BY <2>5 DEF SetMaxParticipants, HandQueueConsistent
  <2>6. CASE UNCHANGED vars
    BY <2>6 DEF vars, HandQueueConsistent
  <2>7. QED
    BY <2>1, <2>2, <2>3, <2>4, <2>5, <2>6 DEF Next
<1>3. QED
  BY <1>1, <1>2, MeetingTypeOK, PTL DEF Spec

\* Dequeuing one hand leaves the others in the order they were raised in.
LEMMA DequeueKeepsOrder ==
  ASSUME NEW hands \in [Ids -> BOOLEAN], NEW orders \in [Ids -> Nat],
         NEW queue \in Seq(Ids), Agree(hands, orders, queue), NEW id \in Ids,
         NEW a \in Ids, NEW b \in Ids, a # id, b # id,
         hands[a], hands[b], orders[a] < orders[b]
  PROVE  LET after == Reindexed([orders EXCEPT ![id] = 0], Dequeue(queue, id))
         IN  after[a] < after[b]
<1> DEFINE rest == Dequeue(queue, id)
           newHands == [hands EXCEPT ![id] = FALSE]
           newOrders == Reindexed([orders EXCEPT ![id] = 0], rest)
<1>1. NoDuplicates(queue)
  BY DEF Agree
<1>2. \A i, j \in DOMAIN rest, m, n \in DOMAIN queue :
        /\ rest[i] = queue[m]
        /\ rest[j] = queue[n]
        /\ m < n
        => i < j
  BY <1>1, DequeueKeepsOthers, ZenonT(30)
<1>3. Agree(newHands, newOrders, rest)
  BY DequeueStaysConsistent
<1> HIDE DEF rest
<1>4. ASSUME NEW x \in Ids, x # id, hands[x]
      PROVE  /\ orders[x] \in DOMAIN queue /\ queue[orders[x]] = x
             /\ newOrders[x] \in DOMAIN rest /\ rest[newOrders[x]] = x
  <2>1. newHands[x]
    BY <1>4
  <2> HIDE DEF newHands, newOrders
  <2>2. QED
    BY <1>3, <1>4, <2>1 DEF Agree
<1>5. newOrders[a] < newOrders[b]
  <2>1. /\ orders[a] \in DOMAIN queue /\ queue[orders[a]] = a
        /\ newOrders[a] \in DOMAIN rest /\ rest[newOrders[a]] = a
    BY <1>4
  <2>2. /\ orders[b] \in DOMAIN queue /\ queue[orders[b]] = b
        /\ newOrders[b] \in DOMAIN rest /\ rest[newOrders[b]] = b
    BY <1>4
  <2> HIDE DEF newOrders
  <2>3. QED
    BY <1>2, <2>1, <2>2
<1>6. QED
  BY <1>5 DEF rest

\* Hands are served first in, first out: no step of the table changes the
\* relative order of two hands that stay raised.
THEOREM HandsAreServedInOrder == Spec => HandOrderIsFifo
<1> DEFINE KeepsOrder ==
      \A a, b \in Ids :
        (raised[a] /\ raised'[a] /\ raised[b] /\ raised'[b] /\ order[a] < order[b])
        => order'[a] < order'[b]
<1>1. TypeOK /\ HandQueueConsistent /\ [Next]_vars => [KeepsOrder]_vars
  <2> SUFFICES ASSUME TypeOK, HandQueueConsistent, Next,
                      NEW a \in Ids, NEW b \in Ids,
                      raised[a], raised'[a], raised[b], raised'[b], order[a] < order[b]
               PROVE  order'[a] < order'[b]
    OBVIOUS
  <2>0. Agree(raised, order, raisedHandIDs)
    BY DEF HandQueueConsistent, Agree, NoDuplicates
  <2>1. ASSUME NEW id \in Ids, Join(id)
        PROVE  order'[a] < order'[b]
    BY <2>1 DEF Join
  <2>2. ASSUME NEW id \in Ids, Leave(id)
        PROVE  order'[a] < order'[b]
    <3>1. a # id /\ b # id
      BY <2>2 DEF Leave, TypeOK
    <3>2. QED
      BY <2>0, <2>2, <3>1, DequeueKeepsOrder DEF Leave, TypeOK
  <2>3. ASSUME NEW id \in Ids, RaiseHand(id)
        PROVE  order'[a] < order'[b]
    BY <2>3 DEF RaiseHand, TypeOK
  <2>4. ASSUME NEW id \in Ids, LowerHand(id)
        PROVE  order'[a] < order'[b]
    <3>1. a # id /\ b # id
      BY <2>4 DEF LowerHand, TypeOK
    <3>2. QED
      BY <2>0, <2>4, <3>1, DequeueKeepsOrder DEF LowerHand, TypeOK
  <2>5. ASSUME NEW limit \in Limits, SetMaxParticipants(limit)
        PROVE  order'[a] < order'[b]
    BY <2>5 DEF SetMaxParticipants
  <2>6. QED
    BY <2>1, <2>2, <2>3, <2>4, <2>5 DEF Next
<1>2. Spec => [][Next]_vars /\ []TypeOK /\ []HandQueueConsistent
  BY MeetingTypeOK, HandsAndQueueAgree, PTL DEF Spec
<1>3. QED
  BY <1>1, <1>2, PTL DEF HandOrderIsFifo
----------------------------------------------------------------------------
(* Raised hands.                                                           *)

\* Types, of the records and the tiles too; a tile is shown once.
HandTypes ==
  /\ HandsTypeOK
  /\ IsFiniteSet(participants)
  /\ changed \in [Ids -> Seq(Ids \X Nat)]
  /\ tiles \in [Ids -> Seq(Ids)]
  /\ \A m \in Ids : NoDuplicates(tiles[m])
  /\ fading \in [Ids -> SUBSET Ids]

\* Whoever is in the meeting has a record, and whoever raised a hand is in.
HandsOfMembers ==
  /\ \A p \in Ids : doing[p] \in {"joined", "announce", "in", "telling", "tellAway", "away", "over"}
                      => p \in participants
  /\ \A p \in Ids : raised[p] => doing[p] \notin {"new", "tellLeft", "left"}

\* What is still to be broadcast of a participant says how its hand stands now;
\* only its own handler says that it is down.
TellsTruth(q) ==
  \A i \in DOMAIN changed[q] :
    IF changed[q][i][1] = q THEN changed[q][i][2] > 0 <=> raised[q] ELSE changed[q][i][2] > 0
Records == \A q \in Ids : TellsTruth(q)

\* Something is to be broadcast of q, by its own handler.
OwnToTell(q) == \E i \in DOMAIN changed[q] : changed[q][i][1] = q

\* A participant's record is in its copy, or in a broadcast to come.
CopyIsComing ==
  "takeover" \notin departures => \A p \in Ids :
    /\ heir[p] = NoHeir
    /\ \/ doing[p] \in {"tellLeft", "left"}
       \/ OwnToTell(p)
       \/ copy[p] > 0 <=> raised[p]

\* Where no connection is lost: whoever was announced has a lasting tile in every
\* browser of the room, and a raised hand is shown there, or in a broadcast to come.
TilesOfMembers ==
  "drop" \notin departures =>
    /\ \A p \in Ids : doing[p] \notin {"tellAway", "away"}
    /\ \A p \in Ids : raised[p] => doing[p] \in {"in", "telling", "over"}
    /\ \A m \in Room : \A p \in Ids \ {m} :
         /\ doing[p] \in {"in", "telling", "over"} => p \in ToSet(tiles[m]) /\ p \notin fading[m]
         /\ raised[p] => number[m][p] > 0 \/ OwnToTell(p)

HandsInv == HandTypes /\ HandQueueConsistent /\ HandsOfMembers /\ Records /\ CopyIsComing /\ TilesOfMembers

\* The members in any order make a sequence of them, each once.
LEMMA RosterInOrder ==
  ASSUME NEW S \in SUBSET Ids, IsFiniteSet(S), NEW others \in SetToSeqs(S)
  PROVE  others \in Seq(Ids) /\ ToSet(others) = S /\ NoDuplicates(others)
<1> DEFINE n == Cardinality(S)
<1>1. n \in Nat
  BY FS_CardinalityType
<1>2. others \in [1..n -> S] /\ \A i, j \in 1..n : i # j => others[i] # others[j]
  BY DEF SetToSeqs
<1>3. others \in Seq(Ids) /\ DOMAIN others = 1..n
  BY <1>1, <1>2
<1>4. others \in Surjection(1..n, S)
  <2>1. others \in Injection(1..n, S)
    BY <1>2 DEF Injection, IsInjective
  <2>2. IsFiniteSet(1..n) /\ Cardinality(1..n) = n
    BY <1>1, FS_Interval
  <2> HIDE DEF n
  <2>3. Cardinality(1..n) = Cardinality(S) <=> others \in Surjection(1..n, S)
    BY <2>1, FS_Injection
  <2> QED  BY <2>2, <2>3 DEF n
<1>5. \A x \in S : \E i \in 1..n : others[i] = x
  BY <1>4 DEF Surjection
<1> HIDE DEF n
<1> QED  BY <1>2, <1>3, <1>5 DEF ToSet, NoDuplicates

\* Putting a tile before or after the others.
LEMMA TileAdded ==
  ASSUME NEW place \in Seq(Ids), NEW p \in Ids, NoDuplicates(place), p \notin ToSet(place)
  PROVE  /\ Append(place, p) \in Seq(Ids) /\ <<p>> \o place \in Seq(Ids)
         /\ ToSet(Append(place, p)) = ToSet(place) \union {p}
         /\ ToSet(<<p>> \o place) = ToSet(place) \union {p}
         /\ NoDuplicates(Append(place, p)) /\ NoDuplicates(<<p>> \o place)
<1>1. /\ Len(place) \in Nat /\ DOMAIN place = 1..Len(place)
      /\ \A i \in 1..Len(place) : place[i] \in Ids /\ place[i] # p
  BY DEF ToSet
<1>2. /\ Append(place, p) \in Seq(Ids) /\ DOMAIN Append(place, p) = 1..Len(place) + 1
      /\ \A i \in 1..Len(place) : Append(place, p)[i] = place[i]
      /\ Append(place, p)[Len(place) + 1] = p
  OBVIOUS
<1>3. /\ <<p>> \o place \in Seq(Ids) /\ DOMAIN (<<p>> \o place) = 1..Len(place) + 1
      /\ \A i \in 1..Len(place) : (<<p>> \o place)[i + 1] = place[i]
      /\ (<<p>> \o place)[1] = p
  OBVIOUS
<1> DEFINE after == Append(place, p)
           before == <<p>> \o place
<1> HIDE DEF after, before
<1>4. ToSet(after) = ToSet(place) \union {p}
  <2>1. \A i \in 1..Len(place) + 1 : i \in 1..Len(place) \/ i = Len(place) + 1
    BY <1>1
  <2>2. /\ DOMAIN after = 1..Len(place) + 1 /\ after[Len(place) + 1] = p
        /\ \A i \in 1..Len(place) : after[i] = place[i] /\ i \in DOMAIN after
        /\ Len(place) + 1 \in DOMAIN after
    BY <1>1, <1>2 DEF after
  <2> QED  BY <1>1, <2>1, <2>2 DEF ToSet
<1>5. ToSet(before) = ToSet(place) \union {p}
  <2>1. \A i \in 1..Len(place) + 1 : i = 1 \/ (i - 1 \in 1..Len(place) /\ i = (i - 1) + 1)
    BY <1>1
  <2>2. /\ DOMAIN before = 1..Len(place) + 1 /\ before[1] = p /\ 1 \in DOMAIN before
        /\ \A i \in 1..Len(place) : before[i + 1] = place[i] /\ i + 1 \in DOMAIN before
    BY <1>1, <1>3 DEF before
  <2>3. ASSUME NEW i \in 1..Len(place) + 1
        PROVE  before[i] \in ToSet(place) \union {p}
    <3>1. CASE i - 1 \in 1..Len(place)
      <4>1. before[i] = place[i - 1]
        BY <2>1, <2>2, <3>1
      <4> QED  BY <1>1, <3>1, <4>1 DEF ToSet
    <3> QED  BY <2>1, <2>2, <3>1
  <2>4. ASSUME NEW i \in 1..Len(place)
        PROVE  place[i] \in ToSet(before)
    <3>1. place[i] = before[i + 1] /\ i + 1 \in DOMAIN before
      BY <2>2
    <3> QED  BY <3>1 DEF ToSet
  <2>5. p \in ToSet(before)
    BY <2>2 DEF ToSet
  <2> QED  BY <1>1, <2>2, <2>3, <2>4, <2>5 DEF ToSet
<1>6. NoDuplicates(after)
  BY <1>1, <1>2 DEF NoDuplicates, after
<1>7. NoDuplicates(before)
  <2>1. \A i \in DOMAIN before : i = 1 \/ (i - 1 \in 1..Len(place) /\ before[i] = place[i - 1])
    <3>1. \A i \in 1..Len(place) + 1 : i = 1 \/ (i - 1 \in 1..Len(place) /\ i = (i - 1) + 1)
      BY <1>1
    <3> QED  BY <1>3, <3>1 DEF before
  <2>2. before[1] = p /\ DOMAIN before = 1..Len(place) + 1
    BY <1>3 DEF before
  <2>3. ASSUME NEW i \in DOMAIN before, NEW j \in DOMAIN before, before[i] = before[j]
        PROVE  i = j
    <3>1. CASE i = 1 \/ j = 1
      BY <1>1, <2>1, <2>2, <2>3, <3>1
    <3>2. CASE i # 1 /\ j # 1
      <4>1. i - 1 \in DOMAIN place /\ j - 1 \in DOMAIN place /\ place[i - 1] = place[j - 1]
        BY <1>1, <2>1, <2>3, <3>2
      <4>2. i - 1 = j - 1 /\ i \in Int /\ j \in Int
        BY <2>2, <4>1 DEF NoDuplicates
      <4> QED  BY <4>2
    <3> QED  BY <3>1, <3>2
  <2> QED  BY <2>3 DEF NoDuplicates
<1> QED  BY <1>2, <1>3, <1>4, <1>5, <1>6, <1>7 DEF after, before

\* Taking a tile away.
LEMMA TileRemoved ==
  ASSUME NEW place \in Seq(Ids), NEW p \in Ids, NoDuplicates(place)
  PROVE  /\ Dequeue(place, p) \in Seq(Ids) /\ NoDuplicates(Dequeue(place, p))
         /\ ToSet(Dequeue(place, p)) = ToSet(place) \ {p}
<1> DEFINE rest == Dequeue(place, p)
<1>1. /\ rest \in Seq(Ids) /\ NoDuplicates(rest)
      /\ \A x \in Ids : (\E i \in DOMAIN rest : rest[i] = x) <=> (x # p /\ \E i \in DOMAIN place : place[i] = x)
  BY DequeueKeepsOthers
<1> HIDE DEF rest
<1>2. \A i \in DOMAIN rest : rest[i] \in Ids
  BY <1>1
<1>3. \A i \in DOMAIN place : place[i] \in Ids
  OBVIOUS
<1>4. ToSet(rest) = ToSet(place) \ {p}
  BY <1>1, <1>2, <1>3 DEF ToSet
<1> QED  BY <1>1, <1>4 DEF rest

\* Renumbering keeps hands up.
LEMMA NormalizedKeeps ==
  ASSUME NEW numbers \in [Ids -> Nat], NEW place \in Seq(Ids)
  PROVE  /\ Normalized(numbers, place) \in [Ids -> Nat]
         /\ \A q \in Ids : numbers[q] > 0 => Normalized(numbers, place)[q] > 0
<1> DEFINE shownRaised == {q \in Ids : numbers[q] > 0 /\ q \in ToSet(place)}
           At(q) == CHOOSE i \in DOMAIN place : place[i] = q
           Before(q, r) == numbers[q] < numbers[r] \/ (numbers[q] = numbers[r] /\ At(q) < At(r))
           rank(q) == Cardinality({r \in shownRaised : Before(r, q)})
<1>1. IsFiniteSet(ToSet(place))
  <2>1. place \in Surjection(1..Len(place), ToSet(place))
    BY DEF Surjection, ToSet
  <2>2. IsFiniteSet(1..Len(place))
    BY FS_Interval
  <2> QED  BY <2>1, <2>2, FS_Surjection
<1>2. \A q \in Ids : rank(q) \in Nat
  <2> SUFFICES ASSUME NEW q \in Ids PROVE rank(q) \in Nat
    OBVIOUS
  <2>1. {r \in shownRaised : Before(r, q)} \in SUBSET ToSet(place)
    OBVIOUS
  <2> QED  BY <1>1, <2>1, FS_Subset, FS_CardinalityType
<1>3. Normalized(numbers, place) = [q \in Ids |-> IF q \in shownRaised THEN 1 + rank(q) ELSE numbers[q]]
  BY DEF Normalized
<1> HIDE DEF shownRaised, rank
<1> QED  BY <1>2, <1>3

\* What the hub does to the table, the table allows: it is used by its methods only.
THEOREM HandsUseTheTable == HandsSpec => Spec
<1>1. HandsInit => Init
  BY DEF HandsInit
<1>2. [HandsNext]_handsVars => [Next]_vars
  BY DEF HandsNext, Next, Enter, ShowRoster, Announce, Raise, Lower, TellHand, Depart, TellLeft,
         LoseConnection, TellAway, Expire, Resume, TakeOver, Succeed, RemoveTile, SetLimit, Idle,
         handsVars, tableVars
<1> QED  BY <1>1, <1>2, PTL DEF HandsSpec, Spec

\* A room without members has no hands to hide.
LEMMA HandsStart == HandsInit => HandsInv
<1> SUFFICES ASSUME HandsInit PROVE HandsInv
  OBVIOUS
<1> USE DEF HandsInit, Init
<1>1. HandTypes
  <2>1. IsFiniteSet(participants)
    BY FS_EmptySet
  <2>2. \A m \in Ids : NoDuplicates(tiles[m])
    BY DEF NoDuplicates
  <2> QED  BY <2>1, <2>2, LimitsAssumption DEF HandTypes, HandsTypeOK, TypeOK, ToSet, NoHeir
<1>2. HandQueueConsistent
  BY DEF HandQueueConsistent
<1>3. HandsOfMembers /\ Records
  BY DEF HandsOfMembers, Records, TellsTruth
<1>4. CopyIsComing /\ TilesOfMembers
  BY DEF CopyIsComing, TilesOfMembers, Room
<1> QED  BY <1>1, <1>2, <1>3, <1>4 DEF HandsInv

\* Steps of the table that no browser hears of yet.
LEMMA TableSteps ==
  ASSUME HandsInv, TypeOK', HandQueueConsistent', NEW p \in Ids,
         Enter(p) \/ Raise(p) \/ Lower(p) \/ Depart(p) \/ Expire(p)
  PROVE  HandsInv'
<1> USE DEF HandsInv
<1>0. /\ UNCHANGED <<departures, copy, heir, tiles, fading, number>>
      /\ \A s : Does(p, s) => doing'[p] = s /\ \A q \in Ids \ {p} : doing'[q] = doing[q]
      /\ \A s : Does(p, s) => doing' = [doing EXCEPT ![p] = s]
  BY DEF Enter, Raise, Lower, Depart, Expire, Does, HandTypes, HandsTypeOK, browserVars
\* What a step leaves behind, if the records are those of the goroutine p alone.
<1>1. ASSUME NEW s \in {"joined", "telling", "tellLeft", "left"},
             Does(p, s), s = "telling" <=> changed'[p] # <<>>,
             changed' \in [Ids -> Seq(Ids \X Nat)],
             \A q \in Ids \ {p} : changed'[q] = changed[q],
             IsFiniteSet(participants'),
             raised' \in [Ids -> BOOLEAN], \A q \in Ids \ {p} : raised'[q] = raised[q],
             s \in {"joined", "telling"} => p \in participants',
             \A q \in Ids \ {p} : q \in participants => q \in participants',
             s # "telling" => ~raised'[p],
             s = "joined" => doing[p] = "new",
             s = "telling" => doing[p] = "in",
             s \in {"tellLeft", "left"} => doing[p] \in {"in", "away"},
             doing[p] = "away" => s = "left",
             s = "telling" => OwnToTell(p)',
             TellsTruth(p)'
      PROVE  HandsInv'
  <2>1. /\ doing' = [doing EXCEPT ![p] = s] /\ doing'[p] = s
        /\ \A q \in Ids \ {p} : doing'[q] = doing[q]
    BY <1>0, <1>1
  <2>7. \A q \in Ids \ {p} : OwnToTell(q)' <=> OwnToTell(q)
    BY <1>1 DEF OwnToTell
  <2>2. HandTypes'
    BY <1>0, <1>1, <2>1, ZenonT(30) DEF HandTypes, HandsTypeOK
  <2>3. HandsOfMembers'
    BY <1>1, <2>1 DEF HandsOfMembers
  <2>4. Records'
    <3>1. \A q \in Ids \ {p} : TellsTruth(q)' <=> TellsTruth(q)
      BY <1>1 DEF TellsTruth
    <3> QED  BY <1>1, <3>1 DEF Records
  <2>5. CopyIsComing'
    <3>1. s = "joined" => ~raised[p] /\ ~OwnToTell(p)
      BY <1>1 DEF HandsOfMembers, OwnToTell, HandTypes, HandsTypeOK
    <3>2. s = "joined" => (heir[p] = NoHeir /\ (copy[p] > 0 <=> raised[p])) \/ "takeover" \in departures
      BY <1>1, <3>1 DEF CopyIsComing
    <3>3. ASSUME "takeover" \notin departures, NEW q \in Ids \ {p}
          PROVE  heir'[q] = NoHeir /\ (doing'[q] \in {"tellLeft", "left"} \/ OwnToTell(q)' \/ (copy'[q] > 0 <=> raised'[q]))
      BY <1>0, <1>1, <2>1, <2>7, <3>3 DEF CopyIsComing
    <3>4. ASSUME "takeover" \notin departures
          PROVE  heir'[p] = NoHeir /\ (doing'[p] \in {"tellLeft", "left"} \/ OwnToTell(p)' \/ (copy'[p] > 0 <=> raised'[p]))
      BY <1>0, <1>1, <2>1, <3>1, <3>2, <3>4 DEF CopyIsComing
    <3> QED  BY <1>0, <3>3, <3>4 DEF CopyIsComing
  <2>6. TilesOfMembers'
    <3> SUFFICES ASSUME "drop" \notin departures PROVE TilesOfMembers'
      BY <1>0 DEF TilesOfMembers
    <3>1. /\ \A q \in Ids : doing[q] \notin {"tellAway", "away"}
          /\ \A q \in Ids : raised[q] => doing[q] \in {"in", "telling", "over"}
          /\ \A m \in Room : \A q \in Ids \ {m} :
               /\ doing[q] \in {"in", "telling", "over"} => q \in ToSet(tiles[m]) /\ q \notin fading[m]
               /\ raised[q] => number[m][q] > 0 \/ OwnToTell(q)
      BY DEF TilesOfMembers
    <3>2. Room' \subseteq Room
      BY <1>1, <2>1 DEF Room
    <3>3. \A q \in Ids : doing'[q] \notin {"tellAway", "away"}
      BY <1>1, <2>1, <3>1
    <3>4. \A q \in Ids : raised'[q] => doing'[q] \in {"in", "telling", "over"}
      BY <1>1, <2>1, <3>1
    <3>5. \A m \in Room' : \A q \in Ids \ {m} :
            doing'[q] \in {"in", "telling", "over"} => q \in ToSet(tiles[m]) /\ q \notin fading[m]
      BY <1>1, <2>1, <3>1, <3>2
    <3>6. \A m \in Room' : \A q \in Ids \ {m} : raised'[q] => number[m][q] > 0 \/ OwnToTell(q)'
      BY <1>1, <2>7, <3>1, <3>2
    <3> QED  BY <1>0, <3>3, <3>4, <3>5, <3>6 DEF TilesOfMembers
  <2> QED  BY <2>2, <2>3, <2>4, <2>5, <2>6
<1>2. CASE Enter(p)
  <2>1. IsFiniteSet(participants')
    BY <1>2, FS_AddElement DEF Enter, Join, HandTypes
  <2>2. ~raised[p] /\ changed[p] = <<>>
    BY <1>2 DEF Enter, HandsOfMembers, HandTypes, HandsTypeOK
  <2> HIDE DEF HandsInv
  <2>3. /\ Does(p, "joined") /\ doing[p] = "new" /\ changed' = changed /\ raised' = raised
        /\ participants' = participants \union {p}
    BY <1>2 DEF Enter, Join
  <2>4. changed \in [Ids -> Seq(Ids \X Nat)] /\ raised \in [Ids -> BOOLEAN]
    BY DEF HandsInv, HandTypes, HandsTypeOK, TypeOK
  <2>5. TellsTruth(p)'
    BY <2>2, <2>3 DEF TellsTruth
  <2> QED  BY <1>1, <2>1, <2>2, <2>3, <2>4, <2>5
<1>3. CASE Raise(p)
  <2>1. /\ doing[p] = "in" /\ Does(p, "telling") /\ p \in participants /\ participants' = participants
        /\ raised' = [raised EXCEPT ![p] = TRUE]
        /\ changed' = [changed EXCEPT ![p] = << <<p, order'[p]>> >>]
    BY <1>3 DEF Raise, RaiseHand
  <2>2. order'[p] \in Nat /\ order'[p] > 0
    BY <1>3, <2>1 DEF Raise, RaiseHand, HandTypes, HandsTypeOK, TypeOK
  <2>3. /\ << <<p, order'[p]>> >> \in Seq(Ids \X Nat) /\ << <<p, order'[p]>> >> # <<>>
        /\ DOMAIN << <<p, order'[p]>> >> = {1} /\ << <<p, order'[p]>> >>[1] = <<p, order'[p]>>
        /\ <<p, order'[p]>>[1] = p /\ <<p, order'[p]>>[2] = order'[p]
    BY <2>2
  <2>4. changed'[p] = << <<p, order'[p]>> >> /\ \A q \in Ids \ {p} : changed'[q] = changed[q]
    BY <2>1 DEF HandTypes
  <2>5. raised'[p] /\ raised' \in [Ids -> BOOLEAN] /\ \A q \in Ids \ {p} : raised'[q] = raised[q]
    BY <2>1 DEF HandTypes, HandsTypeOK, TypeOK
  <2>6. changed' \in [Ids -> Seq(Ids \X Nat)] /\ IsFiniteSet(participants')
    BY <2>1, <2>3 DEF HandTypes
  <2>7. 1 \in DOMAIN changed'[p] /\ changed'[p][1][1] = p /\ changed'[p][1][2] = order'[p]
    BY <2>3, <2>4
  <2>8. \A i \in DOMAIN changed'[p] : i = 1
    BY <2>3, <2>4
  <2>9. OwnToTell(p)'
    BY <2>7 DEF OwnToTell
  <2>10. TellsTruth(p)'
    BY <2>2, <2>5, <2>7, <2>8 DEF TellsTruth
  <2>11. changed'[p] # <<>>
    BY <2>3, <2>4
  <2> HIDE DEF HandsInv
  <2> QED  BY <1>1, <2>1, <2>4, <2>5, <2>6, <2>9, <2>10, <2>11
<1>4. CASE Lower(p)
  <2> DEFINE others == [i \in DOMAIN raisedHandIDs' |-> <<raisedHandIDs'[i], i>>]
             records == << <<p, 0>> >> \o others
  <2>1. /\ doing[p] = "in" /\ Does(p, "telling") /\ p \in participants /\ participants' = participants
        /\ raised' = [raised EXCEPT ![p] = FALSE] /\ raisedHandIDs' = Dequeue(raisedHandIDs, p)
        /\ changed' = [changed EXCEPT ![p] = records]
    BY <1>4 DEF Lower, LowerHand
  <2>2. raisedHandIDs' \in Seq(Ids) /\ \A i \in DOMAIN raisedHandIDs' : raisedHandIDs'[i] # p
    <3>1. NoDuplicates(raisedHandIDs) /\ raisedHandIDs \in Seq(Ids)
      BY DEF HandQueueConsistent, NoDuplicates, HandTypes, HandsTypeOK, TypeOK
    <3> QED  BY <2>1, <3>1, DequeueKeepsOthers
  <2>3. /\ others \in Seq(Ids \X Nat) /\ Len(others) \in Nat /\ DOMAIN others = 1..Len(others)
        /\ \A i \in DOMAIN others : others[i][1] # p /\ others[i][2] = i
    BY <2>2
  <2> HIDE DEF others
  <2>4. /\ records \in Seq(Ids \X Nat) /\ DOMAIN records = 1..Len(others) + 1 /\ records[1] = <<p, 0>>
        /\ \A i \in 1..Len(others) : records[i + 1] = others[i]
    BY <2>3
  <2>5. \A i \in DOMAIN records : i = 1 \/ (i - 1 \in 1..Len(others) /\ records[i] = others[i - 1])
    <3>1. \A i \in 1..Len(others) + 1 : i = 1 \/ (i - 1 \in 1..Len(others) /\ i = (i - 1) + 1)
      BY <2>3
    <3> QED  BY <2>4, <3>1
  <2>6. 1 \in DOMAIN records /\ records # <<>> /\ records[1][1] = p /\ records[1][2] = 0
    BY <2>3, <2>4
  <2>7. ASSUME NEW i \in DOMAIN records
        PROVE  IF records[i][1] = p THEN records[i][2] = 0 ELSE records[i][2] > 0
    <3>1. CASE i = 1
      BY <2>6, <3>1
    <3>2. CASE i - 1 \in 1..Len(others) /\ records[i] = others[i - 1]
      BY <2>3, <3>2
    <3> QED  BY <2>5, <3>1, <3>2
  <2> HIDE DEF records
  <2>8. changed'[p] = records /\ \A q \in Ids \ {p} : changed'[q] = changed[q]
    BY <2>1 DEF HandTypes
  <2>9. ~raised'[p] /\ raised' \in [Ids -> BOOLEAN] /\ \A q \in Ids \ {p} : raised'[q] = raised[q]
    BY <2>1 DEF HandTypes, HandsTypeOK, TypeOK
  <2>10. changed' \in [Ids -> Seq(Ids \X Nat)] /\ IsFiniteSet(participants')
    BY <2>1, <2>4 DEF HandTypes
  <2>11. OwnToTell(p)'
    BY <2>6, <2>8 DEF OwnToTell
  <2>12. TellsTruth(p)'
    BY <2>7, <2>8, <2>9 DEF TellsTruth
  <2>13. changed'[p] # <<>>
    BY <2>6, <2>8
  <2> HIDE DEF HandsInv
  <2> QED  BY <1>1, <2>1, <2>8, <2>9, <2>10, <2>11, <2>12, <2>13
<1>5. CASE Depart(p) \/ Expire(p)
  <2>1. /\ doing[p] \in {"in", "away"} /\ participants' = participants \ {p}
        /\ raised' = [raised EXCEPT ![p] = FALSE] /\ changed' = changed
        /\ (doing[p] = "in" /\ Does(p, "tellLeft")) \/ (doing[p] = "away" /\ Does(p, "left"))
    BY <1>5 DEF Depart, Expire, Leave
  <2>2. IsFiniteSet(participants')
    BY <2>1, FS_RemoveElement DEF HandTypes
  <2>3. changed[p] = <<>> /\ changed \in [Ids -> Seq(Ids \X Nat)]
    BY <2>1 DEF HandTypes, HandsTypeOK
  <2>4. ~raised'[p] /\ raised' \in [Ids -> BOOLEAN] /\ \A q \in Ids \ {p} : raised'[q] = raised[q]
    BY <2>1 DEF HandTypes, HandsTypeOK, TypeOK
  <2>5. TellsTruth(p)'
    BY <2>1, <2>3 DEF TellsTruth
  <2> HIDE DEF HandsInv
  <2> QED  BY <1>1, <2>1, <2>2, <2>3, <2>4, <2>5
<1> QED  BY <1>2, <1>3, <1>4, <1>5

\* Steps that change what the goroutine p does, or its copies, and nothing else.
LEMMA GoroutineSteps ==
  ASSUME HandsInv, NEW p \in Ids,
         LoseConnection(p) \/ Resume(p) \/ TakeOver(p) \/ Succeed(p)
  PROVE  HandsInv'
<1> USE DEF HandsInv
<1>1. /\ UNCHANGED <<tableVars, changed, tiles, fading, number>>
      /\ UNCHANGED <<departures, max, participants, raised, order, raisedHandIDs, issued>>
  BY DEF LoseConnection, Resume, TakeOver, Succeed, browserVars, tableVars, vars
<1>2. \E s \in {"tellAway", "joined", "over", doing[p]} :
        /\ doing' = [doing EXCEPT ![p] = s]
        /\ s = "tellAway" => "drop" \in departures /\ doing[p] = "in"
        /\ s = "joined" => doing[p] = "away"
        /\ s = "over" => doing[p] = "in" /\ heir[p] # NoHeir
  BY DEF LoseConnection, Resume, TakeOver, Succeed, Does, HandTypes, HandsTypeOK
<1>3. PICK s \in {"tellAway", "joined", "over", doing[p]} :
        /\ doing'[p] = s /\ \A q \in Ids \ {p} : doing'[q] = doing[q]
        /\ doing' = [doing EXCEPT ![p] = s]
        /\ s = "tellAway" => "drop" \in departures /\ doing[p] = "in"
        /\ s = "joined" => doing[p] = "away"
        /\ s = "over" => doing[p] = "in" \/ doing[p] = "over"
  BY <1>2 DEF HandTypes, HandsTypeOK
<1>4. \A q \in Ids : OwnToTell(q)' = OwnToTell(q) /\ TellsTruth(q)' = TellsTruth(q)
  BY <1>1 DEF OwnToTell, TellsTruth
<1>5. copy' \in [Ids -> Nat] /\ heir' \in [Ids -> Nat \union {NoHeir}]
  BY DEF LoseConnection, Resume, TakeOver, Succeed, HandTypes, HandsTypeOK
<1>6. "takeover" \notin departures => UNCHANGED <<copy, heir>>
  BY DEF LoseConnection, Resume, TakeOver, Succeed, CopyIsComing
<1>7. HandTypes'
  <2>1. doing' \in [Ids -> {"new", "joined", "announce", "in", "telling", "tellLeft",
                          "left", "tellAway", "away", "over"}]
    BY <1>3 DEF HandTypes, HandsTypeOK
  <2>2. \A q \in Ids : doing'[q] = "telling" <=> changed[q] # <<>>
    BY <1>3 DEF HandTypes, HandsTypeOK
  <2> QED  BY <1>1, <1>5, <2>1, <2>2 DEF HandTypes, HandsTypeOK, TypeOK
<1>8. HandQueueConsistent'
  BY <1>1 DEF HandQueueConsistent
<1>9. HandsOfMembers' /\ Records'
  BY <1>1, <1>3, <1>4 DEF HandsOfMembers, Records
<1>10. CopyIsComing'
  BY <1>1, <1>3, <1>4, <1>6 DEF CopyIsComing
<1>11. TilesOfMembers'
  <2>1. Room' \subseteq Room
    BY <1>3 DEF Room
  <2> QED  BY <1>1, <1>3, <1>4, <2>1 DEF TilesOfMembers
<1> QED  BY <1>7, <1>8, <1>9, <1>10, <1>11

\* A roster that arrives shows the hands of the members it lists.
LEMMA ShowRosterStep ==
  ASSUME HandsInv, NEW p \in Ids, ShowRoster(p)
  PROVE  HandsInv'
<1> USE DEF HandsInv
<1> DEFINE present == {q \in participants : q \notin InGrace /\ q # p}
<1>1. /\ UNCHANGED <<tableVars, changed, copy, heir>>
      /\ UNCHANGED <<departures, max, participants, raised, order, raisedHandIDs, issued>>
      /\ doing[p] \in {"joined", "over"}
      /\ number' = [number EXCEPT ![p] = [q \in Ids |-> IF q = p THEN copy[p]
                                                        ELSE IF q \in present THEN order[q] ELSE 0]]
      /\ fading' = [fading EXCEPT ![p] = {}]
  BY DEF ShowRoster, tableVars, vars
<1>2. PICK others \in SetToSeqs(present) : tiles' = [tiles EXCEPT ![p] = <<p>> \o others]
  BY DEF ShowRoster
<1>3. PICK s \in {"in", "announce"} :
        /\ doing'[p] = s /\ \A q \in Ids \ {p} : doing'[q] = doing[q]
        /\ doing' = [doing EXCEPT ![p] = s]
        /\ s = "in" => doing[p] = "over"
        /\ s = "announce" => doing[p] = "joined"
  BY <1>1 DEF ShowRoster, Does, HandTypes, HandsTypeOK
<1>4. \A q \in Ids : OwnToTell(q)' = OwnToTell(q) /\ TellsTruth(q)' = TellsTruth(q)
  BY <1>1 DEF OwnToTell, TellsTruth
<1>5. /\ tiles'[p] \in Seq(Ids) /\ ToSet(tiles'[p]) = present \union {p} /\ NoDuplicates(tiles'[p])
      /\ \A m \in Ids \ {p} : tiles'[m] = tiles[m]
      /\ tiles' \in [Ids -> Seq(Ids)]
  <2>1. present \in SUBSET Ids /\ IsFiniteSet(present) /\ p \notin present
    <3>1. participants \in SUBSET Ids /\ IsFiniteSet(participants)
      BY DEF HandTypes, HandsTypeOK, TypeOK
    <3> QED  BY <3>1, FS_Subset
  <2> HIDE DEF present
  <2>2. others \in Seq(Ids) /\ ToSet(others) = present /\ NoDuplicates(others)
    BY <2>1, RosterInOrder
  <2>3. /\ <<p>> \o others \in Seq(Ids) /\ ToSet(<<p>> \o others) = ToSet(others) \union {p}
        /\ NoDuplicates(<<p>> \o others)
    BY <2>1, <2>2, TileAdded
  <2>4. tiles \in [Ids -> Seq(Ids)]
    BY DEF HandTypes
  <2> QED  BY <1>2, <2>2, <2>3, <2>4
<1>6. /\ number' \in [Ids -> [Ids -> Nat]] /\ \A m \in Ids \ {p} : number'[m] = number[m]
      /\ \A q \in present : number'[p][q] = order[q]
      /\ fading' \in [Ids -> SUBSET Ids] /\ fading'[p] = {} /\ \A m \in Ids \ {p} : fading'[m] = fading[m]
  BY <1>1 DEF HandTypes, HandsTypeOK, TypeOK
<1>7. HandTypes'
  <2>1. doing' \in [Ids -> {"new", "joined", "announce", "in", "telling", "tellLeft",
                          "left", "tellAway", "away", "over"}]
    BY <1>3 DEF HandTypes, HandsTypeOK
  <2>2. \A q \in Ids : doing'[q] = "telling" <=> changed[q] # <<>>
    BY <1>3 DEF HandTypes, HandsTypeOK
  <2>3. \A m \in Ids : NoDuplicates(tiles'[m]) /\ fading'[m] \subseteq ToSet(tiles'[m])
    BY <1>5, <1>6 DEF HandTypes, HandsTypeOK
  <2> QED  BY <1>1, <1>5, <1>6, <2>1, <2>2, <2>3 DEF HandTypes, HandsTypeOK, TypeOK
<1>8. HandQueueConsistent'
  BY <1>1 DEF HandQueueConsistent
<1>9. HandsOfMembers' /\ Records'
  BY <1>1, <1>3, <1>4 DEF HandsOfMembers, Records
<1>10. CopyIsComing'
  BY <1>1, <1>3, <1>4 DEF CopyIsComing
<1>11. TilesOfMembers'
  <2> SUFFICES ASSUME "drop" \notin departures PROVE TilesOfMembers'
    BY <1>1 DEF TilesOfMembers
  <2>1. InGrace = {} /\ Room' = Room \union {p}
    BY <1>3 DEF TilesOfMembers, InGrace, Room
  <2>2. \A q \in Ids : doing'[q] \notin {"tellAway", "away"} /\ (raised'[q] => doing'[q] \in {"in", "telling", "over"})
    BY <1>1, <1>3 DEF TilesOfMembers
  <2>3. ASSUME NEW q \in Ids \ {p}, doing'[q] \in {"in", "telling", "over"} \/ raised[q]
        PROVE  q \in present
    BY <1>3, <2>1, <2>3 DEF HandsOfMembers, HandQueueConsistent
  <2>4. ASSUME NEW q \in Ids \ {p}, raised[q]
        PROVE  number'[p][q] > 0
    <3>1. q \in present
      BY <2>3, <2>4
    <3>2. \E i \in DOMAIN raisedHandIDs : raisedHandIDs[i] = q /\ order[q] = i
      BY <2>4 DEF HandQueueConsistent
    <3>3. order[q] > 0
      BY <3>2 DEF HandTypes, HandsTypeOK, TypeOK
    <3> QED  BY <1>6, <3>1, <3>3
  <2>5. ASSUME NEW m \in Room', NEW q \in Ids \ {m}
        PROVE  /\ doing'[q] \in {"in", "telling", "over"} => q \in ToSet(tiles'[m]) /\ q \notin fading'[m]
               /\ raised[q] => number'[m][q] > 0 \/ OwnToTell(q)
    <3>1. CASE m = p
      BY <1>5, <1>6, <2>3, <2>4, <3>1
    <3>2. CASE m # p
      <4>1. m \in Room /\ m \in Ids
        BY <2>1, <3>2 DEF Room
      <4>2. doing'[q] \in {"in", "telling", "over"} => doing[q] \in {"in", "telling", "over"}
        BY <1>3
      <4> QED  BY <1>5, <1>6, <3>2, <4>1, <4>2 DEF TilesOfMembers
    <3> QED  BY <3>1, <3>2
  <2> QED  BY <1>1, <1>4, <2>2, <2>5 DEF TilesOfMembers
<1> QED  BY <1>7, <1>8, <1>9, <1>10, <1>11

\* The announcement of a participant adds a tile with the hand it carries.
LEMMA AnnounceStep ==
  ASSUME HandsInv, NEW p \in Ids, Announce(p)
  PROVE  HandsInv'
<1> USE DEF HandsInv
<1> DEFINE fresh(m) == m \in Room \ {p} /\ p \notin ToSet(tiles[m])
<1>1. /\ UNCHANGED <<tableVars, changed, copy, heir>>
      /\ UNCHANGED <<departures, max, participants, raised, order, raisedHandIDs, issued>>
      /\ doing[p] = "announce" /\ doing' = [doing EXCEPT ![p] = "in"]
      /\ tiles' = [m \in Ids |-> IF fresh(m) THEN Append(tiles[m], p) ELSE tiles[m]]
      /\ number' = [m \in Ids |-> IF fresh(m) THEN [number[m] EXCEPT ![p] = copy[p]] ELSE number[m]]
      /\ fading' = [m \in Ids |-> IF m \in Room \ {p} THEN fading[m] \ {p} ELSE fading[m]]
  BY DEF Announce, AddTile, Does, tableVars, vars
<1>2. doing'[p] = "in" /\ \A q \in Ids \ {p} : doing'[q] = doing[q]
  BY <1>1 DEF HandTypes, HandsTypeOK
<1>3. \A q \in Ids : OwnToTell(q)' = OwnToTell(q) /\ TellsTruth(q)' = TellsTruth(q)
  BY <1>1 DEF OwnToTell, TellsTruth
<1>4. ASSUME NEW m \in Ids
      PROVE  /\ tiles'[m] \in Seq(Ids) /\ NoDuplicates(tiles'[m])
             /\ ToSet(tiles'[m]) = IF m \in Room \ {p} THEN ToSet(tiles[m]) \union {p} ELSE ToSet(tiles[m])
             /\ fading'[m] = IF m \in Room \ {p} THEN fading[m] \ {p} ELSE fading[m]
             /\ number'[m] \in [Ids -> Nat]
             /\ \A q \in Ids \ {p} : number'[m][q] = number[m][q]
  <2>1. tiles[m] \in Seq(Ids) /\ NoDuplicates(tiles[m])
    BY DEF HandTypes
  <2>2. CASE fresh(m)
    <3>1. tiles'[m] = Append(tiles[m], p)
      BY <1>1, <2>2
    <3> QED  BY <1>1, <2>1, <2>2, <3>1, TileAdded DEF HandTypes, HandsTypeOK
  <2>3. CASE ~fresh(m)
    <3>1. tiles'[m] = tiles[m] /\ number'[m] = number[m]
      BY <1>1, <2>3
    <3> QED  BY <1>1, <2>1, <2>3, <3>1 DEF HandTypes, HandsTypeOK
  <2> QED  BY <2>2, <2>3
<1>5. DOMAIN tiles' = Ids /\ DOMAIN number' = Ids /\ DOMAIN fading' = Ids
  BY <1>1
<1>6. /\ tiles' \in [Ids -> Seq(Ids)] /\ number' \in [Ids -> [Ids -> Nat]]
      /\ fading' \in [Ids -> SUBSET Ids] /\ \A m \in Ids : fading'[m] \subseteq ToSet(tiles'[m])
  <2>1. \A m \in Ids : fading[m] \in SUBSET Ids /\ fading[m] \subseteq ToSet(tiles[m])
    BY DEF HandTypes, HandsTypeOK
  <2>2. tiles' \in [Ids -> Seq(Ids)] /\ number' \in [Ids -> [Ids -> Nat]]
    BY <1>1, <1>4
  <2>3. fading' \in [Ids -> SUBSET Ids]
    BY <1>1, <2>1
  <2>4. \A m \in Ids : fading'[m] \subseteq ToSet(tiles'[m])
    BY <1>4, <2>1
  <2> QED  BY <2>2, <2>3, <2>4
<1>7. HandTypes'
  <2>1. doing' \in [Ids -> {"new", "joined", "announce", "in", "telling", "tellLeft",
                          "left", "tellAway", "away", "over"}]
    BY <1>1 DEF HandTypes, HandsTypeOK
  <2>2. \A q \in Ids : doing'[q] = "telling" <=> changed[q] # <<>>
    BY <1>1, <1>2 DEF HandTypes, HandsTypeOK
  <2> QED  BY <1>1, <1>4, <1>6, <2>1, <2>2 DEF HandTypes, HandsTypeOK, TypeOK
<1>8. HandQueueConsistent'
  BY <1>1 DEF HandQueueConsistent
<1>9. HandsOfMembers' /\ Records'
  BY <1>1, <1>2, <1>3 DEF HandsOfMembers, Records
<1>10. CopyIsComing'
  BY <1>1, <1>2, <1>3 DEF CopyIsComing
<1>11. TilesOfMembers'
  <2> SUFFICES ASSUME "drop" \notin departures PROVE TilesOfMembers'
    BY <1>1 DEF TilesOfMembers
  <2>1. Room' = Room
    BY <1>1, <1>2 DEF Room
  <2>2. ~raised[p] /\ \A q \in Ids : doing'[q] \notin {"tellAway", "away"} /\ (raised'[q] => doing'[q] \in {"in", "telling", "over"})
    BY <1>1, <1>2 DEF TilesOfMembers
  <2>3. ASSUME NEW m \in Room', NEW q \in Ids \ {m}
        PROVE  /\ doing'[q] \in {"in", "telling", "over"} => q \in ToSet(tiles'[m]) /\ q \notin fading'[m]
               /\ raised[q] => number'[m][q] > 0 \/ OwnToTell(q)
    <3>0. m \in Room /\ m \in Ids
      BY <2>1 DEF Room
    <3>1. CASE q = p
      BY <1>4, <2>2, <3>0, <3>1
    <3>2. CASE q # p
      BY <1>2, <1>4, <3>0, <3>2 DEF TilesOfMembers
    <3> QED  BY <3>1, <3>2
  <2> QED  BY <1>1, <1>3, <2>2, <2>3 DEF TilesOfMembers
<1> QED  BY <1>7, <1>8, <1>9, <1>10, <1>11

\* The first of the records, and the others.
LEMMA HeadAndTail ==
  ASSUME NEW S, NEW s \in Seq(S), s # <<>>
  PROVE  /\ 1 \in DOMAIN s /\ Head(s) = s[1] /\ s[1] \in S
         /\ Tail(s) \in Seq(S) /\ (Tail(s) = <<>> <=> Len(s) = 1)
         /\ \A i \in DOMAIN Tail(s) : i + 1 \in DOMAIN s /\ Tail(s)[i] = s[i + 1]
         /\ \A i \in DOMAIN s : i = 1 \/ (i - 1 \in DOMAIN Tail(s) /\ Tail(s)[i - 1] = s[i])
<1>1. Len(s) \in Nat /\ Len(s) >= 1 /\ DOMAIN s = 1..Len(s)
  OBVIOUS
<1>2. 1 \in DOMAIN s /\ Head(s) = s[1] /\ s[1] \in S
  BY <1>1
<1>3. Tail(s) \in Seq(S) /\ Len(Tail(s)) = Len(s) - 1 /\ DOMAIN Tail(s) = 1..(Len(s) - 1)
  BY <1>1
<1>4. \A i \in 1..(Len(s) - 1) : Tail(s)[i] = s[i + 1]
  BY <1>1
<1>5. Tail(s) = <<>> <=> Len(s) = 1
  <2>1. \A t \in Seq(S) : t # <<>> => Len(t) \in Nat \ {0}
    OBVIOUS
  <2>2. Len(<<>>) = 0
    OBVIOUS
  <2>3. Len(s) = 1 => Len(Tail(s)) = 0
    BY <1>3
  <2>4. Len(Tail(s)) = 0 => Len(s) = 1
    <3> DEFINE n == Len(s)
               k == Len(Tail(s))
    <3>1. n \in Nat /\ k = n - 1
      BY <1>1, <1>3
    <3> HIDE DEF n, k
    <3>2. k = 0 => n = 1
      BY <3>1
    <3> QED  BY <3>2 DEF n, k
  <2>5. Tail(s) = <<>> => Len(Tail(s)) = 0
    BY <2>2
  <2>6. Len(Tail(s)) = 0 => Tail(s) = <<>>
    BY <1>3, <2>1
  <2> QED  BY <2>3, <2>4, <2>5, <2>6
<1>6. \A i \in 1..Len(s) : i = 1 \/ (i - 1 \in 1..(Len(s) - 1) /\ i = (i - 1) + 1)
  BY <1>1
<1>7. \A i \in 1..(Len(s) - 1) : i + 1 \in 1..Len(s)
  BY <1>1
<1>8. \A i \in DOMAIN s : i = 1 \/ (i - 1 \in DOMAIN Tail(s) /\ Tail(s)[i - 1] = s[i])
  BY <1>1, <1>3, <1>4, <1>6
<1> QED  BY <1>1, <1>2, <1>3, <1>4, <1>5, <1>7, <1>8

\* A hand that is told reaches the tile it is about.
LEMMA TellHandStep ==
  ASSUME HandsInv, NEW p \in Ids, TellHand(p)
  PROVE  HandsInv'
<1> USE DEF HandsInv
<1> DEFINE record == Head(changed[p])
           shows(m) == m \in Room /\ record[1] \in ToSet(tiles[m])
<1>0. /\ changed[p] \in Seq(Ids \X Nat) /\ changed[p] # <<>> /\ doing[p] = "telling"
      /\ record \in Ids \X Nat /\ record[1] \in Ids /\ record[2] \in Nat
      /\ 1 \in DOMAIN changed[p] /\ record = changed[p][1]
  <2>1. changed[p] \in Seq(Ids \X Nat) /\ changed[p] # <<>> /\ doing[p] = "telling"
    BY DEF TellHand, HandTypes, HandsTypeOK
  <2>2. record \in Ids \X Nat /\ 1 \in DOMAIN changed[p] /\ record = changed[p][1]
    BY <2>1, HeadAndTail
  <2> HIDE DEF record
  <2> QED  BY <2>1, <2>2
<1>1. /\ UNCHANGED <<tableVars, heir, tiles, fading>>
      /\ UNCHANGED <<departures, max, participants, raised, order, raisedHandIDs, issued>>
      /\ changed' = [changed EXCEPT ![p] = Tail(changed[p])]
      /\ copy' = IF record[1] = p THEN [copy EXCEPT ![p] = record[2]] ELSE copy
      /\ number' = [m \in Ids |-> IF shows(m) THEN [number[m] EXCEPT ![record[1]] = record[2]] ELSE number[m]]
  BY DEF TellHand, ShowHand, tableVars, vars
<1>2. /\ changed'[p] = Tail(changed[p]) /\ \A q \in Ids \ {p} : changed'[q] = changed[q]
      /\ Tail(changed[p]) \in Seq(Ids \X Nat)
      /\ \A i \in DOMAIN Tail(changed[p]) : i + 1 \in DOMAIN changed[p] /\ Tail(changed[p])[i] = changed[p][i + 1]
      /\ \A i \in DOMAIN changed[p] : i = 1 \/ (i - 1 \in DOMAIN Tail(changed[p]) /\ Tail(changed[p])[i - 1] = changed[p][i])
      /\ Tail(changed[p]) = <<>> <=> Len(changed[p]) = 1
  <2>1. changed'[p] = Tail(changed[p]) /\ \A q \in Ids \ {p} : changed'[q] = changed[q]
    BY <1>1 DEF HandTypes
  <2> QED  BY <1>0, <2>1, HeadAndTail
<1>3. PICK s \in {"in", "telling"} :
        /\ doing'[p] = s /\ \A q \in Ids \ {p} : doing'[q] = doing[q]
        /\ doing' = [doing EXCEPT ![p] = s]
        /\ s = "telling" <=> changed'[p] # <<>>
  BY <1>2 DEF TellHand, Does, HandTypes, HandsTypeOK
<1> HIDE DEF record
<1>4. /\ IF record[1] = p THEN record[2] > 0 <=> raised[p] ELSE record[2] > 0
      /\ TellsTruth(p)'
      /\ record[1] = p \/ OwnToTell(p)' \/ ~OwnToTell(p)
      /\ \A q \in Ids \ {p} : (OwnToTell(q)' <=> OwnToTell(q)) /\ (TellsTruth(q)' <=> TellsTruth(q))
  <2>1. TellsTruth(p)
    BY DEF Records
  <2>2. IF record[1] = p THEN record[2] > 0 <=> raised[p] ELSE record[2] > 0
    BY <1>0, <2>1 DEF TellsTruth
  <2>3. TellsTruth(p)'
    BY <1>1, <1>2, <2>1, SMTT(30) DEF TellsTruth
  <2>4. ASSUME OwnToTell(p), record[1] # p
        PROVE  OwnToTell(p)'
    <3>1. PICK i \in DOMAIN changed[p] : changed[p][i][1] = p
      BY <2>4 DEF OwnToTell
    <3>2. i # 1
      BY <1>0, <2>4, <3>1
    <3>3. i - 1 \in DOMAIN changed'[p] /\ changed'[p][i - 1][1] = p
      BY <1>2, <3>1, <3>2
    <3> QED  BY <3>3 DEF OwnToTell
  <2>5. \A q \in Ids \ {p} : OwnToTell(q)' <=> OwnToTell(q)
    BY <1>2 DEF OwnToTell
  <2>6. \A q \in Ids \ {p} : TellsTruth(q)' <=> TellsTruth(q)
    BY <1>1, <1>2 DEF TellsTruth
  <2> QED  BY <2>2, <2>3, <2>4, <2>5, <2>6
<1>5. ASSUME NEW m \in Ids
      PROVE  /\ number'[m] \in [Ids -> Nat]
             /\ \A q \in Ids : number'[m][q] = IF shows(m) /\ q = record[1] THEN record[2] ELSE number[m][q]
  BY <1>0, <1>1 DEF HandTypes, HandsTypeOK
<1> HIDE DEF shows
<1>6. HandTypes'
  <2>1. doing' \in [Ids -> {"new", "joined", "announce", "in", "telling", "tellLeft",
                          "left", "tellAway", "away", "over"}]
    BY <1>3 DEF HandTypes, HandsTypeOK
  <2>2. \A q \in Ids : doing'[q] = "telling" <=> changed'[q] # <<>>
    BY <1>2, <1>3 DEF HandTypes, HandsTypeOK
  <2>3. changed' \in [Ids -> Seq(Ids \X Nat)] /\ copy' \in [Ids -> Nat]
    BY <1>0, <1>1, <1>2 DEF HandTypes, HandsTypeOK
  <2>4. number' \in [Ids -> [Ids -> Nat]]
    BY <1>1, <1>5
  <2> QED  BY <1>1, <2>1, <2>2, <2>3, <2>4 DEF HandTypes, HandsTypeOK, TypeOK
<1>7. HandQueueConsistent'
  BY <1>1 DEF HandQueueConsistent
<1>8. HandsOfMembers' /\ Records'
  BY <1>0, <1>1, <1>3, <1>4 DEF HandsOfMembers, Records
<1>9. CopyIsComing'
  <2>1. /\ record[1] = p => copy'[p] = record[2]
        /\ record[1] # p => copy'[p] = copy[p]
        /\ \A q \in Ids \ {p} : copy'[q] = copy[q]
    BY <1>1 DEF HandTypes, HandsTypeOK
  <2>2. ASSUME "takeover" \notin departures, NEW q \in Ids
        PROVE  heir[q] = NoHeir /\ (doing'[q] \in {"tellLeft", "left"} \/ OwnToTell(q)' \/ (copy'[q] > 0 <=> raised[q]))
    <3>1. heir[q] = NoHeir /\ (doing[q] \in {"tellLeft", "left"} \/ OwnToTell(q) \/ (copy[q] > 0 <=> raised[q]))
      BY <2>2 DEF CopyIsComing
    <3> QED  BY <1>0, <1>3, <1>4, <2>1, <3>1
  <2> QED  BY <1>1, <2>2 DEF CopyIsComing
<1>10. TilesOfMembers'
  <2> SUFFICES ASSUME "drop" \notin departures PROVE TilesOfMembers'
    BY <1>1 DEF TilesOfMembers
  <2>1. Room' = Room
    BY <1>0, <1>3 DEF Room
  <2>2. \A q \in Ids : doing'[q] \notin {"tellAway", "away"} /\ (raised[q] => doing'[q] \in {"in", "telling", "over"})
    BY <1>3 DEF TilesOfMembers
  <2>3. ASSUME NEW m \in Room', NEW q \in Ids \ {m}
        PROVE  /\ doing'[q] \in {"in", "telling", "over"} => q \in ToSet(tiles[m]) /\ q \notin fading[m]
               /\ raised[q] => number'[m][q] > 0 \/ OwnToTell(q)'
    <3>0. m \in Room /\ m \in Ids
      BY <2>1 DEF Room
    <3>1. /\ doing[q] \in {"in", "telling", "over"} => q \in ToSet(tiles[m]) /\ q \notin fading[m]
          /\ raised[q] => doing[q] \in {"in", "telling", "over"} /\ (number[m][q] > 0 \/ OwnToTell(q))
      BY <3>0 DEF TilesOfMembers
    <3>2. doing'[q] \in {"in", "telling", "over"} => doing[q] \in {"in", "telling", "over"}
      BY <1>0, <1>3
    <3>3. ASSUME raised[q]
          PROVE  number'[m][q] > 0 \/ OwnToTell(q)'
      <4>1. CASE record[1] = q
        <5>1. shows(m)
          BY <3>0, <3>1, <3>3, <4>1 DEF shows
        <5> QED  BY <1>4, <1>5, <3>0, <3>3, <4>1, <5>1
      <4>2. CASE record[1] # q
        BY <1>4, <1>5, <3>0, <3>1, <3>3, <4>2
      <4> QED  BY <4>1, <4>2
    <3> QED  BY <3>1, <3>2, <3>3
  <2> QED  BY <1>1, <2>2, <2>3 DEF TilesOfMembers
<1> QED  BY <1>6, <1>7, <1>8, <1>9, <1>10

\* A departure is told to those who remain.
LEMMA TellDepartureStep ==
  ASSUME HandsInv, NEW p \in Ids, TellLeft(p) \/ TellAway(p)
  PROVE  HandsInv'
<1> USE DEF HandsInv
<1> DEFINE hit(m) == m \in Room /\ p \in ToSet(tiles[m])
           lowered(m) == [number[m] EXCEPT ![p] = 0]
<1>1. /\ UNCHANGED <<tableVars, changed, copy, heir, tiles>>
      /\ UNCHANGED <<departures, max, participants, raised, order, raisedHandIDs, issued>>
      /\ number' = [m \in Ids |-> IF hit(m) THEN Normalized(lowered(m), tiles[m]) ELSE number[m]]
      /\ fading' = [m \in Ids |-> IF hit(m) THEN fading[m] \union {p} ELSE fading[m]]
  BY DEF TellLeft, TellAway, FadeTile, tableVars, vars
<1>2. PICK s \in {"left", "away"} :
        /\ doing'[p] = s /\ \A q \in Ids \ {p} : doing'[q] = doing[q]
        /\ doing' = [doing EXCEPT ![p] = s]
        /\ s = "left" => doing[p] = "tellLeft"
        /\ s = "away" => doing[p] = "tellAway"
  BY DEF TellLeft, TellAway, Does, HandTypes, HandsTypeOK
<1>3. \A q \in Ids : OwnToTell(q)' = OwnToTell(q) /\ TellsTruth(q)' = TellsTruth(q)
  BY <1>1 DEF OwnToTell, TellsTruth
<1>4. ASSUME NEW m \in Ids
      PROVE  /\ number'[m] \in [Ids -> Nat]
             /\ \A q \in Ids \ {p} : number[m][q] > 0 => number'[m][q] > 0
             /\ \A q \in Ids \ {p} : q \in fading'[m] => q \in fading[m]
             /\ fading'[m] \in SUBSET Ids /\ fading'[m] \subseteq ToSet(tiles[m])
  <2>1. number[m] \in [Ids -> Nat] /\ tiles[m] \in Seq(Ids) /\ fading[m] \in SUBSET Ids
    BY DEF HandTypes, HandsTypeOK
  <2>2. lowered(m) \in [Ids -> Nat] /\ \A q \in Ids \ {p} : lowered(m)[q] = number[m][q]
    BY <2>1
  <2> HIDE DEF lowered
  <2>3. /\ Normalized(lowered(m), tiles[m]) \in [Ids -> Nat]
        /\ \A q \in Ids : lowered(m)[q] > 0 => Normalized(lowered(m), tiles[m])[q] > 0
    BY <2>1, <2>2, NormalizedKeeps
  <2>4. number'[m] = IF hit(m) THEN Normalized(lowered(m), tiles[m]) ELSE number[m]
    BY <1>1
  <2>5. fading'[m] = IF hit(m) THEN fading[m] \union {p} ELSE fading[m]
    BY <1>1
  <2>6. fading[m] \subseteq ToSet(tiles[m])
    BY DEF HandTypes, HandsTypeOK
  <2> QED  BY <2>1, <2>2, <2>3, <2>4, <2>5, <2>6
<1> HIDE DEF hit, lowered
<1>5. HandTypes'
  <2>1. doing' \in [Ids -> {"new", "joined", "announce", "in", "telling", "tellLeft",
                          "left", "tellAway", "away", "over"}]
    BY <1>2 DEF HandTypes, HandsTypeOK
  <2>2. \A q \in Ids : doing'[q] = "telling" <=> changed[q] # <<>>
    BY <1>2 DEF HandTypes, HandsTypeOK
  <2>3. number' \in [Ids -> [Ids -> Nat]] /\ fading' \in [Ids -> SUBSET Ids]
    BY <1>1, <1>4
  <2> QED  BY <1>1, <1>4, <2>1, <2>2, <2>3 DEF HandTypes, HandsTypeOK, TypeOK
<1>6. HandQueueConsistent'
  BY <1>1 DEF HandQueueConsistent
<1>7. HandsOfMembers' /\ Records'
  BY <1>1, <1>2, <1>3 DEF HandsOfMembers, Records
<1>8. CopyIsComing'
  BY <1>1, <1>2, <1>3 DEF CopyIsComing
<1>9. TilesOfMembers'
  <2> SUFFICES ASSUME "drop" \notin departures PROVE TilesOfMembers'
    BY <1>1 DEF TilesOfMembers
  <2>1. Room' = Room /\ doing[p] = "tellLeft" /\ doing'[p] = "left"
    BY <1>2 DEF Room, TilesOfMembers
  <2>2. \A q \in Ids : doing'[q] \notin {"tellAway", "away"} /\ (raised[q] => doing'[q] \in {"in", "telling", "over"})
    BY <1>2, <2>1 DEF TilesOfMembers
  <2>3. ASSUME NEW m \in Room', NEW q \in Ids \ {m}
        PROVE  /\ doing'[q] \in {"in", "telling", "over"} => q \in ToSet(tiles[m]) /\ q \notin fading'[m]
               /\ raised[q] => number'[m][q] > 0 \/ OwnToTell(q)
    <3>0. m \in Room /\ m \in Ids
      BY <2>1 DEF Room
    <3>1. CASE q = p
      BY <2>1, <2>2, <3>1
    <3>2. CASE q # p
      BY <1>2, <1>4, <3>0, <3>2 DEF TilesOfMembers
    <3> QED  BY <3>1, <3>2
  <2> QED  BY <1>1, <1>3, <2>2, <2>3 DEF TilesOfMembers
<1> QED  BY <1>5, <1>6, <1>7, <1>8, <1>9

\* A tile is removed when the departure arrives.
LEMMA RemoveTileStep ==
  ASSUME HandsInv, NEW p \in Ids, NEW m \in Ids, RemoveTile(m, p)
  PROVE  HandsInv'
<1> USE DEF HandsInv
<1>1. /\ UNCHANGED <<tableVars, doing, changed, copy, heir>>
      /\ UNCHANGED <<departures, max, participants, raised, order, raisedHandIDs, issued>>
      /\ p \in fading[m]
      /\ fading' = [fading EXCEPT ![m] = fading[m] \ {p}]
      /\ tiles' = [tiles EXCEPT ![m] = Dequeue(tiles[m], p)]
      /\ number' = [number EXCEPT ![m][p] = 0]
  BY DEF RemoveTile, tableVars, vars
<1>2. \A q \in Ids : OwnToTell(q)' = OwnToTell(q) /\ TellsTruth(q)' = TellsTruth(q)
  BY <1>1 DEF OwnToTell, TellsTruth
<1>3. /\ tiles'[m] \in Seq(Ids) /\ NoDuplicates(tiles'[m]) /\ ToSet(tiles'[m]) = ToSet(tiles[m]) \ {p}
      /\ \A n \in Ids \ {m} : tiles'[n] = tiles[n]
      /\ tiles' \in [Ids -> Seq(Ids)]
  <2>1. tiles \in [Ids -> Seq(Ids)] /\ tiles[m] \in Seq(Ids) /\ NoDuplicates(tiles[m])
    BY DEF HandTypes
  <2>2. /\ Dequeue(tiles[m], p) \in Seq(Ids) /\ NoDuplicates(Dequeue(tiles[m], p))
        /\ ToSet(Dequeue(tiles[m], p)) = ToSet(tiles[m]) \ {p}
    BY <2>1, TileRemoved
  <2>3. tiles'[m] = Dequeue(tiles[m], p) /\ \A n \in Ids \ {m} : tiles'[n] = tiles[n]
    BY <1>1, <2>1
  <2> QED  BY <1>1, <2>1, <2>2, <2>3
<1>4. /\ fading' \in [Ids -> SUBSET Ids] /\ fading'[m] = fading[m] \ {p}
      /\ \A n \in Ids \ {m} : fading'[n] = fading[n]
  BY <1>1 DEF HandTypes
<1>5. /\ number' \in [Ids -> [Ids -> Nat]]
      /\ \A n, q \in Ids : number'[n][q] = IF n = m /\ q = p THEN 0 ELSE number[n][q]
  BY <1>1 DEF HandTypes, HandsTypeOK
<1>6. HandTypes'
  <2>1. \A n \in Ids : NoDuplicates(tiles'[n]) /\ fading'[n] \subseteq ToSet(tiles'[n])
    BY <1>3, <1>4 DEF HandTypes, HandsTypeOK
  <2> QED  BY <1>1, <1>3, <1>4, <1>5, <2>1 DEF HandTypes, HandsTypeOK, TypeOK
<1>7. HandQueueConsistent'
  BY <1>1 DEF HandQueueConsistent
<1>8. HandsOfMembers' /\ Records'
  BY <1>1, <1>2 DEF HandsOfMembers, Records
<1>9. CopyIsComing'
  BY <1>1, <1>2 DEF CopyIsComing
<1>10. TilesOfMembers'
  <2> SUFFICES ASSUME "drop" \notin departures PROVE TilesOfMembers'
    BY <1>1 DEF TilesOfMembers
  <2>1. Room' = Room
    BY <1>1 DEF Room
  <2>2. \A q \in Ids : doing'[q] \notin {"tellAway", "away"} /\ (raised[q] => doing'[q] \in {"in", "telling", "over"})
    BY <1>1 DEF TilesOfMembers
  <2>3. ASSUME NEW n \in Room', NEW q \in Ids \ {n}
        PROVE  /\ doing'[q] \in {"in", "telling", "over"} => q \in ToSet(tiles'[n]) /\ q \notin fading'[n]
               /\ raised[q] => number'[n][q] > 0 \/ OwnToTell(q)
    <3>0. n \in Room /\ n \in Ids
      BY <2>1 DEF Room
    <3>1. /\ doing[q] \in {"in", "telling", "over"} => q \in ToSet(tiles[n]) /\ q \notin fading[n]
          /\ raised[q] => doing[q] \in {"in", "telling", "over"} /\ (number[n][q] > 0 \/ OwnToTell(q))
      BY <3>0 DEF TilesOfMembers
    <3>2. CASE n = m /\ q = p
      BY <1>1, <3>1, <3>2
    <3>3. CASE n = m /\ q # p
      BY <1>1, <1>3, <1>4, <1>5, <3>0, <3>1, <3>3
    <3>4. CASE n # m
      BY <1>1, <1>3, <1>4, <1>5, <3>0, <3>1, <3>4
    <3> QED  BY <3>2, <3>3, <3>4
  <2> QED  BY <1>1, <1>2, <2>2, <2>3 DEF TilesOfMembers
<1> QED  BY <1>6, <1>7, <1>8, <1>9, <1>10

\* Every step, given what the table promises.
LEMMA HandsStep ==
  ASSUME HandsInv, [HandsNext]_handsVars, TypeOK', HandQueueConsistent'
  PROVE  HandsInv'
<1>1. ASSUME UNCHANGED <<departures, participants, raised, doing, changed, copy, heir, tiles, fading, number>>
      PROVE  HandsInv'
  <2>1. HandTypes' /\ HandsOfMembers' /\ Records'
    BY <1>1 DEF HandsInv, HandTypes, HandsTypeOK, HandsOfMembers, Records, TellsTruth
  <2>2. CopyIsComing' /\ TilesOfMembers'
    BY <1>1 DEF HandsInv, CopyIsComing, TilesOfMembers, OwnToTell, Room
  <2> QED  BY <2>1, <2>2 DEF HandsInv
<1>2. CASE UNCHANGED handsVars
  BY <1>1, <1>2 DEF handsVars, tableVars, vars, browserVars
<1>3. CASE \E limit \in Limits : SetLimit(limit)
  BY <1>1, <1>3 DEF SetLimit, SetMaxParticipants, browserVars
<1>4. ASSUME NEW p \in Ids, Enter(p) \/ Raise(p) \/ Lower(p) \/ Depart(p) \/ Expire(p)
      PROVE  HandsInv'
  BY <1>4, TableSteps
<1>5. ASSUME NEW p \in Ids, LoseConnection(p) \/ Resume(p) \/ TakeOver(p) \/ Succeed(p)
      PROVE  HandsInv'
  BY <1>5, GoroutineSteps
<1>6. ASSUME NEW p \in Ids, ShowRoster(p)
      PROVE  HandsInv'
  BY <1>6, ShowRosterStep
<1>7. ASSUME NEW p \in Ids, Announce(p)
      PROVE  HandsInv'
  BY <1>7, AnnounceStep
<1>8. ASSUME NEW p \in Ids, TellHand(p)
      PROVE  HandsInv'
  BY <1>8, TellHandStep
<1>9. ASSUME NEW p \in Ids, TellLeft(p) \/ TellAway(p)
      PROVE  HandsInv'
  BY <1>9, TellDepartureStep
<1>10. ASSUME NEW p \in Ids, NEW m \in Ids, RemoveTile(m, p)
       PROVE  HandsInv'
  BY <1>10, RemoveTileStep
<1> QED  BY <1>2, <1>3, <1>4, <1>5, <1>6, <1>7, <1>8, <1>9, <1>10 DEF HandsNext, Idle

\* Whatever the departures: what is to be broadcast tells the truth, and a hand
\* that a browser does not show is on its way to it.
THEOREM HandsInvHolds == HandsSpec => []HandsInv
<1>1. HandsSpec => [](TypeOK /\ HandQueueConsistent)
  BY HandsUseTheTable, MeetingTypeOK, HandsAndQueueAgree, PTL
<1>2. HandsInit => HandsInv
  BY HandsStart
<1>3. HandsInv /\ [HandsNext]_handsVars /\ (TypeOK /\ HandQueueConsistent)' => HandsInv'
  BY HandsStep
<1> QED  BY <1>1, <1>2, <1>3, PTL DEF HandsSpec

\* What the run features checks of the hands' types (HandsTypeOK).
THEOREM HandsTypeCorrect == HandsSpec => []HandsTypeOK
<1>1. HandsInv => HandsTypeOK
  BY DEF HandsInv, HandTypes
<1> QED  BY <1>1, HandsInvHolds, PTL

\* A connection whose record is not being broadcast has it right (the copy that
\* hub.go:862 keeps is the one a resumed session starts from).
THEOREM CopyKnowsHandAlways == HandsSpec => []CopyKnowsHand
<1>1. ASSUME HandsInv PROVE CopyKnowsHand
  <2>1. ASSUME NEW p \in Ids, doing[p] \in {"in", "away"}
        PROVE  ~OwnToTell(p)
    <3>1. changed[p] = <<>>
      BY <1>1, <2>1 DEF HandsInv, HandTypes, HandsTypeOK
    <3> QED  BY <3>1 DEF OwnToTell
  <2> QED  BY <1>1, <2>1 DEF HandsInv, CopyIsComing, CopyKnowsHand
<1> QED  BY <1>1, HandsInvHolds, PTL

\* However the broadcasts of the handlers were interleaved, once they are through
\* no raised hand is hidden in any browser of the room.
THEOREM NoHandIsHidden == HandsSpec => []NoHiddenHand
<1>1. ASSUME HandsInv PROVE NoHiddenHand
  <2> SUFFICES ASSUME HandsQuiet, "drop" \notin departures,
                      NEW m \in Room, NEW p \in Room, m # p, raised[p]
               PROVE  number[m][p] > 0
    BY DEF NoHiddenHand
  <2>1. p \in Ids /\ changed[p] = <<>>
    BY <1>1 DEF HandsQuiet, HandsInv, HandTypes, HandsTypeOK, Room
  <2>2. ~OwnToTell(p)
    BY <2>1 DEF OwnToTell
  <2> QED  BY <1>1, <2>1, <2>2 DEF HandsInv, TilesOfMembers
<1> QED  BY <1>1, HandsInvHolds, PTL

----------------------------------------------------------------------------
(* The right to share the screen.                                          *)

\* Type invariant of the lease, the browsers, the router and the requests.
THEOREM ScreenShareTypeOK == ScreenSpec => []ScreenTypeOK
<1>1. ScreenInit => ScreenTypeOK
  <2> SUFFICES ASSUME ScreenInit
               PROVE  ScreenTypeOK
    OBVIOUS
  <2> USE DEF ScreenInit
  <2>1. /\ step \in [Members -> {"out", "in", "asked", "granted", "stopped", "telling",
                               "gone", "unpublish", "tellFree"}]
        /\ owed \in [Members -> {"nothing", "taken", "free"}]
        /\ \A p \in Members : owed[p] = "nothing"
    OBVIOUS
  <2>2. /\ sharer \in Members \union {None}
        /\ shown \in [Members -> Members \union {None}]
        /\ pub \in [Members -> {"none", "live", "paused"}]
        /\ track \subseteq Members
    OBVIOUS
  <2>3. /\ enabled \in BOOLEAN /\ revoked \in BOOLEAN
        /\ admin \in [Admins -> {"idle", "saved", "apply", "mute", "tell"}]
        /\ policy \in [Admins -> BOOLEAN]
        /\ evicted \in [Admins -> Members \union {None}]
    OBVIOUS
  <2>4. QED
    BY <2>1, <2>2, <2>3 DEF ScreenTypeOK
<1>2. ScreenTypeOK /\ [ScreenNext]_screenVars => ScreenTypeOK'
  <2> SUFFICES ASSUME ScreenTypeOK, [ScreenNext]_screenVars
               PROVE  ScreenTypeOK'
    OBVIOUS
  <2> USE DEF ScreenTypeOK, InRoom, leaseVars, adminVars
  <2>1. ASSUME NEW p \in Members, Admit(p)
        PROVE  ScreenTypeOK'
    BY <2>1 DEF Admit, Goto
  <2>2. ASSUME NEW p \in Members, AskStart(p)
        PROVE  ScreenTypeOK'
    BY <2>2 DEF AskStart, Goto
  <2>3. ASSUME NEW p \in Members, Refuse(p)
        PROVE  ScreenTypeOK'
    BY <2>3 DEF Refuse, Goto
  <2>4. ASSUME NEW p \in Members, Grant(p)
        PROVE  ScreenTypeOK'
    BY <2>4 DEF Grant, Goto
  <2>5. ASSUME NEW p \in Members, AskStop(p)
        PROVE  ScreenTypeOK'
    BY <2>5 DEF AskStop, Goto
  <2>6. ASSUME NEW p \in Members, SetRouter(p)
        PROVE  ScreenTypeOK'
    BY <2>6 DEF SetRouter, Goto, SetActive
  <2>7. ASSUME NEW p \in Members, Tell(p)
        PROVE  ScreenTypeOK'
    BY <2>7 DEF Tell, Goto, Broadcast
  <2>8. ASSUME NEW p \in Members, Drop(p)
        PROVE  ScreenTypeOK'
    BY <2>8 DEF Drop, Goto
  <2>9. ASSUME NEW p \in Members, Release(p)
        PROVE  ScreenTypeOK'
    BY <2>9 DEF Release, Goto
  <2>10. ASSUME NEW p \in Members, Unpublish(p)
        PROVE  ScreenTypeOK'
    BY <2>10 DEF Unpublish, Goto
  <2>11. ASSUME NEW p \in Members, TellFree(p)
        PROVE  ScreenTypeOK'
    BY <2>11 DEF TellFree, Goto, Broadcast
  <2>12. ASSUME NEW p \in Members, TrackArrives(p)
        PROVE  ScreenTypeOK'
    BY <2>12 DEF TrackArrives, Goto
  <2>13. ASSUME NEW p \in Members, PublishTrack(p)
        PROVE  ScreenTypeOK'
    BY <2>13 DEF PublishTrack, Goto
  <2>14. ASSUME NEW x \in Admins, NEW value \in BOOLEAN, Post(x, value)
        PROVE  ScreenTypeOK'
    BY <2>14 DEF Post
  <2>15. ASSUME NEW x \in Admins, ReadBack(x)
        PROVE  ScreenTypeOK'
    BY <2>15 DEF ReadBack
  <2>16. ASSUME NEW x \in Admins, Evict(x)
        PROVE  ScreenTypeOK'
    BY <2>16, ZenonT(30) DEF Evict
  <2>17. ASSUME NEW x \in Admins, Mute(x)
        PROVE  ScreenTypeOK'
    BY <2>17 DEF Mute, SetActive
  <2>18. ASSUME NEW x \in Admins, TellEvicted(x)
        PROVE  ScreenTypeOK'
    BY <2>18 DEF TellEvicted, Broadcast
  <2>19. CASE UNCHANGED screenVars
    BY <2>19 DEF screenVars, leaseVars, adminVars
  <2>20. QED
    BY <2>1, <2>2, <2>3, <2>4, <2>5, <2>6, <2>7, <2>8, <2>9, <2>10, <2>11, <2>12, <2>13, <2>14, <2>15, <2>16, <2>17, <2>18, <2>19
       DEF ScreenNext, MemberStep, AdminStep
<1>3. QED
  BY <1>1, <1>2, PTL DEF ScreenSpec

\* The lease never outlives the connection that holds it, whatever members and
\* operators do (requestScreenShare, releaseScreenShare, BroadcastConfig).
THEOREM LeaseEndsWithConnection == ScreenSpec => []LeaseDiesWithConnection
<1>1. ScreenInit => LeaseDiesWithConnection
  BY DEF ScreenInit, LeaseDiesWithConnection
<1>2. ScreenTypeOK /\ LeaseDiesWithConnection /\ [ScreenNext]_screenVars => LeaseDiesWithConnection'
  <2> SUFFICES ASSUME ScreenTypeOK, LeaseDiesWithConnection, [ScreenNext]_screenVars
               PROVE  LeaseDiesWithConnection'
    OBVIOUS
  <2> USE NoneIsNobody DEF ScreenTypeOK, LeaseDiesWithConnection, InRoom, leaseVars, adminVars
  <2>1. ASSUME NEW p \in Members, Admit(p)
        PROVE  LeaseDiesWithConnection'
    BY <2>1 DEF Admit, Goto
  <2>2. ASSUME NEW p \in Members, AskStart(p)
        PROVE  LeaseDiesWithConnection'
    BY <2>2 DEF AskStart, Goto
  <2>3. ASSUME NEW p \in Members, Refuse(p)
        PROVE  LeaseDiesWithConnection'
    BY <2>3 DEF Refuse, Goto
  <2>4. ASSUME NEW p \in Members, Grant(p)
        PROVE  LeaseDiesWithConnection'
    BY <2>4 DEF Grant, Goto
  <2>5. ASSUME NEW p \in Members, AskStop(p)
        PROVE  LeaseDiesWithConnection'
    BY <2>5 DEF AskStop, Goto
  <2>6. ASSUME NEW p \in Members, SetRouter(p)
        PROVE  LeaseDiesWithConnection'
    BY <2>6 DEF SetRouter, Goto, SetActive
  <2>7. ASSUME NEW p \in Members, Tell(p)
        PROVE  LeaseDiesWithConnection'
    BY <2>7 DEF Tell, Goto, Broadcast
  <2>8. ASSUME NEW p \in Members, Drop(p)
        PROVE  LeaseDiesWithConnection'
    BY <2>8 DEF Drop, Goto
  <2>9. ASSUME NEW p \in Members, Release(p)
        PROVE  LeaseDiesWithConnection'
    BY <2>9 DEF Release, Goto
  <2>10. ASSUME NEW p \in Members, Unpublish(p)
        PROVE  LeaseDiesWithConnection'
    BY <2>10 DEF Unpublish, Goto
  <2>11. ASSUME NEW p \in Members, TellFree(p)
        PROVE  LeaseDiesWithConnection'
    BY <2>11 DEF TellFree, Goto, Broadcast
  <2>12. ASSUME NEW p \in Members, TrackArrives(p)
        PROVE  LeaseDiesWithConnection'
    BY <2>12 DEF TrackArrives, Goto
  <2>13. ASSUME NEW p \in Members, PublishTrack(p)
        PROVE  LeaseDiesWithConnection'
    BY <2>13 DEF PublishTrack, Goto
  <2>14. ASSUME NEW x \in Admins, NEW value \in BOOLEAN, Post(x, value)
        PROVE  LeaseDiesWithConnection'
    BY <2>14 DEF Post
  <2>15. ASSUME NEW x \in Admins, ReadBack(x)
        PROVE  LeaseDiesWithConnection'
    BY <2>15 DEF ReadBack
  <2>16. ASSUME NEW x \in Admins, Evict(x)
        PROVE  LeaseDiesWithConnection'
    BY <2>16 DEF Evict
  <2>17. ASSUME NEW x \in Admins, Mute(x)
        PROVE  LeaseDiesWithConnection'
    BY <2>17 DEF Mute, SetActive
  <2>18. ASSUME NEW x \in Admins, TellEvicted(x)
        PROVE  LeaseDiesWithConnection'
    BY <2>18 DEF TellEvicted, Broadcast
  <2>19. CASE UNCHANGED screenVars
    BY <2>19 DEF screenVars, leaseVars, adminVars
  <2>20. QED
    BY <2>1, <2>2, <2>3, <2>4, <2>5, <2>6, <2>7, <2>8, <2>9, <2>10, <2>11, <2>12, <2>13, <2>14, <2>15, <2>16, <2>17, <2>18, <2>19
       DEF ScreenNext, MemberStep, AdminStep
<1>3. QED
  BY <1>1, <1>2, ScreenShareTypeOK, PTL DEF ScreenSpec

----------------------------------------------------------------------------
(* What holds once the calls are through, unless a lease was revoked.      *)

\* A member that is about to announce its grant still holds the lease, and one
\* that is about to announce a release does not.
AnnouncementsAreDue ==
  /\ \A p \in Members : owed[p] = "taken" => sharer = p
  /\ \A p \in Members : step[p] = "granted" => sharer = p
  /\ \A p \in Members : step[p] \in {"stopped", "unpublish", "tellFree"} => sharer # p

\* Whoever is still shown without holding the lease owes a correction.
Correcting(p) ==
  owed[p] = "free" \/ step[p] \in {"unpublish", "tellFree"}
StaleIsCorrected ==
  \A m \in InRoom : shown[m] \in {None, sharer} \/ Correcting(shown[m])

\* The holder's publication is paused only until its own handler resumes it.
PauseIsOver ==
  \A p \in Members : sharer = p /\ pub[p] = "paused" => step[p] = "granted"

\* No admin request has a revocation to announce.
NothingRevoked == \A x \in Admins : evicted[x] = None

OwnerInv ==
  ~revoked => AnnouncementsAreDue /\ StaleIsCorrected /\ PauseIsOver /\ NothingRevoked

\* The strengthening of the two theorems below.
LEMMA OwnerInvariant == ScreenSpec => []OwnerInv
<1>1. ScreenInit => OwnerInv
  BY DEF ScreenInit, OwnerInv, AnnouncementsAreDue, StaleIsCorrected, PauseIsOver, NothingRevoked, InRoom
<1>2. ScreenTypeOK /\ ScreenTypeOK' /\ LeaseDiesWithConnection /\ OwnerInv /\ [ScreenNext]_screenVars => OwnerInv'
  <2> SUFFICES ASSUME ScreenTypeOK, ScreenTypeOK', LeaseDiesWithConnection, OwnerInv, [ScreenNext]_screenVars
               PROVE  OwnerInv'
    OBVIOUS
  <2> USE NoneIsNobody DEF ScreenTypeOK, LeaseDiesWithConnection, OwnerInv, AnnouncementsAreDue,
                           StaleIsCorrected, PauseIsOver, NothingRevoked, Correcting, InRoom,
                           leaseVars, adminVars
  <2>1. ASSUME NEW p \in Members, Admit(p)
        PROVE  OwnerInv'
    BY <2>1 DEF Admit, Goto
  <2>2. ASSUME NEW p \in Members, AskStart(p)
        PROVE  OwnerInv'
    BY <2>2 DEF AskStart, Goto
  <2>3. ASSUME NEW p \in Members, Refuse(p)
        PROVE  OwnerInv'
    BY <2>3 DEF Refuse, Goto
  <2>4. ASSUME NEW p \in Members, Grant(p)
        PROVE  OwnerInv'
    BY <2>4 DEF Grant, Goto
  <2>5. ASSUME NEW p \in Members, AskStop(p)
        PROVE  OwnerInv'
    BY <2>5 DEF AskStop, Goto
  <2>6. ASSUME NEW p \in Members, SetRouter(p)
        PROVE  OwnerInv'
    BY <2>6 DEF SetRouter, Goto, SetActive
  <2>7. ASSUME NEW p \in Members, Tell(p)
        PROVE  OwnerInv'
    BY <2>7 DEF Tell, Goto, Broadcast
  <2>8. ASSUME NEW p \in Members, Drop(p)
        PROVE  OwnerInv'
    BY <2>8 DEF Drop, Goto
  <2>9. ASSUME NEW p \in Members, Release(p)
        PROVE  OwnerInv'
    BY <2>9 DEF Release, Goto
  <2>10. ASSUME NEW p \in Members, Unpublish(p)
        PROVE  OwnerInv'
    BY <2>10 DEF Unpublish, Goto
  <2>11. ASSUME NEW p \in Members, TellFree(p)
        PROVE  OwnerInv'
    BY <2>11 DEF TellFree, Goto, Broadcast
  <2>12. ASSUME NEW p \in Members, TrackArrives(p)
        PROVE  OwnerInv'
    BY <2>12 DEF TrackArrives, Goto
  <2>13. ASSUME NEW p \in Members, PublishTrack(p)
        PROVE  OwnerInv'
    BY <2>13 DEF PublishTrack, Goto
  <2>14. ASSUME NEW x \in Admins, NEW value \in BOOLEAN, Post(x, value)
        PROVE  OwnerInv'
    BY <2>14 DEF Post
  <2>15. ASSUME NEW x \in Admins, ReadBack(x)
        PROVE  OwnerInv'
    BY <2>15 DEF ReadBack
  <2>16. ASSUME NEW x \in Admins, Evict(x)
        PROVE  OwnerInv'
    BY <2>16 DEF Evict
  <2>17. ASSUME NEW x \in Admins, Mute(x)
        PROVE  OwnerInv'
    BY <2>17 DEF Mute, SetActive
  <2>18. ASSUME NEW x \in Admins, TellEvicted(x)
        PROVE  OwnerInv'
    BY <2>18 DEF TellEvicted, Broadcast
  <2>19. CASE UNCHANGED screenVars
    BY <2>19 DEF screenVars, leaseVars, adminVars
  <2>20. QED
    BY <2>1, <2>2, <2>3, <2>4, <2>5, <2>6, <2>7, <2>8, <2>9, <2>10, <2>11, <2>12, <2>13, <2>14, <2>15, <2>16, <2>17, <2>18, <2>19
       DEF ScreenNext, MemberStep, AdminStep
<1>3. QED
  BY <1>1, <1>2, ScreenShareTypeOK, LeaseEndsWithConnection, PTL DEF ScreenSpec

\* Once the broadcasts are through, nobody is shown as sharing who does not
\* hold the lease, whatever the order of grants and releases.
THEOREM NoOldOwnerStays == ScreenSpec => []NoPhantomOwner
<1>1. ScreenTypeOK /\ OwnerInv => NoPhantomOwner
  <2> SUFFICES ASSUME ScreenTypeOK, OwnerInv, Quiet, ~revoked, NEW m \in InRoom
               PROVE  shown[m] \in {None, sharer}
    BY DEF NoPhantomOwner
  <2>1. m \in Members /\ shown[m] \in Members \union {None}
    BY DEF ScreenTypeOK, InRoom
  <2>2. ASSUME NEW q \in Members
        PROVE  ~Correcting(q)
    BY DEF ScreenTypeOK, Correcting, Quiet
  <2>3. QED
    BY <2>1, <2>2 DEF OwnerInv, StaleIsCorrected
<1>2. QED
  BY <1>1, ScreenShareTypeOK, OwnerInvariant, PTL

\* Once the calls are through, the publication of the holder is forwarded: the
\* router hears of a stop before the next start of the same member.
THEOREM HolderStaysForwarded == ScreenSpec => []HolderIsForwarded
<1>1. ScreenTypeOK /\ OwnerInv => HolderIsForwarded
  BY DEF ScreenTypeOK, OwnerInv, PauseIsOver, HolderIsForwarded, Quiet
<1>2. QED
  BY <1>1, ScreenShareTypeOK, OwnerInvariant, PTL
----------------------------------------------------------------------------
(* The features in one behaviour.                                          *)

\* A behaviour that exercises one feature is a behaviour of each.
THEOREM FeaturesAreSeparate == FeaturesSpec => HandsSpec /\ ScreenSpec /\ RouterSpec
<1>1. FeaturesInit => HandsInit /\ ScreenInit /\ RouterInit
  BY DEF FeaturesInit
<1>2. [FeaturesNext]_featureVars => [HandsNext]_handsVars /\ [ScreenNext]_screenVars /\ [RouterNext]_routerVars
  BY DEF FeaturesNext, featureVars
<1> QED  BY <1>1, <1>2, PTL DEF FeaturesSpec, HandsSpec, ScreenSpec, RouterSpec

\* The copies that the handlers keep agree with the state they copy, for every
\* number of participants, members, participants and links.
THEOREM FeaturesAgree == FeaturesSpec => []FeaturesInv
<1>1. HandsSpec => []HandQueueConsistent
  BY HandsUseTheTable, HandsAndQueueAgree, PTL
<1> QED  BY <1>1, FeaturesAreSeparate, HandsTypeCorrect, CopyKnowsHandAlways, ScreenShareTypeOK,
            LeaseEndsWithConnection, RouterTypeCorrect, PTL DEF FeaturesInv
==============================================================================
