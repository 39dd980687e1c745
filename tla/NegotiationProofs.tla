--------------------------- MODULE NegotiationProofs ---------------------------
(***************************************************************************)
(* The negotiation of module Negotiation keeps its promises: the inductive *)
(* invariant of offers, answers and candidates under way, and its proof.   *)
(* While the connection is up                                              *)
(*  - the hub ignores offers for as long as an offer of its own, or the    *)
(*    answer to it, is under way, so an offer the browser has rolled back  *)
(*    is never applied;                                                    *)
(*  - an answer is under way only while the offer it answers is the        *)
(*    browser's outstanding one, and before any offer of the hub;          *)
(*  - every candidate under way is behind the description it belongs to.   *)
(***************************************************************************)
EXTENDS Negotiation, SequencesExt, SequenceTheorems, TLAPS

\* What travels to the browser, what waits in its chain, what travels to the hub.
HubMessages == [op : {"offer"}, knows : 0 .. MaxChanges, gen : Gens]
               \union [op : {"answer"}, n : Nat, gen : Gens]
               \union [op : {"candidate"}, gen : Gens]
ToBrowser == HubMessages \union [op : {"error"}]
Operations == HubMessages \union [op : {"sendOffer"}]
ToHub == [op : {"offer"}, n : Nat, incl : SUBSET Reqs]
         \union [op : {"answer", "candidate"}, gen : Gens]
         \union [op : {"ice_restart"}]
Offers == [n : Nat, incl : SUBSET Reqs]

Has(s, op) == \E m \in ToSet(s) : m.op = op
AtMostOne(s, op) == \A i, j \in DOMAIN s : s[i].op = op /\ s[j].op = op => i = j
Precedes(s, first, second) ==
  \A i, j \in DOMAIN s : s[i].op = first /\ s[j].op = second => i < j

Types ==
  /\ TypeOK
  /\ chain \in Seq(Operations) /\ toBrowser \in Seq(ToBrowser) /\ toHub \in Seq(ToHub)
  /\ number \in Nat /\ offered \in Offers /\ answer \in Offers
  /\ held \in Seq(Gens) /\ squeue \in Seq(Gens) /\ slocal \in Seq(Gens)
  /\ faults \in Nat

\* A queue is closed with its connection, and one sendOffer is queued while it pumps.
QueueInv ==
  /\ closed => ~up
  /\ batch # {} => watchdog
  /\ NoUnguardedWait
  /\ pumping <=> Has(chain, "sendOffer")
  /\ AtMostOne(chain, "sendOffer")

\* The operation that runs, and the offer that is outstanding: it covers the batch.
OperationInv ==
  /\ at # "start" => chain # <<>>
  /\ at = "created" => Head(chain).op = "sendOffer" /\ sig = "stable"
  /\ at = "rolledBack" => Head(chain).op = "offer" /\ sig = "stable"
  /\ at = "remote" => \/ Head(chain).op = "offer" /\ sig = "have-remote-offer"
                      \/ /\ Head(chain).op = "answer" /\ sig = "stable" /\ Head(chain).gen = brgen
                         /\ ~pumping /\ batch # {} /\ batch \subseteq has
  /\ at = "local" => \/ Head(chain).op = "offer" /\ sig = "stable"
                     \/ Head(chain).op = "sendOffer" /\ sig = "have-local-offer"
  /\ sig = "have-remote-offer" => at \in {"start", "remote"}
  /\ pumping => batch # {}
  /\ pumping /\ sig = "have-local-offer" => at = "local"
  /\ IF sig = "have-local-offer" \/ at = "created"
     THEN offered.n = number /\ number > 0 /\ batch \subseteq offered.incl
     ELSE offered = NoOffer

\* While an offer of the hub or its answer is under way, the hub knows it; there is
\* one at a time, and none while the hub answers or once the browser failed to answer.
Abandoned == sig = "have-remote-offer" /\ at # "remote"
HubOffersInv ==
  /\ Has(chain, "offer") \/ Has(toBrowser, "offer") \/ Has(toHub, "answer") => inFlight
  /\ ~(Has(chain, "offer") /\ Has(toBrowser, "offer"))
  /\ Has(toHub, "answer") => ~Has(chain, "offer") /\ ~Has(toBrowser, "offer")
  /\ AtMostOne(chain, "offer") /\ AtMostOne(toBrowser, "offer") /\ AtMostOne(toHub, "answer")
  /\ sstep \in {"answering", "answered"} => ~ready /\ ~inFlight
  /\ Abandoned => inFlight /\ ~Has(chain, "offer") /\ ~Has(toBrowser, "offer") /\ ~Has(toHub, "answer")

\* An answer of the hub is under way, to the offer that is outstanding, and arrives
\* before any offer of the hub; the batch in flight waits for it.
Resolving == at = "remote" /\ Head(chain).op = "answer"
AnswerDue == sstep = "answering" \/ (Has(chain, "answer") /\ ~Resolving) \/ Has(toBrowser, "answer")
AnswersInv ==
  /\ AnswerDue => /\ sig = "have-local-offer" /\ ~pumping /\ offered.incl \subseteq has
                  /\ batch # {}
                  /\ \A m \in ToSet(toHub) : m.op = "offer" => m.n # offered.n
  /\ \A m \in ToSet(toBrowser) : m.op = "answer" => m.n = offered.n
  /\ sstep = "answering" => answer.n = offered.n
  /\ AtMostOne(chain, "answer") /\ AtMostOne(toBrowser, "answer")
  /\ ~(Has(chain, "answer") /\ Has(toBrowser, "answer"))
  /\ sstep = "answering" => ~Has(chain, "answer") /\ ~Has(toBrowser, "answer")
  /\ Precedes(chain, "answer", "offer") /\ Precedes(toBrowser, "answer", "offer")
  /\ Has(toBrowser, "answer") => ~Has(chain, "offer")

\* Offers of the browser are numbered in order; one that is not outstanding any more
\* meets a hub that ignores it, whose own offer is answered only behind it.
Transmitting == at = "created" \/ (at = "local" /\ sig = "have-local-offer")
InOrder(s) ==
  \A i, j \in DOMAIN s : s[i].op = "offer" /\ s[j].op = "offer" /\ i < j => s[i].n < s[j].n
BehindAnswers(s, n) ==
  \A i, j \in DOMAIN s : s[i].op = "answer" /\ s[j].op = "offer" /\ i < j => s[j].n = n
OffersInv ==
  /\ \A m \in ToSet(toHub) : m.op = "offer" =>
       /\ m.n > 0 /\ m.n <= number
       /\ Transmitting => m.n < number
       /\ IF m.n = offered.n THEN m.incl = offered.incl /\ batch # {} ELSE inFlight
  /\ InOrder(toHub)
  /\ BehindAnswers(toHub, offered.n)

\* Candidates follow their descriptions.
Describes(m) == m.op \in {"offer", "answer"}
Covered(s, known) ==
  \A i \in DOMAIN s : s[i].op = "candidate" =>
    s[i].gen \in known \/ \E j \in DOMAIN s : j < i /\ Describes(s[j]) /\ s[j].gen >= s[i].gen
Heard == {g \in Gens : g <= brgen}
Told == {g \in Gens : g <= brgen \/ \E m \in ToSet(chain) : Describes(m) /\ m.gen >= g}
GensInv ==
  /\ sgen >= 0 /\ brgen <= sgen /\ bgen <= sgen
  /\ \A g \in ToSet(squeue) \union ToSet(slocal) : g <= sgen
  /\ \A g \in ToSet(held) : g <= brgen
  /\ \A m \in ToSet(toHub) : /\ m.op = "candidate" => m.gen <= sgen
                             /\ m.op = "answer" => m.gen = sgen
  /\ \A m \in ToSet(chain) \union ToSet(toBrowser) :
       /\ m.op = "offer" => m.gen = sgen
       /\ m.op = "answer" => brgen <= m.gen /\ m.gen <= sgen
  /\ sig = "have-remote-offer" \/ (at = "local" /\ sig = "stable") => brgen = sgen
  /\ at = "local" /\ sig = "stable" => bgen = sgen
  /\ sremote => srgen = sgen
  /\ Covered(chain, Heard) /\ Covered(toBrowser, Told)
  /\ ready \/ sstep = "answered" =>
       sgen \in Told \/ \E m \in ToSet(toBrowser) : Describes(m) /\ m.gen >= sgen

Inv ==
  /\ Types /\ QueueInv /\ KeptPromises /\ CandidatesInTime
  /\ up => OperationInv /\ HubOffersInv /\ AnswersInv /\ OffersInv
  /\ up /\ faults = 0 => GensInv

----------------------------------------------------------------------------
(* Sequences of messages.                                                  *)

\* One more message at the end.
LEMMA Appended ==
  ASSUME NEW S, NEW s \in Seq(S), NEW m \in S
  PROVE  /\ Append(s, m) \in Seq(S) /\ ToSet(Append(s, m)) = ToSet(s) \union {m}
         /\ Append(s, m) # <<>> /\ Head(Append(s, m)) = IF s = <<>> THEN m ELSE Head(s)
         /\ \A op : AtMostOne(s, op) /\ (m.op # op \/ ~Has(s, op)) => AtMostOne(Append(s, m), op)
         /\ \A a, b : a # b /\ Precedes(s, a, b) /\ (m.op # a \/ ~Has(s, b)) => Precedes(Append(s, m), a, b)
         /\ InOrder(s) /\ (m.op = "offer" => \A x \in ToSet(s) : x.op = "offer" => x.n < m.n)
              => InOrder(Append(s, m))
         /\ \A n : BehindAnswers(s, n) /\ (m.op = "offer" => m.n = n \/ ~Has(s, "answer"))
              => BehindAnswers(Append(s, m), n)
         /\ \A known : /\ Covered(s, known)
                       /\ m.op = "candidate" => m.gen \in known \/ \E d \in ToSet(s) : Describes(d) /\ d.gen >= m.gen
              => Covered(Append(s, m), known)
<1> DEFINE t == Append(s, m)
           k == Len(s) + 1
<1>1. /\ Len(s) \in Nat /\ DOMAIN s = 1 .. Len(s) /\ t \in Seq(S) /\ DOMAIN t = 1 .. k
      /\ t[k] = m /\ \A i \in 1 .. Len(s) : t[i] = s[i]
  OBVIOUS
<1>2. \A i \in 1 .. k : i \in 1 .. Len(s) \/ i = k
  BY <1>1
<1>3. k \in DOMAIN t /\ \A i \in DOMAIN s : i \in DOMAIN t /\ i < k /\ ~(k < i) /\ i # k
  BY <1>1
<1>4. t # <<>> /\ Head(t) = IF s = <<>> THEN m ELSE Head(s)
  <2>1. CASE s = <<>>
    <3>1. Len(t) = 1 /\ t[1] = m
      BY <1>1, <2>1
    <3> QED  BY <1>1, <2>1, <3>1
  <2>2. CASE s # <<>>
    <3>1. Len(s) >= 1 /\ Head(s) = s[1]
      BY <2>2
    <3>2. Len(t) >= 1 /\ t[1] = s[1]
      BY <1>1, <3>1
    <3> QED  BY <1>1, <2>2, <3>1, <3>2
  <2> QED  BY <2>1, <2>2
<1> HIDE DEF t, k
<1>5. \A i \in DOMAIN t : (i \in DOMAIN s /\ t[i] = s[i]) \/ (i = k /\ t[i] = m)
  BY <1>1, <1>2
<1>6. \A i \in DOMAIN s : i \in DOMAIN t /\ t[i] = s[i]
  BY <1>1, <1>3
<1>7. ToSet(t) = ToSet(s) \union {m}
  BY <1>1, <1>3, <1>5, <1>6 DEF ToSet
<1>8. ~(k < k)
  BY <1>1 DEF k
<1>9. \A op : AtMostOne(s, op) /\ (m.op # op \/ ~Has(s, op)) => AtMostOne(t, op)
  BY <1>5 DEF AtMostOne, Has, ToSet
<1>10. \A a, b : a # b /\ Precedes(s, a, b) /\ (m.op # a \/ ~Has(s, b)) => Precedes(t, a, b)
  BY <1>3, <1>5 DEF Precedes, Has, ToSet
<1>11. InOrder(s) /\ (m.op = "offer" => \A x \in ToSet(s) : x.op = "offer" => x.n < m.n) => InOrder(t)
  BY <1>3, <1>5, <1>8 DEF InOrder, ToSet
<1>12. \A n : BehindAnswers(s, n) /\ (m.op = "offer" => m.n = n \/ ~Has(s, "answer")) => BehindAnswers(t, n)
  BY <1>3, <1>5, <1>8 DEF BehindAnswers, Has, ToSet
<1>13. ASSUME NEW known, Covered(s, known),
              m.op = "candidate" => m.gen \in known \/ \E d \in ToSet(s) : Describes(d) /\ d.gen >= m.gen
       PROVE  Covered(t, known)
  <2> SUFFICES ASSUME NEW i \in DOMAIN t, t[i].op = "candidate", t[i].gen \notin known
               PROVE  \E j \in DOMAIN t : j < i /\ Describes(t[j]) /\ t[j].gen >= t[i].gen
    BY DEF Covered
  <2>1. CASE i \in DOMAIN s /\ t[i] = s[i]
    <3>1. PICK j \in DOMAIN s : j < i /\ Describes(s[j]) /\ s[j].gen >= s[i].gen
      BY <1>13, <2>1 DEF Covered
    <3> QED  BY <1>6, <2>1, <3>1
  <2>2. CASE i = k /\ t[i] = m
    <3>1. PICK d \in ToSet(s) : Describes(d) /\ d.gen >= m.gen
      BY <1>13, <2>2
    <3>2. PICK j \in DOMAIN s : s[j] = d
      BY <3>1 DEF ToSet
    <3> QED  BY <1>3, <1>6, <2>2, <3>1, <3>2
  <2> QED  BY <1>5, <2>1, <2>2
<1> QED  BY <1>1, <1>4, <1>7, <1>9, <1>10, <1>11, <1>12, <1>13 DEF t

\* The first message is taken.
LEMMA Taken ==
  ASSUME NEW S, NEW s \in Seq(S), s # <<>>
  PROVE  /\ Tail(s) \in Seq(S) /\ Head(s) \in S /\ ToSet(s) = {Head(s)} \union ToSet(Tail(s))
         /\ \A op : AtMostOne(s, op) => AtMostOne(Tail(s), op) /\ (Head(s).op = op => ~Has(Tail(s), op))
         /\ \A a, b : a # b /\ Precedes(s, a, b) => Precedes(Tail(s), a, b) /\ (Head(s).op = b => ~Has(Tail(s), a))
         /\ InOrder(s) => /\ InOrder(Tail(s))
                          /\ Head(s).op = "offer" => \A x \in ToSet(Tail(s)) : x.op = "offer" => Head(s).n < x.n
         /\ \A n : BehindAnswers(s, n) => /\ BehindAnswers(Tail(s), n)
                                          /\ Head(s).op = "answer" => \A x \in ToSet(Tail(s)) : x.op = "offer" => x.n = n
         /\ \A known : Covered(s, known) =>
              /\ Head(s).op = "candidate" => Head(s).gen \in known
              /\ \A more :
                   (\A x \in ToSet(Tail(s)) : (x.op = "candidate" /\ (x.gen \in known \/ (Describes(Head(s)) /\ Head(s).gen >= x.gen)))
                                               => x.gen \in more)
                   => Covered(Tail(s), more)
<1> DEFINE t == Tail(s)
           h == Head(s)
<1>1. Len(s) \in Nat /\ Len(s) >= 1 /\ DOMAIN s = 1 .. Len(s)
  OBVIOUS
<1>2. t \in Seq(S) /\ DOMAIN t = 1 .. (Len(s) - 1) /\ h = s[1] /\ h \in S
  BY <1>1
<1>3. \A i \in 1 .. (Len(s) - 1) : t[i] = s[i + 1]
  BY <1>1
<1> HIDE DEF t, h
<1>4. \A i \in DOMAIN t : i \in Nat /\ i + 1 \in DOMAIN s /\ t[i] = s[i + 1] /\ 1 < i + 1
  BY <1>1, <1>2, <1>3
<1>5. \A i \in DOMAIN s : i = 1 \/ (i - 1 \in DOMAIN t /\ t[i - 1] = s[i])
  <2>1. \A i \in 1 .. Len(s) : i = 1 \/ (i - 1 \in 1 .. (Len(s) - 1) /\ i = (i - 1) + 1)
    BY <1>1
  <2> QED  BY <1>1, <1>2, <1>3, <2>1
<1>6. 1 \in DOMAIN s /\ s[1] = h /\ \A i \in DOMAIN s : ~(i < 1)
  BY <1>1, <1>2
<1>7. \A i, j \in DOMAIN t : (i + 1 < j + 1 <=> i < j) /\ (i + 1 = j + 1 <=> i = j)
  BY <1>4
<1>8. ToSet(s) = {h} \union ToSet(t)
  <2>1. \A i \in DOMAIN t : t[i] \in ToSet(s)
    BY <1>4 DEF ToSet
  <2>2. \A i \in DOMAIN s : s[i] \in {h} \union ToSet(t)
    BY <1>5, <1>6 DEF ToSet
  <2>3. h \in ToSet(s)
    BY <1>6 DEF ToSet
  <2> QED  BY <2>1, <2>2, <2>3 DEF ToSet
<1>9. ASSUME NEW op, AtMostOne(s, op)
      PROVE  AtMostOne(t, op) /\ (h.op = op => ~Has(t, op))
  <2>1. AtMostOne(t, op)
    BY <1>4, <1>7, <1>9 DEF AtMostOne
  <2>2. h.op = op => ~Has(t, op)
    BY <1>4, <1>6, <1>9 DEF AtMostOne, Has, ToSet
  <2> QED  BY <2>1, <2>2
<1>10. ASSUME NEW a, NEW b, a # b, Precedes(s, a, b)
       PROVE  Precedes(t, a, b) /\ (h.op = b => ~Has(t, a))
  <2>1. Precedes(t, a, b)
    BY <1>4, <1>7, <1>10 DEF Precedes
  <2>2. h.op = b => ~Has(t, a)
    BY <1>4, <1>6, <1>10 DEF Precedes, Has, ToSet
  <2> QED  BY <2>1, <2>2
<1>11. ASSUME InOrder(s)
       PROVE  InOrder(t) /\ (h.op = "offer" => \A x \in ToSet(t) : x.op = "offer" => h.n < x.n)
  <2>1. InOrder(t)
    BY <1>4, <1>7, <1>11 DEF InOrder
  <2>2. h.op = "offer" => \A x \in ToSet(t) : x.op = "offer" => h.n < x.n
    BY <1>4, <1>6, <1>11 DEF InOrder, ToSet
  <2> QED  BY <2>1, <2>2
<1>12. ASSUME NEW n, BehindAnswers(s, n)
       PROVE  BehindAnswers(t, n) /\ (h.op = "answer" => \A x \in ToSet(t) : x.op = "offer" => x.n = n)
  <2>1. BehindAnswers(t, n)
    BY <1>4, <1>7, <1>12 DEF BehindAnswers
  <2>2. h.op = "answer" => \A x \in ToSet(t) : x.op = "offer" => x.n = n
    BY <1>4, <1>6, <1>12 DEF BehindAnswers, ToSet
  <2> QED  BY <2>1, <2>2
<1>13. ASSUME NEW known, Covered(s, known)
       PROVE  h.op = "candidate" => h.gen \in known
  BY <1>6, <1>13 DEF Covered
<1>14. ASSUME NEW known, Covered(s, known), NEW more,
              \A x \in ToSet(t) : (x.op = "candidate" /\ (x.gen \in known \/ (Describes(h) /\ h.gen >= x.gen)))
                                 => x.gen \in more
       PROVE  Covered(t, more)
  <2> SUFFICES ASSUME NEW i \in DOMAIN t, t[i].op = "candidate", t[i].gen \notin more
               PROVE  \E j \in DOMAIN t : j < i /\ Describes(t[j]) /\ t[j].gen >= t[i].gen
    BY DEF Covered
  <2>1. t[i] \in ToSet(t)
    BY DEF ToSet
  <2>2. ~(t[i].gen \in known) /\ ~(Describes(h) /\ h.gen >= t[i].gen)
    BY <1>14, <2>1
  <2>3. PICK j \in DOMAIN s : j < i + 1 /\ Describes(s[j]) /\ s[j].gen >= s[i + 1].gen
    BY <1>4, <1>14, <2>2 DEF Covered
  <2>4. j # 1
    BY <1>4, <1>6, <2>2, <2>3
  <2>5. j - 1 \in DOMAIN t /\ t[j - 1] = s[j]
    BY <1>5, <2>4
  <2>6. j - 1 < i
    BY <1>1, <1>4, <2>3
  <2> QED  BY <1>4, <2>3, <2>5, <2>6
<1> QED  BY <1>2, <1>8, <1>9, <1>10, <1>11, <1>12, <1>13, <1>14 DEF t, h

\* A sequence behind another.
LEMMA Joined ==
  ASSUME NEW S, NEW s \in Seq(S), NEW k \in Seq(S)
  PROVE  /\ s \o k \in Seq(S) /\ DOMAIN (s \o k) = 1 .. (Len(s) + Len(k))
         /\ \A i \in 1 .. Len(s) : (s \o k)[i] = s[i]
         /\ \A i \in 1 .. (Len(s) + Len(k)) :
              i \notin 1 .. Len(s) => i - Len(s) \in 1 .. Len(k) /\ (s \o k)[i] = k[i - Len(s)]
<1>1. /\ Len(s) \in Nat /\ Len(k) \in Nat /\ s \o k \in Seq(S) /\ Len(s \o k) = Len(s) + Len(k)
      /\ \A i \in 1 .. (Len(s) + Len(k)) : (s \o k)[i] = IF i <= Len(s) THEN s[i] ELSE k[i - Len(s)]
  OBVIOUS
<1>2. DOMAIN (s \o k) = 1 .. (Len(s) + Len(k))
  BY <1>1
<1>3. \A i \in 1 .. Len(s) : i \in 1 .. (Len(s) + Len(k)) /\ i <= Len(s)
  BY <1>1
<1>4. \A i \in 1 .. (Len(s) + Len(k)) : i \notin 1 .. Len(s) => ~(i <= Len(s)) /\ i - Len(s) \in 1 .. Len(k)
  BY <1>1
<1> QED  BY <1>1, <1>2, <1>3, <1>4

\* Candidates that were held back follow at the end.
WithCandidates(s, c, t) ==
  /\ t \in Seq(ToBrowser) /\ ToSet(s) \subseteq ToSet(t)
  /\ \A m \in ToSet(t) : m \in ToSet(s) \/ (m.op = "candidate" /\ m.gen \in ToSet(c))
  /\ \A op : op # "candidate" => (Has(t, op) <=> Has(s, op)) /\ (AtMostOne(s, op) => AtMostOne(t, op))
  /\ Precedes(s, "answer", "offer") => Precedes(t, "answer", "offer")
  /\ \A known : /\ Covered(s, known)
                /\ \A g \in ToSet(c) : g \in known \/ \E d \in ToSet(s) : Describes(d) /\ d.gen >= g
       => Covered(t, known)

\* What the second critical section of the answer releases is behind its description.
LEMMA Released ==
  ASSUME NEW s \in Seq(ToBrowser), NEW c \in Seq(Gens), NEW t,
         t = s \o [i \in DOMAIN c |-> [op |-> "candidate", gen |-> c[i]]]
  PROVE  WithCandidates(s, c, t)
<1> DEFINE k == [i \in DOMAIN c |-> [op |-> "candidate", gen |-> c[i]]]
<1>1. /\ Len(s) \in Nat /\ Len(c) \in Nat /\ DOMAIN s = 1 .. Len(s) /\ DOMAIN c = 1 .. Len(c)
      /\ \A i \in 1 .. Len(c) : c[i] \in Gens
  OBVIOUS
<1>2. \A g \in Gens : [op |-> "candidate", gen |-> g] \in ToBrowser
  BY DEF ToBrowser, HubMessages
<1>3. k \in [1 .. Len(c) -> ToBrowser] /\ \A i \in 1 .. Len(c) : k[i] = [op |-> "candidate", gen |-> c[i]]
  BY <1>1, <1>2
<1>4. k \in Seq(ToBrowser) /\ Len(k) = Len(c)
  BY <1>1, <1>3
<1>5. /\ t \in Seq(ToBrowser) /\ DOMAIN t = 1 .. (Len(s) + Len(c))
      /\ \A i \in 1 .. Len(s) : t[i] = s[i]
      /\ \A i \in 1 .. (Len(s) + Len(c)) : i \notin 1 .. Len(s) => i - Len(s) \in 1 .. Len(c) /\ t[i] = k[i - Len(s)]
  <2>1. t = s \o k
    OBVIOUS
  <2> HIDE DEF k
  <2>2. /\ s \o k \in Seq(ToBrowser) /\ DOMAIN (s \o k) = 1 .. (Len(s) + Len(k))
        /\ \A i \in 1 .. Len(s) : (s \o k)[i] = s[i]
        /\ \A i \in 1 .. (Len(s) + Len(k)) :
             i \notin 1 .. Len(s) => i - Len(s) \in 1 .. Len(k) /\ (s \o k)[i] = k[i - Len(s)]
    BY <1>4, Joined, ZenonT(30)
  <2> QED  BY <1>4, <2>1, <2>2, Zenon
<1> HIDE DEF k
<1>6. \A i \in DOMAIN s : i \in DOMAIN t /\ t[i] = s[i] /\ i <= Len(s)
  BY <1>1, <1>5
<1>7. \A i \in DOMAIN t : \/ i \in DOMAIN s /\ t[i] = s[i]
                          \/ i > Len(s) /\ i - Len(s) \in DOMAIN c /\ t[i].op = "candidate" /\ t[i].gen = c[i - Len(s)]
  BY <1>1, <1>3, <1>5
<1>8. ToSet(s) \subseteq ToSet(t)
  BY <1>6 DEF ToSet
<1>9. \A m \in ToSet(t) : m \in ToSet(s) \/ (m.op = "candidate" /\ m.gen \in ToSet(c))
  BY <1>7 DEF ToSet
<1>10. ASSUME NEW op, op # "candidate"
       PROVE  (Has(t, op) <=> Has(s, op)) /\ (AtMostOne(s, op) => AtMostOne(t, op))
  <2>1. Has(t, op) <=> Has(s, op)
    BY <1>8, <1>9, <1>10 DEF Has
  <2>2. AtMostOne(s, op) => AtMostOne(t, op)
    BY <1>7, <1>10 DEF AtMostOne
  <2> QED  BY <2>1, <2>2
<1>11. Precedes(s, "answer", "offer") => Precedes(t, "answer", "offer")
  BY <1>7 DEF Precedes
<1>12. ASSUME NEW known, Covered(s, known),
              \A g \in ToSet(c) : g \in known \/ \E d \in ToSet(s) : Describes(d) /\ d.gen >= g
       PROVE  Covered(t, known)
  <2> SUFFICES ASSUME NEW i \in DOMAIN t, t[i].op = "candidate", t[i].gen \notin known
               PROVE  \E j \in DOMAIN t : j < i /\ Describes(t[j]) /\ t[j].gen >= t[i].gen
    BY DEF Covered
  <2>1. CASE i \in DOMAIN s /\ t[i] = s[i]
    BY <1>6, <1>12, <2>1 DEF Covered
  <2>2. CASE i > Len(s) /\ i - Len(s) \in DOMAIN c /\ t[i].gen = c[i - Len(s)]
    <3>1. t[i].gen \in ToSet(c)
      BY <2>2 DEF ToSet
    <3>2. PICK d \in ToSet(s) : Describes(d) /\ d.gen >= t[i].gen
      BY <1>12, <3>1
    <3>3. PICK j \in DOMAIN s : s[j] = d
      BY <3>2 DEF ToSet
    <3>4. j < i
      BY <1>1, <1>5, <1>6, <2>2, <3>3
    <3> QED  BY <1>6, <3>2, <3>3, <3>4
  <2> QED  BY <1>7, <2>1, <2>2
<1> QED  BY <1>5, <1>8, <1>9, <1>10, <1>11, <1>12 DEF WithCandidates

----------------------------------------------------------------------------
(* The queue's functions.                                                  *)

Outcomes == {"new", "pending", "inFlight", "ok", "failed"}
Queues == [req : [Reqs -> Outcomes], batch : SUBSET Reqs, pumping : BOOLEAN, closed : BOOLEAN,
           watchdog : BOOLEAN, chain : Seq(Operations)]
\* A queue that is kept well, and one in which nothing waits unguarded.
Sound(q) == /\ q \in Queues
            /\ q.batch = {r \in Reqs : q.req[r] = "inFlight"}
            /\ q.closed => Pending(q) = {} /\ q.batch = {}
            /\ q.batch # {} => q.watchdog
Guarded(q) == (q.batch \union Pending(q)) # {} /\ ~q.closed => q.watchdog \/ q.pumping
Kept(q) == {r \in Reqs : q.req[r] = "ok"}
\* p is q, or closed if the connection is gone, or q with a new batch and its sendOffer.
Sending == [op |-> "sendOffer"]
Pumps(p, q, current, stable) ==
  \/ /\ p.chain = q.chain /\ p.pumping = q.pumping
     /\ p.closed => q.closed \/ ~current
     /\ p.batch = q.batch \/ p.closed
  \/ /\ p.chain = Append(q.chain, Sending) /\ p.pumping /\ ~q.pumping
     /\ p.batch # {} /\ q.batch = {} /\ ~p.closed /\ current /\ stable
\* The same of a queue whose batch may have ended.
Renews(p, q, current, stable) ==
  \/ /\ p.chain = q.chain /\ p.pumping = q.pumping
     /\ p.closed => q.closed \/ ~current
     /\ p.batch \subseteq q.batch
  \/ /\ p.chain = Append(q.chain, Sending) /\ p.pumping /\ ~q.pumping
     /\ p.batch # {} /\ ~p.closed /\ current /\ stable

\* The requests that are settled and the others.
LEMMA SettleFacts ==
  ASSUME NEW q \in Queues, NEW rs \in SUBSET Reqs, NEW o \in Outcomes
  PROVE  /\ Settle(q, rs, o) \in Queues
         /\ \A r \in Reqs : Settle(q, rs, o).req[r] = IF r \in rs THEN o ELSE q.req[r]
         /\ Settle(q, rs, o).batch = q.batch /\ Settle(q, rs, o).pumping = q.pumping
         /\ Settle(q, rs, o).closed = q.closed /\ Settle(q, rs, o).watchdog = q.watchdog
         /\ Settle(q, rs, o).chain = q.chain
BY DEF Settle, Queues

\* close: nothing waits any more.
LEMMA CloseFacts ==
  ASSUME NEW q, Sound(q)
  PROVE  /\ Sound(Close(q)) /\ Guarded(Close(q)) /\ Close(q).closed
         /\ Close(q).batch = {} /\ Kept(Close(q)) = Kept(q)
         /\ Close(q).chain = q.chain /\ Close(q).pumping = q.pumping
<1>1. CASE q.closed
  BY <1>1 DEF Close, Sound, Guarded
<1>2. CASE ~q.closed
  <2> DEFINE s == Settle(q, q.batch \union Pending(q), "failed")
  <2>1. q \in Queues /\ q.batch \in SUBSET Reqs /\ Pending(q) \in SUBSET Reqs /\ "failed" \in Outcomes
    BY DEF Sound, Queues, Pending, Outcomes
  <2>2. /\ s \in Queues /\ s.pumping = q.pumping /\ s.chain = q.chain
        /\ \A r \in Reqs : s.req[r] = IF r \in q.batch \union Pending(q) THEN "failed" ELSE q.req[r]
    BY <2>1, SettleFacts
  <2> HIDE DEF s
  <2>3. Close(q) = [s EXCEPT !.closed = TRUE, !.watchdog = FALSE, !.batch = {}]
    BY <1>2 DEF Close, s
  <2>4. /\ Close(q) \in Queues /\ Close(q).req = s.req /\ Close(q).closed /\ Close(q).batch = {}
        /\ Close(q).chain = q.chain /\ Close(q).pumping = q.pumping
    BY <2>2, <2>3 DEF Queues
  <2>5. \A r \in Reqs : s.req[r] # "inFlight" /\ s.req[r] # "pending" /\ (s.req[r] = "ok" <=> q.req[r] = "ok")
    BY <2>2 DEF Sound, Pending
  <2> QED  BY <2>4, <2>5 DEF Sound, Guarded, Kept, Pending
<1> QED  BY <1>1, <1>2

\* pump: whatever the queue was, nothing waits unguarded afterwards.
LEMMA PumpFacts ==
  ASSUME NEW q, Sound(q), NEW current \in BOOLEAN, NEW stable \in BOOLEAN
  PROVE  LET p == Pump(q, current, stable)
         IN Sound(p) /\ Guarded(p) /\ Kept(p) = Kept(q) /\ Pumps(p, q, current, stable)
<1> DEFINE p == Pump(q, current, stable)
           Good == Sound(p) /\ Guarded(p) /\ Kept(p) = Kept(q) /\ Pumps(p, q, current, stable)
<1> SUFFICES Good
  OBVIOUS
<1>1. CASE q.closed \/ q.pumping \/ q.batch # {} \/ Pending(q) = {}
  <2>1. p = q
    BY <1>1 DEF Pump
  <2> QED  BY <1>1, <2>1 DEF Sound, Guarded, Pumps, Queues
<1>2. CASE /\ ~(q.closed \/ q.pumping \/ q.batch # {} \/ Pending(q) = {}) /\ ~current
  <2>1. p = Close(q)
    BY <1>2 DEF Pump
  <2> QED  BY <1>2, <2>1, CloseFacts DEF Pumps
<1>3. CASE /\ ~(q.closed \/ q.pumping \/ q.batch # {} \/ Pending(q) = {}) /\ current /\ ~stable
  <2>1. p = [q EXCEPT !.watchdog = TRUE]
    BY <1>3 DEF Pump
  <2>2. /\ p \in Queues /\ p.req = q.req /\ p.watchdog /\ p.batch = q.batch /\ p.closed = q.closed
        /\ p.chain = q.chain /\ p.pumping = q.pumping
    BY <2>1 DEF Sound, Queues
  <2> HIDE DEF p
  <2>3. Sound(p) /\ Guarded(p) /\ Kept(p) = Kept(q)
    BY <1>3, <2>2 DEF Sound, Guarded, Kept, Pending
  <2>4. Pumps(p, q, current, stable)
    BY <2>2 DEF Pumps
  <2> QED  BY <2>3, <2>4
<1>4. CASE /\ ~(q.closed \/ q.pumping \/ q.batch # {} \/ Pending(q) = {}) /\ current /\ stable
  <2> DEFINE w == Pending(q)
             s == Settle(q, w, "inFlight")
  <2>1. q \in Queues /\ w \in SUBSET Reqs /\ "inFlight" \in Outcomes
    BY DEF Sound, Pending, Outcomes
  <2>2. /\ s \in Queues /\ s.chain = q.chain /\ s.closed = q.closed
        /\ \A r \in Reqs : s.req[r] = IF r \in w THEN "inFlight" ELSE q.req[r]
    <3> HIDE DEF w
    <3> QED  BY ONLY <2>1, SettleFacts
  <2> HIDE DEF s
  <2>3. p = [s EXCEPT !.batch = Pending(q), !.watchdog = TRUE, !.pumping = TRUE,
                      !.chain = Append(q.chain, [op |-> "sendOffer"])]
    BY <1>4 DEF Pump, s
  <2>4. Append(q.chain, Sending) \in Seq(Operations)
    BY <2>1 DEF Queues, Operations, Sending
  <2>5. /\ p \in Queues /\ p.req = s.req /\ p.batch = Pending(q) /\ p.watchdog /\ p.pumping
        /\ p.closed = q.closed /\ p.chain = Append(q.chain, Sending)
    BY <2>1, <2>2, <2>3, <2>4 DEF Queues, Sending
  <2> HIDE DEF p
  <2>6. \A r \in Reqs : /\ p.req[r] = "inFlight" <=> r \in Pending(q)
                        /\ p.req[r] = "ok" <=> q.req[r] = "ok"
    BY <1>4, <2>2, <2>5 DEF Sound, Pending
  <2>7. Sound(p) /\ Guarded(p) /\ Kept(p) = Kept(q)
    BY <1>4, <2>1, <2>5, <2>6 DEF Sound, Guarded, Kept
  <2>8. Pumps(p, q, current, stable)
    BY <1>4, <2>5 DEF Pumps
  <2> QED  BY <2>7, <2>8
<1> QED  BY <1>1, <1>2, <1>3, <1>4

\* The batch ends with an outcome.
Ended(q, o, w) == [Settle(q, q.batch, o) EXCEPT !.watchdog = w, !.batch = {}]

\* A batch that ends leaves a queue that is kept well.
LEMMA EndedFacts ==
  ASSUME NEW q, Sound(q), ~q.closed, NEW o \in {"pending", "ok", "failed"}, NEW w \in BOOLEAN
  PROVE  /\ Sound(Ended(q, o, w)) /\ Ended(q, o, w).chain = q.chain
         /\ Ended(q, o, w).pumping = q.pumping /\ ~Ended(q, o, w).closed
         /\ Ended(q, o, w).batch = {} /\ Ended(q, o, w).watchdog = w
         /\ o = "ok" => Kept(Ended(q, o, w)) = Kept(q) \union q.batch
         /\ o # "ok" => Kept(Ended(q, o, w)) = Kept(q)
<1> DEFINE s == Settle(q, q.batch, o)
           e == Ended(q, o, w)
<1>1. q \in Queues /\ q.batch \in SUBSET Reqs /\ o \in Outcomes
  BY DEF Sound, Queues, Outcomes
<1>2. /\ s \in Queues /\ s.pumping = q.pumping /\ s.chain = q.chain /\ s.closed = q.closed
      /\ \A r \in Reqs : s.req[r] = IF r \in q.batch THEN o ELSE q.req[r]
  BY <1>1, SettleFacts
<1>0. e = [s EXCEPT !.watchdog = w, !.batch = {}]
  BY DEF Ended
<1> HIDE DEF s, e
<1>3. /\ e \in Queues /\ e.req = s.req /\ ~e.closed /\ e.batch = {} /\ e.watchdog = w
      /\ e.chain = q.chain /\ e.pumping = q.pumping
  BY <1>0, <1>2 DEF Queues
<1>4. \A r \in Reqs : e.req[r] # "inFlight"
  BY <1>2, <1>3 DEF Sound
<1>5. Sound(e)
  BY <1>3, <1>4 DEF Sound
<1>6. \A r \in Reqs : r \in q.batch <=> q.req[r] = "inFlight"
  BY DEF Sound
<1>7. /\ o = "ok" => Kept(e) = Kept(q) \union q.batch
      /\ o # "ok" => Kept(e) = Kept(q)
  <2>1. q.batch \subseteq Reqs
    BY <1>1
  <2> QED  BY <1>2, <1>3, <1>6, <2>1 DEF Kept
<1> QED  BY <1>3, <1>5, <1>7 DEF e

\* The outcomes a batch may have.
LEMMA Outs ==
  /\ "ok" \in {"pending", "ok", "failed"} /\ "failed" \in {"pending", "ok", "failed"}
  /\ "pending" \in {"pending", "ok", "failed"} /\ FALSE \in BOOLEAN /\ TRUE \in BOOLEAN
  /\ "failed" # "ok" /\ "pending" # "ok"
OBVIOUS

\* onAnswer: nothing is kept if the connection is not the current one any more.
LEMMA AnsweredFacts ==
  ASSUME NEW q, Sound(q), NEW current \in BOOLEAN
  PROVE  LET p == Answered(q, current)
         IN /\ Sound(p) /\ Guarded(p) /\ Kept(p) \subseteq Kept(q) \union q.batch
            /\ ~current => Kept(p) = Kept(q)
            /\ Renews(p, q, current, TRUE) /\ (p.pumping \/ p.batch = {})
<1> DEFINE p == Answered(q, current)
           e == Ended(q, "ok", FALSE)
           Good == /\ Sound(p) /\ Guarded(p) /\ Kept(p) \subseteq Kept(q) \union q.batch
                   /\ ~current => Kept(p) = Kept(q)
                   /\ Renews(p, q, current, TRUE) /\ (p.pumping \/ p.batch = {})
<1> SUFFICES Good
  OBVIOUS
<1>1. CASE q.closed
  <2>1. p = q
    BY <1>1 DEF Answered
  <2> QED  BY <1>1, <2>1 DEF Sound, Guarded, Renews
<1>2. CASE ~q.closed /\ ~current
  <2>1. p = Close(q)
    BY <1>2 DEF Answered
  <2>2. /\ Sound(p) /\ Guarded(p) /\ p.batch = {} /\ Kept(p) = Kept(q)
        /\ p.chain = q.chain /\ p.pumping = q.pumping
    BY <2>1, CloseFacts
  <2> HIDE DEF p
  <2> QED  BY <1>2, <2>2 DEF Renews
<1>3. CASE ~q.closed /\ current
  <2>1. /\ Sound(e) /\ e.chain = q.chain /\ e.pumping = q.pumping /\ ~e.closed /\ e.batch = {}
        /\ Kept(e) = Kept(q) \union q.batch
    BY <1>3, EndedFacts, Outs, Zenon
  <2>2. p = Pump(e, TRUE, TRUE)
    BY <1>3 DEF Answered, Ended
  <2> HIDE DEF e
  <2>3. Sound(p) /\ Guarded(p) /\ Kept(p) = Kept(e) /\ Pumps(p, e, TRUE, TRUE)
    BY <2>1, <2>2, PumpFacts
  <2>4. p.closed => p.batch = {}
    BY <2>3 DEF Sound
  <2> HIDE DEF p
  <2>5. Renews(p, q, current, TRUE) /\ (p.pumping \/ p.batch = {})
    BY <1>3, <2>1, <2>3, <2>4 DEF Pumps, Renews
  <2> QED  BY <1>3, <2>1, <2>3, <2>5
<1> QED  BY <1>1, <1>2, <1>3

\* onRollback: the batch waits again.
LEMMA RollbackFacts ==
  ASSUME NEW q, Sound(q), Guarded(q)
  PROVE  LET p == Rollback(q)
         IN /\ Sound(p) /\ Guarded(p) /\ Kept(p) = Kept(q)
            /\ p.chain = q.chain /\ p.pumping = q.pumping /\ (p.closed <=> q.closed) /\ p.batch = {}
<1> DEFINE p == Rollback(q)
           e == Ended(q, "pending", TRUE)
           Good == /\ Sound(p) /\ Guarded(p) /\ Kept(p) = Kept(q)
                   /\ p.chain = q.chain /\ p.pumping = q.pumping /\ (p.closed <=> q.closed) /\ p.batch = {}
<1> SUFFICES Good
  OBVIOUS
<1>1. CASE q.closed \/ q.batch = {}
  <2>1. p = q
    BY <1>1 DEF Rollback
  <2> QED  BY <1>1, <2>1 DEF Sound
<1>2. CASE ~(q.closed \/ q.batch = {})
  <2>1. /\ Sound(e) /\ e.chain = q.chain /\ e.pumping = q.pumping /\ ~e.closed /\ e.batch = {}
        /\ e.watchdog /\ Kept(e) = Kept(q)
    BY <1>2, EndedFacts, Outs, Zenon
  <2>2. p = [Settle(q, q.batch, "pending") EXCEPT !.batch = {}, !.watchdog = TRUE]
    BY <1>2 DEF Rollback
  <2>3. p = e
    <3>1. Settle(q, q.batch, "pending") \in Queues
      BY SettleFacts DEF Sound, Queues, Outcomes
    <3> QED  BY <2>2, <3>1 DEF Queues, Ended
  <2> HIDE DEF p, e
  <2> QED  BY <1>2, <2>1, <2>3 DEF Guarded
<1> QED  BY <1>1, <1>2

\* onFailure: the batch is rejected.
LEMMA FailedFacts ==
  ASSUME NEW q, Sound(q), Guarded(q), NEW current \in BOOLEAN, NEW stable \in BOOLEAN
  PROVE  LET p == Failed(q, current, stable)
         IN Sound(p) /\ Guarded(p) /\ Kept(p) = Kept(q) /\ Renews(p, q, current, stable)
<1> DEFINE p == Failed(q, current, stable)
           e == Ended(q, "failed", FALSE)
           Good == Sound(p) /\ Guarded(p) /\ Kept(p) = Kept(q) /\ Renews(p, q, current, stable)
<1> SUFFICES Good
  OBVIOUS
<1>1. CASE q.closed \/ q.batch = {}
  <2>1. p = q
    BY <1>1 DEF Failed
  <2> QED  BY <2>1 DEF Renews
<1>2. CASE ~(q.closed \/ q.batch = {})
  <2>1. /\ Sound(e) /\ e.chain = q.chain /\ e.pumping = q.pumping /\ ~e.closed /\ e.batch = {}
        /\ Kept(e) = Kept(q)
    BY <1>2, EndedFacts, Outs, Zenon
  <2>2. p = Pump(e, current, stable)
    BY <1>2 DEF Failed, Ended
  <2> HIDE DEF e
  <2>3. Sound(p) /\ Guarded(p) /\ Kept(p) = Kept(e) /\ Pumps(p, e, current, stable)
    BY <2>1, <2>2, PumpFacts
  <2>4. p.closed => p.batch = {}
    BY <2>3 DEF Sound
  <2> HIDE DEF p
  <2>5. Renews(p, q, current, stable)
    BY <2>1, <2>3, <2>4 DEF Pumps, Renews
  <2> QED  BY <2>1, <2>3, <2>5
<1> QED  BY <1>1, <1>2

\* What follows sendOffer's promise: the pump sends at once only in a stable connection
\* that is the current one.
LEMMA SettledFacts ==
  ASSUME NEW q, Sound(q), NEW o \in {"sent", "unsent", "failed"},
         NEW current \in BOOLEAN, NEW stable \in BOOLEAN
  PROVE  LET p == Settled(q, q.batch, o, current, stable)
         IN /\ Sound(p) /\ Guarded(p) /\ Kept(p) = Kept(q)
            /\ \/ p.chain = q.chain /\ ~p.pumping
               \/ p.chain = Append(q.chain, Sending) /\ p.pumping /\ p.batch # {} /\ current /\ stable
            /\ p.closed => q.closed \/ ~current
            /\ o = "sent" /\ current /\ ~stable => p.batch = q.batch
<1> DEFINE p == Settled(q, q.batch, o, current, stable)
           live == q.batch = q.batch /\ q.batch # {}
           q1 == CASE ~live \/ o = "sent" -> q
                   [] live /\ o = "unsent" -> Ended(q, "pending", FALSE)
                   [] live /\ o = "failed" -> Ended(q, "failed", FALSE)
           q2 == [q1 EXCEPT !.pumping = FALSE]
           Good == /\ Sound(p) /\ Guarded(p) /\ Kept(p) = Kept(q)
                   /\ \/ p.chain = q.chain /\ ~p.pumping
                      \/ p.chain = Append(q.chain, Sending) /\ p.pumping /\ p.batch # {} /\ current /\ stable
                   /\ p.closed => q.closed \/ ~current
                   /\ o = "sent" /\ current /\ ~stable => p.batch = q.batch
<1> SUFFICES Good
  OBVIOUS
<1>1. p = Pump(q2, current, stable)
  BY DEF Settled, Ended
<1>2. /\ Sound(q1) /\ q1.chain = q.chain /\ (q1.closed <=> q.closed) /\ Kept(q1) = Kept(q)
      /\ q1.batch = q.batch \/ q1.batch = {}
      /\ o = "sent" => q1.batch = q.batch
  <2>1. CASE q.batch = {} \/ o = "sent"
    <3>1. q1 = q
      BY <2>1
    <3> HIDE DEF q1
    <3> QED  BY <3>1
  <2>2. CASE q.batch # {} /\ o = "unsent"
    <3>1. q1 = Ended(q, "pending", FALSE)
      BY <2>2
    <3>2. /\ Sound(Ended(q, "pending", FALSE)) /\ Ended(q, "pending", FALSE).chain = q.chain /\ ~Ended(q, "pending", FALSE).closed
          /\ Ended(q, "pending", FALSE).batch = {} /\ Kept(Ended(q, "pending", FALSE)) = Kept(q)
      BY <2>2, EndedFacts, Outs, Zenon DEF Sound
    <3> HIDE DEF q1
    <3> QED  BY <2>2, <3>1, <3>2 DEF Sound
  <2>3. CASE q.batch # {} /\ o = "failed"
    <3>1. q1 = Ended(q, "failed", FALSE)
      BY <2>3
    <3>2. /\ Sound(Ended(q, "failed", FALSE)) /\ Ended(q, "failed", FALSE).chain = q.chain /\ ~Ended(q, "failed", FALSE).closed
          /\ Ended(q, "failed", FALSE).batch = {} /\ Kept(Ended(q, "failed", FALSE)) = Kept(q)
      BY <2>3, EndedFacts, Outs, Zenon DEF Sound
    <3> HIDE DEF q1
    <3> QED  BY <2>3, <3>1, <3>2 DEF Sound
  <2> QED  BY <2>1, <2>2, <2>3
<1> HIDE DEF q1
<1>3. /\ q2 \in Queues /\ q2.req = q1.req /\ q2.batch = q1.batch /\ q2.closed = q1.closed
      /\ q2.watchdog = q1.watchdog /\ q2.chain = q1.chain /\ ~q2.pumping
  BY <1>2 DEF Sound, Queues
<1> HIDE DEF q2
<1>4. Sound(q2) /\ Kept(q2) = Kept(q1)
  BY <1>2, <1>3 DEF Sound, Kept, Pending
<1>5. Sound(p) /\ Guarded(p) /\ Kept(p) = Kept(q2) /\ Pumps(p, q2, current, stable)
  BY <1>1, <1>4, PumpFacts
<1>6. p.closed => p.batch = {}
  BY <1>5 DEF Sound
<1>7. q.closed => q.batch = {}
  BY DEF Sound
<1> HIDE DEF p
<1> QED  BY <1>2, <1>3, <1>4, <1>5, <1>6, <1>7 DEF Pumps

----------------------------------------------------------------------------
(* The invariant in parts that the steps disturb separately.               *)

QueueTypes ==
  /\ req \in [Reqs -> Outcomes]
  /\ batch = {r \in Reqs : req[r] = "inFlight"}
  /\ closed => {r \in Reqs : req[r] = "pending"} = {} /\ batch = {}
  /\ pumping \in BOOLEAN /\ closed \in BOOLEAN /\ watchdog \in BOOLEAN
BrowserTypes ==
  /\ up \in BOOLEAN /\ remoteSet \in BOOLEAN
  /\ at \in {"start", "created", "rolledBack", "local", "remote"}
  /\ sig \in {"stable", "have-local-offer", "have-remote-offer"}
  /\ bgen \in Gens /\ brgen \in Gens /\ bknows \in 0 .. MaxChanges
  /\ chain \in Seq(Operations) /\ number \in Nat /\ offered \in Offers /\ held \in Seq(Gens)
HubTypes ==
  /\ ready \in BOOLEAN /\ inFlight \in BOOLEAN /\ pendingOffer \in BOOLEAN
  /\ pendingRestart \in BOOLEAN /\ sremote \in BOOLEAN
  /\ sgen \in Gens /\ srgen \in Gens /\ changes \in 0 .. MaxChanges /\ calls \in 0 .. changes
  /\ sstep \in {"read", "answering", "answered", "reoffer", "restart"}
  /\ has \subseteq Reqs /\ answer \in Offers /\ squeue \in Seq(Gens) /\ slocal \in Seq(Gens)
WireTypes ==
  /\ toBrowser \in Seq(ToBrowser) /\ toHub \in Seq(ToHub) /\ faults \in Nat /\ early \in BOOLEAN

\* The types are those of the queue, of the browser, of the hub and of the connection.
LEMMA TypesInParts ==
  /\ Types <=> QueueTypes /\ BrowserTypes /\ HubTypes /\ WireTypes
  /\ Types' <=> QueueTypes' /\ BrowserTypes' /\ HubTypes' /\ WireTypes'
<1>1. TypeOK <=> /\ QueueTypes
                 /\ up \in BOOLEAN /\ remoteSet \in BOOLEAN
                 /\ at \in {"start", "created", "rolledBack", "local", "remote"}
                 /\ sig \in {"stable", "have-local-offer", "have-remote-offer"}
                 /\ bgen \in Gens /\ brgen \in Gens /\ bknows \in 0 .. MaxChanges
                 /\ ready \in BOOLEAN /\ inFlight \in BOOLEAN /\ pendingOffer \in BOOLEAN
                 /\ pendingRestart \in BOOLEAN /\ sremote \in BOOLEAN /\ early \in BOOLEAN
                 /\ sgen \in Gens /\ srgen \in Gens /\ changes \in 0 .. MaxChanges
                 /\ calls \in 0 .. changes
                 /\ sstep \in {"read", "answering", "answered", "reoffer", "restart"}
                 /\ has \subseteq Reqs
  BY DEF TypeOK, QueueTypes, Outcomes, Pending, Queue
<1>2. TypeOK' <=> /\ QueueTypes'
                  /\ up' \in BOOLEAN /\ remoteSet' \in BOOLEAN
                  /\ at' \in {"start", "created", "rolledBack", "local", "remote"}
                  /\ sig' \in {"stable", "have-local-offer", "have-remote-offer"}
                  /\ bgen' \in Gens /\ brgen' \in Gens /\ bknows' \in 0 .. MaxChanges
                  /\ ready' \in BOOLEAN /\ inFlight' \in BOOLEAN /\ pendingOffer' \in BOOLEAN
                  /\ pendingRestart' \in BOOLEAN /\ sremote' \in BOOLEAN /\ early' \in BOOLEAN
                  /\ sgen' \in Gens /\ srgen' \in Gens /\ changes' \in 0 .. MaxChanges
                  /\ calls' \in 0 .. changes'
                  /\ sstep' \in {"read", "answering", "answered", "reoffer", "restart"}
                  /\ has' \subseteq Reqs
  BY DEF TypeOK, QueueTypes, Outcomes, Pending, Queue
<1> QED  BY <1>1, <1>2 DEF Types, BrowserTypes, HubTypes, WireTypes

\* What holds of the messages by their types.
LEMMA MessageTypes ==
  /\ \A m \in ToBrowser \union Operations :
       /\ m.op \in {"offer", "answer", "candidate", "error", "sendOffer"}
       /\ m.op \in {"offer", "answer", "candidate"} => m.gen \in Gens
       /\ m.op = "offer" => m.knows \in 0 .. MaxChanges
       /\ m.op = "answer" => m.n \in Nat
  /\ \A m \in ToHub : /\ m.op \in {"offer", "answer", "candidate", "ice_restart"}
                      /\ m.op = "offer" => m.n \in Nat /\ m.incl \subseteq Reqs
                      /\ m.op \in {"answer", "candidate"} => m.gen \in Gens
  /\ \A m \in ToBrowser : m.op # "error" => m \in Operations
BY DEF ToBrowser, Operations, HubMessages, ToHub

\* The members of a sequence.
LEMMA Members ==
  ASSUME NEW S, NEW s \in Seq(S)
  PROVE  ToSet(s) \subseteq S /\ (s = <<>> <=> ToSet(s) = {})
<1>1. /\ Len(s) \in Nat /\ DOMAIN s = 1 .. Len(s) /\ (s = <<>> <=> Len(s) = 0)
      /\ \A i \in 1 .. Len(s) : s[i] \in S
  OBVIOUS
<1>2. Len(s) # 0 => 1 \in DOMAIN s
  BY <1>1
<1>3. Len(s) = 0 => DOMAIN s = {}
  BY <1>1
<1> QED  BY <1>1, <1>2, <1>3 DEF ToSet

\* The queue of the browser is kept well, and stays so when it becomes p.
LEMMA QueueIsSound ==
  ASSUME Inv
  PROVE  /\ Sound(Queue) /\ Guarded(Queue) /\ Queue.chain = chain /\ Queue.pumping = pumping
         /\ Queue.closed = closed /\ Queue.batch = batch /\ Queue.req = req
         /\ Queue.watchdog = watchdog
         /\ Kept(Queue) \subseteq has
<1>1. /\ Queue.chain = chain /\ Queue.pumping = pumping /\ Queue.closed = closed
      /\ Queue.batch = batch /\ Queue.req = req /\ Queue.watchdog = watchdog
  BY DEF Queue
<1>2. QueueTypes /\ BrowserTypes /\ QueueInv /\ KeptPromises
  BY TypesInParts DEF Inv
<1>3. Queue \in Queues
  BY <1>2 DEF Queue, Queues, QueueTypes, BrowserTypes
<1> HIDE DEF Queue
<1>4. Sound(Queue)
  BY <1>1, <1>2, <1>3 DEF Sound, QueueTypes, QueueInv, Pending
<1>5. Guarded(Queue)
  BY <1>1, <1>2 DEF Guarded, QueueInv, NoUnguardedWait
<1> QED  BY <1>1, <1>2, <1>4, <1>5 DEF Kept, KeptPromises

\* A queue that is kept well, stored back.
LEMMA SetQueueFacts ==
  ASSUME NEW p, Sound(p), Guarded(p), SetQueue(p)
  PROVE  /\ QueueTypes' /\ NoUnguardedWait' /\ (batch' # {} => watchdog')
         /\ batch' = p.batch /\ pumping' = p.pumping /\ closed' = p.closed
         /\ Kept(p) \subseteq has' => KeptPromises'
<1>1. /\ req' = p.req /\ batch' = p.batch /\ pumping' = p.pumping
      /\ closed' = p.closed /\ watchdog' = p.watchdog
  BY DEF SetQueue
<1>2. QueueTypes' /\ (batch' # {} => watchdog')
  BY <1>1 DEF QueueTypes, Sound, Queues, Pending
<1>3. NoUnguardedWait'
  BY <1>1 DEF NoUnguardedWait, Guarded, Pending, Queue
<1>4. Kept(p) \subseteq has' => KeptPromises'
  BY <1>1 DEF Kept, KeptPromises
<1> QED  BY <1>1, <1>2, <1>3, <1>4
----------------------------------------------------------------------------
(* The steps of the hub.                                                   *)

\* What the hub's steps do not touch.
LEMMA HubSide ==
  ASSUME Inv, UNCHANGED <<queueVars, up, chainVars, peerVars>>, has \subseteq has'
  PROVE  QueueTypes' /\ BrowserTypes' /\ QueueInv' /\ KeptPromises' /\ (up' => OperationInv')
<1> USE DEF queueVars, chainVars, peerVars
<1>1. QueueTypes' /\ BrowserTypes'
  BY TypesInParts DEF Inv, QueueTypes, BrowserTypes
<1>2. QueueInv'
  BY DEF Inv, QueueInv, NoUnguardedWait, Pending, Queue, Has, AtMostOne
<1>3. KeptPromises'
  BY DEF Inv, KeptPromises
<1>4. up' => OperationInv'
  BY DEF Inv, OperationInv
<1> QED  BY <1>1, <1>2, <1>3, <1>4

\* The hub reads the next message.
LEMMA Reading ==
  ASSUME Inv, NEW op, Reads(op)
  PROVE  /\ up /\ sstep = "read" /\ toHub' \in Seq(ToHub)
         /\ Head(toHub) \in ToSet(toHub) /\ Head(toHub) \in ToHub /\ Head(toHub).op = op
         /\ ToSet(toHub) = {Head(toHub)} \union ToSet(toHub') /\ ToSet(toHub) \subseteq ToHub
         /\ \A x : Has(toHub', x) => Has(toHub, x)
         /\ Has(toHub, op)
         /\ AtMostOne(toHub', "answer") /\ (op = "answer" => ~Has(toHub', "answer"))
         /\ InOrder(toHub')
         /\ op = "offer" => \A x \in ToSet(toHub') : x.op = "offer" => Head(toHub).n < x.n
         /\ BehindAnswers(toHub', offered.n)
         /\ op = "answer" => \A x \in ToSet(toHub') : x.op = "offer" => x.n = offered.n
<1>1. up /\ sstep = "read" /\ toHub # <<>> /\ Head(toHub).op = op /\ toHub' = Tail(toHub)
  BY DEF Reads
<1>2. toHub \in Seq(ToHub) /\ AtMostOne(toHub, "answer") /\ InOrder(toHub) /\ BehindAnswers(toHub, offered.n)
  BY <1>1, TypesInParts DEF Inv, WireTypes, HubOffersInv, OffersInv
<1>3. /\ Tail(toHub) \in Seq(ToHub) /\ Head(toHub) \in ToHub
      /\ ToSet(toHub) = {Head(toHub)} \union ToSet(Tail(toHub))
      /\ \A x : AtMostOne(toHub, x) => AtMostOne(Tail(toHub), x) /\ (Head(toHub).op = x => ~Has(Tail(toHub), x))
      /\ InOrder(toHub) => /\ InOrder(Tail(toHub))
                           /\ Head(toHub).op = "offer" => \A x \in ToSet(Tail(toHub)) : x.op = "offer" => Head(toHub).n < x.n
      /\ \A n : BehindAnswers(toHub, n) =>
           /\ BehindAnswers(Tail(toHub), n)
           /\ Head(toHub).op = "answer" => \A x \in ToSet(Tail(toHub)) : x.op = "offer" => x.n = n
  BY <1>1, <1>2, Taken, Zenon
<1>4. ToSet(toHub) \subseteq ToHub
  BY <1>2, Members
<1>5. (\A x : Has(Tail(toHub), x) => Has(toHub, x)) /\ Has(toHub, op)
  BY <1>1, <1>3 DEF Has
<1> QED  BY <1>1, <1>2, <1>3, <1>4, <1>5, Zenon

\* The hub ignores an offer that collides with its own: the browser answers first, and offers again.
LEMMA IgnoreOfferStep == ASSUME Inv, IgnoreOffer PROVE Inv'
<1>1. /\ Reads("offer") /\ inFlight
      /\ UNCHANGED <<queueVars, up, chainVars, peerVars, hubVars, toBrowser, bounds>>
  BY DEF IgnoreOffer
<1> USE DEF queueVars, chainVars, peerVars, hubVars, hubNeg, hubIce, bounds
<1>2. QueueTypes' /\ BrowserTypes' /\ QueueInv' /\ KeptPromises' /\ (up' => OperationInv')
  BY <1>1, HubSide
<1>3. /\ up /\ sstep = "read" /\ toHub' \in Seq(ToHub) /\ ToSet(toHub') \subseteq ToSet(toHub)
      /\ (\A x : Has(toHub', x) => Has(toHub, x)) /\ AtMostOne(toHub', "answer")
      /\ InOrder(toHub') /\ BehindAnswers(toHub', offered.n)
  BY <1>1, Reading
<1>4. HubTypes' /\ WireTypes' /\ CandidatesInTime'
  BY <1>1, <1>3, TypesInParts DEF Inv, HubTypes, WireTypes, CandidatesInTime
<1>5. HubOffersInv'
  BY <1>1, <1>3 DEF Inv, HubOffersInv, Abandoned, Has, AtMostOne
<1>6. AnswersInv'
  BY <1>1, <1>3 DEF Inv, AnswersInv, AnswerDue, Resolving, Has, AtMostOne, Precedes
<1>7. OffersInv'
  BY <1>1, <1>3 DEF Inv, OffersInv, Transmitting
<1>8. faults' = 0 => GensInv'
  BY <1>1, <1>3 DEF Inv, GensInv, Covered, Heard, Told
<1> QED  BY <1>2, <1>4, <1>5, <1>6, <1>7, <1>8, TypesInParts DEF Inv
\* Descriptions and candidates are added to what is known, in numbers.
LEMMA GenerationOrder ==
  /\ \A g \in Gens : g \in Int
  /\ \A a, b, c \in Gens : (a <= b /\ b <= c => a <= c) /\ (a >= b /\ c <= b => a >= c) /\ a <= a /\ a >= a
  /\ \A a, b \in Gens : (a <= b <=> b >= a) /\ (a > b <=> ~(a <= b))
  /\ \A a \in Gens : a >= 0 => a + 1 \in Gens /\ a + 1 >= 0 /\ \A b \in Gens : b <= a => b <= a + 1
BY DEF Gens

\* The hub applies an offer: it is the outstanding one, as its own offer is not under way.
LEMMA ApplyOfferStep == ASSUME Inv, ApplyOffer PROVE Inv'
<1> DEFINE m == Head(toHub)
<1>1. /\ Reads("offer") /\ ~inFlight /\ has' = has \union m.incl /\ sremote' = TRUE /\ srgen' = sgen
      /\ early' = (early \/ TooEarly(squeue, sgen)) /\ squeue' = <<>> /\ ready' = FALSE
      /\ answer' = [n |-> m.n, incl |-> m.incl] /\ sstep' = "answering"
      /\ UNCHANGED <<queueVars, up, chainVars, peerVars, inFlight, pendingOffer, pendingRestart,
                     slocal, sgen, changes, calls, toBrowser, restarts, bcands, scands, faults>>
  BY DEF ApplyOffer
<1> HIDE DEF m
<1> USE DEF queueVars, chainVars, peerVars
<1>2. QueueTypes' /\ BrowserTypes' /\ QueueInv' /\ KeptPromises' /\ (up' => OperationInv')
  BY <1>1, HubSide
<1>3. /\ up /\ toHub' \in Seq(ToHub) /\ ToSet(toHub') \subseteq ToSet(toHub)
      /\ m \in ToSet(toHub) /\ m \in ToHub /\ m.op = "offer"
      /\ (\A x : Has(toHub', x) => Has(toHub, x)) /\ AtMostOne(toHub', "answer")
      /\ InOrder(toHub') /\ BehindAnswers(toHub', offered.n)
      /\ \A x \in ToSet(toHub') : x.op = "offer" => m.n < x.n
  BY <1>1, Reading DEF m
<1>4. m.n \in Nat /\ m.incl \subseteq Reqs
  BY <1>3, MessageTypes
<1>5. OperationInv /\ HubOffersInv /\ AnswersInv /\ OffersInv /\ (faults = 0 => GensInv)
  BY <1>3 DEF Inv
<1>6. QueueTypes /\ BrowserTypes /\ HubTypes /\ WireTypes
  BY TypesInParts DEF Inv
\* The offer is the one that is outstanding.
<1>7. /\ m.n = offered.n /\ m.incl = offered.incl /\ sig = "have-local-offer" /\ ~pumping
      /\ ~AnswerDue /\ batch # {}
  <2>1. m.n > 0 /\ m.n = offered.n /\ m.incl = offered.incl /\ batch # {} /\ (Transmitting => m.n < number)
    BY <1>1, <1>3, <1>5 DEF OffersInv
  <2>2. offered # NoOffer
    BY <2>1 DEF NoOffer
  <2>3. offered.n = number /\ (sig = "have-local-offer" \/ at = "created")
    BY <1>5, <2>2 DEF OperationInv
  <2>4. ~Transmitting
    BY <1>4, <2>1, <2>3
  <2>5. sig = "have-local-offer" /\ ~pumping
    BY <1>5, <2>3, <2>4 DEF OperationInv, Transmitting
  <2>6. ~AnswerDue
    BY <1>3, <1>5, <2>1 DEF AnswersInv
  <2> QED  BY <2>1, <2>5, <2>6
<1>8. answer' \in Offers
  BY <1>1, <1>4 DEF Offers
<1>9. HubTypes' /\ WireTypes'
  <2>1. <<>> \in Seq(Gens)
    OBVIOUS
  <2>2. early' \in BOOLEAN
    BY <1>1, <1>6 DEF WireTypes, TooEarly
  <2> QED  BY <1>1, <1>3, <1>4, <1>6, <1>8, <2>1, <2>2 DEF HubTypes, WireTypes
<1>10. HubOffersInv'
  BY <1>1, <1>3, <1>5 DEF HubOffersInv, Abandoned, Has, AtMostOne
<1>11. AnswersInv'
  <2>1. answer'.n = offered.n
    BY <1>1, <1>7
  <2>2. \A x \in ToSet(toHub') : x.op = "offer" => x.n # offered.n
    <3>1. \A x \in ToSet(toHub') : x.op = "offer" => x.n \in Nat /\ m.n < x.n
      BY <1>3, <1>6, MessageTypes, Members DEF WireTypes
    <3> QED  BY <1>4, <1>7, <3>1
  <2>3. ~Resolving /\ ~Has(chain, "answer") /\ ~Has(toBrowser, "answer")
    BY <1>5, <1>7 DEF OperationInv, AnswerDue, Resolving
  <2> QED  BY <1>1, <1>5, <1>7, <2>1, <2>2, <2>3 DEF AnswersInv, AnswerDue, Resolving, Has, AtMostOne, Precedes
<1>12. OffersInv'
  BY <1>1, <1>3, <1>5 DEF OffersInv, Transmitting
<1>13. ASSUME faults = 0 PROVE ~TooEarly(squeue, sgen)
  <2>1. ToSet(squeue) \subseteq Gens /\ sgen \in Gens
    BY <1>6, Members DEF HubTypes
  <2>2. \A g \in ToSet(squeue) : g <= sgen
    BY <1>5, <1>13 DEF GensInv
  <2>3. \A g \in ToSet(squeue) : ~(g > sgen)
    BY <2>1, <2>2, GenerationOrder
  <2> QED  BY <2>3 DEF TooEarly, ToSet
<1>14. CandidatesInTime'
  BY <1>1, <1>13 DEF Inv, CandidatesInTime
<1>15. faults' = 0 => GensInv'
  <2>1. ToSet(squeue') = {}
    BY <1>1 DEF ToSet
  <2> QED  BY <1>1, <1>3, <1>5, <2>1 DEF GensInv, Covered, Heard, Told
<1> QED  BY <1>1, <1>2, <1>9, <1>10, <1>11, <1>12, <1>14, <1>15, TypesInParts DEF Inv

\* A candidate that cannot be added leaves a shorter queue.
LEMMA UnusableFacts ==
  ASSUME NEW k, NEW g, squeue \in Seq(Gens), early \in BOOLEAN, Unusable(k, g)
  PROVE  squeue' \in Seq(Gens) /\ early' \in BOOLEAN
<1>1. k \in 1 .. Len(squeue) /\ Len(squeue) \in Nat /\ squeue' = SubSeq(squeue, k + 1, Len(squeue))
  BY DEF Unusable
<1>2. \A i \in (k + 1) .. Len(squeue) : squeue[i] \in Gens
  BY <1>1
<1>3. squeue' \in Seq(Gens)
  BY <1>1, <1>2
<1> QED  BY <1>3 DEF Unusable, TooEarly

\* The hub answers an offer it cannot apply with an error.
LEMMA RefuseOfferStep == ASSUME Inv, RefuseOffer PROVE Inv'
<1> DEFINE e == [op |-> "error"]
           m == Head(toHub)
<1>1. /\ Reads("offer") /\ toBrowser' = Append(toBrowser, e)
      /\ faults' = faults + 1 \/ (faults > 0 /\ faults' = faults)
      /\ \/ UNCHANGED <<has, sremote, srgen, squeue, early>>
         \/ /\ has' = has \union m.incl /\ srgen' = sgen
            /\ \/ (\E k \in DOMAIN squeue : Unusable(k, sgen)) /\ sremote' = sremote
               \/ sremote' = TRUE /\ squeue' = <<>> /\ early' = (early \/ TooEarly(squeue, sgen))
      /\ UNCHANGED <<queueVars, up, chainVars, peerVars, hubNeg, slocal, sgen, sstep, answer,
                     changes, calls, restarts, bcands, scands>>
  BY DEF RefuseOffer, Fault
<1>0. m.incl \subseteq Reqs
  <2>1. m \in ToHub /\ m.op = "offer"
    BY <1>1, Reading
  <2> HIDE DEF m
  <2> QED  BY <2>1, MessageTypes
<1> HIDE DEF m
<1> USE DEF queueVars, chainVars, peerVars, hubNeg
<1>2. QueueTypes' /\ BrowserTypes' /\ QueueInv' /\ KeptPromises' /\ (up' => OperationInv')
  <2>1. has \subseteq has'
    BY <1>1
  <2> QED  BY <1>1, <2>1, HubSide
<1>3. /\ up /\ sstep = "read" /\ toHub' \in Seq(ToHub) /\ ToSet(toHub') \subseteq ToSet(toHub)
      /\ (\A x : Has(toHub', x) => Has(toHub, x)) /\ AtMostOne(toHub', "answer")
      /\ InOrder(toHub') /\ BehindAnswers(toHub', offered.n)
  BY <1>1, Reading
<1>4. QueueTypes /\ BrowserTypes /\ HubTypes /\ WireTypes
  BY TypesInParts DEF Inv
<1>5. e \in ToBrowser /\ e.op = "error" /\ toBrowser \in Seq(ToBrowser)
  BY <1>4 DEF ToBrowser, WireTypes
<1> HIDE DEF e
<1>6. /\ toBrowser' \in Seq(ToBrowser) /\ ToSet(toBrowser') = ToSet(toBrowser) \union {e}
      /\ \A op : AtMostOne(toBrowser, op) /\ e.op # op => AtMostOne(toBrowser', op)
      /\ \A a, b : a # b /\ Precedes(toBrowser, a, b) /\ e.op # a => Precedes(toBrowser', a, b)
  BY <1>1, <1>5, Appended, Zenon
<1>7. \A op : op # "error" => (Has(toBrowser', op) <=> Has(toBrowser, op))
  BY <1>5, <1>6 DEF Has
<1>8. HubTypes' /\ WireTypes' /\ faults' # 0
  <2>1. has' \subseteq Reqs /\ sremote' \in BOOLEAN /\ srgen' \in Gens
    BY <1>0, <1>1, <1>4 DEF HubTypes
  <2>2. squeue' \in Seq(Gens) /\ early' \in BOOLEAN
    <3>1. squeue \in Seq(Gens) /\ early \in BOOLEAN
      BY <1>4 DEF HubTypes, WireTypes
    <3>2. CASE UNCHANGED <<squeue, early>>
      BY <3>1, <3>2
    <3>3. CASE \E k \in DOMAIN squeue : Unusable(k, sgen)
      BY <3>1, <3>3, UnusableFacts
    <3>4. CASE squeue' = <<>> /\ early' = (early \/ TooEarly(squeue, sgen))
      BY <3>1, <3>4 DEF TooEarly
    <3> QED  BY <1>1, <3>2, <3>3, <3>4
  <2>3. faults' \in Nat /\ faults' # 0
    BY <1>1, <1>4 DEF WireTypes
  <2> QED  BY <1>1, <1>3, <1>4, <1>6, <2>1, <2>2, <2>3 DEF HubTypes, WireTypes
<1>9. HubOffersInv'
  <2>1. AtMostOne(toBrowser, "offer") => AtMostOne(toBrowser', "offer")
    BY <1>5, <1>6
  <2>2. Has(toBrowser', "offer") <=> Has(toBrowser, "offer")
    BY <1>7
  <2> QED  BY <1>1, <1>3, <2>1, <2>2 DEF Inv, HubOffersInv, Abandoned, Has, AtMostOne
<1>10. AnswersInv'
  <2>1. AtMostOne(toBrowser, "answer") => AtMostOne(toBrowser', "answer")
    BY <1>5, <1>6
  <2>2. Has(toBrowser', "answer") <=> Has(toBrowser, "answer")
    BY <1>7
  <2>3. Precedes(toBrowser, "answer", "offer") => Precedes(toBrowser', "answer", "offer")
    BY <1>5, <1>6
  <2> HIDE DEF e
  <2>4. AnswersInv
    BY <1>3 DEF Inv
  <2>5. /\ AnswerDue' <=> AnswerDue
        /\ Has(chain', "answer") <=> Has(chain, "answer")
        /\ Has(chain', "offer") <=> Has(chain, "offer")
    BY <1>1, <2>2 DEF AnswerDue, Resolving, Has
  <2>6. /\ AtMostOne(chain, "answer") => AtMostOne(chain', "answer")
        /\ Precedes(chain, "answer", "offer") => Precedes(chain', "answer", "offer")
    BY <1>1 DEF AtMostOne, Precedes
  <2> QED  BY <1>1, <1>3, <1>5, <1>6, <2>1, <2>2, <2>3, <2>4, <2>5, <2>6 DEF AnswersInv
<1>11. OffersInv'
  BY <1>1, <1>3 DEF Inv, OffersInv, Transmitting
<1> QED  BY <1>2, <1>8, <1>9, <1>10, <1>11, TypesInParts DEF Inv, CandidatesInTime
\* The hub writes one more message.
LEMMA Writing ==
  ASSUME Inv, NEW m \in ToBrowser, toBrowser' = Append(toBrowser, m)
  PROVE  /\ toBrowser' \in Seq(ToBrowser) /\ ToSet(toBrowser') = ToSet(toBrowser) \union {m}
         /\ \A op : Has(toBrowser', op) <=> Has(toBrowser, op) \/ m.op = op
         /\ \A op : AtMostOne(toBrowser, op) /\ (m.op # op \/ ~Has(toBrowser, op)) => AtMostOne(toBrowser', op)
         /\ Precedes(toBrowser, "answer", "offer") /\ (m.op # "answer" \/ ~Has(toBrowser, "offer"))
              => Precedes(toBrowser', "answer", "offer")
         /\ \A known : /\ Covered(toBrowser, known)
                       /\ m.op = "candidate" => m.gen \in known \/ \E d \in ToSet(toBrowser) : Describes(d) /\ d.gen >= m.gen
              => Covered(toBrowser', known)
         /\ ToSet(toBrowser) \subseteq ToBrowser
<1>1. toBrowser \in Seq(ToBrowser) /\ "answer" # "offer"
  BY TypesInParts DEF Inv, WireTypes
<1>2. Append(toBrowser, m) \in Seq(ToBrowser) /\ ToSet(Append(toBrowser, m)) = ToSet(toBrowser) \union {m}
  BY <1>1, Appended
<1>6. \A op : AtMostOne(toBrowser, op) /\ (m.op # op \/ ~Has(toBrowser, op)) => AtMostOne(Append(toBrowser, m), op)
  BY <1>1, Appended
<1>7. \A a, b : a # b /\ Precedes(toBrowser, a, b) /\ (m.op # a \/ ~Has(toBrowser, b))
        => Precedes(Append(toBrowser, m), a, b)
  BY <1>1, Appended
<1>5. \A known : /\ Covered(toBrowser, known)
                 /\ m.op = "candidate" => m.gen \in known \/ \E d \in ToSet(toBrowser) : Describes(d) /\ d.gen >= m.gen
        => Covered(Append(toBrowser, m), known)
  BY <1>1, Appended, SMT
<1>3. ToSet(toBrowser) \subseteq ToBrowser
  BY <1>1, Members
<1>4. \A op : Has(toBrowser', op) <=> Has(toBrowser, op) \/ m.op = op
  BY <1>2 DEF Has
<1> QED  BY <1>1, <1>2, <1>3, <1>4, <1>5, <1>6, <1>7

\* The answer is written once nothing of the hub's own can overtake it.
LEMMA WriteAnswerStep == ASSUME Inv, WriteAnswer PROVE Inv'
<1> DEFINE m == [op |-> "answer", n |-> answer.n, gen |-> sgen]
<1>1. /\ up /\ sstep = "answering" /\ toBrowser' = Append(toBrowser, m)
      /\ answer' = NoOffer /\ sstep' = "answered"
      /\ UNCHANGED <<queueVars, up, chainVars, peerVars, hubNeg, hubIce, has, changes, calls, toHub, bounds>>
  BY DEF WriteAnswer
<1> USE DEF queueVars, chainVars, peerVars, hubNeg, hubIce, bounds
<1>2. QueueTypes' /\ BrowserTypes' /\ QueueInv' /\ KeptPromises' /\ (up' => OperationInv')
  BY <1>1, HubSide
<1>3. QueueTypes /\ BrowserTypes /\ HubTypes /\ WireTypes
  BY TypesInParts DEF Inv
<1>4. OperationInv /\ HubOffersInv /\ AnswersInv /\ OffersInv /\ (faults = 0 => GensInv)
  BY <1>1 DEF Inv
<1>5. m \in ToBrowser /\ m.op = "answer" /\ m.n = offered.n /\ m.gen = sgen
  BY <1>1, <1>3, <1>4 DEF ToBrowser, HubMessages, HubTypes, Offers, AnswersInv
<1> HIDE DEF m
<1>6. /\ toBrowser' \in Seq(ToBrowser) /\ ToSet(toBrowser') = ToSet(toBrowser) \union {m}
      /\ \A op : Has(toBrowser', op) <=> Has(toBrowser, op) \/ m.op = op
      /\ \A op : AtMostOne(toBrowser, op) /\ (m.op # op \/ ~Has(toBrowser, op)) => AtMostOne(toBrowser', op)
      /\ Precedes(toBrowser, "answer", "offer") /\ (m.op # "answer" \/ ~Has(toBrowser, "offer"))
           => Precedes(toBrowser', "answer", "offer")
      /\ \A known : Covered(toBrowser, known) /\ m.op # "candidate" => Covered(toBrowser', known)
  BY <1>1, <1>5, Writing
<1>7. HubTypes' /\ WireTypes' /\ CandidatesInTime'
  BY <1>1, <1>3, <1>6 DEF Inv, HubTypes, WireTypes, NoOffer, Offers, CandidatesInTime
<1>8. /\ Has(chain', "answer") <=> Has(chain, "answer")
      /\ Has(chain', "offer") <=> Has(chain, "offer")
      /\ Has(toHub', "answer") <=> Has(toHub, "answer")
      /\ AtMostOne(chain, "answer") => AtMostOne(chain', "answer")
      /\ AtMostOne(chain, "offer") => AtMostOne(chain', "offer")
      /\ AtMostOne(toHub, "answer") => AtMostOne(toHub', "answer")
      /\ Precedes(chain, "answer", "offer") => Precedes(chain', "answer", "offer")
  BY <1>1 DEF Has, AtMostOne, Precedes
<1>9. /\ ~Has(chain, "offer") /\ ~Has(toBrowser, "offer") /\ ~inFlight /\ ~ready
      /\ ~Has(chain, "answer") /\ ~Has(toBrowser, "answer") /\ AnswerDue
  BY <1>1, <1>4 DEF HubOffersInv, Abandoned, AnswersInv, AnswerDue, Resolving
<1>10. /\ Has(toBrowser', "answer") /\ (Has(toBrowser', "offer") <=> Has(toBrowser, "offer"))
       /\ AtMostOne(toBrowser, "offer") => AtMostOne(toBrowser', "offer")
       /\ AtMostOne(toBrowser, "answer") => AtMostOne(toBrowser', "answer")
       /\ Precedes(toBrowser, "answer", "offer") => Precedes(toBrowser', "answer", "offer")
  BY <1>5, <1>6, <1>9
<1>11. HubOffersInv'
  BY <1>1, <1>4, <1>8, <1>9, <1>10 DEF HubOffersInv, Abandoned
<1>12. AnswersInv'
  BY <1>1, <1>4, <1>5, <1>6, <1>8, <1>9, <1>10 DEF AnswersInv, AnswerDue, Resolving
<1>13. OffersInv'
  BY <1>1, <1>4 DEF OffersInv, Transmitting
<1>14. faults' = 0 => GensInv'
  <2> SUFFICES ASSUME faults = 0 PROVE GensInv'
    BY <1>1
  <2>1. GensInv /\ sgen \in Gens
    BY <1>3, <1>4 DEF HubTypes
  <2>2. \A known : Covered(toBrowser, known) => Covered(toBrowser', known)
    BY <1>5, <1>6
  <2>3. Heard' = Heard /\ Told' = Told
    BY <1>1 DEF Heard, Told
  <2>4. sgen >= sgen /\ sgen <= sgen /\ Describes(m)
    BY <1>5, <2>1, GenerationOrder DEF Describes
  <2>5. Covered(chain', Heard') /\ Covered(toBrowser', Told')
    BY <1>1, <2>1, <2>2, <2>3 DEF GensInv, Covered
  <2> QED  BY <1>1, <1>5, <1>6, <1>9, <2>1, <2>3, <2>4, <2>5 DEF GensInv
<1> QED  BY <1>1, <1>2, <1>7, <1>11, <1>12, <1>13, <1>14, TypesInParts DEF Inv

\* The hub applies the answer to its offer.
LEMMA ApplyAnswerStep == ASSUME Inv, ApplyAnswer PROVE Inv'
<1> DEFINE m == Head(toHub)
<1>1. /\ Reads("answer") /\ sremote' = TRUE /\ srgen' = m.gen
      /\ early' = (early \/ TooEarly(squeue, m.gen)) /\ squeue' = <<>> /\ inFlight' = FALSE
      /\ sstep' \in {"read", "reoffer", "restart"} /\ pendingOffer' = FALSE /\ pendingRestart' = FALSE
      /\ UNCHANGED <<queueVars, up, chainVars, peerVars, ready, slocal, sgen, answer, has,
                     changes, calls, toBrowser, restarts, bcands, scands, faults>>
  BY DEF ApplyAnswer, AnswerTaken
<1> HIDE DEF m
<1> USE DEF queueVars, chainVars, peerVars
<1>2. QueueTypes' /\ BrowserTypes' /\ QueueInv' /\ KeptPromises' /\ (up' => OperationInv')
  BY <1>1, HubSide
<1>3. /\ up /\ sstep = "read" /\ toHub' \in Seq(ToHub) /\ ToSet(toHub') \subseteq ToSet(toHub)
      /\ m \in ToSet(toHub) /\ m \in ToHub /\ m.op = "answer"
      /\ (\A x : Has(toHub', x) => Has(toHub, x)) /\ AtMostOne(toHub', "answer")
      /\ Has(toHub, "answer") /\ ~Has(toHub', "answer")
      /\ InOrder(toHub') /\ BehindAnswers(toHub', offered.n)
      /\ \A x \in ToSet(toHub') : x.op = "offer" => x.n = offered.n
  BY <1>1, Reading DEF m
<1>4. m.gen \in Gens
  BY <1>3, MessageTypes
<1>5. OperationInv /\ HubOffersInv /\ AnswersInv /\ OffersInv /\ (faults = 0 => GensInv)
  BY <1>3 DEF Inv
<1>6. QueueTypes /\ BrowserTypes /\ HubTypes /\ WireTypes
  BY TypesInParts DEF Inv
<1>7. HubTypes' /\ WireTypes'
  <2>1. <<>> \in Seq(Gens)
    OBVIOUS
  <2>2. early' \in BOOLEAN
    BY <1>1, <1>6 DEF WireTypes, TooEarly
  <2> QED  BY <1>1, <1>3, <1>4, <1>6, <2>1, <2>2 DEF HubTypes, WireTypes
<1>8. HubOffersInv'
  BY <1>1, <1>3, <1>5 DEF HubOffersInv, Abandoned, Has, AtMostOne
<1>9. AnswersInv'
  BY <1>1, <1>3, <1>5 DEF AnswersInv, AnswerDue, Resolving, Has, AtMostOne, Precedes
<1>10. OffersInv'
  BY <1>1, <1>3, <1>5 DEF OffersInv, Transmitting
<1>11. ASSUME faults = 0 PROVE ~TooEarly(squeue, m.gen) /\ m.gen = sgen
  <2>1. ToSet(squeue) \subseteq Gens /\ m.gen \in Gens
    BY <1>4, <1>6, Members DEF HubTypes
  <2>2. (\A g \in ToSet(squeue) : g <= sgen) /\ m.gen = sgen
    BY <1>3, <1>5, <1>11 DEF GensInv
  <2>3. \A g \in ToSet(squeue) : ~(g > m.gen)
    BY <2>1, <2>2, GenerationOrder
  <2> QED  BY <2>2, <2>3 DEF TooEarly, ToSet
<1>12. CandidatesInTime'
  BY <1>1, <1>11 DEF Inv, CandidatesInTime
<1>13. faults' = 0 => GensInv'
  <2>1. ToSet(squeue') = {}
    BY <1>1 DEF ToSet
  <2> QED  BY <1>1, <1>3, <1>5, <1>11, <2>1 DEF GensInv, Covered, Heard, Told
<1> QED  BY <1>1, <1>2, <1>7, <1>8, <1>9, <1>10, <1>12, <1>13, TypesInParts DEF Inv

\* An answer that the hub cannot apply ends its offer all the same.
LEMMA RefuseAnswerStep == ASSUME Inv, RefuseAnswer PROVE Inv'
<1> DEFINE e == [op |-> "error"]
           m == Head(toHub)
<1>1. /\ Reads("answer") /\ faults' = faults + 1 /\ toBrowser' = Append(toBrowser, e)
      /\ \/ UNCHANGED <<sremote, srgen, squeue, early>>
         \/ sremote' = TRUE /\ srgen' = m.gen /\ \E k \in DOMAIN squeue : Unusable(k, m.gen)
      /\ inFlight' = FALSE /\ sstep' \in {"read", "reoffer", "restart"}
      /\ pendingOffer' = FALSE /\ pendingRestart' = FALSE
      /\ UNCHANGED <<queueVars, up, chainVars, peerVars, ready, slocal, sgen, answer, has,
                     changes, calls, restarts, bcands, scands>>
  BY DEF RefuseAnswer, AnswerTaken, Fault
<1> HIDE DEF m
<1> USE DEF queueVars, chainVars, peerVars
<1>2. QueueTypes' /\ BrowserTypes' /\ QueueInv' /\ KeptPromises' /\ (up' => OperationInv')
  BY <1>1, HubSide
<1>3. /\ up /\ sstep = "read" /\ toHub' \in Seq(ToHub) /\ ToSet(toHub') \subseteq ToSet(toHub)
      /\ m \in ToHub /\ m.op = "answer"
      /\ (\A x : Has(toHub', x) => Has(toHub, x)) /\ AtMostOne(toHub', "answer")
      /\ Has(toHub, "answer") /\ ~Has(toHub', "answer")
      /\ InOrder(toHub') /\ BehindAnswers(toHub', offered.n)
      /\ \A x \in ToSet(toHub') : x.op = "offer" => x.n = offered.n
  BY <1>1, Reading DEF m
<1>4. m.gen \in Gens
  BY <1>3, MessageTypes
<1>5. OperationInv /\ HubOffersInv /\ AnswersInv /\ OffersInv
  BY <1>3 DEF Inv
<1>6. QueueTypes /\ BrowserTypes /\ HubTypes /\ WireTypes
  BY TypesInParts DEF Inv
<1>7. e \in ToBrowser /\ e.op = "error"
  BY DEF ToBrowser
<1> HIDE DEF e
<1>8. /\ toBrowser' \in Seq(ToBrowser) /\ ToSet(toBrowser') = ToSet(toBrowser) \union {e}
      /\ \A op : Has(toBrowser', op) <=> Has(toBrowser, op) \/ e.op = op
      /\ \A op : AtMostOne(toBrowser, op) /\ (e.op # op \/ ~Has(toBrowser, op)) => AtMostOne(toBrowser', op)
      /\ Precedes(toBrowser, "answer", "offer") /\ (e.op # "answer" \/ ~Has(toBrowser, "offer"))
           => Precedes(toBrowser', "answer", "offer")
  BY <1>1, <1>7, Writing
<1>9. /\ Has(toBrowser', "answer") <=> Has(toBrowser, "answer")
      /\ Has(toBrowser', "offer") <=> Has(toBrowser, "offer")
      /\ AtMostOne(toBrowser, "answer") => AtMostOne(toBrowser', "answer")
      /\ AtMostOne(toBrowser, "offer") => AtMostOne(toBrowser', "offer")
      /\ Precedes(toBrowser, "answer", "offer") => Precedes(toBrowser', "answer", "offer")
  BY <1>7, <1>8
<1>10. HubTypes' /\ WireTypes' /\ faults' # 0
  <2>1. sremote' \in BOOLEAN /\ srgen' \in Gens
    BY <1>1, <1>4, <1>6 DEF HubTypes
  <2>2. squeue' \in Seq(Gens) /\ early' \in BOOLEAN
    <3>1. squeue \in Seq(Gens) /\ early \in BOOLEAN
      BY <1>6 DEF HubTypes, WireTypes
    <3>2. CASE UNCHANGED <<squeue, early>>
      BY <3>1, <3>2
    <3>3. CASE \E k \in DOMAIN squeue : Unusable(k, m.gen)
      BY <3>1, <3>3, UnusableFacts
    <3> QED  BY <1>1, <3>2, <3>3
  <2>3. faults' \in Nat /\ faults' # 0
    BY <1>1, <1>6 DEF WireTypes
  <2> QED  BY <1>1, <1>3, <1>6, <1>8, <2>1, <2>2, <2>3 DEF HubTypes, WireTypes
<1>11. /\ Has(chain', "answer") <=> Has(chain, "answer")
       /\ Has(chain', "offer") <=> Has(chain, "offer")
       /\ AtMostOne(chain, "answer") => AtMostOne(chain', "answer")
       /\ AtMostOne(chain, "offer") => AtMostOne(chain', "offer")
       /\ Precedes(chain, "answer", "offer") => Precedes(chain', "answer", "offer")
  BY <1>1 DEF Has, AtMostOne, Precedes
\* The hub's offer is behind it, and nothing of it is under way any more.
<1>12. ~Has(chain, "offer") /\ ~Has(toBrowser, "offer")
  BY <1>3, <1>5 DEF HubOffersInv, Abandoned
<1>13. HubOffersInv'
  BY <1>1, <1>3, <1>5, <1>9, <1>11, <1>12 DEF HubOffersInv, Abandoned
<1>14. AnswersInv'
  <2>1. (AnswerDue' <=> AnswerDue) /\ sstep' # "answering"
    BY <1>1, <1>3, <1>9, <1>11 DEF AnswerDue, Resolving
  <2>2. \A x \in ToSet(toBrowser') : x.op = "answer" => x \in ToSet(toBrowser)
    BY <1>7, <1>8
  <2>3. \A x \in ToSet(toHub') : x \in ToSet(toHub)
    BY <1>3
  <2> QED  BY <1>1, <1>5, <1>9, <1>11, <2>1, <2>2, <2>3 DEF AnswersInv
<1>15. OffersInv'
  BY <1>1, <1>3, <1>5 DEF OffersInv, Transmitting
<1>16. CandidatesInTime'
  BY <1>10 DEF CandidatesInTime
<1> QED  BY <1>1, <1>2, <1>10, <1>13, <1>14, <1>15, <1>16, TypesInParts DEF Inv

\* A candidate of the browser is added or held back by the hub.
LEMMA RemoteCandidateStep == ASSUME Inv, RemoteCandidate PROVE Inv'
<1> DEFINE m == Head(toHub)
<1>1. /\ Reads("candidate")
      /\ \/ sremote /\ early' = (early \/ m.gen > srgen) /\ squeue' = squeue
         \/ ~sremote /\ squeue' = Append(squeue, m.gen) /\ early' = early
      /\ UNCHANGED <<queueVars, up, chainVars, peerVars, hubNeg, sremote, slocal, sgen, srgen,
                     sstep, answer, has, changes, calls, toBrowser, restarts, bcands, scands, faults>>
  BY DEF RemoteCandidate
<1> HIDE DEF m
<1> USE DEF queueVars, chainVars, peerVars, hubNeg
<1>2. QueueTypes' /\ BrowserTypes' /\ QueueInv' /\ KeptPromises' /\ (up' => OperationInv')
  BY <1>1, HubSide
<1>3. /\ up /\ sstep = "read" /\ toHub' \in Seq(ToHub) /\ ToSet(toHub') \subseteq ToSet(toHub)
      /\ m \in ToSet(toHub) /\ m \in ToHub /\ m.op = "candidate"
      /\ (\A x : Has(toHub', x) => Has(toHub, x)) /\ AtMostOne(toHub', "answer")
      /\ InOrder(toHub') /\ BehindAnswers(toHub', offered.n)
  BY <1>1, Reading DEF m
<1>4. m.gen \in Gens
  BY <1>3, MessageTypes
<1>5. OperationInv /\ HubOffersInv /\ AnswersInv /\ OffersInv /\ (faults = 0 => GensInv)
  BY <1>3 DEF Inv
<1>6. QueueTypes /\ BrowserTypes /\ HubTypes /\ WireTypes
  BY TypesInParts DEF Inv
<1>7. squeue' \in Seq(Gens) /\ ToSet(squeue') \subseteq ToSet(squeue) \union {m.gen}
  <2>1. squeue \in Seq(Gens)
    BY <1>6 DEF HubTypes
  <2>2. ToSet(Append(squeue, m.gen)) = ToSet(squeue) \union {m.gen} /\ Append(squeue, m.gen) \in Seq(Gens)
    BY <1>4, <2>1, Appended
  <2> QED  BY <1>1, <2>1, <2>2
<1>8. HubTypes' /\ WireTypes'
  <2>1. early' \in BOOLEAN
    BY <1>1, <1>6 DEF WireTypes
  <2> QED  BY <1>1, <1>3, <1>6, <1>7, <2>1 DEF HubTypes, WireTypes
<1>9. HubOffersInv'
  BY <1>1, <1>3, <1>5 DEF HubOffersInv, Abandoned, Has, AtMostOne
<1>10. AnswersInv'
  BY <1>1, <1>3, <1>5 DEF AnswersInv, AnswerDue, Resolving, Has, AtMostOne, Precedes
<1>11. OffersInv'
  BY <1>1, <1>3, <1>5 DEF OffersInv, Transmitting
<1>12. ASSUME faults = 0 PROVE m.gen <= sgen /\ (sremote => ~(m.gen > srgen))
  <2>1. m.gen <= sgen /\ (sremote => srgen = sgen)
    BY <1>3, <1>5, <1>12 DEF GensInv
  <2> QED  BY <1>4, <1>6, <2>1, GenerationOrder DEF HubTypes
<1>13. CandidatesInTime'
  BY <1>1, <1>12 DEF Inv, CandidatesInTime
<1>14. faults' = 0 => GensInv'
  BY <1>1, <1>3, <1>5, <1>7, <1>12 DEF GensInv, Covered, Heard, Told
<1> QED  BY <1>1, <1>2, <1>8, <1>9, <1>10, <1>11, <1>13, <1>14, TypesInParts DEF Inv

\* The router changes a track.
LEMMA TrackChangeStep == ASSUME Inv, TrackChange PROVE Inv'
<1>1. /\ up /\ changes < MaxChanges /\ changes' = changes + 1 /\ calls' = calls + 1
      /\ UNCHANGED <<queueVars, up, chainVars, peerVars, hubNeg, hubIce, sstep, answer, has, wires, bounds>>
  BY DEF TrackChange
<1> USE DEF queueVars, chainVars, peerVars, hubNeg, hubIce, wires, bounds
<1>2. QueueTypes' /\ BrowserTypes' /\ QueueInv' /\ KeptPromises' /\ (up' => OperationInv')
  BY <1>1, HubSide
<1>3. HubTypes /\ WireTypes
  BY TypesInParts DEF Inv
<1>4. changes' \in 0 .. MaxChanges /\ calls' \in 0 .. changes'
  BY <1>1, <1>3, NegotiationAssumptions DEF HubTypes
<1>5. HubTypes' /\ WireTypes'
  BY <1>1, <1>3, <1>4 DEF HubTypes, WireTypes
<1>6. HubOffersInv' /\ AnswersInv'
  BY <1>1 DEF Inv, HubOffersInv, Abandoned, AnswersInv, AnswerDue, Resolving, Has, AtMostOne, Precedes
<1>7. OffersInv'
  BY <1>1 DEF Inv, OffersInv, Transmitting, InOrder, BehindAnswers
<1>8. (faults' = 0 => GensInv') /\ CandidatesInTime'
  BY <1>1 DEF Inv, GensInv, Covered, Heard, Told, CandidatesInTime
<1> QED  BY <1>2, <1>5, <1>6, <1>7, <1>8, TypesInParts DEF Inv

\* A candidate of the hub belongs to a description that the browser has or will get.
LEMMA CredentialsTold ==
  ASSUME Inv, up, faults = 0, ready \/ sstep = "answered", NEW g \in Gens, g <= sgen
  PROVE  g \in Told \/ \E d \in ToSet(toBrowser) : Describes(d) /\ d.gen >= g
<1>1. BrowserTypes /\ HubTypes /\ WireTypes /\ GensInv
  BY TypesInParts DEF Inv
<1>2. /\ sgen \in Gens /\ brgen \in Gens
      /\ ToSet(chain) \subseteq Operations /\ ToSet(toBrowser) \subseteq ToBrowser
  BY <1>1, Members DEF BrowserTypes, HubTypes, WireTypes
<1>3. \A d \in ToSet(chain) \union ToSet(toBrowser) : Describes(d) => d.gen \in Gens
  BY <1>2, MessageTypes DEF Describes
<1>4. sgen \in Told \/ \E d \in ToSet(toBrowser) : Describes(d) /\ d.gen >= sgen
  BY <1>1 DEF GensInv
<1>5. CASE sgen \in Told
  <2>1. sgen <= brgen \/ \E d \in ToSet(chain) : Describes(d) /\ d.gen >= sgen
    BY <1>5 DEF Told
  <2> QED  BY <1>2, <1>3, <2>1, GenerationOrder DEF Told
<1>6. CASE \E d \in ToSet(toBrowser) : Describes(d) /\ d.gen >= sgen
  BY <1>2, <1>3, <1>6, GenerationOrder
<1> QED  BY <1>4, <1>5, <1>6

\* A candidate of the hub is written behind its description, or held back.
LEMMA LocalCandidateStep == ASSUME Inv, LocalCandidate PROVE Inv'
<1> DEFINE m == [op |-> "candidate", gen |-> sgen]
<1>1. /\ up
      /\ \/ ready /\ toBrowser' = Append(toBrowser, m) /\ slocal' = slocal
         \/ ~ready /\ slocal' = Append(slocal, sgen) /\ toBrowser' = toBrowser
      /\ UNCHANGED <<queueVars, up, chainVars, peerVars, hubNeg, sremote, squeue, sgen, srgen,
                     sstep, answer, has, changes, calls, toHub, restarts, bcands, faults, early>>
  BY DEF LocalCandidate
<1> USE DEF queueVars, chainVars, peerVars, hubNeg
<1>2. QueueTypes' /\ BrowserTypes' /\ QueueInv' /\ KeptPromises' /\ (up' => OperationInv')
  BY <1>1, HubSide
<1>3. QueueTypes /\ BrowserTypes /\ HubTypes /\ WireTypes
  BY TypesInParts DEF Inv
<1>4. OperationInv /\ HubOffersInv /\ AnswersInv /\ OffersInv /\ (faults = 0 => GensInv)
  BY <1>1 DEF Inv
<1>5. m \in ToBrowser /\ m.op = "candidate" /\ m.gen = sgen /\ sgen \in Gens /\ sgen <= sgen
  BY <1>3, GenerationOrder DEF ToBrowser, HubMessages, HubTypes
<1> HIDE DEF m
<1>6. /\ toBrowser' \in Seq(ToBrowser)
      /\ ToSet(toBrowser) \subseteq ToSet(toBrowser') /\ ToSet(toBrowser') \subseteq ToSet(toBrowser) \union {m}
      /\ \A op : op # "candidate" => /\ Has(toBrowser', op) <=> Has(toBrowser, op)
                                     /\ AtMostOne(toBrowser, op) => AtMostOne(toBrowser', op)
      /\ Precedes(toBrowser, "answer", "offer") => Precedes(toBrowser', "answer", "offer")
      /\ faults = 0 => Covered(toBrowser', Told)
  <2>1. CASE ready /\ toBrowser' = Append(toBrowser, m)
    <3>1. faults = 0 => Covered(toBrowser, Told)
      BY <1>4 DEF GensInv
    <3>2. faults = 0 => m.gen \in Told \/ \E d \in ToSet(toBrowser) : Describes(d) /\ d.gen >= m.gen
      BY <1>1, <1>5, <2>1, CredentialsTold
    <3> QED  BY <1>5, <2>1, <3>1, <3>2, Writing
  <2>2. CASE toBrowser' = toBrowser
    BY <1>3, <1>4, <2>2 DEF WireTypes, GensInv, Has, AtMostOne, Precedes
  <2> QED  BY <1>1, <2>1, <2>2
<1>7. slocal' \in Seq(Gens) /\ ToSet(slocal') \subseteq ToSet(slocal) \union {sgen}
  <2>1. slocal \in Seq(Gens)
    BY <1>3 DEF HubTypes
  <2>2. ToSet(Append(slocal, sgen)) = ToSet(slocal) \union {sgen} /\ Append(slocal, sgen) \in Seq(Gens)
    BY <1>5, <2>1, Appended
  <2> QED  BY <1>1, <2>1, <2>2
<1>8. HubTypes' /\ WireTypes' /\ CandidatesInTime'
  BY <1>1, <1>3, <1>6, <1>7 DEF Inv, HubTypes, WireTypes, CandidatesInTime
<1>9. /\ Has(chain', "answer") <=> Has(chain, "answer")
      /\ Has(chain', "offer") <=> Has(chain, "offer")
      /\ Has(toHub', "answer") <=> Has(toHub, "answer")
      /\ AtMostOne(chain, "answer") => AtMostOne(chain', "answer")
      /\ AtMostOne(chain, "offer") => AtMostOne(chain', "offer")
      /\ AtMostOne(toHub, "answer") => AtMostOne(toHub', "answer")
      /\ Precedes(chain, "answer", "offer") => Precedes(chain', "answer", "offer")
  BY <1>1 DEF Has, AtMostOne, Precedes
<1>10. /\ Has(toBrowser', "offer") <=> Has(toBrowser, "offer")
       /\ Has(toBrowser', "answer") <=> Has(toBrowser, "answer")
       /\ AtMostOne(toBrowser, "offer") => AtMostOne(toBrowser', "offer")
       /\ AtMostOne(toBrowser, "answer") => AtMostOne(toBrowser', "answer")
  BY <1>6
<1>11. HubOffersInv'
  BY <1>1, <1>4, <1>9, <1>10 DEF HubOffersInv, Abandoned
<1>12. AnswersInv'
  BY <1>1, <1>4, <1>5, <1>6, <1>9, <1>10 DEF AnswersInv, AnswerDue, Resolving
<1>13. OffersInv'
  BY <1>1, <1>4 DEF OffersInv, Transmitting
<1>14. faults' = 0 => GensInv'
  <2> SUFFICES ASSUME faults = 0 PROVE GensInv'
    BY <1>1
  <2>1. Heard' = Heard /\ Told' = Told
    BY <1>1 DEF Heard, Told
  <2>2. Covered(chain', Heard') /\ Covered(toBrowser', Told')
    BY <1>1, <1>4, <1>6, <2>1 DEF GensInv, Covered
  <2> QED  BY <1>1, <1>4, <1>5, <1>6, <1>7, <2>1, <2>2 DEF GensInv
<1> QED  BY <1>1, <1>2, <1>8, <1>11, <1>12, <1>13, <1>14, TypesInParts DEF Inv
\* What stays the same while the browser's chain and the messages to the hub do.
LEMMA OthersStay ==
  ASSUME UNCHANGED <<chain, toHub>>
  PROVE  /\ Has(chain', "answer") <=> Has(chain, "answer")
         /\ Has(chain', "offer") <=> Has(chain, "offer")
         /\ Has(toHub', "answer") <=> Has(toHub, "answer")
         /\ AtMostOne(chain, "answer") => AtMostOne(chain', "answer")
         /\ AtMostOne(chain, "offer") => AtMostOne(chain', "offer")
         /\ AtMostOne(toHub, "answer") => AtMostOne(toHub', "answer")
         /\ Precedes(chain, "answer", "offer") => Precedes(chain', "answer", "offer")
BY DEF Has, AtMostOne, Precedes

\* After the answer the hub releases its candidates and takes a pending offer over.
LEMMA BecomeReadyStep == ASSUME Inv, BecomeReady PROVE Inv'
<1>1. /\ up /\ sstep = "answered"
      /\ toBrowser' = toBrowser \o [i \in DOMAIN slocal |-> [op |-> "candidate", gen |-> slocal[i]]]
      /\ slocal' = <<>> /\ ready' = TRUE /\ sstep' \in {"read", "reoffer", "restart"}
      /\ pendingOffer' = FALSE /\ pendingRestart' = FALSE
      /\ UNCHANGED <<queueVars, up, chainVars, peerVars, inFlight, sremote, squeue, sgen, srgen,
                     answer, has, changes, calls, toHub, bounds>>
  BY DEF BecomeReady
<1> USE DEF queueVars, chainVars, peerVars, bounds
<1>2. QueueTypes' /\ BrowserTypes' /\ QueueInv' /\ KeptPromises' /\ (up' => OperationInv')
  BY <1>1, HubSide
<1>3. QueueTypes /\ BrowserTypes /\ HubTypes /\ WireTypes
  BY TypesInParts DEF Inv
<1>4. OperationInv /\ HubOffersInv /\ AnswersInv /\ OffersInv /\ (faults = 0 => GensInv)
  BY <1>1 DEF Inv
<1>5. /\ toBrowser' \in Seq(ToBrowser) /\ ToSet(toBrowser) \subseteq ToSet(toBrowser')
      /\ \A m \in ToSet(toBrowser') : m \in ToSet(toBrowser) \/ (m.op = "candidate" /\ m.gen \in ToSet(slocal))
      /\ \A op : op # "candidate" => /\ Has(toBrowser', op) <=> Has(toBrowser, op)
                                     /\ AtMostOne(toBrowser, op) => AtMostOne(toBrowser', op)
      /\ Precedes(toBrowser, "answer", "offer") => Precedes(toBrowser', "answer", "offer")
      /\ \A known : /\ Covered(toBrowser, known)
                    /\ \A g \in ToSet(slocal) : g \in known \/ \E d \in ToSet(toBrowser) : Describes(d) /\ d.gen >= g
           => Covered(toBrowser', known)
  <2>1. toBrowser \in Seq(ToBrowser) /\ slocal \in Seq(Gens)
    BY <1>3 DEF HubTypes, WireTypes
  <2>2. WithCandidates(toBrowser, slocal, toBrowser')
    BY <1>1, <2>1, Released
  <2> QED  BY <2>2 DEF WithCandidates
<1>6. HubTypes' /\ WireTypes' /\ CandidatesInTime'
  <2>1. <<>> \in Seq(Gens)
    OBVIOUS
  <2> QED  BY <1>1, <1>3, <1>5, <2>1 DEF Inv, HubTypes, WireTypes, CandidatesInTime
<1>7. /\ Has(chain', "answer") <=> Has(chain, "answer")
      /\ Has(chain', "offer") <=> Has(chain, "offer")
      /\ Has(toHub', "answer") <=> Has(toHub, "answer")
      /\ AtMostOne(chain, "answer") => AtMostOne(chain', "answer")
      /\ AtMostOne(chain, "offer") => AtMostOne(chain', "offer")
      /\ AtMostOne(toHub, "answer") => AtMostOne(toHub', "answer")
      /\ Precedes(chain, "answer", "offer") => Precedes(chain', "answer", "offer")
  BY <1>1, OthersStay
<1>8. /\ Has(toBrowser', "offer") <=> Has(toBrowser, "offer")
      /\ Has(toBrowser', "answer") <=> Has(toBrowser, "answer")
      /\ AtMostOne(toBrowser, "offer") => AtMostOne(toBrowser', "offer")
      /\ AtMostOne(toBrowser, "answer") => AtMostOne(toBrowser', "answer")
  BY <1>5
<1>9. HubOffersInv'
  BY <1>1, <1>4, <1>7, <1>8 DEF HubOffersInv, Abandoned
<1>10. AnswersInv'
  BY <1>1, <1>4, <1>5, <1>7, <1>8 DEF AnswersInv, AnswerDue, Resolving
<1>11. OffersInv'
  BY <1>1, <1>4 DEF OffersInv, Transmitting
<1>12. faults' = 0 => GensInv'
  <2> SUFFICES ASSUME faults = 0 PROVE GensInv'
    BY <1>1
  <2>1. Heard' = Heard /\ Told' = Told
    BY <1>1 DEF Heard, Told
  <2>2. \A g \in ToSet(slocal) : g \in Gens /\ g <= sgen
    BY <1>3, <1>4, Members DEF HubTypes, GensInv
  <2>3. \A g \in ToSet(slocal) : g \in Told \/ \E d \in ToSet(toBrowser) : Describes(d) /\ d.gen >= g
    BY <1>1, <2>2, CredentialsTold
  <2>4. Covered(toBrowser', Told')
    BY <1>4, <1>5, <2>1, <2>3 DEF GensInv
  <2>5. Covered(chain', Heard')
    BY <1>1, <1>4, <2>1 DEF GensInv, Covered
  <2>6. ToSet(slocal') = {}
    BY <1>1 DEF ToSet
  <2> QED  BY <1>1, <1>4, <1>5, <2>1, <2>4, <2>5, <2>6 DEF GensInv
<1> QED  BY <1>1, <1>2, <1>6, <1>9, <1>10, <1>11, <1>12, TypesInParts DEF Inv

\* sendOffer, whoever calls it.
LEMMA SendOfferStep ==
  ASSUME Inv, up, NEW restart \in BOOLEAN, SendOffer(restart),
         UNCHANGED <<queueVars, up, chainVars, peerVars, squeue, slocal, srgen, answer, has,
                     changes, bounds>>,
         sstep' = sstep \/ (sstep \in {"reoffer", "restart"} /\ sstep' = "read"),
         calls' \in 0 .. changes, toHub' \in Seq(ToHub), ToSet(toHub') \subseteq ToSet(toHub),
         AtMostOne(toHub', "answer"), InOrder(toHub'), BehindAnswers(toHub', offered.n)
  PROVE  Inv'
<1> DEFINE m == [op |-> "offer", knows |-> changes, gen |-> sgen']
<1>1. \/ /\ ~ready \/ inFlight
         /\ pendingOffer' = TRUE /\ pendingRestart' = (pendingRestart \/ restart)
         /\ UNCHANGED <<ready, inFlight, sgen, sremote, toBrowser>>
      \/ /\ ready /\ ~inFlight /\ inFlight' = TRUE
         /\ sgen' = IF restart THEN sgen + 1 ELSE sgen
         /\ sremote' = (sremote /\ ~restart)
         /\ toBrowser' = Append(toBrowser, m)
         /\ UNCHANGED <<ready, pendingOffer, pendingRestart>>
      \/ UNCHANGED <<ready, inFlight, sgen, sremote, toBrowser, pendingOffer, pendingRestart>>
  BY DEF SendOffer
<1> USE DEF queueVars, chainVars, peerVars, bounds
<1>2. QueueTypes' /\ BrowserTypes' /\ QueueInv' /\ KeptPromises' /\ (up' => OperationInv')
  BY HubSide
<1>3. QueueTypes /\ BrowserTypes /\ HubTypes /\ WireTypes
  BY TypesInParts DEF Inv
<1>4. OperationInv /\ HubOffersInv /\ AnswersInv /\ OffersInv /\ (faults = 0 => GensInv)
  BY DEF Inv
<1>5. Has(toHub', "answer") => Has(toHub, "answer")
  BY DEF Has
<1>6. CandidatesInTime'
  BY DEF Inv, CandidatesInTime
<1>7. /\ Has(chain', "answer") <=> Has(chain, "answer")
      /\ Has(chain', "offer") <=> Has(chain, "offer")
      /\ AtMostOne(chain, "answer") => AtMostOne(chain', "answer")
      /\ AtMostOne(chain, "offer") => AtMostOne(chain', "offer")
      /\ Precedes(chain, "answer", "offer") => Precedes(chain', "answer", "offer")
  BY DEF Has, AtMostOne, Precedes
<1>8. Heard' = Heard /\ Told' = Told
  BY DEF Heard, Told
<1>9. CASE /\ pendingOffer' \in BOOLEAN /\ pendingRestart' \in BOOLEAN
           /\ UNCHANGED <<ready, inFlight, sgen, sremote, toBrowser>>
  <2>1. HubTypes' /\ WireTypes'
    BY <1>3, <1>9 DEF HubTypes, WireTypes
  <2>2. /\ Has(toBrowser', "answer") <=> Has(toBrowser, "answer")
        /\ Has(toBrowser', "offer") <=> Has(toBrowser, "offer")
        /\ AtMostOne(toBrowser, "answer") => AtMostOne(toBrowser', "answer")
        /\ AtMostOne(toBrowser, "offer") => AtMostOne(toBrowser', "offer")
        /\ Precedes(toBrowser, "answer", "offer") => Precedes(toBrowser', "answer", "offer")
    BY <1>9 DEF Has, AtMostOne, Precedes
  <2>3. HubOffersInv'
    BY <1>4, <1>5, <1>7, <1>9, <2>2 DEF HubOffersInv, Abandoned
  <2>4. AnswersInv'
    BY <1>4, <1>7, <1>9, <2>2 DEF AnswersInv, AnswerDue, Resolving
  <2>5. OffersInv'
    BY <1>4, <1>9 DEF OffersInv, Transmitting
  <2>6. faults' = 0 => GensInv'
    BY <1>4, <1>8, <1>9 DEF GensInv, Covered
  <2> QED  BY <1>2, <1>6, <2>1, <2>3, <2>4, <2>5, <2>6, TypesInParts DEF Inv
<1>10. CASE /\ ready /\ ~inFlight /\ inFlight' = TRUE
            /\ sgen' = IF restart THEN sgen + 1 ELSE sgen
            /\ sremote' = (sremote /\ ~restart)
            /\ toBrowser' = Append(toBrowser, m)
            /\ UNCHANGED <<ready, pendingOffer, pendingRestart>>
  <2>1. /\ sstep \notin {"answering", "answered"} /\ sstep' \notin {"answering", "answered"}
        /\ ~Has(chain, "offer") /\ ~Has(toBrowser, "offer") /\ ~Has(toHub, "answer")
    BY <1>4, <1>10 DEF HubOffersInv, Abandoned
  <2>2. sgen' \in Gens
    BY <1>3, <1>10 DEF HubTypes, Gens
  <2>3. m \in ToBrowser /\ m.op = "offer" /\ m.gen = sgen'
    BY <1>3, <2>2 DEF ToBrowser, HubMessages, HubTypes
  <2> HIDE DEF m
  <2>4. /\ toBrowser' \in Seq(ToBrowser) /\ ToSet(toBrowser') = ToSet(toBrowser) \union {m}
        /\ \A op : Has(toBrowser', op) <=> Has(toBrowser, op) \/ m.op = op
        /\ \A op : AtMostOne(toBrowser, op) /\ (m.op # op \/ ~Has(toBrowser, op)) => AtMostOne(toBrowser', op)
        /\ Precedes(toBrowser, "answer", "offer") /\ (m.op # "answer" \/ ~Has(toBrowser, "offer"))
             => Precedes(toBrowser', "answer", "offer")
        /\ \A known : Covered(toBrowser, known) /\ m.op # "candidate" => Covered(toBrowser', known)
    BY <1>10, <2>3, Writing
  <2>5. /\ Has(toBrowser', "answer") <=> Has(toBrowser, "answer")
        /\ AtMostOne(toBrowser, "answer") => AtMostOne(toBrowser', "answer")
        /\ AtMostOne(toBrowser, "offer") => AtMostOne(toBrowser', "offer")
        /\ Precedes(toBrowser, "answer", "offer") => Precedes(toBrowser', "answer", "offer")
    BY <2>1, <2>3, <2>4
  <2>6. HubTypes' /\ WireTypes'
    BY <1>3, <1>10, <2>2, <2>4 DEF HubTypes, WireTypes
  <2>7. HubOffersInv'
    BY <1>4, <1>5, <1>7, <1>10, <2>1, <2>5 DEF HubOffersInv, Abandoned
  <2>8. AnswersInv'
    BY <1>4, <1>7, <1>10, <2>1, <2>3, <2>4, <2>5 DEF AnswersInv, AnswerDue, Resolving
  <2>9. OffersInv'
    BY <1>4, <1>10 DEF OffersInv, Transmitting
  <2>10. faults' = 0 => GensInv'
    <3> SUFFICES ASSUME faults = 0 PROVE GensInv'
      OBVIOUS
    <3>1. GensInv /\ sgen \in Gens /\ sgen' \in Gens
      BY <1>3, <1>4, <2>2 DEF HubTypes
    <3>2. sgen' >= 0 /\ \A b \in Gens : b <= sgen => b <= sgen'
      BY <1>10, <3>1, GenerationOrder DEF GensInv
    <3>3. sgen' >= sgen' /\ Describes(m)
      BY <2>3, <3>1, GenerationOrder DEF Describes
    <3>4. Covered(chain', Heard') /\ Covered(toBrowser', Told')
      <4>1. \A known : Covered(toBrowser, known) => Covered(toBrowser', known)
        BY <2>3, <2>4
      <4> QED  BY <1>8, <3>1, <4>1 DEF GensInv, Covered
    <3>5. \A x \in ToSet(chain) : x.op # "offer"
      BY <2>1 DEF Has
    <3>6. \A x \in ToSet(toBrowser) : x.op # "offer"
      BY <2>1 DEF Has
    <3>7. ~(sig = "have-remote-offer" \/ (at = "local" /\ sig = "stable"))
      <4>1. sig = "have-remote-offer" \/ (at = "local" /\ sig = "stable") => chain # <<>> /\ Head(chain).op = "offer"
        BY <1>4, <1>10 DEF OperationInv, HubOffersInv, Abandoned
      <4>2. chain # <<>> => Head(chain) \in ToSet(chain)
        <5>1. chain \in Seq(Operations)
          BY <1>3 DEF BrowserTypes
        <5> QED  BY <5>1, Taken
      <4> QED  BY <3>5, <4>1, <4>2
    <3>8. \A x \in ToSet(toHub') : x.op # "answer" /\ (x.op = "candidate" => x.gen \in Gens /\ x.gen <= sgen)
      BY <1>3, <2>1, <3>1, MessageTypes, Members DEF Has, GensInv, WireTypes
    <3>9. /\ ToSet(squeue) \union ToSet(slocal) \subseteq Gens
          /\ brgen \in Gens /\ bgen \in Gens
          /\ \A x \in ToSet(chain) \union ToSet(toBrowser) : x.op = "answer" => x.gen \in Gens
      BY <1>3, MessageTypes, Members DEF HubTypes, BrowserTypes, WireTypes
    <3>10. /\ brgen <= sgen' /\ bgen <= sgen'
           /\ \A g \in ToSet(squeue') \union ToSet(slocal') : g <= sgen'
           /\ \A g \in ToSet(held') : g <= brgen'
      BY <3>1, <3>2, <3>9 DEF GensInv
    <3>11. \A x \in ToSet(toHub') : /\ x.op = "candidate" => x.gen <= sgen'
                                    /\ x.op = "answer" => x.gen = sgen'
      BY <3>1, <3>2, <3>8
    <3>12. \A x \in ToSet(chain') \union ToSet(toBrowser') :
             /\ x.op = "offer" => x.gen = sgen'
             /\ x.op = "answer" => brgen' <= x.gen /\ x.gen <= sgen'
      BY <2>3, <2>4, <3>1, <3>2, <3>5, <3>6, <3>9 DEF GensInv
    <3>13. sremote' => srgen' = sgen'
      BY <1>10, <3>1 DEF GensInv
    <3>14. \E x \in ToSet(toBrowser') : Describes(x) /\ x.gen >= sgen'
      BY <2>3, <2>4, <3>3
    <3> QED  BY <1>8, <3>2, <3>4, <3>7, <3>10, <3>11, <3>12, <3>13, <3>14 DEF GensInv
  <2> QED  BY <1>2, <1>6, <2>6, <2>7, <2>8, <2>9, <2>10, TypesInParts DEF Inv
<1>11. pendingOffer \in BOOLEAN /\ pendingRestart \in BOOLEAN
  BY <1>3 DEF HubTypes
<1> QED  BY <1>1, <1>9, <1>10, <1>11

\* sendOffer called by the router.
LEMMA RouterOffersStep == ASSUME Inv, RouterOffers PROVE Inv'
<1>1. /\ up /\ calls > 0 /\ calls' = calls - 1 /\ SendOffer(FALSE)
      /\ UNCHANGED <<queueVars, up, chainVars, peerVars, squeue, slocal, srgen, sstep, answer,
                     has, changes, toHub, bounds>>
  BY DEF RouterOffers
<1>2. HubTypes /\ WireTypes
  BY TypesInParts DEF Inv
<1>3. calls' \in 0 .. changes
  BY <1>1, <1>2 DEF HubTypes
<1>4. /\ toHub' \in Seq(ToHub) /\ ToSet(toHub') \subseteq ToSet(toHub)
      /\ AtMostOne(toHub', "answer") /\ InOrder(toHub') /\ BehindAnswers(toHub', offered.n)
  BY <1>1, <1>2 DEF WireTypes, Inv, HubOffersInv, OffersInv
<1> QED  BY <1>1, <1>3, <1>4, SendOfferStep

\* sendOffer for an offer that was put off.
LEMMA ReofferStep == ASSUME Inv, Reoffer PROVE Inv'
<1>1. /\ up /\ sstep \in {"reoffer", "restart"} /\ SendOffer(sstep = "restart") /\ sstep' = "read"
      /\ UNCHANGED <<queueVars, up, chainVars, peerVars, squeue, slocal, srgen, answer, has,
                     changes, calls, toHub, bounds>>
  BY DEF Reoffer
<1>2. HubTypes /\ WireTypes
  BY TypesInParts DEF Inv
<1>3. calls' \in 0 .. changes
  BY <1>1, <1>2 DEF HubTypes
<1>4. /\ toHub' \in Seq(ToHub) /\ ToSet(toHub') \subseteq ToSet(toHub)
      /\ AtMostOne(toHub', "answer") /\ InOrder(toHub') /\ BehindAnswers(toHub', offered.n)
  BY <1>1, <1>2 DEF WireTypes, Inv, HubOffersInv, OffersInv
<1> QED  BY <1>1, <1>3, <1>4, SendOfferStep

\* sendOffer with new credentials, asked for by the browser.
LEMMA RestartRequestStep == ASSUME Inv, RestartRequest PROVE Inv'
<1>1. /\ Reads("ice_restart") /\ SendOffer(TRUE)
      /\ UNCHANGED <<queueVars, up, chainVars, peerVars, squeue, slocal, srgen, sstep, answer,
                     has, changes, calls, bounds>>
  BY DEF RestartRequest
<1>2. HubTypes
  BY TypesInParts DEF Inv
<1>3. calls' \in 0 .. changes
  BY <1>1, <1>2 DEF HubTypes
<1>4. /\ up /\ toHub' \in Seq(ToHub) /\ ToSet(toHub') \subseteq ToSet(toHub)
      /\ AtMostOne(toHub', "answer") /\ InOrder(toHub') /\ BehindAnswers(toHub', offered.n)
  BY <1>1, Reading
<1> QED  BY <1>1, <1>3, <1>4, SendOfferStep
----------------------------------------------------------------------------
(* The browser's chain of operations.                                      *)

\* The chain s has lost its first operation, and may have got a sendOffer at its end.
Shrunk(s, t) ==
  /\ t \in Seq(Operations)
  /\ ToSet(s) \subseteq {Head(s)} \union ToSet(t) /\ ToSet(t) \subseteq ToSet(s) \union {Sending}
  /\ Head(s) \in ToSet(s) /\ Head(s) \in Operations
  /\ \A op : op # "sendOffer" /\ AtMostOne(s, op) => AtMostOne(t, op) /\ (Head(s).op = op => ~Has(t, op))
  /\ Precedes(s, "answer", "offer") => /\ Precedes(t, "answer", "offer")
                                       /\ Head(s).op = "offer" => ~Has(t, "answer")
  /\ \A known : Covered(s, known) =>
       /\ Head(s).op = "candidate" => Head(s).gen \in known
       /\ \A more :
            (\A x \in ToSet(t) : (x.op = "candidate" /\ (x.gen \in known \/ (Describes(Head(s)) /\ Head(s).gen >= x.gen)))
                                  => x.gen \in more)
            => Covered(t, more)

\* The first operation is taken off a chain, with or without a sendOffer behind.
LEMMA Shrinks ==
  ASSUME NEW s \in Seq(Operations), s # <<>>, NEW t, t = Tail(s) \/ t = Append(Tail(s), Sending)
  PROVE  Shrunk(s, t)
<1> DEFINE u == Tail(s)
<1>1. Sending \in Operations /\ Sending.op = "sendOffer"
  BY DEF Sending, Operations
<1>2. /\ u \in Seq(Operations) /\ Head(s) \in Operations /\ ToSet(s) = {Head(s)} \union ToSet(u)
      /\ \A op : AtMostOne(s, op) => AtMostOne(u, op) /\ (Head(s).op = op => ~Has(u, op))
      /\ \A a, b : a # b /\ Precedes(s, a, b) => Precedes(u, a, b) /\ (Head(s).op = b => ~Has(u, a))
      /\ \A known : Covered(s, known) =>
           /\ Head(s).op = "candidate" => Head(s).gen \in known
           /\ \A more :
                (\A x \in ToSet(u) : (x.op = "candidate" /\ (x.gen \in known \/ (Describes(Head(s)) /\ Head(s).gen >= x.gen)))
                                      => x.gen \in more)
                => Covered(u, more)
  BY Taken, Zenon
<1> HIDE DEF u
<1>3. /\ t \in Seq(Operations) /\ ToSet(u) \subseteq ToSet(t) /\ ToSet(t) \subseteq ToSet(u) \union {Sending}
      /\ \A op : op # "sendOffer" => (AtMostOne(u, op) => AtMostOne(t, op))
      /\ Precedes(u, "answer", "offer") => Precedes(t, "answer", "offer")
      /\ \A known : Covered(u, known) => Covered(t, known)
  <2>1. CASE t = u
    BY <1>2, <2>1
  <2>2. CASE t = Append(u, Sending)
    <3>1. t \in Seq(Operations) /\ ToSet(t) = ToSet(u) \union {Sending}
      BY <1>1, <1>2, <2>2, Appended
    <3>2. \A op : AtMostOne(u, op) /\ (Sending.op # op \/ ~Has(u, op)) => AtMostOne(t, op)
      BY <1>1, <1>2, <2>2, Appended
    <3>3. \A a, b : a # b /\ Precedes(u, a, b) /\ (Sending.op # a \/ ~Has(u, b)) => Precedes(t, a, b)
      BY <1>1, <1>2, <2>2, Appended
    <3>4. \A known : Covered(u, known) /\ Sending.op # "candidate" => Covered(t, known)
      BY <1>1, <1>2, <2>2, Appended
    <3> QED  BY <1>1, <3>1, <3>2, <3>3, <3>4
  <2> QED  BY <2>1, <2>2 DEF u
<1>4. \A op : op # "sendOffer" => (Has(t, op) <=> Has(u, op))
  BY <1>1, <1>3 DEF Has
<1>5. \A known, more :
        /\ Covered(s, known)
        /\ \A x \in ToSet(t) : (x.op = "candidate" /\ (x.gen \in known \/ (Describes(Head(s)) /\ Head(s).gen >= x.gen)))
                                 => x.gen \in more
        => Covered(t, more)
  BY <1>2, <1>3
<1>6. ToSet(s) \subseteq {Head(s)} \union ToSet(t) /\ ToSet(t) \subseteq ToSet(s) \union {Sending} /\ Head(s) \in ToSet(s)
  BY <1>2, <1>3
<1>7. \A op : op # "sendOffer" /\ AtMostOne(s, op) => AtMostOne(t, op) /\ (Head(s).op = op => ~Has(t, op))
  BY <1>2, <1>3, <1>4
<1>8. Precedes(s, "answer", "offer") => Precedes(t, "answer", "offer") /\ (Head(s).op = "offer" => ~Has(t, "answer"))
  BY <1>2, <1>3, <1>4
<1>9. \A known : Covered(s, known) => (Head(s).op = "candidate" => Head(s).gen \in known)
  BY <1>2
<1> QED  BY <1>2, <1>3, <1>5, <1>6, <1>7, <1>8, <1>9 DEF Shrunk
\* An operation that ends: what is left of the chain.
LEMMA Finishing ==
  ASSUME Inv, chain # <<>>, NEW p, Sound(p), Guarded(p), Finish(p),
         NEW current, NEW stable, Renews(p, Queue, current, stable),
         Head(chain).op # "sendOffer"
  PROVE  /\ Shrunk(chain, chain') /\ at' = "start" /\ SetQueue(p)
         /\ pumping' <=> Has(chain', "sendOffer")
         /\ AtMostOne(chain', "sendOffer")
         /\ pumping' = pumping \/ (pumping' /\ batch' # {} /\ current /\ stable)
         /\ batch' \subseteq batch \/ (pumping' /\ ~pumping)
         /\ closed' => closed \/ ~current
<1>1. /\ chain' = Tail(p.chain) /\ at' = "start" /\ SetQueue(p)
      /\ batch' = p.batch /\ pumping' = p.pumping /\ closed' = p.closed
  BY SetQueueFacts DEF Finish
<1>2. /\ chain \in Seq(Operations) /\ AtMostOne(chain, "sendOffer") /\ (pumping <=> Has(chain, "sendOffer"))
      /\ Queue.chain = chain /\ Queue.pumping = pumping /\ Queue.closed = closed /\ Queue.batch = batch
  BY QueueIsSound, TypesInParts DEF Inv, BrowserTypes, QueueInv
<1>3. /\ Tail(chain) \in Seq(Operations) /\ ToSet(chain) = {Head(chain)} \union ToSet(Tail(chain))
      /\ AtMostOne(Tail(chain), "sendOffer")
  BY <1>2, Taken
<1>4. Has(Tail(chain), "sendOffer") <=> Has(chain, "sendOffer")
  BY <1>3 DEF Has
<1>5. CASE /\ p.chain = Queue.chain /\ p.pumping = Queue.pumping
           /\ p.closed => Queue.closed \/ ~current
           /\ p.batch \subseteq Queue.batch
  <2>1. chain' = Tail(chain)
    BY <1>1, <1>2, <1>5
  <2>2. Shrunk(chain, chain')
    BY <1>2, <2>1, Shrinks
  <2> QED  BY <1>1, <1>2, <1>3, <1>4, <1>5, <2>1, <2>2
<1>6. CASE /\ p.chain = Append(Queue.chain, Sending) /\ p.pumping /\ ~Queue.pumping
           /\ p.batch # {} /\ ~p.closed /\ current /\ stable
  <2>1. Sending \in Operations /\ Sending.op = "sendOffer"
    BY DEF Sending, Operations
  <2>2. chain' = Append(Tail(chain), Sending)
    BY <1>1, <1>2, <1>6, HeadTailAppend
  <2>3. Shrunk(chain, chain')
    BY <1>2, <2>2, Shrinks
  <2>4. AtMostOne(chain', "sendOffer") /\ ToSet(chain') = ToSet(Tail(chain)) \union {Sending}
    <3> DEFINE u == Tail(chain)
    <3>1. u \in Seq(Operations) /\ AtMostOne(u, "sendOffer") /\ ~Has(u, "sendOffer") /\ chain' = Append(u, Sending)
      BY <1>2, <1>3, <1>4, <1>6, <2>2
    <3> HIDE DEF u
    <3>2. ToSet(Append(u, Sending)) = ToSet(u) \union {Sending}
      BY <2>1, <3>1, Appended
    <3>3. \A op : AtMostOne(u, op) /\ (Sending.op # op \/ ~Has(u, op)) => AtMostOne(Append(u, Sending), op)
      BY <2>1, <3>1, Appended
    <3> QED  BY <3>1, <3>2, <3>3 DEF u
  <2>5. Has(chain', "sendOffer")
    BY <2>1, <2>4 DEF Has
  <2> QED  BY <1>1, <1>2, <1>6, <2>3, <2>4, <2>5
<1> QED  BY <1>5, <1>6 DEF Renews

\* sendOffer ends, and perhaps the next one is put behind.
LEMMA FinishingSend ==
  ASSUME Inv, chain # <<>>, NEW p, Sound(p), Guarded(p), Finish(p),
         (p.chain = chain /\ ~p.pumping) \/ (p.chain = Append(chain, Sending) /\ p.pumping),
         Head(chain).op = "sendOffer"
  PROVE  /\ Shrunk(chain, chain') /\ at' = "start" /\ SetQueue(p) /\ (pumping' <=> p.pumping)
         /\ (pumping' <=> Has(chain', "sendOffer")) /\ AtMostOne(chain', "sendOffer")
<1>1. chain' = Tail(p.chain) /\ at' = "start" /\ SetQueue(p) /\ pumping' = p.pumping
  BY SetQueueFacts DEF Finish
<1>2. chain \in Seq(Operations) /\ AtMostOne(chain, "sendOffer")
  BY TypesInParts DEF Inv, BrowserTypes, QueueInv
<1> DEFINE u == Tail(chain)
<1>3. u \in Seq(Operations) /\ AtMostOne(u, "sendOffer") /\ ~Has(u, "sendOffer")
  BY <1>2, Taken
<1>4. CASE p.chain = chain /\ ~p.pumping
  <2>1. chain' = Tail(chain)
    BY <1>1, <1>4
  <2> QED  BY <1>1, <1>2, <1>3, <1>4, <2>1, Shrinks
<1>5. CASE p.chain = Append(chain, Sending) /\ p.pumping
  <2>1. chain' = Append(u, Sending) /\ Sending \in Operations /\ Sending.op = "sendOffer"
    BY <1>1, <1>2, <1>5, HeadTailAppend DEF Sending, Operations
  <2>2. Shrunk(chain, chain')
    BY <1>2, <2>1, Shrinks
  <2> HIDE DEF u
  <2>3. ToSet(chain') = ToSet(u) \union {Sending}
    BY <1>3, <2>1, Appended
  <2>4. \A op : AtMostOne(u, op) /\ (Sending.op # op \/ ~Has(u, op)) => AtMostOne(Append(u, Sending), op)
    BY <1>3, <2>1, Appended
  <2>5. Has(chain', "sendOffer") /\ AtMostOne(chain', "sendOffer")
    BY <1>3, <2>1, <2>3, <2>4 DEF Has
  <2> QED  BY <1>1, <1>5, <2>2, <2>5
<1> QED  BY <1>4, <1>5

\* Steps of a connection that is gone: what remains is the queue.
LEMMA Gone ==
  ASSUME Inv, ~up', NEW p, Sound(p), Guarded(p), SetQueue(p), Kept(p) \subseteq has,
         pumping' <=> Has(chain', "sendOffer"), AtMostOne(chain', "sendOffer"),
         chain' \in Seq(Operations), at' \in {"start", at}, up' \in BOOLEAN,
         UNCHANGED <<peerVars, hubVars, wires, bounds>>
  PROVE  Inv'
<1> USE DEF peerVars, hubVars, hubNeg, hubIce, wires, bounds
<1>1. QueueTypes' /\ NoUnguardedWait' /\ (batch' # {} => watchdog') /\ KeptPromises'
  BY SetQueueFacts
<1>2. BrowserTypes /\ HubTypes /\ WireTypes
  BY TypesInParts DEF Inv
<1>3. BrowserTypes' /\ HubTypes' /\ WireTypes'
  BY <1>2 DEF BrowserTypes, HubTypes, WireTypes
<1>4. QueueInv' /\ CandidatesInTime'
  BY <1>1 DEF Inv, QueueInv, CandidatesInTime
<1> QED  BY <1>1, <1>3, <1>4, TypesInParts DEF Inv

\* The watchdog closes the queue and the connection.
LEMMA WatchdogFiresStep == ASSUME Inv, WatchdogFires PROVE Inv'
<1> DEFINE q == [Queue EXCEPT !.watchdog = FALSE]
<1>1. /\ watchdog /\ SetQueue(Close(q)) /\ up' = FALSE
      /\ UNCHANGED <<chainVars, peerVars, hubVars, wires, bounds>>
  BY DEF WatchdogFires
<1>2. /\ Sound(Queue) /\ Guarded(Queue) /\ Queue.chain = chain /\ Queue.pumping = pumping
      /\ Queue.closed = closed /\ Queue.batch = batch /\ Kept(Queue) \subseteq has
  BY QueueIsSound
<1>3. pumping \in BOOLEAN /\ (pumping <=> Has(chain, "sendOffer")) /\ AtMostOne(chain, "sendOffer") /\ chain \in Seq(Operations)
  BY TypesInParts DEF Inv, QueueInv, QueueTypes, BrowserTypes
\* The watchdog is put down before the queue is closed: that closes all the same.
<1>4. /\ Sound(Close(q)) /\ Guarded(Close(q)) /\ Kept(Close(q)) = Kept(Queue)
      /\ Close(q).pumping = pumping
  <2>1. CASE closed
    <3>1. /\ q \in Queues /\ q.req = Queue.req /\ q.batch = Queue.batch /\ q.closed = Queue.closed
          /\ q.pumping = Queue.pumping
      BY <1>2 DEF Sound, Queues
    <3>2. Close(q) = q
      BY <1>2, <2>1, <3>1 DEF Close
    <3> HIDE DEF q
    <3> QED  BY <1>2, <2>1, <3>1, <3>2 DEF Sound, Guarded, Kept, Pending
  <2>2. CASE ~closed
    <3> DEFINE w == q.batch \union Pending(q)
               s == Settle(q, w, "failed")
    <3>1. /\ q \in Queues /\ q.req = Queue.req /\ q.batch = Queue.batch /\ q.closed = Queue.closed
          /\ q.pumping = Queue.pumping
      BY <1>2 DEF Sound, Queues
    <3>2. w \in SUBSET Reqs /\ "failed" \in Outcomes
      <4> HIDE DEF q
      <4> QED  BY <3>1 DEF Queues, Pending, Outcomes
    <3>3. Close(q) = [s EXCEPT !.closed = TRUE, !.watchdog = FALSE, !.batch = {}]
      BY <1>2, <2>2, <3>1 DEF Close
    <3> HIDE DEF q
    <3>4. \A r \in w : r \in Reqs /\ (q.req[r] = "inFlight" \/ q.req[r] = "pending")
      BY <1>2, <3>1 DEF Sound, Queues, Pending
    <3>5. \A r \in Reqs : q.req[r] = "inFlight" \/ q.req[r] = "pending" => r \in w
      BY <1>2, <3>1 DEF Sound, Queues, Pending
    <3> HIDE DEF w
    <3>6. /\ s \in Queues /\ s.pumping = q.pumping
          /\ \A r \in Reqs : s.req[r] = IF r \in w THEN "failed" ELSE q.req[r]
      BY <3>1, <3>2, SettleFacts
    <3> HIDE DEF s
    <3>7. /\ Close(q) \in Queues /\ Close(q).req = s.req /\ Close(q).closed /\ Close(q).batch = {}
          /\ Close(q).pumping = q.pumping
      BY <3>3, <3>6 DEF Queues
    <3>8. \A r \in Reqs : s.req[r] # "inFlight" /\ s.req[r] # "pending" /\ (s.req[r] = "ok" <=> Queue.req[r] = "ok")
      BY <3>1, <3>4, <3>5, <3>6
    <3> QED  BY <1>2, <3>1, <3>7, <3>8 DEF Sound, Guarded, Kept, Pending
  <2> QED  BY <2>1, <2>2
<1>5. pumping' = pumping
  BY <1>1, <1>4 DEF SetQueue
<1> HIDE DEF q
<1> QED  BY <1>1, <1>2, <1>3, <1>4, <1>5, Gone DEF chainVars, Has, AtMostOne

\* The connection is lost.
LEMMA DropStep == ASSUME Inv, Drop PROVE Inv'
<1>1. up' = FALSE /\ UNCHANGED <<queueVars, chainVars, peerVars, hubVars, wires, bounds>>
  BY DEF Drop
<1>2. /\ Sound(Queue) /\ Guarded(Queue) /\ Kept(Queue) \subseteq has
  BY QueueIsSound
<1>3. SetQueue(Queue)
  BY <1>1 DEF SetQueue, Queue, queueVars
<1>4. chain \in Seq(Operations) /\ (pumping <=> Has(chain, "sendOffer")) /\ AtMostOne(chain, "sendOffer")
  BY TypesInParts DEF Inv, QueueInv, BrowserTypes
<1> QED  BY <1>1, <1>2, <1>3, <1>4, Gone DEF chainVars, queueVars, Has, AtMostOne

\* The queue of a lost connection is closed.
LEMMA ResetStep == ASSUME Inv, Reset PROVE Inv'
<1>1. ~up /\ SetQueue(Close(Queue)) /\ UNCHANGED <<up, chainVars, peerVars, hubVars, wires, bounds>>
  BY DEF Reset
<1>2. /\ Sound(Close(Queue)) /\ Guarded(Close(Queue)) /\ Kept(Close(Queue)) \subseteq has
      /\ Close(Queue).pumping = pumping
  BY QueueIsSound, CloseFacts
<1>3. chain \in Seq(Operations) /\ (pumping <=> Has(chain, "sendOffer")) /\ AtMostOne(chain, "sendOffer")
  BY TypesInParts DEF Inv, QueueInv, BrowserTypes
<1>4. pumping' = pumping /\ ~up' /\ up' \in BOOLEAN
  BY <1>1, <1>2, TypesInParts DEF SetQueue, Inv, BrowserTypes
<1> QED  BY <1>1, <1>2, <1>3, <1>4, Gone DEF chainVars, Has, AtMostOne

\* A pump renews the queue it was called on.
LEMMA PumpsRenews ==
  ASSUME NEW p, Sound(p), NEW q, NEW current, NEW stable, Pumps(p, q, current, stable)
  PROVE  Renews(p, q, current, stable)
BY DEF Pumps, Renews, Sound

\* A queue that is left alone.
LEMMA QueueRenews ==
  ASSUME NEW current, NEW stable
  PROVE  Renews(Queue, Queue, current, stable)
BY DEF Renews

\* The operations of a connection that is gone run out.
LEMMA StaleStep == ASSUME Inv, Stale PROVE Inv'
<1>1. /\ ~up /\ chain # <<>> /\ up' = up /\ UNCHANGED <<peerVars, hubVars, wires, bounds>>
  BY DEF Stale
<1>2. /\ Sound(Queue) /\ Guarded(Queue) /\ Kept(Queue) \subseteq has
      /\ Queue.chain = chain /\ Queue.batch = batch
  BY QueueIsSound
<1>3. up' \in BOOLEAN /\ ~up'
  BY <1>1, TypesInParts DEF Inv, BrowserTypes
<1>4. CASE Head(chain).op = "sendOffer"
  <2> DEFINE p == Settled(Queue, batch, "failed", FALSE, TRUE)
  <2>1. Finish(p)
    BY <1>4 DEF Stale
  <2>2. Sound(p) /\ Guarded(p) /\ Kept(p) = Kept(Queue) /\ p.chain = Queue.chain /\ ~p.pumping
    BY <1>2, SettledFacts
  <2> HIDE DEF p
  <2>3. /\ Shrunk(chain, chain') /\ at' = "start" /\ SetQueue(p)
        /\ (pumping' <=> Has(chain', "sendOffer")) /\ AtMostOne(chain', "sendOffer")
    BY <1>1, <1>2, <1>4, <2>1, <2>2, FinishingSend
  <2> QED  BY <1>1, <1>2, <1>3, <2>2, <2>3, Gone DEF Shrunk
<1>5. CASE Head(chain).op # "sendOffer"
  <2>1. PICK p : p \in {Pump(Queue, FALSE, TRUE), Failed(Queue, FALSE, TRUE), Answered(Queue, FALSE), Queue} /\ Finish(p)
    BY <1>5 DEF Stale
  <2>2. Sound(p) /\ Guarded(p) /\ Kept(p) = Kept(Queue) /\ Renews(p, Queue, FALSE, TRUE)
    <3>1. CASE p = Pump(Queue, FALSE, TRUE)
      BY <1>2, <3>1, PumpFacts, PumpsRenews
    <3>2. CASE p = Failed(Queue, FALSE, TRUE)
      BY <1>2, <3>2, FailedFacts
    <3>3. CASE p = Answered(Queue, FALSE)
      <4>1. \A q : q = Queue => Sound(q)
        BY <1>2
      <4> QED  BY <3>3, <4>1, AnsweredFacts
    <3>4. CASE p = Queue
      BY <1>2, <3>4, QueueRenews
    <3> QED  BY <2>1, <3>1, <3>2, <3>3, <3>4
  <2>3. /\ Shrunk(chain, chain') /\ at' = "start" /\ SetQueue(p)
        /\ pumping' <=> Has(chain', "sendOffer")
        /\ AtMostOne(chain', "sendOffer")
    BY <1>1, <1>5, <2>1, <2>2, Finishing
  <2> QED  BY <1>1, <1>2, <1>3, <2>2, <2>3, Gone DEF Shrunk
<1> QED  BY <1>4, <1>5

\* The chain got a sendOffer at its end.
Grown(s, t) ==
  /\ t \in Seq(Operations) /\ ToSet(t) = ToSet(s) \union {Sending}
  /\ t # <<>> /\ (s # <<>> => Head(t) = Head(s))
  /\ \A op : op # "sendOffer" => (Has(t, op) <=> Has(s, op)) /\ (AtMostOne(s, op) => AtMostOne(t, op))
  /\ ~Has(s, "sendOffer") => Has(t, "sendOffer") /\ (AtMostOne(s, "sendOffer") => AtMostOne(t, "sendOffer"))
  /\ Precedes(s, "answer", "offer") => Precedes(t, "answer", "offer")
  /\ \A known : Covered(s, known) => Covered(t, known)

\* A sendOffer is put behind the other operations.
LEMMA Grows == ASSUME NEW s \in Seq(Operations) PROVE Grown(s, Append(s, Sending))
<1> DEFINE t == Append(s, Sending)
<1>1. Sending \in Operations /\ Sending.op = "sendOffer"
  BY DEF Sending, Operations
<1>2. t \in Seq(Operations) /\ ToSet(t) = ToSet(s) \union {Sending} /\ t # <<>> /\ (s # <<>> => Head(t) = Head(s))
  BY <1>1, Appended
<1>3. \A op : AtMostOne(s, op) /\ (Sending.op # op \/ ~Has(s, op)) => AtMostOne(t, op)
  BY <1>1, Appended
<1>4. \A a, b : a # b /\ Precedes(s, a, b) /\ (Sending.op # a \/ ~Has(s, b)) => Precedes(t, a, b)
  BY <1>1, Appended
<1>5. \A known : Covered(s, known) /\ Sending.op # "candidate" => Covered(t, known)
  BY <1>1, Appended
<1> HIDE DEF t
<1>6. \A op : (op # "sendOffer" => (Has(t, op) <=> Has(s, op))) /\ Has(t, "sendOffer")
  BY <1>1, <1>2 DEF Has
<1> QED  BY <1>1, <1>2, <1>3, <1>4, <1>5, <1>6 DEF Grown, t

\* renegotiateLocalMedia: the request waits, starts an offer, or is rejected.
LEMMA RequestStep == ASSUME Inv, NEW r \in Reqs, Request(r) PROVE Inv'
<1>1. req[r] = "new" /\ UNCHANGED <<up, at, peerVars, hubVars, wires, bounds>>
  BY DEF Request
<1>2. /\ Sound(Queue) /\ Guarded(Queue) /\ Queue.chain = chain /\ Queue.pumping = pumping
      /\ Queue.closed = closed /\ Queue.batch = batch /\ Queue.req = req /\ Kept(Queue) \subseteq has
  BY QueueIsSound
<1>3. QueueTypes /\ BrowserTypes /\ HubTypes /\ WireTypes /\ QueueInv
  BY TypesInParts DEF Inv
<1>4. chain \in Seq(Operations) /\ (pumping <=> Has(chain, "sendOffer")) /\ AtMostOne(chain, "sendOffer") /\ up \in BOOLEAN
  BY <1>3 DEF QueueInv, BrowserTypes
\* A request settled or queued at once leaves the rest of the queue alone.
<1>5. ASSUME NEW q, Sound(q), q.req[r] \notin {"inFlight", "ok"}, NEW o \in {"pending", "failed"}, q.closed => o = "failed"
      PROVE  LET n == [q EXCEPT !.req[r] = o]
             IN /\ Sound(n) /\ Kept(n) = Kept(q) /\ n.chain = q.chain /\ n.pumping = q.pumping
                /\ n.batch = q.batch /\ n.closed = q.closed
                /\ o = "failed" /\ Guarded(q) => Guarded(n)
  <2> DEFINE n == [q EXCEPT !.req[r] = o]
             Good == /\ Sound(n) /\ Kept(n) = Kept(q) /\ n.chain = q.chain /\ n.pumping = q.pumping
                     /\ n.batch = q.batch /\ n.closed = q.closed
                     /\ o = "failed" /\ Guarded(q) => Guarded(n)
  <2> SUFFICES Good
    OBVIOUS
  <2>1. /\ n \in Queues /\ n.req = [q.req EXCEPT ![r] = o] /\ n.batch = q.batch /\ n.closed = q.closed
        /\ n.chain = q.chain /\ n.pumping = q.pumping /\ n.watchdog = q.watchdog
    BY <1>5 DEF Sound, Queues, Outcomes
  <2> HIDE DEF n
  <2>2. \A x \in Reqs : n.req[x] = IF x = r THEN o ELSE q.req[x]
    BY <1>5, <2>1 DEF Sound, Queues
  <2>3. \A x \in Reqs : /\ n.req[x] = "inFlight" <=> q.req[x] = "inFlight"
                        /\ n.req[x] = "ok" <=> q.req[x] = "ok"
                        /\ n.req[x] = "pending" => q.req[x] = "pending" \/ o = "pending"
    BY <1>5, <2>2
  <2>4. Kept(n) = Kept(q) /\ {x \in Reqs : n.req[x] = "inFlight"} = {x \in Reqs : q.req[x] = "inFlight"}
    BY <2>3 DEF Kept
  <2>5. o = "failed" => Pending(n) \subseteq Pending(q)
    BY <2>3 DEF Pending
  <2>6. Sound(n)
    BY <1>5, <2>1, <2>4, <2>5 DEF Sound
  <2>7. o = "failed" /\ Guarded(q) => Guarded(n)
    BY <2>1, <2>5 DEF Guarded
  <2> QED  BY <2>1, <2>4, <2>6, <2>7
<1>6. CASE ~up
  <2> DEFINE c == IF closed THEN Queue ELSE Close(Queue)
             n == [c EXCEPT !.req[r] = "failed"]
  <2>1. SetQueue(n) /\ UNCHANGED chain
    BY <1>6 DEF Request
  <2>2. /\ Sound(c) /\ Guarded(c) /\ Kept(c) = Kept(Queue) /\ c.chain = chain /\ c.pumping = pumping
    BY <1>2, CloseFacts
  <2>3. c.req[r] \notin {"inFlight", "ok"}
    <3>1. r \notin Kept(Queue) /\ r \notin batch
      BY <1>1, <1>2 DEF Kept, Sound
    <3>2. r \notin Kept(c) /\ r \notin c.batch
      BY <1>2, <2>2, <3>1, CloseFacts
    <3> HIDE DEF c
    <3> QED  BY <2>2, <3>2 DEF Kept, Sound
  <2> HIDE DEF c
  <2>4. /\ Sound(n) /\ Guarded(n) /\ Kept(n) = Kept(c) /\ n.pumping = c.pumping
    BY <1>5, <2>2, <2>3
  <2> HIDE DEF n
  <2>5. pumping' = pumping
    BY <2>1, <2>2, <2>4 DEF SetQueue
  <2> QED  BY <1>1, <1>2, <1>4, <1>6, <2>1, <2>2, <2>4, <2>5, Gone DEF Has, AtMostOne
<1>7. CASE up
  <2> DEFINE n == [Queue EXCEPT !.req[r] = "pending"]
             stable == sig = "stable"
             p == Pump(n, TRUE, stable)
  <2>1. ~closed
    BY <1>3, <1>7 DEF QueueInv
  <2>2. SetQueue(p) /\ chain' = p.chain
    BY <1>7, <2>1 DEF Request
  <2>3. /\ Sound(n) /\ Kept(n) = Kept(Queue) /\ n.chain = chain /\ n.pumping = pumping
        /\ n.batch = batch /\ n.closed = closed
    BY <1>1, <1>2, <1>5, <2>1
  <2> HIDE DEF n
  <2>4. Sound(p) /\ Guarded(p) /\ Kept(p) = Kept(n) /\ Pumps(p, n, TRUE, stable)
    <3>1. stable \in BOOLEAN
      OBVIOUS
    <3> HIDE DEF stable
    <3> QED  BY <2>3, <3>1, PumpFacts
  <2> HIDE DEF p
  <2>5. /\ QueueTypes' /\ NoUnguardedWait' /\ (batch' # {} => watchdog')
        /\ batch' = p.batch /\ pumping' = p.pumping /\ closed' = p.closed /\ KeptPromises'
    <3>1. Kept(p) \subseteq has'
      BY <1>1, <1>2, <2>3, <2>4 DEF hubVars
    <3> QED  BY <2>2, <2>4, <3>1, SetQueueFacts
  <2>6. OperationInv /\ HubOffersInv /\ AnswersInv /\ OffersInv /\ (faults = 0 => GensInv)
    BY <1>7 DEF Inv
  <2> USE DEF peerVars, hubVars, hubNeg, hubIce, wires, bounds
  <2>7. CandidatesInTime' /\ HubTypes' /\ WireTypes'
    BY <1>1, <1>3 DEF Inv, CandidatesInTime, HubTypes, WireTypes
  <2>8. CASE chain' = chain /\ (pumping' <=> pumping) /\ batch' = batch /\ ~closed'
    <3>1. BrowserTypes' /\ QueueInv'
      BY <1>1, <1>3, <2>5, <2>8 DEF BrowserTypes, QueueInv, Has, AtMostOne
    <3>2. OperationInv'
      BY <1>1, <2>6, <2>8 DEF OperationInv
    <3>3. HubOffersInv'
      BY <1>1, <2>6, <2>8 DEF HubOffersInv, Abandoned, Has, AtMostOne
    <3>4. AnswersInv'
      BY <1>1, <2>6, <2>8 DEF AnswersInv, AnswerDue, Resolving, Has, AtMostOne, Precedes
    <3>5. OffersInv'
      BY <1>1, <2>6, <2>8 DEF OffersInv, Transmitting
    <3>6. faults' = 0 => GensInv'
      BY <1>1, <2>6, <2>8 DEF GensInv, Covered, Heard, Told
    <3> QED  BY <2>5, <2>7, <3>1, <3>2, <3>3, <3>4, <3>5, <3>6, TypesInParts DEF Inv
  <2>9. CASE /\ chain' = Append(chain, Sending) /\ pumping' /\ ~pumping /\ batch' # {} /\ batch = {}
             /\ ~closed' /\ stable
    <3>1. Grown(chain, chain') /\ sig = "stable"
      BY <1>4, <2>9, Grows
    <3>2. ~Has(chain, "sendOffer")
      BY <1>4, <2>9
    <3>3. BrowserTypes' /\ QueueInv'
      BY <1>1, <1>3, <1>4, <2>5, <2>9, <3>1, <3>2 DEF BrowserTypes, QueueInv, Grown
    <3>4. /\ Has(chain', "answer") <=> Has(chain, "answer")
          /\ Has(chain', "offer") <=> Has(chain, "offer")
          /\ AtMostOne(chain, "answer") => AtMostOne(chain', "answer")
          /\ AtMostOne(chain, "offer") => AtMostOne(chain', "offer")
          /\ Precedes(chain, "answer", "offer") => Precedes(chain', "answer", "offer")
      BY <3>1 DEF Grown
    <3>5. at # "created"
      <4>1. at = "created" => Head(chain) \in ToSet(chain) /\ Head(chain).op = "sendOffer"
        BY <1>4, <2>6, Taken DEF OperationInv
      <4> QED  BY <3>2, <4>1 DEF Has
    <3>6. OperationInv'
      BY <1>1, <2>5, <2>6, <2>9, <3>1, <3>5 DEF OperationInv, Grown
    <3>7. HubOffersInv'
      BY <1>1, <2>6, <3>4 DEF HubOffersInv, Abandoned, Has, AtMostOne
    <3>8. AnswersInv'
      <4>1. ~AnswerDue
        BY <2>6, <3>1 DEF AnswersInv
      <4>2. ~Resolving
        BY <2>6, <2>9, <3>1 DEF OperationInv, Resolving
      <4>3. ~AnswerDue'
        BY <1>1, <3>4, <4>1, <4>2 DEF AnswerDue, Has
      <4> QED  BY <1>1, <2>6, <3>4, <4>3 DEF AnswersInv, Has, AtMostOne, Precedes
    <3>9. OffersInv'
      BY <1>1, <2>6, <2>9 DEF OffersInv, Transmitting
    <3>10. faults' = 0 => GensInv'
      <4> SUFFICES ASSUME faults = 0 PROVE GensInv'
        BY <1>1
      <4>1. Sending.op = "sendOffer" /\ ~Describes(Sending)
        BY DEF Sending, Describes
      <4>2. Heard' = Heard /\ Told' = Told
        BY <1>1, <3>1, <4>1 DEF Heard, Told, Grown
      <4>3. Covered(chain', Heard') /\ Covered(toBrowser', Told')
        BY <1>1, <2>6, <3>1, <4>2 DEF GensInv, Grown, Covered
      <4> QED  BY <1>1, <2>6, <3>1, <4>1, <4>2, <4>3 DEF GensInv, Grown
    <3> QED  BY <2>5, <2>7, <3>3, <3>6, <3>7, <3>8, <3>9, <3>10, TypesInParts DEF Inv
  <2>10. Pumps(p, n, TRUE, stable) /\ (p.closed => p.batch = {})
    BY <2>4 DEF Sound
  <2> QED  BY <2>1, <2>2, <2>3, <2>5, <2>8, <2>9, <2>10 DEF Pumps
<1> QED  BY <1>6, <1>7
----------------------------------------------------------------------------
(* The steps of the browser.                                               *)

\* The browser writes one more message.
LEMMA Posting ==
  ASSUME Inv, up, NEW m \in ToHub, toHub' = Append(toHub, m)
  PROVE  /\ toHub' \in Seq(ToHub) /\ ToSet(toHub') = ToSet(toHub) \union {m}
         /\ Has(toHub', "answer") <=> Has(toHub, "answer") \/ m.op = "answer"
         /\ m.op # "answer" \/ ~Has(toHub, "answer") => AtMostOne(toHub', "answer")
         /\ (m.op = "offer" => \A x \in ToSet(toHub) : x.op = "offer" => x.n < m.n) => InOrder(toHub')
         /\ (m.op = "offer" => m.n = offered.n \/ ~Has(toHub, "answer")) => BehindAnswers(toHub', offered.n)
<1>1. /\ toHub \in Seq(ToHub) /\ AtMostOne(toHub, "answer") /\ InOrder(toHub)
      /\ BehindAnswers(toHub, offered.n)
  BY TypesInParts DEF Inv, WireTypes, HubOffersInv, OffersInv
<1>2. Append(toHub, m) \in Seq(ToHub) /\ ToSet(Append(toHub, m)) = ToSet(toHub) \union {m}
  BY <1>1, Appended
<1>3. \A op : AtMostOne(toHub, op) /\ (m.op # op \/ ~Has(toHub, op)) => AtMostOne(Append(toHub, m), op)
  BY <1>1, Appended
<1>4. InOrder(toHub) /\ (m.op = "offer" => \A x \in ToSet(toHub) : x.op = "offer" => x.n < m.n)
        => InOrder(Append(toHub, m))
  BY <1>1, Appended
<1>5. \A n : BehindAnswers(toHub, n) /\ (m.op = "offer" => m.n = n \/ ~Has(toHub, "answer"))
        => BehindAnswers(Append(toHub, m), n)
  BY <1>1, Appended
<1>6. Has(toHub', "answer") <=> Has(toHub, "answer") \/ m.op = "answer"
  BY <1>2 DEF Has
<1> QED  BY <1>1, <1>2, <1>3, <1>4, <1>5, <1>6

\* A candidate or a request to restart.
LEMMA PostStep ==
  ASSUME Inv, up, NEW m \in ToHub, m.op \in {"candidate", "ice_restart"},
         m.op = "candidate" => m.gen = bgen, toHub' = Append(toHub, m),
         UNCHANGED <<queueVars, up, chainVars, peerVars, hubVars, toBrowser, faults, early>>
  PROVE  Inv'
<1> USE DEF queueVars, chainVars, peerVars, hubVars, hubNeg, hubIce
<1>1. QueueTypes' /\ BrowserTypes' /\ QueueInv' /\ KeptPromises' /\ (up' => OperationInv')
  BY HubSide
<1>2. QueueTypes /\ BrowserTypes /\ HubTypes /\ WireTypes
  BY TypesInParts DEF Inv
<1>3. OperationInv /\ HubOffersInv /\ AnswersInv /\ OffersInv /\ (faults = 0 => GensInv)
  BY DEF Inv
<1>4. /\ toHub' \in Seq(ToHub) /\ ToSet(toHub') = ToSet(toHub) \union {m}
      /\ Has(toHub', "answer") <=> Has(toHub, "answer")
      /\ AtMostOne(toHub', "answer") /\ InOrder(toHub') /\ BehindAnswers(toHub', offered.n)
  BY Posting
<1>5. HubTypes' /\ WireTypes' /\ CandidatesInTime'
  BY <1>2, <1>4 DEF HubTypes, WireTypes, Inv, CandidatesInTime
<1>6. HubOffersInv'
  BY <1>3, <1>4 DEF HubOffersInv, Abandoned, Has, AtMostOne
<1>7. AnswersInv'
  BY <1>3, <1>4 DEF AnswersInv, AnswerDue, Resolving, Has, AtMostOne, Precedes
<1>8. OffersInv'
  BY <1>3, <1>4 DEF OffersInv, Transmitting
<1>9. faults' = 0 => GensInv'
  BY <1>3, <1>4 DEF GensInv, Covered, Heard, Told
<1> QED  BY <1>1, <1>5, <1>6, <1>7, <1>8, <1>9, TypesInParts DEF Inv

\* A candidate of the browser is sent behind its description.
LEMMA GatherCandidateStep == ASSUME Inv, GatherCandidate PROVE Inv'
<1> DEFINE m == [op |-> "candidate", gen |-> bgen]
<1>1. /\ up /\ toHub' = Append(toHub, m)
      /\ UNCHANGED <<queueVars, up, chainVars, peerVars, hubVars, toBrowser, faults, early>>
  BY DEF GatherCandidate
<1>2. m \in ToHub /\ m.op = "candidate" /\ m.gen = bgen
  BY TypesInParts DEF Inv, BrowserTypes, ToHub
<1> HIDE DEF m
<1> QED  BY <1>1, <1>2, PostStep

\* requestIceRestart.
LEMMA AskRestartStep == ASSUME Inv, AskRestart PROVE Inv'
<1> DEFINE m == [op |-> "ice_restart"]
<1>1. /\ up /\ toHub' = Append(toHub, m)
      /\ UNCHANGED <<queueVars, up, chainVars, peerVars, hubVars, toBrowser, faults, early>>
  BY DEF AskRestart
<1>2. m \in ToHub /\ m.op = "ice_restart"
  BY DEF ToHub
<1> HIDE DEF m
<1> QED  BY <1>1, <1>2, PostStep

\* Nothing of the wires and of the hub changes, and neither does the chain.
LEMMA Elsewhere ==
  ASSUME UNCHANGED <<chain, wires, hubVars>>
  PROVE  /\ \A op : /\ Has(chain', op) <=> Has(chain, op)
                    /\ Has(toBrowser', op) <=> Has(toBrowser, op)
                    /\ Has(toHub', op) <=> Has(toHub, op)
                    /\ AtMostOne(chain, op) => AtMostOne(chain', op)
         /\ HubOffersInv /\ ~Abandoned' => HubOffersInv'
         /\ Head(chain).op # "answer" /\ ~AnswerDue => ~AnswerDue'
         /\ HubTypes => HubTypes'
<1> USE DEF wires, hubVars, hubNeg, hubIce
<1>1. HubOffersInv /\ ~Abandoned' => HubOffersInv'
  BY DEF HubOffersInv, Has, AtMostOne
<1>2. Head(chain).op # "answer" /\ ~AnswerDue => ~AnswerDue'
  BY DEF AnswerDue, Resolving, Has
<1>3. HubTypes => HubTypes'
  BY DEF HubTypes
<1> QED  BY <1>1, <1>2, <1>3 DEF Has, AtMostOne

\* The operation that runs is in the chain.
LEMMA RunningFacts ==
  ASSUME Inv, NEW op, NEW step, Running(op, step)
  PROVE  /\ chain # <<>> /\ Head(chain).op = op /\ at = step
         /\ Head(chain) \in ToSet(chain) /\ Head(chain) \in Operations /\ Has(chain, op)
         /\ ToSet(chain) \subseteq Operations
<1>1. chain # <<>> /\ Head(chain).op = op /\ at = step
  BY DEF Running
<1>2. chain \in Seq(Operations)
  BY TypesInParts DEF Inv, BrowserTypes
<1>3. Head(chain) \in Operations /\ ToSet(chain) = {Head(chain)} \union ToSet(Tail(chain))
  BY <1>1, <1>2, Taken
<1>4. ToSet(chain) \subseteq Operations
  BY <1>2, Members
<1> QED  BY <1>1, <1>3, <1>4 DEF Has

\* The offer becomes the local description.
LEMMA SetLocalOfferStep == ASSUME Inv, SetLocalOffer PROVE Inv'
<1>1. /\ up /\ Running("sendOffer", "created") /\ sig' = "have-local-offer"
      /\ bgen' = (IF bgen < 0 THEN 0 ELSE bgen) /\ at' = "local"
      /\ UNCHANGED <<queueVars, up, chain, offered, number, remoteSet, held, brgen, bknows,
                     hubVars, wires, bounds>>
  BY DEF SetLocalOffer
<1>2. QueueTypes /\ BrowserTypes /\ HubTypes /\ WireTypes
  BY TypesInParts DEF Inv
<1>3. OperationInv /\ HubOffersInv /\ AnswersInv /\ OffersInv /\ (faults = 0 => GensInv) /\ QueueInv
  BY <1>1 DEF Inv
<1>4. chain # <<>> /\ Head(chain).op = "sendOffer" /\ at = "created" /\ sig = "stable"
  BY <1>1, <1>3, RunningFacts DEF OperationInv
<1>5. ~AnswerDue
  BY <1>3, <1>4 DEF AnswersInv
<1>6. HubOffersInv' /\ ~AnswerDue' /\ HubTypes'
  BY <1>1, <1>2, <1>3, <1>4, <1>5, Elsewhere DEF Abandoned
<1> USE DEF queueVars, hubVars, hubNeg, hubIce, wires, bounds
<1>7. bgen' \in Gens /\ (bgen' = 0 \/ bgen' = bgen)
  BY <1>1, <1>2 DEF BrowserTypes, Gens
<1>8. QueueTypes' /\ BrowserTypes' /\ WireTypes'
  BY <1>1, <1>2, <1>7 DEF QueueTypes, BrowserTypes, WireTypes
<1>9. QueueInv' /\ KeptPromises' /\ CandidatesInTime'
  BY <1>1 DEF Inv, QueueInv, NoUnguardedWait, Pending, Queue, Has, AtMostOne, KeptPromises, CandidatesInTime
<1>10. OperationInv'
  BY <1>1, <1>3, <1>4 DEF OperationInv
<1>11. AnswersInv'
  BY <1>1, <1>3, <1>6 DEF AnswersInv, AnswerDue, Resolving, Has, AtMostOne, Precedes
<1>12. OffersInv'
  BY <1>1, <1>3, <1>4 DEF OffersInv, Transmitting
<1>13. faults' = 0 => GensInv'
  BY <1>1, <1>3, <1>7 DEF GensInv, Covered, Heard, Told
<1> QED  BY <1>6, <1>8, <1>9, <1>10, <1>11, <1>12, <1>13, TypesInParts DEF Inv

\* The answer becomes the local description.
LEMMA SetLocalAnswerStep == ASSUME Inv, SetLocalAnswer PROVE Inv'
<1>1. /\ up /\ Running("offer", "remote") /\ sig' = "stable" /\ bgen' = brgen /\ at' = "local"
      /\ UNCHANGED <<queueVars, up, chain, offered, number, remoteSet, held, brgen, bknows,
                     hubVars, wires, bounds>>
  BY DEF SetLocalAnswer
<1>2. QueueTypes /\ BrowserTypes /\ HubTypes /\ WireTypes
  BY TypesInParts DEF Inv
<1>3. OperationInv /\ HubOffersInv /\ AnswersInv /\ OffersInv /\ (faults = 0 => GensInv) /\ QueueInv
  BY <1>1 DEF Inv
<1>4. chain # <<>> /\ Head(chain).op = "offer" /\ at = "remote" /\ sig = "have-remote-offer"
  BY <1>1, <1>3, RunningFacts DEF OperationInv
<1>5. ~AnswerDue
  BY <1>3, <1>4 DEF AnswersInv
<1>6. HubOffersInv' /\ ~AnswerDue' /\ HubTypes'
  BY <1>1, <1>2, <1>3, <1>4, <1>5, Elsewhere DEF Abandoned
<1> USE DEF queueVars, hubVars, hubNeg, hubIce, wires, bounds
<1>7. QueueTypes' /\ BrowserTypes' /\ WireTypes'
  BY <1>1, <1>2 DEF QueueTypes, BrowserTypes, WireTypes
<1>8. QueueInv' /\ KeptPromises' /\ CandidatesInTime'
  BY <1>1 DEF Inv, QueueInv, NoUnguardedWait, Pending, Queue, Has, AtMostOne, KeptPromises, CandidatesInTime
<1>9. OperationInv'
  BY <1>1, <1>3, <1>4 DEF OperationInv
<1>10. AnswersInv'
  BY <1>1, <1>3, <1>6 DEF AnswersInv, AnswerDue, Resolving, Has, AtMostOne, Precedes
<1>11. OffersInv'
  BY <1>1, <1>3, <1>4 DEF OffersInv, Transmitting
<1>12. faults' = 0 => GensInv'
  <2>1. faults = 0 => brgen <= sgen /\ brgen = sgen
    BY <1>3, <1>4 DEF GensInv
  <2> QED  BY <1>1, <1>3, <1>4, <2>1 DEF GensInv, Covered, Heard, Told
<1> QED  BY <1>6, <1>7, <1>8, <1>9, <1>10, <1>11, <1>12, TypesInParts DEF Inv

\* No offer at all is behind an answer: its number does not matter.
LEMMA NoneBehind ==
  ASSUME NEW s, NEW n, NEW k,
         \/ BehindAnswers(s, n) /\ \A m \in ToSet(s) : m.op = "offer" => m.n # n
         \/ ~Has(s, "answer")
  PROVE  BehindAnswers(s, k)
BY DEF BehindAnswers, ToSet, Has

\* The chain lost its first operation: what is left of offers, answers and candidates.
LEMMA Left ==
  ASSUME Inv, up, chain # <<>>, Shrunk(chain, chain')
  PROVE  /\ \A op : op # "sendOffer" /\ Has(chain', op) => Has(chain, op)
         /\ AtMostOne(chain', "answer") /\ AtMostOne(chain', "offer") /\ Precedes(chain', "answer", "offer")
         /\ Head(chain).op = "offer" => ~Has(chain', "offer") /\ ~Has(chain', "answer")
         /\ Head(chain).op = "answer" => ~Has(chain', "answer")
<1>1. Sending.op = "sendOffer"
  BY DEF Sending
<1>2. AtMostOne(chain, "answer") /\ AtMostOne(chain, "offer") /\ Precedes(chain, "answer", "offer")
  BY DEF Inv, HubOffersInv, Abandoned, AnswersInv
<1>3. \A op : op # "sendOffer" /\ Has(chain', op) => Has(chain, op)
  BY <1>1 DEF Has, Shrunk
<1> QED  BY <1>2, <1>3 DEF Shrunk

\* The browser has taken what the first operation described: what follows is covered.
LEMMA StillCovered ==
  ASSUME Inv, up, faults = 0, chain # <<>>, Shrunk(chain, chain'), brgen' \in Gens, brgen <= brgen',
         Describes(Head(chain)) => Head(chain).gen <= brgen'
  PROVE  /\ Covered(chain', Heard') /\ Covered(toBrowser, Told') /\ Told \subseteq Told'
         /\ ready \/ sstep = "answered" =>
              sgen \in Told' \/ \E m \in ToSet(toBrowser) : Describes(m) /\ m.gen >= sgen
<1>1. BrowserTypes /\ WireTypes /\ GensInv
  BY TypesInParts DEF Inv
<1>2. ToSet(chain) \subseteq Operations /\ ToSet(chain') \subseteq Operations /\ Head(chain) \in Operations /\ brgen \in Gens
  BY <1>1, Members DEF BrowserTypes, Shrunk
<1>3. \A x \in Operations : x.op \in {"offer", "answer", "candidate"} => x.gen \in Gens
  BY MessageTypes
<1>4. Heard \subseteq Heard'
  BY <1>2, GenerationOrder DEF Heard
<1>5. \A x \in ToSet(chain') :
        (x.op = "candidate" /\ (x.gen \in Heard \/ (Describes(Head(chain)) /\ Head(chain).gen >= x.gen))) => x.gen \in Heard'
  BY <1>2, <1>3, <1>4, GenerationOrder DEF Heard, Describes
<1>6. Covered(chain', Heard')
  <2>1. Covered(chain, Heard)
    BY <1>1 DEF GensInv
  <2> QED  BY <1>5, <2>1 DEF Shrunk
<1>7. Told \subseteq Told'
  <2> SUFFICES ASSUME NEW g \in Gens, g <= brgen \/ \E m \in ToSet(chain) : Describes(m) /\ m.gen >= g
               PROVE  g <= brgen' \/ \E m \in ToSet(chain') : Describes(m) /\ m.gen >= g
    BY DEF Told
  <2>1. CASE g <= brgen
    BY <1>2, <2>1, GenerationOrder
  <2>2. CASE \E m \in ToSet(chain) : Describes(m) /\ m.gen >= g
    <3>1. PICK m \in ToSet(chain) : Describes(m) /\ m.gen >= g
      BY <2>2
    <3>2. CASE m = Head(chain)
      BY <1>2, <1>3, <3>1, <3>2, GenerationOrder DEF Describes
    <3>3. CASE m \in ToSet(chain')
      BY <3>1, <3>3
    <3> QED  BY <3>1, <3>2, <3>3 DEF Shrunk
  <2> QED  BY <2>1, <2>2
<1>8. Covered(toBrowser, Told')
  BY <1>1, <1>7 DEF GensInv, Covered
<1> QED  BY <1>1, <1>6, <1>7, <1>8 DEF GensInv

\* The connection is not stable, for an offer of the hub was never answered: the batch waits.
LEMMA UnsentStep == ASSUME Inv, CreateOffer, sig # "stable" PROVE Inv'
<1> DEFINE p == Settled(Queue, batch, "unsent", TRUE, FALSE)
<1>1. /\ up /\ Running("sendOffer", "start") /\ Finish(p)
      /\ UNCHANGED <<up, peerVars, hubVars, wires, bounds>>
  BY DEF CreateOffer, peerVars
<1>2. QueueTypes /\ BrowserTypes /\ HubTypes /\ WireTypes
  BY TypesInParts DEF Inv
<1>3. OperationInv /\ HubOffersInv /\ AnswersInv /\ OffersInv /\ (faults = 0 => GensInv) /\ QueueInv
  BY <1>1 DEF Inv
<1>4. chain # <<>> /\ Head(chain).op = "sendOffer" /\ at = "start" /\ pumping
  BY <1>1, RunningFacts, <1>3 DEF QueueInv
<1>5. sig = "have-remote-offer" /\ offered = NoOffer /\ Abandoned
  BY <1>2, <1>3, <1>4 DEF OperationInv, BrowserTypes, Abandoned
<1>6. /\ ~AnswerDue /\ inFlight
      /\ \A x \in ToSet(toHub) : x.op = "offer" => x.n \in Nat /\ x.n > 0 /\ x.n <= number /\ x.n # 0
  BY <1>2, <1>3, <1>5, MessageTypes, Members DEF AnswersInv, HubOffersInv, WireTypes, OffersInv
<1>7. /\ Sound(p) /\ Guarded(p) /\ Kept(p) \subseteq has /\ p.chain = chain /\ ~p.pumping
      /\ (p.closed => closed)
  <2>1. /\ Sound(Queue) /\ Guarded(Queue) /\ Queue.chain = chain /\ Queue.closed = closed
        /\ Queue.batch = batch /\ Kept(Queue) \subseteq has
    BY QueueIsSound
  <2> QED  BY <2>1, SettledFacts
<1> HIDE DEF p
<1>8. /\ Shrunk(chain, chain') /\ at' = "start" /\ SetQueue(p) /\ ~pumping'
      /\ (pumping' <=> Has(chain', "sendOffer")) /\ AtMostOne(chain', "sendOffer")
  BY <1>1, <1>4, <1>7, FinishingSend
<1>9. /\ QueueTypes' /\ NoUnguardedWait' /\ (batch' # {} => watchdog')
      /\ closed' = p.closed /\ KeptPromises'
  <2>1. Kept(p) \subseteq has'
    BY <1>1, <1>7 DEF hubVars
  <2> QED  BY <1>7, <1>8, <2>1, SetQueueFacts
<1>10. /\ \A op : op # "sendOffer" /\ Has(chain', op) => Has(chain, op)
       /\ AtMostOne(chain', "answer") /\ AtMostOne(chain', "offer") /\ Precedes(chain', "answer", "offer")
  BY <1>1, <1>4, <1>8, Left
<1> USE DEF peerVars, hubVars, hubNeg, hubIce, wires, bounds
<1>11. BrowserTypes' /\ HubTypes' /\ WireTypes' /\ CandidatesInTime'
  BY <1>1, <1>2, <1>8 DEF BrowserTypes, HubTypes, WireTypes, Shrunk, Inv, CandidatesInTime
<1>12. QueueInv'
  BY <1>1, <1>3, <1>7, <1>8, <1>9 DEF QueueInv
<1>13. OperationInv'
  BY <1>1, <1>5, <1>8, <1>9 DEF OperationInv
<1>14. HubOffersInv'
  BY <1>1, <1>3, <1>5, <1>10 DEF HubOffersInv, Has, AtMostOne
<1>15. AnswersInv'
  <2>1. ~AnswerDue' /\ (\A x \in ToSet(toBrowser') : x.op # "answer") /\ sstep' # "answering"
    BY <1>1, <1>4, <1>6, <1>10 DEF AnswerDue, Resolving, Has
  <2> QED  BY <1>1, <1>3, <1>10, <2>1 DEF AnswersInv, Has, AtMostOne, Precedes
<1>16. OffersInv'
  <2>1. offered'.n = 0 /\ ~Transmitting'
    BY <1>1, <1>5, <1>8 DEF NoOffer, Transmitting
  <2> QED  BY <1>1, <1>3, <1>6, <2>1 DEF OffersInv, InOrder, BehindAnswers
<1>17. faults' = 0 => GensInv'
  <2> SUFFICES ASSUME faults = 0 PROVE GensInv'
    BY <1>1
  <2>1. brgen' \in Gens /\ brgen <= brgen' /\ ~Describes(Head(chain))
    BY <1>1, <1>2, <1>4, GenerationOrder DEF BrowserTypes, Describes
  <2>2. /\ Covered(chain', Heard') /\ Covered(toBrowser, Told')
        /\ ready \/ sstep = "answered" =>
             sgen \in Told' \/ \E x \in ToSet(toBrowser) : Describes(x) /\ x.gen >= sgen
    BY <1>1, <1>4, <1>8, <2>1, StillCovered
  <2>3. \A x \in ToSet(chain') : x \in ToSet(chain) \/ x.op = "sendOffer"
    BY <1>8 DEF Shrunk, Sending
  <2> QED  BY <1>1, <1>3, <1>8, <2>2, <2>3 DEF GensInv, Covered
<1> QED  BY <1>9, <1>11, <1>12, <1>13, <1>14, <1>15, <1>16, <1>17, TypesInParts DEF Inv

\* The offer that is created covers the batch and all that waits.
LEMMA CreateOfferStep == ASSUME Inv, CreateOffer PROVE Inv'
<1>1. /\ up /\ Running("sendOffer", "start")
      /\ UNCHANGED <<up, sig, remoteSet, held, bgen, brgen, bknows, hubVars, wires, bounds>>
  BY DEF CreateOffer
<1>2. QueueTypes /\ BrowserTypes /\ HubTypes /\ WireTypes
  BY TypesInParts DEF Inv
<1>3. OperationInv /\ HubOffersInv /\ AnswersInv /\ OffersInv /\ (faults = 0 => GensInv) /\ QueueInv
  BY <1>1 DEF Inv
<1>4. chain # <<>> /\ Head(chain).op = "sendOffer" /\ at = "start" /\ pumping /\ batch # {}
  BY <1>1, <1>3, RunningFacts DEF OperationInv, QueueInv
<1> SUFFICES ASSUME sig = "stable" PROVE Inv'
  BY UnsentStep
\* The chain lets no offer be created while another is outstanding.
<1>5. sig = "stable" /\ offered = NoOffer
  BY <1>3, <1>4 DEF OperationInv
<1>6. /\ number' = number + 1 /\ at' = "created"
      /\ offered' = [n |-> number + 1, incl |-> {r \in Reqs : req[r] # "new"}]
      /\ UNCHANGED <<queueVars, chain>>
  BY <1>5 DEF CreateOffer
<1>7. ~AnswerDue
  BY <1>3, <1>5 DEF AnswersInv
<1>8. HubOffersInv' /\ ~AnswerDue' /\ HubTypes'
  BY <1>1, <1>2, <1>3, <1>4, <1>5, <1>6, <1>7, Elsewhere DEF Abandoned
<1> USE DEF queueVars, hubVars, hubNeg, hubIce, wires, bounds
<1>9. offered' \in Offers /\ offered'.n = number' /\ number' > 0 /\ number' \in Nat /\ batch \subseteq offered'.incl
  <2>1. number \in Nat /\ batch \subseteq {r \in Reqs : req[r] # "new"}
    BY <1>2 DEF BrowserTypes, QueueTypes
  <2> QED  BY <1>6, <2>1 DEF Offers
<1>10. QueueTypes' /\ BrowserTypes' /\ WireTypes'
  BY <1>1, <1>2, <1>6, <1>9 DEF QueueTypes, BrowserTypes, WireTypes
<1>11. QueueInv' /\ KeptPromises' /\ CandidatesInTime'
  BY <1>1, <1>6 DEF Inv, QueueInv, NoUnguardedWait, Pending, Queue, Has, AtMostOne, KeptPromises, CandidatesInTime
<1>12. OperationInv'
  BY <1>1, <1>3, <1>4, <1>5, <1>6, <1>9 DEF OperationInv
<1>13. AnswersInv'
  <2>1. (\A m \in ToSet(toBrowser') : m.op # "answer") /\ sstep' # "answering"
    BY <1>8 DEF AnswerDue, Resolving, Has
  <2> QED  BY <1>1, <1>3, <1>6, <1>8, <2>1 DEF AnswersInv, AnswerDue, Resolving, Has, AtMostOne, Precedes
<1>14. OffersInv'
  <2>1. \A m \in ToSet(toHub) : m.op = "offer" => m.n \in Nat /\ m.n > 0 /\ m.n <= number /\ m.n # 0 /\ inFlight
    <3>1. offered.n = 0 /\ \A m \in ToSet(toHub) : m.op = "offer" => m.n \in Nat
      BY <1>2, <1>5, MessageTypes, Members DEF NoOffer, WireTypes
    <3> QED  BY <1>3, <3>1 DEF OffersInv
  <2>2. number \in Nat /\ offered.n = 0
    BY <1>2, <1>5 DEF BrowserTypes, NoOffer
  <2>3. BehindAnswers(toHub', offered'.n)
    BY <1>1, <1>3, <2>1, <2>2, NoneBehind DEF OffersInv
  <2> QED  BY <1>1, <1>3, <1>6, <1>9, <2>1, <2>2, <2>3 DEF OffersInv, Transmitting, InOrder
<1>15. faults' = 0 => GensInv'
  BY <1>1, <1>3, <1>4, <1>6 DEF GensInv, Covered, Heard, Told
<1> QED  BY <1>8, <1>10, <1>11, <1>12, <1>13, <1>14, <1>15, TypesInParts DEF Inv

\* The offer is sent; it is the newest, and no offer is behind an answer but it.
LEMMA TransmitOfferStep == ASSUME Inv, TransmitOffer PROVE Inv'
<1> DEFINE m == [op |-> "offer", n |-> offered.n, incl |-> offered.incl]
           p == Settled(Queue, batch, "sent", TRUE, FALSE)
<1>1. /\ up /\ Running("sendOffer", "local") /\ remoteSet' = FALSE /\ toHub' = Append(toHub, m) /\ Finish(p)
      /\ UNCHANGED <<up, sig, offered, number, held, bgen, brgen, bknows, hubVars, toBrowser, bounds>>
  BY DEF TransmitOffer
<1>2. QueueTypes /\ BrowserTypes /\ HubTypes /\ WireTypes
  BY TypesInParts DEF Inv
<1>3. OperationInv /\ HubOffersInv /\ AnswersInv /\ OffersInv /\ (faults = 0 => GensInv) /\ QueueInv
  BY <1>1 DEF Inv
<1>4. /\ chain # <<>> /\ Head(chain).op = "sendOffer" /\ at = "local" /\ sig = "have-local-offer" /\ pumping
      /\ Transmitting /\ offered.n = number /\ number > 0 /\ batch # {} /\ batch \subseteq offered.incl
  BY <1>1, <1>3, RunningFacts DEF OperationInv, Transmitting, QueueInv
<1>5. ~AnswerDue
  BY <1>3, <1>4 DEF AnswersInv
<1>6. m \in ToHub /\ m.op = "offer" /\ m.n = offered.n /\ m.incl = offered.incl
  BY <1>2 DEF ToHub, BrowserTypes, Offers
<1> HIDE DEF m
<1>7. /\ Sound(p) /\ Guarded(p) /\ Kept(p) \subseteq has /\ p.chain = chain /\ ~p.pumping
      /\ (p.closed => closed) /\ p.batch = batch
  <2>1. /\ Sound(Queue) /\ Guarded(Queue) /\ Queue.chain = chain /\ Queue.closed = closed
        /\ Queue.batch = batch /\ Kept(Queue) \subseteq has
    BY QueueIsSound
  <2> QED  BY <2>1, SettledFacts
<1> HIDE DEF p
<1>8. /\ Shrunk(chain, chain') /\ at' = "start" /\ SetQueue(p) /\ ~pumping'
      /\ (pumping' <=> Has(chain', "sendOffer")) /\ AtMostOne(chain', "sendOffer")
  BY <1>1, <1>4, <1>7, FinishingSend
<1>9. /\ QueueTypes' /\ NoUnguardedWait' /\ (batch' # {} => watchdog')
      /\ batch' = batch /\ closed' = p.closed /\ KeptPromises'
  <2>1. Kept(p) \subseteq has'
    BY <1>1, <1>7 DEF hubVars
  <2> QED  BY <1>7, <1>8, <2>1, SetQueueFacts
<1>10. /\ \A op : op # "sendOffer" /\ Has(chain', op) => Has(chain, op)
       /\ AtMostOne(chain', "answer") /\ AtMostOne(chain', "offer") /\ Precedes(chain', "answer", "offer")
  BY <1>1, <1>4, <1>8, Left
<1>11. \A x \in ToSet(toHub) : x.op = "offer" => x.n < offered.n /\ x.n # offered.n
  <2>1. \A x \in ToSet(toHub) : x.op = "offer" => x.n \in Nat
    BY <1>2, MessageTypes, Members DEF WireTypes
  <2>2. \A x \in ToSet(toHub) : x.op = "offer" => x.n < number
    BY <1>3, <1>4 DEF OffersInv
  <2> QED  BY <1>2, <1>4, <2>1, <2>2 DEF BrowserTypes
<1>12. /\ toHub' \in Seq(ToHub) /\ ToSet(toHub') = ToSet(toHub) \union {m}
       /\ Has(toHub', "answer") <=> Has(toHub, "answer")
       /\ AtMostOne(toHub', "answer") /\ InOrder(toHub') /\ BehindAnswers(toHub', offered.n)
  BY <1>1, <1>6, <1>11, Posting
<1> USE DEF hubVars, hubNeg, hubIce, bounds
<1>13. BrowserTypes' /\ HubTypes' /\ WireTypes'
  BY <1>1, <1>2, <1>8, <1>12, ZenonT(30) DEF BrowserTypes, HubTypes, WireTypes, Shrunk
<1>14. QueueInv' /\ CandidatesInTime'
  BY <1>1, <1>3, <1>7, <1>8, <1>9 DEF Inv, QueueInv, CandidatesInTime
<1>15. OperationInv'
  BY <1>1, <1>3, <1>4, <1>8, <1>9 DEF OperationInv
<1>16. HubOffersInv'
  BY <1>1, <1>3, <1>4, <1>10, <1>12 DEF HubOffersInv, Abandoned, Has, AtMostOne
<1>17. AnswersInv'
  <2>1. ~AnswerDue'
    BY <1>1, <1>4, <1>5, <1>10 DEF AnswerDue, Resolving, Has
  <2> QED  BY <1>1, <1>3, <1>10, <2>1 DEF AnswersInv, AnswerDue, Resolving, Has, AtMostOne, Precedes
<1>18. OffersInv'
  <2>1. ~Transmitting'
    BY <1>8 DEF Transmitting
  <2>2. m.n > 0 /\ m.n <= number
    BY <1>2, <1>4, <1>6 DEF BrowserTypes
  <2> QED  BY <1>1, <1>3, <1>4, <1>6, <1>9, <1>12, <2>1, <2>2 DEF OffersInv
<1>19. faults' = 0 => GensInv'
  <2> SUFFICES ASSUME faults = 0 PROVE GensInv'
    BY <1>1
  <2>1. brgen' \in Gens /\ brgen <= brgen' /\ ~Describes(Head(chain))
    BY <1>1, <1>2, <1>4, GenerationOrder DEF BrowserTypes, Describes
  <2>2. /\ Covered(chain', Heard') /\ Covered(toBrowser, Told')
        /\ ready \/ sstep = "answered" =>
             sgen \in Told' \/ \E x \in ToSet(toBrowser) : Describes(x) /\ x.gen >= sgen
    BY <1>1, <1>4, <1>8, <2>1, StillCovered
  <2>3. \A x \in ToSet(chain') : x \in ToSet(chain) \/ x.op = "sendOffer"
    BY <1>8 DEF Shrunk, Sending
  <2> QED  BY <1>1, <1>3, <1>6, <1>8, <1>12, <2>2, <2>3 DEF GensInv, Covered
<1> QED  BY <1>9, <1>13, <1>14, <1>15, <1>16, <1>17, <1>18, <1>19, TypesInParts DEF Inv

\* The offer cannot be made or set: its batch fails, and what waits is offered next.
LEMMA FailOfferStep == ASSUME Inv, FailOffer PROVE Inv'
<1> DEFINE p == Settled(Queue, batch, "failed", TRUE, TRUE)
<1>1. /\ up /\ faults' = faults + 1 /\ offered' = NoOffer /\ Finish(p)
      /\ Running("sendOffer", "created") \/ (Running("sendOffer", "start") /\ sig = "stable")
      /\ UNCHANGED <<up, sig, number, remoteSet, held, bgen, brgen, bknows, hubVars, wires,
                     restarts, bcands, scands, early>>
  BY DEF FailOffer, Fault
<1>2. QueueTypes /\ BrowserTypes /\ HubTypes /\ WireTypes
  BY TypesInParts DEF Inv
<1>3. OperationInv /\ HubOffersInv /\ AnswersInv /\ OffersInv /\ QueueInv
  BY <1>1 DEF Inv
<1>4. chain # <<>> /\ Head(chain).op = "sendOffer" /\ at \in {"start", "created"} /\ sig = "stable"
  BY <1>1, <1>3, RunningFacts DEF OperationInv
<1>5. ~AnswerDue
  BY <1>3, <1>4 DEF AnswersInv
<1>6. /\ Sound(Queue) /\ Guarded(Queue) /\ Queue.closed = closed
      /\ Queue.batch = batch /\ Kept(Queue) \subseteq has /\ Queue.chain = chain
  BY QueueIsSound
<1>7. /\ Sound(p) /\ Guarded(p) /\ Kept(p) = Kept(Queue) /\ (p.closed => closed)
      /\ (p.chain = chain /\ ~p.pumping) \/ (p.chain = Append(chain, Sending) /\ p.pumping /\ p.batch # {})
  BY <1>6, SettledFacts
<1> HIDE DEF p
<1>8. /\ Shrunk(chain, chain') /\ at' = "start" /\ SetQueue(p)
      /\ (pumping' <=> Has(chain', "sendOffer")) /\ AtMostOne(chain', "sendOffer")
  BY <1>1, <1>4, <1>7, FinishingSend
<1>9. /\ QueueTypes' /\ NoUnguardedWait' /\ (batch' # {} => watchdog')
      /\ batch' = p.batch /\ pumping' = p.pumping /\ closed' = p.closed /\ KeptPromises'
  <2>1. Kept(p) \subseteq has'
    BY <1>1, <1>6, <1>7 DEF hubVars
  <2> QED  BY <1>7, <1>8, <2>1, SetQueueFacts
<1>10. /\ \A op : op # "sendOffer" /\ Has(chain', op) => Has(chain, op)
       /\ AtMostOne(chain', "answer") /\ AtMostOne(chain', "offer") /\ Precedes(chain', "answer", "offer")
  BY <1>1, <1>4, <1>8, Left
<1> USE DEF hubVars, hubNeg, hubIce, wires
<1>11. BrowserTypes' /\ HubTypes' /\ WireTypes' /\ CandidatesInTime'
  <2>1. NoOffer \in Offers
    BY DEF NoOffer, Offers
  <2>2. faults' \in Nat /\ faults' # 0
    BY <1>1, <1>2 DEF WireTypes
  <2> QED  BY <1>1, <1>2, <1>8, <2>1, <2>2 DEF BrowserTypes, HubTypes, WireTypes, Shrunk, CandidatesInTime
<1>12. QueueInv'
  BY <1>1, <1>3, <1>7, <1>8, <1>9 DEF QueueInv
<1>13. OperationInv'
  BY <1>1, <1>4, <1>7, <1>8, <1>9 DEF OperationInv
<1>14. HubOffersInv'
  BY <1>1, <1>3, <1>4, <1>10 DEF HubOffersInv, Abandoned, Has, AtMostOne
<1>15. AnswersInv'
  <2>1. ~AnswerDue' /\ (\A x \in ToSet(toBrowser') : x.op # "answer") /\ sstep' # "answering"
    BY <1>1, <1>4, <1>5, <1>10 DEF AnswerDue, Resolving, Has
  <2> QED  BY <1>1, <1>3, <1>10, <2>1 DEF AnswersInv, Has, AtMostOne, Precedes
\* None of the offers under way is the one that failed: the hub ignores them all.
<1>16. OffersInv'
  <2>1. offered'.n = 0 /\ ~Transmitting'
    BY <1>1, <1>8 DEF NoOffer, Transmitting
  <2>2. \A x \in ToSet(toHub) : x.op = "offer" => x.n \in Nat /\ x.n > 0 /\ x.n <= number /\ x.n # 0
    BY <1>2, <1>3, MessageTypes, Members DEF WireTypes, OffersInv
  <2>3. \A x \in ToSet(toHub) : x.op = "offer" => x.n # offered.n
    <3>1. CASE at = "created"
      <4>1. offered.n = number /\ \A x \in ToSet(toHub) : x.op = "offer" => x.n < number
        BY <1>3, <3>1 DEF OperationInv, OffersInv, Transmitting
      <4> QED  BY <1>2, <2>2, <4>1 DEF BrowserTypes
    <3>2. CASE at # "created"
      <4>1. offered.n = 0
        BY <1>3, <1>4, <3>2 DEF OperationInv, NoOffer
      <4> QED  BY <2>2, <4>1
    <3> QED  BY <3>1, <3>2
  <2>4. \A x \in ToSet(toHub) : x.op = "offer" => inFlight
    BY <1>3, <2>3 DEF OffersInv
  <2>5. BehindAnswers(toHub, offered'.n)
    BY <1>3, <2>3, NoneBehind DEF OffersInv
  <2>6. BehindAnswers(toHub', offered'.n) /\ InOrder(toHub')
    BY <1>1, <1>3, <2>5 DEF OffersInv, BehindAnswers, InOrder
  <2> QED  BY <1>1, <2>1, <2>2, <2>4, <2>6 DEF OffersInv
<1>17. faults' # 0
  BY <1>1, <1>2 DEF WireTypes
<1> QED  BY <1>9, <1>11, <1>12, <1>13, <1>14, <1>15, <1>16, <1>17, TypesInParts DEF Inv

\* An offer of the hub that is first in the chain: no answer is due, none of the
\* browser's is under way, and the hub ignores its offers.
LEMMA OfferRunning ==
  ASSUME Inv, up, Has(chain, "offer"), Head(chain).op = "offer", chain # <<>>
  PROVE  ~AnswerDue /\ inFlight /\ ~Has(toHub, "answer") /\ ~Has(toBrowser, "offer")
<1>1. HubOffersInv /\ AnswersInv /\ BrowserTypes
  BY TypesInParts DEF Inv
<1>2. ~Has(chain, "answer")
  <2>1. chain \in Seq(Operations) /\ Precedes(chain, "answer", "offer")
    BY <1>1 DEF BrowserTypes, AnswersInv
  <2>2. ~Has(Tail(chain), "answer") /\ ToSet(chain) = {Head(chain)} \union ToSet(Tail(chain))
    BY <2>1, Taken
  <2> QED  BY <2>2 DEF Has
<1> QED  BY <1>1, <1>2 DEF HubOffersInv, Abandoned, AnswersInv, AnswerDue, Resolving

\* An offer of the hub that can be set: the browser's own is none, or was rolled back.
LEMMA OfferedFacts ==
  ASSUME Inv, up, Offered
  PROVE  /\ chain # <<>> /\ Head(chain).op = "offer" /\ at \in {"start", "rolledBack"}
         /\ Head(chain) \in ToSet(chain) /\ Head(chain) \in Operations /\ Has(chain, "offer")
         /\ sig = "stable" /\ offered = NoOffer
         /\ ~AnswerDue /\ inFlight /\ ~Has(toHub, "answer")
<1>1. PICK step \in {"start", "rolledBack"} : Running("offer", step) /\ (step = "start" => sig # "have-local-offer")
  BY DEF Offered
<1>2. /\ chain # <<>> /\ Head(chain).op = "offer" /\ at = step
      /\ Head(chain) \in ToSet(chain) /\ Head(chain) \in Operations /\ Has(chain, "offer")
  BY <1>1, RunningFacts
<1>3. BrowserTypes /\ OperationInv /\ HubOffersInv
  BY TypesInParts DEF Inv
<1>4. sig = "stable" /\ offered = NoOffer
  BY <1>1, <1>2, <1>3 DEF BrowserTypes, OperationInv, HubOffersInv, Abandoned
<1> QED  BY <1>2, <1>4, OfferRunning

\* The browser's offer is rolled back: the hub will ignore it, and its batch waits again.
LEMMA RollBackStep == ASSUME Inv, RollBack PROVE Inv'
<1> DEFINE p == Rollback(Queue)
<1>1. /\ up /\ Running("offer", "start") /\ sig = "have-local-offer" /\ SetQueue(p)
      /\ sig' = "stable" /\ offered' = NoOffer /\ at' = "rolledBack"
      /\ UNCHANGED <<up, chain, number, remoteSet, held, bgen, brgen, bknows, hubVars, wires, bounds>>
  BY DEF RollBack
<1>2. QueueTypes /\ BrowserTypes /\ HubTypes /\ WireTypes
  BY TypesInParts DEF Inv
<1>3. OperationInv /\ HubOffersInv /\ AnswersInv /\ OffersInv /\ (faults = 0 => GensInv) /\ QueueInv
  BY <1>1 DEF Inv
<1>4. chain # <<>> /\ Head(chain).op = "offer" /\ at = "start" /\ Has(chain, "offer")
  BY <1>1, RunningFacts
<1>5. ~AnswerDue /\ inFlight /\ ~Has(toHub, "answer")
  BY <1>1, <1>4, OfferRunning
<1>6. ~pumping
  BY <1>1, <1>3, <1>4 DEF OperationInv
<1>7. /\ Sound(p) /\ Guarded(p) /\ Kept(p) \subseteq has /\ (p.pumping <=> pumping) /\ (p.closed <=> closed)
  <2>1. /\ Sound(Queue) /\ Guarded(Queue) /\ Queue.pumping = pumping /\ Queue.closed = closed
        /\ Kept(Queue) \subseteq has
    BY QueueIsSound
  <2> QED  BY <2>1, RollbackFacts
<1> HIDE DEF p
<1>8. /\ QueueTypes' /\ NoUnguardedWait' /\ (batch' # {} => watchdog')
      /\ (pumping' <=> pumping) /\ (closed' <=> closed) /\ KeptPromises'
  <2>1. Kept(p) \subseteq has'
    BY <1>1, <1>7 DEF hubVars
  <2> QED  BY <1>1, <1>7, <2>1, SetQueueFacts
<1>9. HubOffersInv' /\ ~AnswerDue' /\ HubTypes'
  BY <1>1, <1>2, <1>3, <1>4, <1>5, Elsewhere DEF Abandoned
<1> USE DEF hubVars, hubNeg, hubIce, wires, bounds
<1>10. BrowserTypes' /\ WireTypes'
  <2>1. NoOffer \in Offers
    BY DEF NoOffer, Offers
  <2> QED  BY <1>1, <1>2, <2>1 DEF BrowserTypes, WireTypes
<1>11. QueueInv' /\ CandidatesInTime'
  BY <1>1, <1>3, <1>8 DEF Inv, QueueInv, CandidatesInTime, Has, AtMostOne
<1>12. OperationInv'
  BY <1>1, <1>4, <1>6, <1>8 DEF OperationInv
<1>13. AnswersInv'
  <2>1. (\A x \in ToSet(toBrowser') : x.op # "answer") /\ sstep' # "answering"
    BY <1>9 DEF AnswerDue, Has
  <2> QED  BY <1>1, <1>3, <1>9, <2>1 DEF AnswersInv, Has, AtMostOne, Precedes
<1>14. OffersInv'
  <2>1. offered'.n = 0 /\ ~Transmitting'
    BY <1>1 DEF NoOffer, Transmitting
  <2>2. BehindAnswers(toHub, offered'.n)
    BY <1>5, NoneBehind
  <2>3. \A x \in ToSet(toHub) : x.op = "offer" => x.n \in Nat /\ x.n > 0 /\ x.n <= number /\ x.n # 0
    BY <1>2, <1>3, MessageTypes, Members DEF WireTypes, OffersInv
  <2>4. BehindAnswers(toHub', offered'.n) /\ InOrder(toHub')
    BY <1>1, <1>3, <2>2 DEF OffersInv, BehindAnswers, InOrder
  <2> QED  BY <1>1, <1>5, <2>1, <2>3, <2>4 DEF OffersInv
<1>15. faults' = 0 => GensInv'
  BY <1>1, <1>3 DEF GensInv, Covered, Heard, Told
<1> QED  BY <1>8, <1>9, <1>10, <1>11, <1>12, <1>13, <1>14, <1>15, TypesInParts DEF Inv

\* The hub's offer is set.
LEMMA AcceptOfferStep == ASSUME Inv, AcceptOffer PROVE Inv'
<1> DEFINE m == Head(chain)
<1>1. /\ up /\ Offered
      /\ sig' = "have-remote-offer" /\ brgen' = m.gen /\ bknows' = m.knows
      /\ remoteSet' = TRUE /\ held' = <<>> /\ early' = (early \/ TooEarly(held, m.gen)) /\ at' = "remote"
      /\ UNCHANGED <<queueVars, up, chain, offered, number, bgen, hubVars, wires,
                     restarts, bcands, scands, faults>>
  BY DEF AcceptOffer
<1>2. QueueTypes /\ BrowserTypes /\ HubTypes /\ WireTypes
  BY TypesInParts DEF Inv
<1>3. OperationInv /\ HubOffersInv /\ AnswersInv /\ OffersInv /\ (faults = 0 => GensInv) /\ QueueInv
  BY <1>1 DEF Inv
<1>4. /\ chain # <<>> /\ m.op = "offer" /\ at \in {"start", "rolledBack"} /\ m \in ToSet(chain)
      /\ m \in Operations /\ Has(chain, "offer")
  BY <1>1, OfferedFacts
<1>5. sig = "stable" /\ offered = NoOffer /\ ~AnswerDue /\ inFlight /\ ~Has(toHub, "answer")
  BY <1>1, OfferedFacts
<1>6. m.gen \in Gens /\ m.knows \in 0 .. MaxChanges
  BY <1>4, MessageTypes
<1>7. HubOffersInv' /\ ~AnswerDue' /\ HubTypes'
  BY <1>1, <1>2, <1>3, <1>4, <1>5, Elsewhere DEF Abandoned
<1> HIDE DEF m
<1> USE DEF queueVars, hubVars, hubNeg, hubIce, wires
<1>8. QueueTypes' /\ BrowserTypes' /\ WireTypes'
  <2>1. <<>> \in Seq(Gens)
    OBVIOUS
  <2>2. early' \in BOOLEAN
    BY <1>1, <1>2 DEF WireTypes, TooEarly
  <2> QED  BY <1>1, <1>2, <1>6, <2>1, <2>2 DEF QueueTypes, BrowserTypes, WireTypes
<1>9. QueueInv' /\ KeptPromises'
  BY <1>1 DEF Inv, QueueInv, NoUnguardedWait, Pending, Queue, Has, AtMostOne, KeptPromises
<1>10. OperationInv'
  BY <1>1, <1>3, <1>4, <1>5 DEF OperationInv, m
<1>11. AnswersInv'
  <2>1. (\A x \in ToSet(toBrowser') : x.op # "answer") /\ sstep' # "answering"
    BY <1>7 DEF AnswerDue, Has
  <2> QED  BY <1>1, <1>3, <1>7, <2>1 DEF AnswersInv, Has, AtMostOne, Precedes
<1>12. OffersInv'
  <2>1. Transmitting' => Transmitting
    BY <1>1 DEF Transmitting
  <2> QED  BY <1>1, <1>3, <2>1 DEF OffersInv, InOrder, BehindAnswers
\* The offer carries the credentials that are current.
<1>13. ASSUME faults = 0
       PROVE  m.gen = sgen /\ brgen <= brgen' /\ ~TooEarly(held, m.gen)
  <2>1. m.gen = sgen /\ brgen <= sgen /\ \A g \in ToSet(held) : g <= brgen
    BY <1>3, <1>4, <1>13 DEF GensInv
  <2>2. brgen \in Gens /\ ToSet(held) \subseteq Gens
    BY <1>2, Members DEF BrowserTypes
  <2>3. \A g \in ToSet(held) : ~(g > m.gen)
    BY <1>6, <2>1, <2>2, GenerationOrder
  <2> QED  BY <1>1, <2>1, <2>3 DEF TooEarly, ToSet
<1>14. CandidatesInTime'
  BY <1>1, <1>13 DEF Inv, CandidatesInTime
<1>15. faults' = 0 => GensInv'
  <2> SUFFICES ASSUME faults = 0 PROVE GensInv'
    BY <1>1
  <2>1. GensInv /\ brgen \in Gens /\ brgen' \in Gens /\ brgen' = sgen /\ brgen <= brgen'
    BY <1>1, <1>2, <1>3, <1>6, <1>13 DEF BrowserTypes
  <2>2. Heard \subseteq Heard' /\ Told \subseteq Told'
    BY <1>1, <2>1, GenerationOrder DEF Heard, Told
  <2>3. Covered(chain', Heard') /\ Covered(toBrowser', Told')
    BY <1>1, <2>1, <2>2 DEF GensInv, Covered
  <2>4. \A x \in ToSet(chain') \union ToSet(toBrowser') : x.op # "answer"
    BY <1>1, <1>4, <1>7 DEF AnswerDue, Resolving, Has, m
  <2>5. sgen <= sgen /\ ToSet(held') = {}
    BY <1>1, <1>2, GenerationOrder DEF HubTypes, ToSet
  <2> QED  BY <1>1, <2>1, <2>2, <2>3, <2>4, <2>5 DEF GensInv
<1> QED  BY <1>7, <1>8, <1>9, <1>10, <1>11, <1>12, <1>14, <1>15, TypesInParts DEF Inv

\* The browser rejects the hub's offer, or fails to roll its own back or to answer:
\* what came before stands, and the queue goes on.
LEMMA RejectOfferStep == ASSUME Inv, RejectOffer PROVE Inv'
<1> DEFINE stable == sig = "stable"
           p == Pump(Queue, TRUE, stable)
<1>1. /\ up /\ faults' = faults + 1 /\ Finish(p)
      /\ \E step \in {"start", "rolledBack", "remote"} : Running("offer", step)
      /\ UNCHANGED <<up, peerVars, hubVars, wires, restarts, bcands, scands, early>>
  BY DEF RejectOffer, Fault
<1>2. QueueTypes /\ BrowserTypes /\ HubTypes /\ WireTypes
  BY TypesInParts DEF Inv
<1>3. OperationInv /\ HubOffersInv /\ AnswersInv /\ OffersInv /\ QueueInv
  BY <1>1 DEF Inv
<1>4. chain # <<>> /\ Head(chain).op = "offer" /\ Has(chain, "offer") /\ at \in {"start", "rolledBack", "remote"}
  BY <1>1, RunningFacts
<1>5. ~AnswerDue /\ inFlight /\ ~Has(toHub, "answer") /\ ~Has(toBrowser, "offer")
  BY <1>1, <1>4, OfferRunning
\* An offer of the browser that stands is one whose batch has been sent.
<1>6. (pumping => batch # {}) /\ (sig = "have-local-offer" => ~pumping)
  BY <1>3, <1>4 DEF OperationInv
<1>7. /\ Sound(Queue) /\ Guarded(Queue) /\ Queue.pumping = pumping /\ Queue.closed = closed
      /\ Queue.batch = batch /\ Kept(Queue) \subseteq has /\ Queue.chain = chain
  BY QueueIsSound
<1>8. Sound(p) /\ Guarded(p) /\ Kept(p) = Kept(Queue) /\ Pumps(p, Queue, TRUE, stable) /\ (p.closed => p.batch = {})
  <2>1. stable \in BOOLEAN
    OBVIOUS
  <2> HIDE DEF stable
  <2>2. Sound(p) /\ Guarded(p) /\ Kept(p) = Kept(Queue) /\ Pumps(p, Queue, TRUE, stable)
    BY <1>7, <2>1, PumpFacts
  <2> HIDE DEF p
  <2> QED  BY <2>2 DEF Sound
<1> HIDE DEF p
<1>9. /\ Renews(p, Queue, TRUE, stable) /\ (p.pumping => p.batch # {})
      /\ stable \/ (p.batch = batch /\ p.pumping = pumping)
  <2>1. ~closed
    BY <1>1, <1>3 DEF QueueInv
  <2> HIDE DEF stable
  <2> QED  BY <1>6, <1>7, <1>8, <2>1 DEF Renews, Pumps
<1>10. /\ Shrunk(chain, chain') /\ at' = "start" /\ SetQueue(p)
       /\ pumping' <=> Has(chain', "sendOffer")
       /\ AtMostOne(chain', "sendOffer")
       /\ closed' => closed
  <2> HIDE DEF stable
  <2> QED  BY <1>1, <1>4, <1>8, <1>9, Finishing
<1>11. /\ QueueTypes' /\ NoUnguardedWait' /\ (batch' # {} => watchdog')
       /\ batch' = p.batch /\ pumping' = p.pumping /\ closed' = p.closed /\ KeptPromises'
  <2>1. Kept(p) \subseteq has'
    BY <1>1, <1>7, <1>8 DEF hubVars
  <2> QED  BY <1>8, <1>10, <2>1, SetQueueFacts
<1>12. /\ \A op : op # "sendOffer" /\ Has(chain', op) => Has(chain, op)
       /\ AtMostOne(chain', "answer") /\ AtMostOne(chain', "offer") /\ Precedes(chain', "answer", "offer")
       /\ ~Has(chain', "offer") /\ ~Has(chain', "answer")
  BY <1>1, <1>4, <1>10, Left
<1> USE DEF peerVars, hubVars, hubNeg, hubIce, wires
<1>13. BrowserTypes' /\ HubTypes' /\ WireTypes' /\ CandidatesInTime'
  <2>1. faults' \in Nat /\ faults' # 0
    BY <1>1, <1>2 DEF WireTypes
  <2> QED  BY <1>1, <1>2, <1>10, <2>1 DEF BrowserTypes, HubTypes, WireTypes, Shrunk, CandidatesInTime
<1>14. QueueInv'
  BY <1>1, <1>3, <1>10, <1>11 DEF QueueInv
<1>15. OperationInv'
  BY <1>1, <1>3, <1>4, <1>6, <1>9, <1>10, <1>11 DEF OperationInv
<1>16. HubOffersInv'
  BY <1>1, <1>3, <1>5, <1>12 DEF HubOffersInv, Has, AtMostOne
<1>17. AnswersInv'
  <2>1. ~AnswerDue' /\ (\A x \in ToSet(toBrowser') : x.op # "answer") /\ sstep' # "answering"
    BY <1>1, <1>5, <1>12 DEF AnswerDue, Resolving, Has
  <2> QED  BY <1>1, <1>3, <1>12, <2>1 DEF AnswersInv, Has, AtMostOne, Precedes
<1>18. OffersInv'
  <2>1. ~Transmitting' /\ ~Transmitting
    BY <1>4, <1>10 DEF Transmitting
  <2>2. \A x \in ToSet(toHub) : x.op = "offer" => x.n \in Nat /\ x.n > 0 /\ x.n <= number
    BY <1>2, <1>3, MessageTypes, Members DEF WireTypes, OffersInv
  <2>3. stable => offered.n = 0
    BY <1>3, <1>4 DEF OperationInv, NoOffer
  <2>4. \A x \in ToSet(toHub) : x.op = "offer" =>
          IF x.n = offered.n THEN x.incl = offered.incl /\ batch' # {} ELSE inFlight
    <3> HIDE DEF stable
    <3> QED  BY <1>3, <1>5, <1>9, <1>11, <2>2, <2>3 DEF OffersInv
  <2> QED  BY <1>1, <1>3, <2>1, <2>2, <2>4 DEF OffersInv, InOrder, BehindAnswers
<1>19. faults' # 0
  BY <1>1, <1>2 DEF WireTypes
<1> QED  BY <1>11, <1>13, <1>14, <1>15, <1>16, <1>17, <1>18, <1>19, TypesInParts DEF Inv

\* The browser answers the hub's offer, which is still the hub's only one.
LEMMA SendAnswerStep == ASSUME Inv, SendAnswer PROVE Inv'
<1> DEFINE m == [op |-> "answer", gen |-> bgen]
           p == Pump(Queue, TRUE, TRUE)
<1>1. /\ up /\ Running("offer", "local") /\ toHub' = Append(toHub, m) /\ Finish(p)
      /\ UNCHANGED <<up, peerVars, hubVars, toBrowser, bounds>>
  BY DEF SendAnswer
<1>2. QueueTypes /\ BrowserTypes /\ HubTypes /\ WireTypes
  BY TypesInParts DEF Inv
<1>3. OperationInv /\ HubOffersInv /\ AnswersInv /\ OffersInv /\ (faults = 0 => GensInv) /\ QueueInv
  BY <1>1 DEF Inv
<1>4. /\ chain # <<>> /\ Head(chain).op = "offer" /\ at = "local" /\ Has(chain, "offer")
      /\ sig = "stable" /\ offered = NoOffer /\ Head(chain) \in ToSet(chain)
  BY <1>1, <1>3, RunningFacts DEF OperationInv
<1>5. ~AnswerDue /\ inFlight /\ ~Has(toHub, "answer") /\ ~Has(toBrowser, "offer")
  BY <1>1, <1>4, OfferRunning
<1>6. m \in ToHub /\ m.op = "answer" /\ m.gen = bgen
  BY <1>2 DEF ToHub, BrowserTypes
<1> HIDE DEF m
<1>7. /\ Sound(Queue) /\ Guarded(Queue) /\ Queue.pumping = pumping /\ Queue.closed = closed
      /\ Queue.batch = batch /\ Kept(Queue) \subseteq has /\ Queue.chain = chain
  BY QueueIsSound
<1>8. Sound(p) /\ Guarded(p) /\ Kept(p) = Kept(Queue) /\ Pumps(p, Queue, TRUE, TRUE) /\ (p.closed => p.batch = {})
  <2>1. Sound(p) /\ Guarded(p) /\ Kept(p) = Kept(Queue) /\ Pumps(p, Queue, TRUE, TRUE)
    BY <1>7, PumpFacts
  <2> HIDE DEF p
  <2> QED  BY <2>1 DEF Sound
<1> HIDE DEF p
<1>9. Renews(p, Queue, TRUE, TRUE) /\ (p.pumping => p.batch # {})
  <2>1. ~closed /\ (pumping => batch # {})
    BY <1>1, <1>3 DEF QueueInv, OperationInv
  <2> QED  BY <1>7, <1>8, <2>1 DEF Renews, Pumps
<1>10. /\ Shrunk(chain, chain') /\ at' = "start" /\ SetQueue(p)
       /\ pumping' <=> Has(chain', "sendOffer")
       /\ AtMostOne(chain', "sendOffer")
       /\ closed' => closed
  BY <1>1, <1>4, <1>8, <1>9, Finishing
<1>11. /\ QueueTypes' /\ NoUnguardedWait' /\ (batch' # {} => watchdog')
       /\ batch' = p.batch /\ pumping' = p.pumping /\ closed' = p.closed /\ KeptPromises'
  <2>1. Kept(p) \subseteq has'
    BY <1>1, <1>7, <1>8 DEF hubVars
  <2> QED  BY <1>8, <1>10, <2>1, SetQueueFacts
<1>12. /\ \A op : op # "sendOffer" /\ Has(chain', op) => Has(chain, op)
       /\ AtMostOne(chain', "answer") /\ AtMostOne(chain', "offer") /\ Precedes(chain', "answer", "offer")
       /\ ~Has(chain', "offer") /\ ~Has(chain', "answer")
  BY <1>1, <1>4, <1>10, Left
<1>13. /\ toHub' \in Seq(ToHub) /\ ToSet(toHub') = ToSet(toHub) \union {m}
       /\ AtMostOne(toHub', "answer") /\ InOrder(toHub') /\ BehindAnswers(toHub', offered.n)
  BY <1>1, <1>5, <1>6, Posting
<1> USE DEF peerVars, hubVars, hubNeg, hubIce, bounds
<1>14. BrowserTypes' /\ HubTypes' /\ WireTypes' /\ CandidatesInTime'
  BY <1>1, <1>2, <1>10, <1>13 DEF BrowserTypes, HubTypes, WireTypes, Shrunk, Inv, CandidatesInTime
<1>15. QueueInv'
  BY <1>1, <1>3, <1>10, <1>11 DEF QueueInv
<1>16. OperationInv'
  BY <1>1, <1>4, <1>9, <1>10, <1>11 DEF OperationInv
<1>17. HubOffersInv'
  BY <1>1, <1>3, <1>4, <1>5, <1>12, <1>13 DEF HubOffersInv, Abandoned, Has, AtMostOne
<1>18. AnswersInv'
  <2>1. ~AnswerDue' /\ (\A x \in ToSet(toBrowser') : x.op # "answer") /\ sstep' # "answering"
    BY <1>1, <1>5, <1>12 DEF AnswerDue, Resolving, Has
  <2> QED  BY <1>1, <1>3, <1>12, <2>1 DEF AnswersInv, AnswerDue, Resolving, Has, AtMostOne, Precedes
<1>19. OffersInv'
  <2>1. ~Transmitting'
    BY <1>10 DEF Transmitting
  <2>2. \A x \in ToSet(toHub) : x.op = "offer" => x.n \in Nat /\ x.n > 0 /\ x.n <= number /\ x.n # offered.n
    <3>1. offered.n = 0
      BY <1>4 DEF NoOffer
    <3> QED  BY <1>2, <1>3, <3>1, MessageTypes, Members DEF WireTypes, OffersInv
  <2> QED  BY <1>1, <1>3, <1>5, <1>6, <1>13, <2>1, <2>2 DEF OffersInv
<1>20. faults' = 0 => GensInv'
  <2> SUFFICES ASSUME faults = 0 PROVE GensInv'
    BY <1>1
  <2>1. GensInv /\ brgen = sgen /\ bgen = sgen /\ Head(chain).gen = sgen
    BY <1>3, <1>4 DEF GensInv
  <2>2. brgen' \in Gens /\ brgen <= brgen' /\ Head(chain).gen <= brgen'
    BY <1>1, <1>2, <2>1, GenerationOrder DEF BrowserTypes
  <2>3. /\ Covered(chain', Heard') /\ Covered(toBrowser, Told')
        /\ ready \/ sstep = "answered" =>
             sgen \in Told' \/ \E x \in ToSet(toBrowser) : Describes(x) /\ x.gen >= sgen
    BY <1>1, <1>4, <1>10, <2>2, StillCovered
  <2>4. \A x \in ToSet(chain') : x \in ToSet(chain) \/ x.op = "sendOffer"
    BY <1>10 DEF Shrunk, Sending
  <2> QED  BY <1>1, <1>6, <1>10, <1>13, <2>1, <2>3, <2>4 DEF GensInv, Covered
<1> QED  BY <1>11, <1>14, <1>15, <1>16, <1>17, <1>18, <1>19, <1>20, TypesInParts DEF Inv

\* A candidate of the hub is added or held back by the browser.
LEMMA TakeCandidateStep == ASSUME Inv, TakeCandidate PROVE Inv'
<1> DEFINE m == Head(chain)
<1>1. /\ up /\ Running("candidate", "start") /\ Finish(Queue)
      /\ \/ remoteSet /\ early' = (early \/ m.gen > brgen) /\ held' = held
         \/ ~remoteSet /\ held' = Append(held, m.gen) /\ early' = early
      /\ UNCHANGED <<up, sig, offered, number, remoteSet, bgen, brgen, bknows, hubVars, wires,
                     restarts, bcands, scands, faults>>
  BY DEF TakeCandidate
<1>2. QueueTypes /\ BrowserTypes /\ HubTypes /\ WireTypes
  BY TypesInParts DEF Inv
<1>3. OperationInv /\ HubOffersInv /\ AnswersInv /\ OffersInv /\ (faults = 0 => GensInv) /\ QueueInv
  BY <1>1 DEF Inv
<1>4. /\ chain # <<>> /\ m.op = "candidate" /\ at = "start" /\ m \in Operations
  BY <1>1, RunningFacts
<1>5. m.gen \in Gens
  BY <1>4, MessageTypes
<1>6. /\ Sound(Queue) /\ Guarded(Queue) /\ Queue.pumping = pumping /\ Queue.closed = closed
      /\ Queue.batch = batch /\ Kept(Queue) \subseteq has /\ Queue.chain = chain
      /\ Queue.watchdog = watchdog /\ Queue.req = req
  BY QueueIsSound
<1>7. Shrunk(chain, chain') /\ at' = "start" /\ SetQueue(Queue)
      /\ (pumping' <=> Has(chain', "sendOffer")) /\ AtMostOne(chain', "sendOffer")
  BY <1>1, <1>4, <1>6, QueueRenews, Finishing
<1>8. /\ QueueTypes' /\ NoUnguardedWait' /\ (batch' # {} => watchdog')
      /\ batch' = batch /\ pumping' = pumping /\ closed' = closed /\ KeptPromises'
  <2>1. Kept(Queue) \subseteq has'
    BY <1>1, <1>6 DEF hubVars
  <2> QED  BY <1>6, <1>7, <2>1, SetQueueFacts
<1>9. /\ \A op : op # "sendOffer" /\ Has(chain', op) => Has(chain, op)
      /\ AtMostOne(chain', "answer") /\ AtMostOne(chain', "offer") /\ Precedes(chain', "answer", "offer")
  BY <1>1, <1>4, <1>7, Left
<1> HIDE DEF m
<1> USE DEF hubVars, hubNeg, hubIce, wires
<1>10. held' \in Seq(Gens) /\ ToSet(held') \subseteq ToSet(held) \union {m.gen}
  <2>1. held \in Seq(Gens)
    BY <1>2 DEF BrowserTypes
  <2>2. ToSet(Append(held, m.gen)) = ToSet(held) \union {m.gen} /\ Append(held, m.gen) \in Seq(Gens)
    BY <1>5, <2>1, Appended
  <2> QED  BY <1>1, <2>1, <2>2
<1>11. BrowserTypes' /\ HubTypes' /\ WireTypes'
  <2>1. early' \in BOOLEAN
    BY <1>1, <1>2 DEF WireTypes
  <2> QED  BY <1>1, <1>2, <1>7, <1>10, <2>1 DEF BrowserTypes, HubTypes, WireTypes, Shrunk
<1>12. QueueInv'
  BY <1>1, <1>3, <1>7, <1>8 DEF QueueInv
<1>13. OperationInv'
  BY <1>1, <1>3, <1>4, <1>7, <1>8 DEF OperationInv
<1>14. HubOffersInv'
  BY <1>1, <1>3, <1>4, <1>9 DEF HubOffersInv, Abandoned, Has, AtMostOne
<1>15. AnswersInv'
  <2>1. AnswerDue' => AnswerDue
    BY <1>1, <1>4, <1>9 DEF AnswerDue, Resolving, Has
  <2>2. Has(chain', "answer") => Has(chain, "answer")
    BY <1>9
  <2>3. Has(chain', "offer") => Has(chain, "offer")
    BY <1>9
  <2>4. /\ Has(toBrowser', "answer") <=> Has(toBrowser, "answer")
        /\ AtMostOne(toBrowser, "answer") => AtMostOne(toBrowser', "answer")
        /\ Precedes(toBrowser, "answer", "offer") => Precedes(toBrowser', "answer", "offer")
    BY <1>1 DEF Has, AtMostOne, Precedes
  <2> QED  BY <1>1, <1>3, <1>8, <1>9, <2>1, <2>2, <2>3, <2>4 DEF AnswersInv
<1>16. OffersInv'
  <2>1. Transmitting' => Transmitting
    BY <1>7 DEF Transmitting
  <2> QED  BY <1>1, <1>3, <1>8, <2>1 DEF OffersInv, InOrder, BehindAnswers
\* The candidate is covered by a description that was taken.
<1>17. faults = 0 => m.gen <= brgen
  <2>1. faults = 0 => Covered(chain, Heard)
    BY <1>3 DEF GensInv
  <2> QED  BY <1>4, <1>7, <2>1 DEF Shrunk, Heard, m
<1>18. CandidatesInTime'
  <2>1. faults = 0 => ~(m.gen > brgen)
    BY <1>2, <1>5, <1>17, GenerationOrder DEF BrowserTypes
  <2> QED  BY <1>1, <2>1 DEF Inv, CandidatesInTime
<1>19. faults' = 0 => GensInv'
  <2> SUFFICES ASSUME faults = 0 PROVE GensInv'
    BY <1>1
  <2>1. brgen' \in Gens /\ brgen <= brgen' /\ ~Describes(Head(chain))
    BY <1>1, <1>2, <1>4, GenerationOrder DEF BrowserTypes, Describes, m
  <2>2. /\ Covered(chain', Heard') /\ Covered(toBrowser, Told')
        /\ ready \/ sstep = "answered" =>
             sgen \in Told' \/ \E x \in ToSet(toBrowser) : Describes(x) /\ x.gen >= sgen
    BY <1>1, <1>4, <1>7, <2>1, StillCovered
  <2>3. \A x \in ToSet(chain') : x \in ToSet(chain) \/ x.op = "sendOffer"
    BY <1>7 DEF Shrunk, Sending
  <2> QED  BY <1>1, <1>3, <1>7, <1>10, <1>17, <2>2, <2>3 DEF GensInv, Covered
<1> QED  BY <1>8, <1>11, <1>12, <1>13, <1>14, <1>15, <1>16, <1>18, <1>19, TypesInParts DEF Inv

\* An answer of the hub that is about to be set: it is the one that is awaited.
LEMMA AnswerRunning ==
  ASSUME Inv, up, Running("answer", "start")
  PROVE  /\ chain # <<>> /\ Head(chain).op = "answer" /\ at = "start"
         /\ Head(chain) \in Operations /\ Head(chain) \in ToSet(chain) /\ Has(chain, "answer")
         /\ sig = "have-local-offer" /\ ~pumping /\ batch # {} /\ batch \subseteq has
         /\ ~Has(toBrowser, "answer") /\ sstep # "answering"
         /\ \A x \in ToSet(toHub) : x.op = "offer" => x.n # offered.n
<1>1. /\ chain # <<>> /\ Head(chain).op = "answer" /\ at = "start"
      /\ Head(chain) \in Operations /\ Head(chain) \in ToSet(chain) /\ Has(chain, "answer")
  BY RunningFacts
<1>2. OperationInv /\ AnswersInv /\ AnswerDue
  BY <1>1 DEF Inv, AnswerDue, Resolving
<1>3. sig = "have-local-offer" /\ offered.incl \subseteq has
  BY <1>2 DEF AnswersInv
<1>4. batch \subseteq offered.incl
  BY <1>2, <1>3 DEF OperationInv
<1> QED  BY <1>1, <1>2, <1>3, <1>4 DEF AnswersInv

\* The answer that is awaited is set; it is never a stray one.
LEMMA TakeAnswerStep == ASSUME Inv, TakeAnswer PROVE Inv'
<1> DEFINE m == Head(chain)
<1>1. up /\ Running("answer", "start")
  BY DEF TakeAnswer
<1>2. QueueTypes /\ BrowserTypes /\ HubTypes /\ WireTypes
  BY TypesInParts DEF Inv
<1>3. OperationInv /\ HubOffersInv /\ AnswersInv /\ OffersInv /\ (faults = 0 => GensInv) /\ QueueInv
  BY <1>1 DEF Inv
<1>4. /\ chain # <<>> /\ m.op = "answer" /\ at = "start" /\ m \in Operations /\ m \in ToSet(chain)
      /\ Has(chain, "answer")
  BY <1>1, AnswerRunning
<1>5. /\ sig = "have-local-offer" /\ ~pumping /\ batch # {} /\ batch \subseteq has
      /\ ~Has(toBrowser, "answer") /\ sstep # "answering"
      /\ \A x \in ToSet(toHub) : x.op = "offer" => x.n # offered.n
  BY <1>1, AnswerRunning
<1>6. /\ sig' = "stable" /\ offered' = NoOffer /\ remoteSet' = TRUE /\ brgen' = m.gen
      /\ held' = <<>> /\ early' = (early \/ TooEarly(held, m.gen)) /\ at' = "remote"
      /\ UNCHANGED <<queueVars, up, chain, number, bgen, bknows, hubVars, wires,
                     restarts, bcands, scands, faults>>
  BY <1>5 DEF TakeAnswer
<1>7. m.gen \in Gens
  BY <1>4, MessageTypes
<1>8. HubOffersInv' /\ HubTypes'
  BY <1>2, <1>3, <1>6, Elsewhere DEF Abandoned
<1>9. \A x \in ToSet(chain) : x.op = "answer" => x = m
  <2>1. chain \in Seq(Operations) /\ AtMostOne(chain, "answer")
    BY <1>2, <1>3 DEF BrowserTypes, AnswersInv
  <2>2. ToSet(chain) = {m} \union ToSet(Tail(chain)) /\ ~Has(Tail(chain), "answer")
    BY <1>4, <2>1, Taken
  <2> QED  BY <2>2 DEF Has
<1> HIDE DEF m
<1> USE DEF queueVars, hubVars, hubNeg, hubIce, wires
<1>10. QueueTypes' /\ BrowserTypes' /\ WireTypes'
  <2>1. NoOffer \in Offers /\ held' \in Seq(Gens)
    BY <1>6 DEF NoOffer, Offers
  <2>2. early' \in BOOLEAN
    BY <1>2, <1>6 DEF WireTypes, TooEarly
  <2> QED  BY <1>2, <1>6, <1>7, <2>1, <2>2 DEF QueueTypes, BrowserTypes, WireTypes
<1>11. QueueInv' /\ KeptPromises'
  BY <1>6 DEF Inv, QueueInv, NoUnguardedWait, Pending, Queue, Has, AtMostOne, KeptPromises
<1>12. OperationInv'
  BY <1>4, <1>5, <1>6 DEF OperationInv, m
<1>13. AnswersInv'
  <2>1. ~AnswerDue'
    BY <1>4, <1>5, <1>6 DEF AnswerDue, Resolving, Has, m
  <2>2. (\A x \in ToSet(toBrowser') : x.op # "answer") /\ sstep' # "answering"
    BY <1>5, <1>6 DEF Has
  <2> QED  BY <1>3, <1>5, <1>6, <2>1, <2>2 DEF AnswersInv, Has, AtMostOne, Precedes
<1>14. OffersInv'
  <2>1. offered'.n = 0 /\ ~Transmitting'
    BY <1>6 DEF NoOffer, Transmitting
  <2>2. BehindAnswers(toHub, offered'.n)
    BY <1>3, <1>5, NoneBehind DEF OffersInv
  <2>3. \A x \in ToSet(toHub) : x.op = "offer" => x.n \in Nat /\ x.n > 0 /\ x.n <= number /\ x.n # 0 /\ inFlight
    BY <1>2, <1>3, <1>5, MessageTypes, Members DEF WireTypes, OffersInv
  <2>4. BehindAnswers(toHub', offered'.n) /\ InOrder(toHub')
    BY <1>3, <1>6, <2>2 DEF OffersInv, BehindAnswers, InOrder
  <2> QED  BY <1>6, <2>1, <2>3, <2>4 DEF OffersInv
\* The answer carries credentials at least as new as those the browser has.
<1>15. ASSUME faults = 0
       PROVE  brgen <= m.gen /\ m.gen <= sgen /\ ~TooEarly(held, m.gen)
  <2>1. brgen <= m.gen /\ m.gen <= sgen /\ \A g \in ToSet(held) : g <= brgen
    BY <1>3, <1>4, <1>15 DEF GensInv
  <2>2. brgen \in Gens /\ ToSet(held) \subseteq Gens
    BY <1>2, Members DEF BrowserTypes
  <2>3. \A g \in ToSet(held) : ~(g > m.gen)
    BY <1>7, <2>1, <2>2, GenerationOrder
  <2> QED  BY <2>1, <2>3 DEF TooEarly, ToSet
<1>16. CandidatesInTime'
  BY <1>6, <1>15 DEF Inv, CandidatesInTime
<1>17. faults' = 0 => GensInv'
  <2> SUFFICES ASSUME faults = 0 PROVE GensInv'
    BY <1>6
  <2>1. GensInv /\ brgen \in Gens /\ brgen' \in Gens /\ brgen' = m.gen /\ brgen <= brgen' /\ brgen' <= sgen
        /\ m.gen <= m.gen
    BY <1>2, <1>3, <1>6, <1>7, <1>15, GenerationOrder DEF BrowserTypes
  <2>2. Heard \subseteq Heard' /\ Told \subseteq Told'
    BY <1>6, <2>1, GenerationOrder DEF Heard, Told
  <2>3. Covered(chain', Heard') /\ Covered(toBrowser', Told')
    BY <1>6, <2>1, <2>2 DEF GensInv, Covered
  <2>4. \A x \in ToSet(chain') \union ToSet(toBrowser') : x.op = "answer" => x = m
    BY <1>5, <1>6, <1>9 DEF Has
  <2>5. ToSet(held') = {}
    BY <1>6 DEF ToSet
  <2> QED  BY <1>6, <2>1, <2>2, <2>3, <2>4, <2>5 DEF GensInv
<1> QED  BY <1>8, <1>10, <1>11, <1>12, <1>13, <1>14, <1>16, <1>17, TypesInParts DEF Inv

\* The candidates were added: the batch, which the hub has applied, has its answer.
LEMMA ResolveAnswerStep == ASSUME Inv, ResolveAnswer PROVE Inv'
<1> DEFINE p == Answered(Queue, TRUE)
<1>1. up /\ Running("answer", "remote") /\ Finish(p) /\ UNCHANGED <<up, peerVars, hubVars, wires, bounds>>
  BY DEF ResolveAnswer
<1>2. QueueTypes /\ BrowserTypes /\ HubTypes /\ WireTypes
  BY TypesInParts DEF Inv
<1>3. OperationInv /\ HubOffersInv /\ AnswersInv /\ OffersInv /\ (faults = 0 => GensInv) /\ QueueInv
  BY <1>1 DEF Inv
<1>4. /\ chain # <<>> /\ Head(chain).op = "answer" /\ at = "remote" /\ sig = "stable"
      /\ Head(chain).gen = brgen /\ ~pumping /\ batch \subseteq has /\ offered = NoOffer
  BY <1>1, <1>3, RunningFacts DEF OperationInv
<1>5. ~AnswerDue
  BY <1>3, <1>4 DEF AnswersInv
<1>6. /\ Sound(Queue) /\ Guarded(Queue) /\ Queue.pumping = pumping /\ Queue.closed = closed
      /\ Queue.batch = batch /\ Kept(Queue) \subseteq has /\ Queue.chain = chain
  BY QueueIsSound
<1>7. /\ Sound(p) /\ Guarded(p) /\ Kept(p) \subseteq Kept(Queue) \union Queue.batch
      /\ Renews(p, Queue, TRUE, TRUE)
  <2> HIDE DEF p
  <2>1. \A q : q = Queue => Sound(q)
    BY <1>6
  <2> QED  BY <2>1, AnsweredFacts DEF p
<1> HIDE DEF p
<1>8. /\ Shrunk(chain, chain') /\ at' = "start" /\ SetQueue(p)
      /\ pumping' <=> Has(chain', "sendOffer")
      /\ AtMostOne(chain', "sendOffer")
      /\ pumping' = pumping \/ (pumping' /\ batch' # {} /\ TRUE /\ TRUE)
      /\ closed' => closed
  BY <1>1, <1>4, <1>7, Finishing
<1>9. /\ QueueTypes' /\ NoUnguardedWait' /\ (batch' # {} => watchdog') /\ KeptPromises'
  <2>1. Kept(p) \subseteq has'
    BY <1>1, <1>4, <1>6, <1>7 DEF hubVars
  <2> QED  BY <1>7, <1>8, <2>1, SetQueueFacts
<1>10. /\ \A op : op # "sendOffer" /\ Has(chain', op) => Has(chain, op)
       /\ AtMostOne(chain', "answer") /\ AtMostOne(chain', "offer") /\ Precedes(chain', "answer", "offer")
       /\ ~Has(chain', "answer")
  BY <1>1, <1>4, <1>8, Left
<1> USE DEF peerVars, hubVars, hubNeg, hubIce, wires, bounds
<1>11. BrowserTypes' /\ HubTypes' /\ WireTypes' /\ CandidatesInTime'
  BY <1>1, <1>2, <1>8 DEF BrowserTypes, HubTypes, WireTypes, Shrunk, Inv, CandidatesInTime
<1>12. QueueInv'
  BY <1>1, <1>3, <1>8, <1>9 DEF QueueInv
<1>13. OperationInv'
  BY <1>1, <1>4, <1>8, <1>9 DEF OperationInv
<1>14. HubOffersInv'
  BY <1>1, <1>3, <1>4, <1>10 DEF HubOffersInv, Abandoned, Has, AtMostOne
<1>15. AnswersInv'
  <2>1. ~AnswerDue' /\ (\A x \in ToSet(toBrowser') : x.op # "answer") /\ sstep' # "answering"
    BY <1>1, <1>5, <1>10 DEF AnswerDue, Has
  <2> QED  BY <1>1, <1>3, <1>10, <2>1 DEF AnswersInv, Has, AtMostOne, Precedes
<1>16. OffersInv'
  <2>1. offered'.n = 0 /\ offered.n = 0 /\ ~Transmitting'
    BY <1>1, <1>4, <1>8 DEF NoOffer, Transmitting
  <2>2. \A x \in ToSet(toHub) : x.op = "offer" => x.n \in Nat /\ x.n > 0 /\ x.n <= number /\ x.n # 0 /\ inFlight
    <3>1. \A x \in ToSet(toHub) : x.op = "offer" => x.n \in Nat /\ x.n > 0 /\ x.n <= number /\ x.n # 0
      BY <1>2, <1>3, MessageTypes, Members DEF WireTypes, OffersInv
    <3> QED  BY <1>3, <2>1, <3>1 DEF OffersInv
  <2> QED  BY <1>1, <1>3, <2>1, <2>2 DEF OffersInv, InOrder, BehindAnswers
<1>17. faults' = 0 => GensInv'
  <2> SUFFICES ASSUME faults = 0 PROVE GensInv'
    BY <1>1
  <2>1. GensInv /\ brgen' \in Gens /\ brgen <= brgen' /\ Head(chain).gen <= brgen'
    BY <1>1, <1>2, <1>3, <1>4, GenerationOrder DEF BrowserTypes
  <2>2. /\ Covered(chain', Heard') /\ Covered(toBrowser, Told')
        /\ ready \/ sstep = "answered" =>
             sgen \in Told' \/ \E x \in ToSet(toBrowser) : Describes(x) /\ x.gen >= sgen
    BY <1>1, <1>4, <1>8, <2>1, StillCovered
  <2>3. \A x \in ToSet(chain') : x \in ToSet(chain) \/ x.op = "sendOffer"
    BY <1>8 DEF Shrunk, Sending
  <2> QED  BY <1>1, <1>8, <2>1, <2>2, <2>3 DEF GensInv, Covered
<1> QED  BY <1>9, <1>11, <1>12, <1>13, <1>14, <1>15, <1>16, <1>17, TypesInParts DEF Inv

\* The browser rejects the answer: its batch fails, and its offer stands without one.
LEMMA RejectAnswerStep == ASSUME Inv, RejectAnswer PROVE Inv'
<1> DEFINE p == Failed(Queue, TRUE, FALSE)
<1>1. /\ up /\ Running("answer", "start") /\ faults' = faults + 1 /\ Finish(p)
      /\ UNCHANGED <<up, peerVars, hubVars, wires, restarts, bcands, scands, early>>
  BY DEF RejectAnswer, Fault
<1>2. QueueTypes /\ BrowserTypes /\ HubTypes /\ WireTypes
  BY TypesInParts DEF Inv
<1>3. OperationInv /\ HubOffersInv /\ AnswersInv /\ OffersInv /\ QueueInv
  BY <1>1 DEF Inv
<1>4. /\ chain # <<>> /\ Head(chain).op = "answer" /\ at = "start" /\ Has(chain, "answer")
      /\ sig = "have-local-offer" /\ ~pumping
      /\ ~Has(toBrowser, "answer") /\ sstep # "answering"
      /\ \A x \in ToSet(toHub) : x.op = "offer" => x.n # offered.n
  BY <1>1, AnswerRunning
<1>5. /\ Sound(Queue) /\ Guarded(Queue) /\ Queue.pumping = pumping /\ Queue.closed = closed
      /\ Queue.batch = batch /\ Kept(Queue) \subseteq has /\ Queue.chain = chain
  BY QueueIsSound
<1>6. Sound(p) /\ Guarded(p) /\ Kept(p) = Kept(Queue) /\ Renews(p, Queue, TRUE, FALSE)
  BY <1>5, FailedFacts
<1> HIDE DEF p
<1>7. p.pumping = pumping /\ p.batch \subseteq batch
  BY <1>5, <1>6 DEF Renews
<1>8. /\ Shrunk(chain, chain') /\ at' = "start" /\ SetQueue(p)
      /\ pumping' <=> Has(chain', "sendOffer")
      /\ AtMostOne(chain', "sendOffer")
      /\ closed' => closed
  BY <1>1, <1>4, <1>6, Finishing
<1>9. /\ QueueTypes' /\ NoUnguardedWait' /\ (batch' # {} => watchdog')
      /\ batch' = p.batch /\ pumping' = p.pumping /\ closed' = p.closed /\ KeptPromises'
  <2>1. Kept(p) \subseteq has'
    BY <1>1, <1>5, <1>6 DEF hubVars
  <2> QED  BY <1>6, <1>8, <2>1, SetQueueFacts
<1>10. /\ \A op : op # "sendOffer" /\ Has(chain', op) => Has(chain, op)
       /\ AtMostOne(chain', "answer") /\ AtMostOne(chain', "offer") /\ Precedes(chain', "answer", "offer")
       /\ ~Has(chain', "answer")
  BY <1>1, <1>4, <1>8, Left
<1> USE DEF peerVars, hubVars, hubNeg, hubIce, wires
<1>11. BrowserTypes' /\ HubTypes' /\ WireTypes' /\ CandidatesInTime'
  <2>1. faults' \in Nat /\ faults' # 0
    BY <1>1, <1>2 DEF WireTypes
  <2> QED  BY <1>1, <1>2, <1>8, <2>1 DEF BrowserTypes, HubTypes, WireTypes, Shrunk, CandidatesInTime
<1>12. QueueInv'
  BY <1>1, <1>3, <1>8, <1>9 DEF QueueInv
<1>13. OperationInv'
  BY <1>1, <1>3, <1>4, <1>7, <1>8, <1>9 DEF OperationInv
<1>14. HubOffersInv'
  BY <1>1, <1>3, <1>4, <1>10 DEF HubOffersInv, Abandoned, Has, AtMostOne
<1>15. AnswersInv'
  <2>1. ~AnswerDue' /\ (\A x \in ToSet(toBrowser') : x.op # "answer") /\ sstep' # "answering"
    BY <1>1, <1>4, <1>10 DEF AnswerDue, Has
  <2> QED  BY <1>1, <1>3, <1>10, <2>1 DEF AnswersInv, Has, AtMostOne, Precedes
<1>16. OffersInv'
  <2>1. ~Transmitting'
    BY <1>8 DEF Transmitting
  <2> QED  BY <1>1, <1>3, <1>4, <2>1 DEF OffersInv, InOrder, BehindAnswers
<1>17. faults' # 0
  BY <1>1, <1>2 DEF WireTypes
<1> QED  BY <1>9, <1>11, <1>12, <1>13, <1>14, <1>15, <1>16, <1>17, TypesInParts DEF Inv

\* A message that is taken from the connection is the last operation of the chain.
LEMMA ReceiveStep == ASSUME Inv, Receive PROVE Inv'
<1> DEFINE m == Head(toBrowser)
<1>1. /\ up /\ toBrowser # <<>> /\ toBrowser' = Tail(toBrowser)
      /\ chain' = IF m.op = "error" THEN chain ELSE Append(chain, m)
      /\ UNCHANGED <<queueVars, up, at, peerVars, hubVars, toHub, bounds>>
  BY DEF Receive
<1>2. QueueTypes /\ BrowserTypes /\ HubTypes /\ WireTypes
  BY TypesInParts DEF Inv
<1>3. OperationInv /\ HubOffersInv /\ AnswersInv /\ OffersInv /\ (faults = 0 => GensInv) /\ QueueInv
  BY <1>1 DEF Inv
<1>4. chain \in Seq(Operations) /\ toBrowser \in Seq(ToBrowser)
  BY <1>2 DEF BrowserTypes, WireTypes
<1>5. /\ toBrowser' \in Seq(ToBrowser) /\ m \in ToBrowser /\ ToSet(toBrowser) = {m} \union ToSet(toBrowser')
      /\ \A op : AtMostOne(toBrowser, op) => AtMostOne(toBrowser', op) /\ (m.op = op => ~Has(toBrowser', op))
      /\ Precedes(toBrowser, "answer", "offer")
           => Precedes(toBrowser', "answer", "offer") /\ (m.op = "offer" => ~Has(toBrowser', "answer"))
      /\ \A known : Covered(toBrowser, known) =>
           /\ m.op = "candidate" => m.gen \in known
           /\ \A more :
                (\A x \in ToSet(toBrowser') : (x.op = "candidate" /\ (x.gen \in known \/ (Describes(m) /\ m.gen >= x.gen)))
                                               => x.gen \in more)
                => Covered(toBrowser', more)
  <2>1. "answer" # "offer"
    OBVIOUS
  <2> HIDE DEF m
  <2> QED  BY <1>1, <1>4, <2>1, Taken DEF m
<1>6. /\ m.op \in {"offer", "answer", "candidate", "error"} /\ (m.op # "error" => m \in Operations)
      /\ m.op # "sendOffer"
  BY <1>5, MessageTypes DEF ToBrowser, HubMessages
<1> HIDE DEF m
\* The chain and what is taken, in one.
<1>7. /\ chain' \in Seq(Operations) /\ ToSet(chain) \subseteq ToSet(chain')
      /\ ToSet(chain') \subseteq ToSet(chain) \union {m} /\ (m.op # "error" => m \in ToSet(chain'))
      /\ chain # <<>> => chain' # <<>> /\ Head(chain') = Head(chain)
      /\ \A op : op # "error" => (AtMostOne(chain, op) /\ (m.op # op \/ ~Has(chain, op)) => AtMostOne(chain', op))
      /\ Precedes(chain, "answer", "offer") /\ (m.op # "answer" \/ ~Has(chain, "offer"))
           => Precedes(chain', "answer", "offer")
      /\ \A known : /\ Covered(chain, known)
                    /\ m.op = "candidate" => m.gen \in known \/ \E d \in ToSet(chain) : Describes(d) /\ d.gen >= m.gen
           => Covered(chain', known)
  <2>1. CASE m.op = "error"
    <3>1. chain' = chain
      BY <1>1, <2>1
    <3> QED  BY <1>4, <2>1, <3>1
  <2>2. CASE m.op # "error"
    <3>1. chain' = Append(chain, m) /\ m \in Operations
      BY <1>1, <1>6, <2>2
    <3>2. "answer" # "offer"
      OBVIOUS
    <3> QED  BY <1>4, <3>1, <3>2, Appended
  <2> QED  BY <2>1, <2>2
<1>8. \A op : /\ Has(chain', op) => Has(chain, op) \/ m.op = op
              /\ Has(chain, op) => Has(chain', op)
              /\ Has(toBrowser, op) <=> m.op = op \/ Has(toBrowser', op)
  BY <1>5, <1>7 DEF Has
<1> USE DEF queueVars, peerVars, hubVars, hubNeg, hubIce, bounds
<1>9. QueueTypes' /\ BrowserTypes' /\ HubTypes' /\ WireTypes'
  BY <1>1, <1>2, <1>5, <1>7 DEF QueueTypes, BrowserTypes, HubTypes, WireTypes
<1>10. QueueInv'
  <2>1. (Has(chain', "sendOffer") <=> Has(chain, "sendOffer")) /\ AtMostOne(chain', "sendOffer")
    BY <1>3, <1>6, <1>7, <1>8 DEF QueueInv
  <2>2. NoUnguardedWait'
    BY <1>1, <1>3 DEF QueueInv, NoUnguardedWait, Pending, Queue
  <2> QED  BY <1>1, <1>3, <2>1, <2>2 DEF QueueInv
<1>11. OperationInv'
  BY <1>1, <1>3, <1>7 DEF OperationInv
<1>12. HubOffersInv'
  <2>0. /\ AtMostOne(chain, "offer") /\ AtMostOne(toBrowser, "offer") /\ AtMostOne(toHub, "answer")
        /\ m.op = "offer" => ~Has(chain, "offer")
    BY <1>3, <1>8 DEF HubOffersInv, Abandoned
  <2>1. AtMostOne(chain', "offer") /\ AtMostOne(toBrowser', "offer") /\ AtMostOne(toHub', "answer")
    <3>1. AtMostOne(toHub', "answer")
      BY <1>1, <2>0 DEF AtMostOne
    <3> QED  BY <1>5, <1>7, <2>0, <3>1
  <2>2. Has(toHub', "answer") <=> Has(toHub, "answer")
    BY <1>1 DEF Has
  <2>3. m.op = "offer" => ~Has(toBrowser', "offer")
    BY <1>3, <1>5 DEF HubOffersInv, Abandoned
  <2> QED  BY <1>1, <1>3, <1>8, <2>1, <2>2, <2>3 DEF HubOffersInv, Abandoned
<1>13. AnswersInv'
  <2>1. AnswerDue' => AnswerDue
    <3>1. Has(chain, "answer") => chain # <<>>
      BY <1>4, Members DEF Has
    <3>2. Has(chain, "answer") => (Resolving' <=> Resolving)
      BY <1>1, <1>7, <3>1 DEF Resolving
    <3> QED  BY <1>1, <1>8, <3>2 DEF AnswerDue
  <2>2. AtMostOne(chain', "answer") /\ AtMostOne(toBrowser', "answer")
    BY <1>3, <1>5, <1>7, <1>8 DEF AnswersInv
  <2>3. m.op = "answer" => ~Has(toBrowser', "answer") /\ ~Has(chain, "offer")
    BY <1>3, <1>5, <1>8 DEF AnswersInv
  <2>4. Precedes(chain', "answer", "offer") /\ Precedes(toBrowser', "answer", "offer")
    BY <1>3, <1>5, <1>7, <2>3 DEF AnswersInv
  <2>5. m.op = "offer" => ~Has(toBrowser', "answer")
    BY <1>3, <1>5 DEF AnswersInv
  <2>6. \A x \in ToSet(toBrowser') : x.op = "answer" => x.n = offered'.n
    BY <1>1, <1>3, <1>5 DEF AnswersInv
  <2>7. AnswerDue' => /\ sig' = "have-local-offer" /\ ~pumping' /\ offered'.incl \subseteq has'
                      /\ batch' # {}
                      /\ \A x \in ToSet(toHub') : x.op = "offer" => x.n # offered'.n
    BY <1>1, <1>3, <2>1 DEF AnswersInv
  <2>8. /\ sstep' = "answering" => answer'.n = offered'.n /\ ~Has(chain', "answer") /\ ~Has(toBrowser', "answer")
        /\ ~(Has(chain', "answer") /\ Has(toBrowser', "answer"))
        /\ Has(toBrowser', "answer") => ~Has(chain', "offer")
    BY <1>1, <1>3, <1>8, <2>3, <2>5 DEF AnswersInv
  <2> QED  BY <2>2, <2>4, <2>6, <2>7, <2>8 DEF AnswersInv
<1>14. OffersInv'
  BY <1>1, <1>3 DEF OffersInv, Transmitting, InOrder, BehindAnswers
<1>15. CandidatesInTime'
  BY <1>1 DEF Inv, CandidatesInTime
<1>16. KeptPromises'
  BY <1>1 DEF Inv, KeptPromises
<1>17. faults' = 0 => GensInv'
  <2> SUFFICES ASSUME faults = 0 PROVE GensInv'
    BY <1>1
  <2>1. GensInv /\ Heard' = Heard
    BY <1>1, <1>3 DEF Heard
  <2>2. Told \subseteq Told'
    BY <1>1, <1>7 DEF Told
  <2>3. \A g \in Gens : Describes(m) /\ m.gen >= g => g \in Told'
    <3>1. Describes(m) => m \in ToSet(chain')
      BY <1>6, <1>7 DEF Describes
    <3> QED  BY <3>1 DEF Told
  <2>4. Covered(toBrowser', Told')
    <3>1. \A x \in ToSet(toBrowser') : x.op = "candidate" => x.gen \in Gens
      BY <1>5, Members, MessageTypes
    <3>2. Covered(toBrowser, Told)
      BY <2>1 DEF GensInv
    <3> QED  BY <1>5, <2>2, <2>3, <3>1, <3>2
  <2>5. Covered(chain', Heard')
    <3>1. m.op = "candidate" => m.gen \in Told
      BY <1>5, <2>1 DEF GensInv
    <3>2. m.op = "candidate" => m.gen \in Heard \/ \E d \in ToSet(chain) : Describes(d) /\ d.gen >= m.gen
      BY <3>1 DEF Told, Heard
    <3> QED  BY <1>7, <2>1, <3>2 DEF GensInv
  <2>6. ready' \/ sstep' = "answered" =>
          sgen' \in Told' \/ \E x \in ToSet(toBrowser') : Describes(x) /\ x.gen >= sgen'
    <3>1. ready \/ sstep = "answered" =>
            sgen \in Told \/ \E x \in ToSet(toBrowser) : Describes(x) /\ x.gen >= sgen
      BY <2>1 DEF GensInv
    <3>2. sgen \in Gens
      BY <1>2 DEF HubTypes
    <3> QED  BY <1>1, <1>5, <2>2, <2>3, <3>1, <3>2
  <2>7. ToSet(chain') \union ToSet(toBrowser') \subseteq ToSet(chain) \union ToSet(toBrowser)
    BY <1>5, <1>7
  <2> QED  BY <1>1, <2>1, <2>4, <2>5, <2>6, <2>7 DEF GensInv
<1> QED  BY <1>9, <1>10, <1>11, <1>12, <1>13, <1>14, <1>15, <1>16, <1>17, TypesInParts DEF Inv

----------------------------------------------------------------------------
(* The whole.                                                              *)

\* A step that changes nothing.
LEMMA NothingHappens == ASSUME Inv, UNCHANGED vars PROVE Inv'
<1> USE DEF vars, queueVars, chainVars, peerVars, hubVars, hubNeg, hubIce, wires, bounds
<1>1. Types'
  <2>1. QueueTypes' /\ BrowserTypes' /\ HubTypes' /\ WireTypes'
    BY TypesInParts DEF Inv, QueueTypes, BrowserTypes, HubTypes, WireTypes
  <2> QED  BY <2>1, TypesInParts
<1>2. QueueInv'
  BY DEF Inv, QueueInv, NoUnguardedWait, Pending, Queue, Has, AtMostOne
<1>3. KeptPromises' /\ CandidatesInTime'
  BY DEF Inv, KeptPromises, CandidatesInTime
<1>4. up' => OperationInv'
  BY DEF Inv, OperationInv
<1>5. up' => HubOffersInv'
  BY DEF Inv, HubOffersInv, Abandoned, Has, AtMostOne
<1>6. up' => AnswersInv'
  BY DEF Inv, AnswersInv, AnswerDue, Resolving, Has, AtMostOne, Precedes
<1>7. up' => OffersInv'
  BY DEF Inv, OffersInv, Transmitting, InOrder, BehindAnswers
<1>8. up' /\ faults' = 0 => GensInv'
  BY DEF Inv, GensInv, Told, Heard, Covered
<1> QED  BY <1>1, <1>2, <1>3, <1>4, <1>5, <1>6, <1>7, <1>8 DEF Inv

\* Nothing has been negotiated yet.
LEMMA AtFirst == ASSUME Init PROVE Inv
<1> USE DEF Init
<1>1. /\ chain = <<>> /\ toBrowser = <<>> /\ toHub = <<>> /\ held = <<>> /\ squeue = <<>> /\ slocal = <<>>
      /\ offered = [n |-> 0, incl |-> {}] /\ answer = [n |-> 0, incl |-> {}]
  BY DEF NoOffer
<1>2. /\ ToSet(chain) = {} /\ ToSet(toBrowser) = {} /\ ToSet(toHub) = {}
      /\ ToSet(held) = {} /\ ToSet(squeue) = {} /\ ToSet(slocal) = {}
  BY <1>1 DEF ToSet
<1>3. \A op : ~Has(chain, op) /\ ~Has(toBrowser, op) /\ ~Has(toHub, op)
  BY <1>2 DEF Has
<1>4. \A r \in Reqs : req[r] = "new"
  OBVIOUS
<1>5. Types
  <2>1. QueueTypes
    BY <1>4 DEF QueueTypes, Outcomes
  <2>2. offered \in Offers /\ answer \in Offers
    BY <1>1 DEF Offers
  <2>3. 0 \in Gens /\ -1 \in Gens /\ 0 \in 0 .. MaxChanges /\ 0 \in 0 .. 0
    BY NegotiationAssumptions DEF Gens
  <2>4. \A S : <<>> \in Seq(S)
    OBVIOUS
  <2>5. /\ chain \in Seq(Operations) /\ toBrowser \in Seq(ToBrowser) /\ toHub \in Seq(ToHub)
        /\ held \in Seq(Gens) /\ squeue \in Seq(Gens) /\ slocal \in Seq(Gens)
    BY <1>1, <2>4
  <2>6. BrowserTypes
    BY <2>2, <2>3, <2>5 DEF BrowserTypes
  <2>7. HubTypes
    BY <2>2, <2>3, <2>5 DEF HubTypes
  <2>8. WireTypes
    BY <2>5 DEF WireTypes
  <2> QED  BY <2>1, <2>6, <2>7, <2>8, TypesInParts
<1>6. QueueInv
  <2>1. NoUnguardedWait
    BY <1>4 DEF NoUnguardedWait, Pending, Queue
  <2>2. AtMostOne(chain, "sendOffer")
    BY <1>1 DEF AtMostOne
  <2> QED  BY <1>3, <2>1, <2>2 DEF QueueInv
<1>7. KeptPromises /\ CandidatesInTime
  BY <1>4 DEF KeptPromises, CandidatesInTime
<1>8. OperationInv
  BY DEF OperationInv
<1>9. HubOffersInv
  BY <1>1, <1>3 DEF HubOffersInv, Abandoned, AtMostOne
<1>10. AnswersInv
  BY <1>1, <1>2, <1>3 DEF AnswersInv, AnswerDue, Resolving, AtMostOne, Precedes
<1>11. OffersInv
  BY <1>1, <1>2 DEF OffersInv, InOrder, BehindAnswers
<1>12. GensInv
  <2>1. Covered(chain, Heard) /\ Covered(toBrowser, Told)
    BY <1>1 DEF Covered
  <2>2. sgen = 0 /\ brgen = -1 /\ bgen = -1 /\ ~sremote /\ ~ready /\ sstep = "read" /\ at = "start"
    OBVIOUS
  <2>3. sgen >= 0 /\ brgen <= sgen /\ bgen <= sgen
    BY <2>2
  <2> QED  BY <1>2, <2>1, <2>2, <2>3 DEF GensInv
<1> QED  BY <1>5, <1>6, <1>7, <1>8, <1>9, <1>10, <1>11, <1>12 DEF Inv

\* Every step of the browser, the hub and the connection keeps the invariant.
LEMMA Steps == ASSUME Inv, [Next]_vars PROVE Inv'
<1>1. CASE UNCHANGED vars
  BY <1>1, NothingHappens
<1>2. ASSUME NEW r \in Reqs, Request(r) PROVE Inv'
  BY <1>2, RequestStep
<1>3. CASE WatchdogFires \/ Drop \/ Reset
  BY <1>3, WatchdogFiresStep, DropStep, ResetStep
<1>4. CASE Receive \/ GatherCandidate \/ AskRestart
  BY <1>4, ReceiveStep, GatherCandidateStep, AskRestartStep
<1>5. CASE Browser
  <2>1. CASE CreateOffer \/ FailOffer \/ SetLocalOffer \/ TransmitOffer
    BY <2>1, CreateOfferStep, FailOfferStep, SetLocalOfferStep, TransmitOfferStep
  <2>2. CASE RollBack \/ AcceptOffer \/ RejectOffer \/ SetLocalAnswer \/ SendAnswer
    BY <2>2, RollBackStep, AcceptOfferStep, RejectOfferStep, SetLocalAnswerStep, SendAnswerStep
  <2>3. CASE TakeAnswer \/ ResolveAnswer \/ RejectAnswer \/ TakeCandidate \/ Stale
    BY <2>3, TakeAnswerStep, ResolveAnswerStep, RejectAnswerStep, TakeCandidateStep, StaleStep
  <2> QED  BY <1>5, <2>1, <2>2, <2>3 DEF Browser
<1>6. CASE TrackChange \/ RouterOffers \/ LocalCandidate
  BY <1>6, TrackChangeStep, RouterOffersStep, LocalCandidateStep
<1>7. CASE Hub
  <2>1. CASE IgnoreOffer \/ ApplyOffer \/ RefuseOffer \/ WriteAnswer \/ BecomeReady
    BY <2>1, IgnoreOfferStep, ApplyOfferStep, RefuseOfferStep, WriteAnswerStep, BecomeReadyStep
  <2>2. CASE Reoffer \/ ApplyAnswer \/ RefuseAnswer \/ RemoteCandidate \/ RestartRequest
    BY <2>2, ReofferStep, ApplyAnswerStep, RefuseAnswerStep, RemoteCandidateStep, RestartRequestStep
  <2> QED  BY <1>7, <2>1, <2>2 DEF Hub
<1>8. CASE Idle
  BY <1>8, NothingHappens DEF Idle
<1> QED  BY <1>1, <1>2, <1>3, <1>4, <1>5, <1>6, <1>7, <1>8 DEF Next

\* The inductive invariant: whatever the two sides offer, collide, put off, reject or
\* lose, what is under way between handleWebRTCMessage of the hub and the browser's
\* chain of peer operations is in the order that both rely on.
THEOREM NegotiationInvHolds == Spec => []Inv
<1>1. Init => Inv
  BY AtFirst
<1>2. Inv /\ [Next]_vars => Inv'
  BY Steps
<1> QED  BY <1>1, <1>2, PTL DEF Spec

\* No request of renegotiateLocalMedia waits without a watchdog or a running pump; the
\* hub answers only the offer that is outstanding in the browser, never one that was
\* rolled back; and neither side adds a candidate ahead of the description whose
\* credentials it carries, as long as no description fails or is rejected.
THEOREM PeersStayInStep == Spec => []NegotiationInv
<1>1. Inv => NegotiationInv
  <2> SUFFICES ASSUME Inv PROVE NegotiationInv
    OBVIOUS
  <2>1. TypeOK /\ NoUnguardedWait /\ CandidatesInTime
    BY DEF Inv, Types, QueueInv
  <2>2. AnswersMatch
    <3> SUFFICES ASSUME up, NEW i \in DOMAIN toBrowser, toBrowser[i].op = "answer"
                 PROVE  toBrowser[i].n = offered.n
      BY DEF AnswersMatch
    <3>1. toBrowser[i] \in ToSet(toBrowser)
      BY DEF ToSet
    <3> QED  BY <3>1 DEF Inv, AnswersInv
  <2> QED  BY <2>1, <2>2 DEF NegotiationInv
<1> QED  BY <1>1, NegotiationInvHolds, PTL

\* A promise of renegotiateLocalMedia that was kept: the hub has applied an offer that
\* was created after the change, whatever offers were rolled back or ignored meanwhile.
THEOREM PromisesAreKept == Spec => []KeptPromises
<1>1. Inv => KeptPromises
  BY DEF Inv
<1> QED  BY <1>1, NegotiationInvHolds, PTL
=============================================================================
