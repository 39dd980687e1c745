--------------------------- MODULE ControlsProofs ---------------------------
(***************************************************************************)
(* Proofs about the meeting page, for every number of starts, budgets,     *)
(* sizes, participants and switches of the microphone: an inductive        *)
(* invariant of each of the five parts, and that the page implements each  *)
(* of them.  LocalScreen needs what is in the two queues between the page  *)
(* and the hub; ScreenAdaptation that the last of the calls of             *)
(* setParameters is the current one; Layout that a choice made once more   *)
(* is the same; People that the list is rebuilt from its signature; the    *)
(* microphone who holds which track at every await of replaceLocalDevice.  *)
(***************************************************************************)
EXTENDS MeetingControls, FiniteSetTheorems, SequenceTheorems, WellFoundedInduction, TLAPS

\* A set of natural numbers has a least one.
LEMMA LeastNumber ==
  ASSUME NEW T, T \subseteq Nat, T # {}
  PROVE  \E x \in T : \A y \in T : x <= y
<1>1. PICK x \in T : \A y \in T : <<y, x>> \notin OpToRel(<, Nat)
  BY WFMin, NatLessThanWellFounded, Zenon
<1>2. \A y \in T : ~(y < x)
  BY <1>1, Zenon DEF OpToRel
<1>3. QED
  BY <1>2

\* Induction up to n, by the least number that is not in the set.
LEMMA UpTo ==
  ASSUME NEW n \in Nat, NEW T, 0 \in T, \A i \in 0 .. n - 1 : i \in T => i + 1 \in T
  PROVE  \A i \in 0 .. n : i \in T
<1> DEFINE B == (0 .. n) \ T
<1> SUFFICES ASSUME B # {} PROVE FALSE
  OBVIOUS
<1>1. B \subseteq Nat
  OBVIOUS
<1> HIDE DEF B
<1>2. PICK x \in B : \A y \in B : x <= y
  BY <1>1, LeastNumber
<1>3. x # 0
  BY DEF B
<1>4. x - 1 \in 0 .. n - 1 /\ x - 1 \notin B
  BY <1>2, <1>3 DEF B
<1>5. QED
  BY <1>4 DEF B

\* What Append adds to a sequence.
LEMMA AppendAdds ==
  ASSUME NEW E, NEW s \in Seq(E), NEW m \in E
  PROVE  /\ Append(s, m) \in Seq(E) /\ Append(s, m) # <<>>
         /\ Len(Append(s, m)) = Len(s) + 1
         /\ Append(s, m)[Len(s) + 1] = m
         /\ \A i \in 1 .. Len(s) : Append(s, m)[i] = s[i]
         /\ ToSet(Append(s, m)) = ToSet(s) \union {m}
         /\ IsInjective(s) /\ m \notin ToSet(s) => IsInjective(Append(s, m))
<1> DEFINE t == Append(s, m)
<1>1. /\ t \in Seq(E) /\ Len(s) \in Nat /\ Len(t) = Len(s) + 1
      /\ DOMAIN s = 1..Len(s) /\ DOMAIN t = 1..Len(s) + 1
      /\ \A i \in 1..Len(s) : t[i] = s[i]
      /\ t[Len(s) + 1] = m
  OBVIOUS
<1> HIDE DEF t
<1>2. \A i \in DOMAIN t : i \in DOMAIN s \/ i = Len(s) + 1
  BY <1>1
<1>3. DOMAIN s \subseteq DOMAIN t /\ Len(s) + 1 \in DOMAIN t
  BY <1>1
<1>4. ToSet(t) = ToSet(s) \union {m}
  BY <1>1, <1>2, <1>3 DEF ToSet
<1>5. ASSUME IsInjective(s), m \notin ToSet(s)
      PROVE  IsInjective(t)
  BY <1>1, <1>2, <1>5 DEF IsInjective, ToSet
<1>6. t # <<>>
  BY <1>1
<1>7. QED
  BY <1>1, <1>4, <1>5, <1>6 DEF t

\* f collects the elements of s that lie in S, up to the n-th.
KeptBy(f, s, S, n) ==
  f = [i \in 0 .. n |-> IF i = 0 THEN <<>>
                        ELSE IF s[i] \in S THEN Append(f[i - 1], s[i]) ELSE f[i - 1]]

\* Keep is the value of such a function.
LEMMA KeptExists ==
  ASSUME NEW s, NEW S, NEW n \in Nat
  PROVE  \E f : KeptBy(f, s, S, n)
<1> DEFINE T == {i \in 0 .. n : \E f : KeptBy(f, s, S, i)}
<1>1. 0 \in T
  <2> DEFINE g == [i \in 0 .. 0 |-> <<>>]
  <2>1. KeptBy(g, s, S, 0)
    BY DEF KeptBy
  <2>2. QED
    BY <2>1
<1>2. ASSUME NEW i \in 0 .. n - 1, i \in T
      PROVE  i + 1 \in T
  <2>1. PICK f : KeptBy(f, s, S, i)
    BY <1>2
  <2> DEFINE last == IF s[i + 1] \in S THEN Append(f[i], s[i + 1]) ELSE f[i]
             g == [j \in 0 .. i + 1 |-> IF j = i + 1 THEN last ELSE f[j]]
  <2>2. ASSUME NEW j \in 0 .. i + 1
        PROVE  g[j] = IF j = 0 THEN <<>>
                      ELSE IF s[j] \in S THEN Append(g[j - 1], s[j]) ELSE g[j - 1]
    <3>1. CASE j = i + 1
      BY <3>1
    <3>2. CASE j # i + 1
      <4>1. j \in 0 .. i /\ g[j] = f[j] /\ (j # 0 => g[j - 1] = f[j - 1])
        BY <3>2
      <4>2. f[j] = IF j = 0 THEN <<>>
                   ELSE IF s[j] \in S THEN Append(f[j - 1], s[j]) ELSE f[j - 1]
        BY <2>1, <4>1 DEF KeptBy
      <4>3. QED
        BY <4>1, <4>2
    <3>3. QED
      BY <3>1, <3>2
  <2>3. KeptBy(g, s, S, i + 1)
    BY <2>2 DEF KeptBy
  <2>4. QED
    BY <2>3
<1>3. \A i \in 0 .. n : i \in T
  <2> HIDE DEF T
  <2>1. QED
    BY <1>1, <1>2, UpTo
<1>4. QED
  BY <1>3

\* Whether the next element is collected.
LEMMA KeptLast ==
  ASSUME NEW s, NEW S, Len(s) \in Nat
  PROVE  \E f : KeptBy(f, s, S, Len(s)) /\ Keep(s, S) = f[Len(s)]
<1> DEFINE f == CHOOSE f : KeptBy(f, s, S, Len(s))
<1>1. KeptBy(f, s, S, Len(s))
  BY KeptExists
<1>2. Keep(s, S) = f[Len(s)]
  BY Zenon DEF Keep, KeptBy
<1>3. QED
  BY <1>1, <1>2

\* Keep selects: what it keeps was there, once, and all of it if all of it lies in S.
LEMMA KeepPart ==
  ASSUME NEW E, NEW s \in Seq(E), NEW S
  PROVE  /\ Keep(s, S) \in Seq(E)
         /\ Len(Keep(s, S)) <= Len(s)
         /\ ToSet(Keep(s, S)) = ToSet(s) \intersect S
         /\ IsInjective(s) => IsInjective(Keep(s, S))
         /\ ToSet(s) \subseteq S => Keep(s, S) = s
<1>1. PICK f : KeptBy(f, s, S, Len(s)) /\ Keep(s, S) = f[Len(s)]
  BY KeptLast
<1> DEFINE n == Len(s)
           Start(i) == {s[j] : j \in 1 .. i}
           Good(i) == /\ f[i] \in Seq(E)
                      /\ Len(f[i]) <= i
                      /\ ToSet(f[i]) = Start(i) \intersect S
                      /\ IsInjective(s) => IsInjective(f[i])
                      /\ ToSet(s) \subseteq S =>
                           Len(f[i]) = i /\ \A j \in 1 .. i : f[i][j] = s[j]
           T == {i \in 0 .. n : Good(i)}
<1>2. n \in Nat /\ DOMAIN s = 1 .. n /\ \A i \in 1 .. n : s[i] \in E
  OBVIOUS
<1>3. 0 \in T
  <2>1. f[0] = <<>>
    BY <1>1, <1>2 DEF KeptBy
  <2>2. f[0] \in Seq(E) /\ Len(f[0]) = 0 /\ DOMAIN f[0] = {} /\ Start(0) = {}
    BY <2>1
  <2>3. ToSet(f[0]) = {} /\ IsInjective(f[0])
    BY <2>2 DEF ToSet, IsInjective
  <2> HIDE DEF Start
  <2>4. QED
    BY <1>2, <2>2, <2>3
<1>4. ASSUME NEW i \in 0 .. n - 1, i \in T
      PROVE  i + 1 \in T
  <2>1. f[i + 1] = IF s[i + 1] \in S THEN Append(f[i], s[i + 1]) ELSE f[i]
    <3>1. i + 1 \in 0 .. Len(s) /\ i + 1 # 0 /\ (i + 1) - 1 = i
      OBVIOUS
    <3>2. QED
      BY <1>1, <3>1 DEF KeptBy
  <2>2. Good(i)
    BY <1>4
  <2>3. s[i + 1] \in E /\ s[i + 1] \in ToSet(s) /\ Start(i + 1) = Start(i) \union {s[i + 1]}
    <3>1. i + 1 \in 1 .. n /\ i \in Nat
      OBVIOUS
    <3>2. \A j : j \in 1 .. (i + 1) <=> j \in 1 .. i \/ j = i + 1
      OBVIOUS
    <3>3. QED
      BY <1>2, <3>1, <3>2 DEF ToSet
  <2>4. IsInjective(s) => s[i + 1] \notin Start(i)
    <3>1. \A j \in 1 .. i : j # i + 1 /\ j \in DOMAIN s /\ i + 1 \in DOMAIN s
      BY <1>2
    <3>2. QED
      BY <3>1 DEF IsInjective
  <2> HIDE DEF Start
  <2>5. CASE s[i + 1] \in S
    <3>1. f[i + 1] = Append(f[i], s[i + 1])
      BY <2>1, <2>5
    <3>2. /\ f[i + 1] \in Seq(E) /\ Len(f[i + 1]) = Len(f[i]) + 1
          /\ ToSet(f[i + 1]) = ToSet(f[i]) \union {s[i + 1]}
          /\ IsInjective(f[i]) /\ s[i + 1] \notin ToSet(f[i]) => IsInjective(f[i + 1])
          /\ f[i + 1][Len(f[i]) + 1] = s[i + 1]
          /\ \A j \in 1 .. Len(f[i]) : f[i + 1][j] = f[i][j]
      BY <2>2, <2>3, <3>1, AppendAdds
    <3>3. ToSet(s) \subseteq S =>
            Len(f[i + 1]) = i + 1 /\ \A j \in 1 .. i + 1 : f[i + 1][j] = s[j]
      <4>1. SUFFICES ASSUME ToSet(s) \subseteq S, NEW j \in 1 .. i + 1
                     PROVE  Len(f[i]) = i /\ f[i + 1][j] = s[j]
        BY <3>2
      <4>2. Len(f[i]) = i /\ \A k \in 1 .. i : f[i][k] = s[k]
        BY <2>2, <4>1
      <4>3. CASE j = i + 1
        BY <3>2, <4>2, <4>3
      <4>4. CASE j # i + 1
        <5>1. j \in 1 .. i
          BY <4>4
        <5>2. QED
          BY <3>2, <4>2, <5>1
      <4>5. QED
        BY <4>2, <4>3, <4>4
    <3>4. Len(f[i + 1]) <= i + 1
      BY <2>2, <3>2
    <3>5. QED
      BY <2>2, <2>3, <2>4, <2>5, <3>2, <3>3, <3>4
  <2>6. CASE s[i + 1] \notin S
    <3>1. f[i + 1] = f[i] /\ ~(ToSet(s) \subseteq S)
      BY <2>1, <2>3, <2>6
    <3>2. Len(f[i + 1]) <= i + 1
      BY <2>2, <3>1
    <3>3. QED
      BY <2>2, <2>3, <2>6, <3>1, <3>2
  <2>7. QED
    BY <2>5, <2>6
<1>5. Good(n)
  <2> HIDE DEF T
  <2>1. \A i \in 0 .. n : i \in T
    BY <1>2, <1>3, <1>4, UpTo
  <2>2. n \in T
    BY <1>2, <2>1
  <2>3. QED
    BY <2>2 DEF T
<1>6. Start(n) = ToSet(s)
  BY <1>2 DEF ToSet
<1>7. ToSet(s) \subseteq S => f[n] = s
  BY <1>2, <1>5
<1>8. QED
  BY <1>1, <1>5, <1>6, <1>7

(*****************************************************************************)
(* The local screen.  What is invariant of a start, a stop and the messages of the *)
(* hub.                                                                      *)
(*****************************************************************************)
Ups == {"start", "stop"}
Downs == States \union {"error", "on", "off"}
StartPcs == {"idle", "picking", "closing", "asking", "attaching", "negotiating",
             "activating", "undoing"}

\* A start under way, a stop under way, the sender of the screen, the queues
\* to and from the hub, and the bounds.
StartIsTyped ==
  /\ start \in [pc : StartPcs, conn : Nat, camera : BOOLEAN, cap : 0 .. MaxStarts,
                denied : BOOLEAN, ended : BOOLEAN]
  /\ start.pc = "idle" <=> start = NoStart
StopIsTyped ==
  /\ stop \in [pc : {"idle", "pausing", "resuming"}, conn : Nat, cap : 0 .. MaxStarts]
  /\ stop.pc = "idle" <=> stop = NoStop
SenderIsTyped == sender \in [conn : Nat, track : 0 .. MaxStarts, active : BOOLEAN]
QueuesAreTyped == conn \in Nat /\ up \in Seq(Ups) /\ down \in Seq(Downs)
BoundsAreTyped ==
  starts \in 0 .. MaxStarts /\ drops \in 0 .. MaxDrops /\ troubles \in 0 .. MaxTroubles

\* Without a connection there is no sender, no lease and no message; a stop of an
\* earlier connection runs only after that connection was cut.
Offline ==
  /\ conn = 0 => sender = NoSender /\ owner = "none" /\ lease # "me" /\ up = <<>> /\ down = <<>>
  /\ sender.conn = 0 => sender = NoSender
  /\ stop.pc = "pausing" /\ stop.conn # conn => conn = 0 /\ cut

\* A stop runs only when nothing is shared; what is being picked is not shared yet.
Picks ==
  /\ screen # 0 => stop = NoStop
  /\ start.pc \in {"picking", "undoing"} => screen = 0
  /\ start.pc = "picking" => stop = NoStop /\ starts \in Captures

\* What the sender carries, by how far the start or the stop has come.
SenderIsRight ==
  /\ start.pc \in {"idle", "picking", "closing", "asking"} /\ stop.pc # "pausing"
       /\ (start.pc = "idle" => screen = 0) => sender.track = 0
  /\ screen # 0 /\ start.pc \in {"idle", "attaching", "negotiating", "activating"} =>
       conn # 0 /\ sender.conn = conn
  /\ screen # 0 /\ start.pc \in {"idle", "negotiating", "activating"} => sender.track = screen
  /\ screen # 0 /\ start.pc \in {"idle", "activating"} => sender.active = ~suspended

\* The captures something accounts for: the one shared, the one being stopped,
\* the one being undone.
Running ==
  {screen} \union (IF stop.pc = "pausing" THEN {stop.cap} ELSE {})
           \union (IF start.pc = "undoing" THEN {start.cap} ELSE {})
CapturesAreHeld == ~cut => live \subseteq Running

\* What the page takes the owner to be once it has read the messages d: the last
\* state in d tells the lease l, and without one it already holds it.
Told(d, l, o) ==
  /\ \A i \in DOMAIN d :
       d[i] \in States /\ (\A j \in i + 1 .. Len(d) : d[j] \notin States)
         => d[i] = StateOf[l]
  /\ (\A i \in DOMAIN d : d[i] \notin States) => o = l
OwnerIsTold == conn # 0 => Told(down, lease, owner)

\* Whether the hub will hold the lease for this page after what is on its way up.
Claimed == IF up = <<>> THEN lease = "me" ELSE up[Len(up)] = "start"

\* Who claims the lease is starting, sharing or stopping.
LeaseIsHeld ==
  Claimed =>
    \/ start.pc \in {"asking", "attaching", "negotiating", "activating", "undoing"}
    \/ start.pc = "idle" /\ screen # 0
    \/ stop.pc = "pausing" /\ stop.conn = conn

\* The requests on their way to the hub, and the grants on their way back.
Pending == {i \in DOMAIN up : up[i] = "start"}
AnswersIn(d) == {i \in DOMAIN d : d[i] = "state me"}
Answers == AnswersIn(down)

\* Before a late grant, at most one request is open: it is on its way up or its
\* answer is on its way down, never both.
OneAnswer ==
  ~late =>
    /\ ~request => Pending = {} /\ Answers = {}
    /\ \A i, j \in Pending : i = j
    /\ \A i, j \in Answers : i = j
    /\ Pending = {} \/ Answers = {}
    /\ request /\ screen # 0 => \A i \in Pending : i = Len(up)

\* The operator has switched sharing off, and the page is about to read it.
LostIn(d) == \E i \in DOMAIN d : d[i] = "off"
Lost == LostIn(down)

\* Without a late grant, what is shared keeps its lease until the operator ends it.
GrantIsKept ==
  ~late /\ screen # 0 /\ (start.pc \in {"idle", "attaching", "negotiating", "activating"}
                          \/ Answers # {}) =>
    (lease = "me" /\ up = <<>>) \/ Lost

\* The inductive invariant of the screen.
ScreenInv ==
  TypeOK /\ late \in BOOLEAN /\ StartIsTyped /\ StopIsTyped /\ SenderIsTyped /\ QueuesAreTyped /\ BoundsAreTyped
  /\ Offline /\ Picks /\ SenderIsRight /\ CapturesAreHeld /\ OwnerIsTold /\ LeaseIsHeld
   /\ OneAnswer /\ GrantIsKept

\* The three states of the lease have three names.
LEMMA StateNames ==
  /\ States = {"state none", "state me", "state other"}
  /\ DOMAIN StateOf = {"none", "me", "other"}
  /\ StateOf["none"] = "state none" /\ StateOf["me"] = "state me"
  /\ StateOf["other"] = "state other"
  /\ \A o \in {"none", "me", "other"} : OwnerOf(StateOf[o]) = o
<1>1. /\ DOMAIN StateOf = {"none", "me", "other"}
      /\ StateOf["none"] = "state none" /\ StateOf["me"] = "state me"
      /\ StateOf["other"] = "state other"
  BY DEF StateOf
<1>2. States = {"state none", "state me", "state other"}
  BY <1>1 DEF States
<1>3. ASSUME NEW o \in {"none", "me", "other"}
      PROVE  OwnerOf(StateOf[o]) = o
  <2>1. \A p \in DOMAIN StateOf : StateOf[p] = StateOf[o] => p = o
    BY <1>1, <1>3
  <2>2. QED
    BY <1>1, <1>3, <2>1 DEF OwnerOf
<1>4. QED
  BY <1>1, <1>2, <1>3

LEMMA BoundsAreNat == MaxStarts \in Nat /\ MaxDrops \in Nat /\ MaxTroubles \in Nat
  BY LocalScreenAssumptions DEF LocalScreenAssumptions

\* What Send, Append and Tail do to a queue.
LEMMA SendDoes ==
  ASSUME conn \in Nat, NEW q \in Seq(Ups), NEW m \in Ups
  PROVE  /\ Send(q, m) \in Seq(Ups)
         /\ conn = 0 => Send(q, m) = q
         /\ conn # 0 => /\ Send(q, m) # <<>>
                        /\ Len(Send(q, m)) = Len(q) + 1
                        /\ Send(q, m)[Len(Send(q, m))] = m
                        /\ \A i \in 1 .. Len(q) : Send(q, m)[i] = q[i]
  BY DEF Send

LEMMA AppendDoes ==
  ASSUME NEW S, NEW q \in Seq(S), NEW m \in S
  PROVE  /\ Append(q, m) \in Seq(S) /\ Append(q, m) # <<>>
         /\ Len(Append(q, m)) = Len(q) + 1
         /\ Append(q, m)[Len(q) + 1] = m
         /\ \A i \in 1 .. Len(q) : Append(q, m)[i] = q[i]
  OBVIOUS

LEMMA TailDoes ==
  ASSUME NEW S, NEW q \in Seq(S), q # <<>>
  PROVE  /\ Tail(q) \in Seq(S) /\ Len(q) \in Nat /\ Len(q) > 0
         /\ Len(Tail(q)) = Len(q) - 1
         /\ \A i \in 1 .. Len(q) - 1 : Tail(q)[i] = q[i + 1]
         /\ Head(q) = q[1] /\ Head(q) \in S
  OBVIOUS

\* A release on its way up requests nothing.
LEMMA ReleasesAreQuiet ==
  ASSUME conn \in Nat, conn' = conn, lease' = lease, NEW q \in Seq(Ups),
         conn = 0 => q = <<>> /\ lease # "me", up' = Release(q)
  PROVE  /\ up' \in Seq(Ups) /\ ~Claimed' /\ (conn # 0 => up' # <<>>)
         /\ (conn = 0 => up' = <<>>)
         /\ Pending' = {i \in DOMAIN q : q[i] = "start"}
<1>1. "stop" \in Ups
  BY DEF Ups
<1>2. CASE conn = 0
  <2>1. up' = q
    BY <1>1, <1>2, SendDoes DEF Release
  <2>2. QED
    BY <1>2, <2>1 DEF Claimed, Pending
<1>3. CASE conn # 0
  <2>1. /\ up' \in Seq(Ups) /\ up' # <<>> /\ Len(up') = Len(q) + 1 /\ up'[Len(up')] = "stop"
        /\ \A i \in 1 .. Len(q) : up'[i] = q[i]
    BY <1>1, <1>3, SendDoes DEF Release
  <2>2. ~Claimed'
    BY <2>1 DEF Claimed
  <2>3. DOMAIN up' = 1 .. Len(q) + 1 /\ DOMAIN q = 1 .. Len(q) /\ Len(q) \in Nat
    BY <2>1
  <2>4. Pending' = {i \in DOMAIN q : q[i] = "start"}
    BY <2>1, <2>3 DEF Pending
  <2>5. QED
    BY <1>3, <2>1, <2>2, <2>4
<1>4. QED
  BY <1>2, <1>3

\* What the failure of a start leaves (the catch of startScreenShare).
LEMMA CatchDoes ==
  ASSUME TypeOK, StartIsTyped, NEW q \in Seq(Ups), conn \in Nat, CatchAfter(q)
  PROVE  /\ screen' = 0 /\ request' = FALSE
         /\ camera' \in BOOLEAN /\ failed' \in BOOLEAN
         /\ sender = NoSender => start' = NoStart /\ up' = Release(q) /\ live' = live \ {screen}
         /\ sender # NoSender =>
              start' = [start EXCEPT !.pc = "undoing", !.cap = screen] /\ up' = q /\ live' = live
<1>1. CASE sender = NoSender
  <2>1. GiveUp(screen, 0, q) /\ screen' = 0 /\ request' = FALSE
    BY <1>1 DEF CatchAfter
  <2>2. camera' \in BOOLEAN
    BY <2>1 DEF GiveUp, CameraAfter, TypeOK
  <2>3. failed' \in BOOLEAN
    BY <2>1 DEF GiveUp
  <2>4. QED
    BY <1>1, <2>1, <2>2, <2>3 DEF GiveUp
<1>2. CASE sender # NoSender
  BY <1>2 DEF CatchAfter, TypeOK
<1>3. QED
  BY <1>1, <1>2

\* 0 stands for no capture.
LEMMA CapturesAre == 0 .. MaxStarts = {0} \union Captures /\ 0 \notin Captures
  BY BoundsAreNat DEF Captures

LEMMA ScreenIsNamed == ASSUME ScreenInv PROVE screen \in 0 .. MaxStarts
  BY CapturesAre DEF ScreenInv, TypeOK

\* The catch keeps the parts of the invariant that do not depend on where it
\* happens.
LEMMA CatchHolds ==
  ASSUME ScreenInv, NEW q \in {up, Release(up)}, CatchAfter(q), start.pc \notin {"idle", "undoing"},
         UNCHANGED <<conn, sender, stop, allowed, hubVars, suspended, cut>>, BoundsAreTyped',
         owner' \in {"none", "me", "other"}, down' \in Seq(Downs),
         conn = 0 => owner' = owner /\ down' = down
  PROVE  /\ TypeOK' /\ StartIsTyped' /\ StopIsTyped' /\ SenderIsTyped' /\ QueuesAreTyped'
         /\ BoundsAreTyped' /\ Offline' /\ Picks' /\ SenderIsRight' /\ CapturesAreHeld'
         /\ LeaseIsHeld' /\ GrantIsKept' /\ Pending' = Pending /\ ~request'
<1> USE BoundsAreNat
<1>1. /\ conn \in Nat /\ up \in Seq(Ups) /\ "stop" \in Ups
      /\ conn = 0 => up = <<>> /\ lease # "me"
  BY DEF ScreenInv, QueuesAreTyped, Offline, Ups
<1>2. /\ q \in Seq(Ups) /\ (conn = 0 => q = <<>>)
      /\ Pending = {i \in DOMAIN q : q[i] = "start"}
      /\ q = up \/ (up # q /\ (conn # 0 => q # <<>> /\ q[Len(q)] = "stop"))
  <2>1. CASE q = up
    BY <1>1, <2>1 DEF Pending
  <2>2. CASE q = Release(up) /\ q # up
    <3>1. /\ conn # 0 /\ q \in Seq(Ups) /\ q # <<>> /\ q[Len(q)] = "stop"
          /\ Len(q) = Len(up) + 1
          /\ \A i \in 1 .. Len(up) : q[i] = up[i]
      BY <1>1, <2>2, SendDoes, ZenonT(30) DEF Release
    <3>2. DOMAIN q = 1 .. Len(up) + 1 /\ DOMAIN up = 1 .. Len(up) /\ Len(up) \in Nat
      BY <1>1, <3>1
    <3>3. Pending = {i \in DOMAIN q : q[i] = "start"}
      BY <3>1, <3>2 DEF Pending
    <3>4. QED
      BY <2>2, <3>1, <3>3
  <2>3. QED
    BY <2>1, <2>2
<1>3. /\ screen' = 0 /\ request' = FALSE
      /\ camera' \in BOOLEAN /\ failed' \in BOOLEAN
      /\ sender = NoSender => start' = NoStart /\ up' = Release(q) /\ live' = live \ {screen}
      /\ sender # NoSender =>
           start' = [start EXCEPT !.pc = "undoing", !.cap = screen] /\ up' = q /\ live' = live
  BY <1>1, <1>2, CatchDoes DEF ScreenInv
<1>4. /\ up' \in Seq(Ups) /\ Pending' = Pending /\ (conn = 0 => up' = <<>>)
      /\ sender = NoSender => ~Claimed'
  <2>1. CASE sender = NoSender
    <3>1. up' = Release(q) /\ conn' = conn /\ lease' = lease
      BY <1>3, <2>1 DEF hubVars
    <3>2. QED
      BY <1>1, <1>2, <2>1, <3>1, ReleasesAreQuiet
  <2>2. CASE sender # NoSender
    BY <1>2, <1>3, <2>2 DEF Pending
  <2>3. QED
    BY <2>1, <2>2
<1>5. /\ StartIsTyped' /\ start' \in [pc : StartPcs, conn : Nat, camera : BOOLEAN,
                          cap : 0 .. MaxStarts, denied : BOOLEAN, ended : BOOLEAN]
      /\ start'.pc = IF sender = NoSender THEN "idle" ELSE "undoing"
      /\ sender # NoSender => start'.cap = screen
  <2>1. /\ start \in [pc : StartPcs, conn : Nat, camera : BOOLEAN, cap : 0 .. MaxStarts,
                     denied : BOOLEAN, ended : BOOLEAN]
        /\ screen \in 0 .. MaxStarts
    BY DEF ScreenInv, StartIsTyped, TypeOK, Captures
  <2>2. CASE sender = NoSender
    <3>1. start' = NoStart /\ NoStart.pc = "idle"
      BY <1>3, <2>2 DEF NoStart
    <3>2. NoStart \in [pc : StartPcs, conn : Nat, camera : BOOLEAN,
                       cap : 0 .. MaxStarts, denied : BOOLEAN, ended : BOOLEAN]
      BY DEF NoStart, StartPcs
    <3>3. QED
      BY <2>2, <3>1, <3>2 DEF StartIsTyped
  <2>3. CASE sender # NoSender
    <3>1. /\ start'.pc = "undoing" /\ start'.cap = screen
          /\ start' \in [pc : StartPcs, conn : Nat, camera : BOOLEAN,
                         cap : 0 .. MaxStarts, denied : BOOLEAN, ended : BOOLEAN]
      BY <1>3, <2>1, <2>3 DEF StartPcs
    <3>2. start' # NoStart
      BY <3>1 DEF NoStart
    <3>3. QED
      BY <2>3, <3>1, <3>2 DEF StartIsTyped
  <2>4. QED
    BY <2>2, <2>3
<1>6. StopIsTyped' /\ SenderIsTyped'
  BY DEF ScreenInv, StopIsTyped, SenderIsTyped
<1>7. QueuesAreTyped' /\ BoundsAreTyped'
  BY <1>4 DEF ScreenInv, QueuesAreTyped
<1>8. live' \subseteq live
  BY <1>3
<1>9. TypeOK'
  <2>1. /\ conn' \in 0 .. MaxDrops + 1 /\ live' \subseteq Captures
        /\ sender'.conn \in {0, conn'}
        /\ sender'.track \in {0} \union Captures /\ sender'.active \in BOOLEAN
        /\ lease' \in {"none", "me", "other"}
        /\ {allowed', enabled', suspended', cut'} \subseteq BOOLEAN
    BY <1>8 DEF ScreenInv, TypeOK, hubVars, BoundsAreTyped
  <2>2. request' <=> start'.pc = "asking"
    BY <1>3, <1>5
  <2>3. {allowed', camera', enabled', suspended', cut', failed'} \subseteq BOOLEAN
    BY <1>3, <2>1
  <2>4. QED
    BY <1>3, <2>1, <2>2, <2>3 DEF TypeOK
<1>10. Offline'
  BY <1>1, <1>4 DEF ScreenInv, Offline, hubVars
<1>11. Picks' /\ GrantIsKept'
  BY <1>3, <1>5 DEF Picks, GrantIsKept
<1>12. SenderIsRight'
  <2>1. CASE sender = NoSender
    BY <1>3, <2>1 DEF SenderIsRight, NoSender
  <2>2. CASE sender # NoSender
    BY <1>3, <1>5, <2>2 DEF SenderIsRight
  <2>3. QED
    BY <2>1, <2>2
<1>13. CapturesAreHeld'
  <2>1. CASE cut
    BY <2>1 DEF CapturesAreHeld
  <2>2. CASE ~cut
    <3>1. live \subseteq {screen} \union (IF stop.pc = "pausing" THEN {stop.cap} ELSE {})
                                  \union (IF start.pc = "undoing" THEN {start.cap} ELSE {})
      BY <2>2 DEF ScreenInv, CapturesAreHeld, Running
    <3>2. QED
      BY <1>3, <1>5, <3>1 DEF CapturesAreHeld, Running
  <2>3. QED
    BY <2>1, <2>2
<1>14. LeaseIsHeld'
  BY <1>4, <1>5 DEF LeaseIsHeld
<1>15. QED
  BY <1>3, <1>4, <1>5, <1>6, <1>7, <1>9, <1>10, <1>11, <1>12, <1>13, <1>14

\* Sending a release leaves no request open.
LEMMA UpIsQuiet ==
  ASSUME ScreenInv, conn' = conn, lease' = lease, up' \in {up, Release(up)}
  PROVE  /\ up' \in Seq(Ups) /\ Pending' = Pending
         /\ conn = 0 => up' = <<>>
         /\ Claimed' => Claimed /\ up' = up
<1>1. /\ conn \in Nat /\ up \in Seq(Ups)
      /\ conn = 0 => up = <<>> /\ lease # "me"
  BY DEF ScreenInv, QueuesAreTyped, Offline
<1>2. CASE up' = up
  BY <1>1, <1>2 DEF Pending, Claimed
<1>3. CASE up' = Release(up)
  <2>1. up' \in Seq(Ups) /\ ~Claimed' /\ (conn = 0 => up' = <<>>)
        /\ Pending' = {i \in DOMAIN up : up[i] = "start"}
    BY <1>1, <1>3, ReleasesAreQuiet
  <2>2. QED
    BY <2>1 DEF Pending
<1>4. QED
  BY <1>2, <1>3

LEMMA AnswersAreKept ==
  ASSUME OneAnswer, UNCHANGED <<down, late>>, request' <=> request, Pending' = Pending,
         screen' # 0 => screen # 0 /\ up' = up
  PROVE  OneAnswer'
  BY DEF OneAnswer, Answers, AnswersIn

\* After a late grant nothing is claimed of the lease.
LEMMA GrantIsStale ==
  ASSUME GrantIsKept, UNCHANGED <<down, late>>, screen' = 0
  PROVE  GrantIsKept'
  BY DEF GrantIsKept

\* What stopScreenShare does before it waits.
LEMMA StopDoes ==
  ASSUME ScreenInv, Stop, conn' = conn, lease' = lease
  PROVE  /\ up' \in {up, Release(up)}
         /\ \/ screen = 0 /\ UNCHANGED <<stop, screen, live, up>>
            \/ /\ screen # 0 /\ screen' = 0 /\ stop = NoStop /\ UNCHANGED <<live, up>>
               /\ sender.conn = conn /\ conn # 0
               /\ stop' = [pc |-> "pausing", conn |-> conn, cap |-> screen]
            \/ /\ screen # 0 /\ screen' = 0 /\ stop = NoStop /\ live' = live \ {screen}
               /\ sender.conn # conn \/ conn = 0
               /\ stop' = [pc |-> "resuming", conn |-> conn, cap |-> screen]
               /\ ~Claimed'
<1>1. screen # 0 => stop = NoStop
  BY DEF ScreenInv, Picks
<1>2. up' = Release(up) => ~Claimed'
  BY ReleasesAreQuiet DEF ScreenInv, QueuesAreTyped, Offline
<1>3. CASE screen = 0
  BY <1>3 DEF Stop
<1>4. CASE screen # 0
  BY <1>1, <1>2, <1>4 DEF Stop
<1>5. QED
  BY <1>3, <1>4

LEMMA SameBounds == ASSUME ScreenInv, UNCHANGED bounds PROVE BoundsAreTyped'
  BY DEF ScreenInv, BoundsAreTyped, bounds

LEMMA TroubleIsBounded ==
  ASSUME ScreenInv, Trouble, UNCHANGED <<starts, drops>>
  PROVE  BoundsAreTyped'
  BY BoundsAreNat DEF ScreenInv, BoundsAreTyped, Trouble

\* Setting the encoding changes nothing else of the sender.
LEMMA EncodingIsSet ==
  ASSUME SenderIsTyped, NEW on \in BOOLEAN, sender' = Encoding(on)
  PROVE  /\ SenderIsTyped'
         /\ sender'.conn = sender.conn /\ sender'.track = sender.track
         /\ sender = NoSender => sender' = NoSender
         /\ sender # NoSender => sender'.active = on
<1>1. CASE sender = NoSender
  BY <1>1 DEF Encoding, SenderIsTyped
<1>2. CASE sender # NoSender
  <2>1. sender' = [conn |-> sender.conn, track |-> sender.track, active |-> on]
    BY <1>2 DEF Encoding, SenderIsTyped
  <2>2. QED
    BY <1>2, <2>1 DEF SenderIsTyped
<1>3. QED
  BY <1>1, <1>2

\* Each action keeps the invariant.  The start and the stop, step by step.
LEMMA ToggleHolds ==
  ASSUME ScreenInv, Toggle
  PROVE  ScreenInv'
<1>1. TypeOK'
  BY BoundsAreNat DEF ScreenInv, Toggle, NoStart, NoStop, hubVars, TypeOK, Captures
<1>2. StartIsTyped'
  BY BoundsAreNat DEF ScreenInv, Toggle, NoStart, NoStop, hubVars, StartIsTyped,
    QueuesAreTyped, Picks, TypeOK, StartPcs, Ups, Downs, Captures
<1>3. StopIsTyped'
  BY BoundsAreNat DEF ScreenInv, Toggle, NoStart, NoStop, hubVars, StopIsTyped
<1>4. SenderIsTyped'
  BY BoundsAreNat DEF ScreenInv, Toggle, NoStart, NoStop, hubVars, SenderIsTyped
<1>5. QueuesAreTyped'
  BY BoundsAreNat DEF ScreenInv, Toggle, NoStart, NoStop, hubVars, QueuesAreTyped, Ups,
    Downs
<1>6. BoundsAreTyped'
  BY BoundsAreNat DEF ScreenInv, Toggle, NoStart, NoStop, hubVars, BoundsAreTyped
<1>7. Offline'
  BY BoundsAreNat DEF ScreenInv, Toggle, NoStart, NoStop, hubVars, Offline, NoSender
<1>8. Picks'
  BY BoundsAreNat DEF ScreenInv, Toggle, NoStart, NoStop, Picks, BoundsAreTyped,
    Captures
<1>9. SenderIsRight'
  BY BoundsAreNat DEF ScreenInv, Toggle, NoStart, NoStop, hubVars, SenderIsRight
<1>10. CapturesAreHeld'
  BY BoundsAreNat DEF ScreenInv, Toggle, NoStart, NoStop, hubVars, CapturesAreHeld, Running
<1>11. OwnerIsTold'
  BY BoundsAreNat DEF ScreenInv, Toggle, NoStart, NoStop, hubVars, OwnerIsTold
<1>12. LeaseIsHeld'
  BY BoundsAreNat DEF ScreenInv, Toggle, NoStart, NoStop, hubVars, LeaseIsHeld, Claimed
<1>13. OneAnswer'
  BY BoundsAreNat DEF ScreenInv, Toggle, NoStart, NoStop, hubVars, OneAnswer, Pending,
    Answers
<1>14. GrantIsKept'
  BY BoundsAreNat DEF ScreenInv, Toggle, NoStart, NoStop, hubVars, GrantIsKept,
    Answers, Lost
<1>15. late' \in BOOLEAN
  BY DEF ScreenInv, Toggle, NoStart, NoStop, hubVars
<1>16. QED
  BY <1>1, <1>2, <1>3, <1>4, <1>5, <1>6, <1>7, <1>8, <1>9, <1>10, <1>11, <1>12, <1>13,
    <1>14, <1>15 DEF ScreenInv

LEMMA PickedHolds ==
  ASSUME ScreenInv, Picked
  PROVE  ScreenInv'
<1>1. TypeOK'
  BY BoundsAreNat, StateNames DEF ScreenInv, Picked, hubVars, bounds, TypeOK,
    QueuesAreTyped, BoundsAreTyped, SenderIsTyped, StartIsTyped, Picks, Offline,
    Captures, Ups, Downs, StartPcs, NoStart, NoStop, NoSender
<1>2. StartIsTyped'
  BY BoundsAreNat DEF ScreenInv, Picked, hubVars, bounds, StartIsTyped, StartPcs,
    NoStart
<1>3. StopIsTyped'
  BY BoundsAreNat DEF ScreenInv, Picked, hubVars, bounds, StopIsTyped, NoStop
<1>4. SenderIsTyped'
  BY BoundsAreNat DEF ScreenInv, Picked, hubVars, bounds, SenderIsTyped
<1>5. QueuesAreTyped'
  BY BoundsAreNat DEF ScreenInv, Picked, hubVars, bounds, QueuesAreTyped, Ups, Downs
<1>6. BoundsAreTyped'
  BY BoundsAreNat DEF ScreenInv, Picked, hubVars, bounds, BoundsAreTyped
<1>7. Offline'
  BY BoundsAreNat DEF ScreenInv, Picked, hubVars, bounds, Offline, NoSender
<1>8. Picks'
  BY BoundsAreNat DEF ScreenInv, Picked, hubVars, bounds, Picks, NoStop, Captures
<1>9. SenderIsRight'
  BY BoundsAreNat DEF ScreenInv, Picked, hubVars, bounds, SenderIsRight
<1>10. CapturesAreHeld'
  BY BoundsAreNat DEF ScreenInv, Picked, hubVars, bounds, CapturesAreHeld, QueuesAreTyped,
    Picks, TypeOK, Running, Ups, Downs, NoStop, Captures
<1>11. OwnerIsTold'
  BY BoundsAreNat DEF ScreenInv, Picked, hubVars, bounds, OwnerIsTold
<1>12. LeaseIsHeld'
  BY BoundsAreNat DEF ScreenInv, Picked, hubVars, bounds, LeaseIsHeld, Claimed
<1>13. OneAnswer'
  BY BoundsAreNat DEF ScreenInv, Picked, hubVars, bounds, OneAnswer, QueuesAreTyped,
    Picks, TypeOK, Pending, Answers, Ups, Downs, NoStop, Captures
<1>14. GrantIsKept'
  BY BoundsAreNat, StateNames DEF ScreenInv, Picked, hubVars, bounds, TypeOK,
    QueuesAreTyped, Offline, Picks, StartIsTyped, OneAnswer, GrantIsKept, Captures,
    Ups, Downs, NoSender, NoStop, StartPcs, NoStart, Pending, Answers, Lost
<1>15. late' \in BOOLEAN
  BY DEF ScreenInv, Picked, hubVars, bounds
<1>16. QED
  BY <1>1, <1>2, <1>3, <1>4, <1>5, <1>6, <1>7, <1>8, <1>9, <1>10, <1>11, <1>12, <1>13,
    <1>14, <1>15 DEF ScreenInv

LEMMA PickRefusedHolds ==
  ASSUME ScreenInv, PickRefused
  PROVE  ScreenInv'
<1>1. /\ up' \in Seq(Ups) /\ Pending' = Pending /\ ~Claimed'
  <2>1. conn' = conn /\ lease' = lease /\ up' = Release(up)
    BY DEF PickRefused, hubVars
  <2>2. QED
    BY <2>1, ReleasesAreQuiet DEF ScreenInv, QueuesAreTyped, Offline, Pending
<1>2. TypeOK'
  BY BoundsAreNat DEF ScreenInv, PickRefused, Trouble, NoStart, Release, hubVars, Send,
    TypeOK, Captures
<1>3. StartIsTyped'
  BY BoundsAreNat DEF ScreenInv, PickRefused, Trouble, NoStart, Release, hubVars, Send,
    StartIsTyped, StartPcs
<1>4. StopIsTyped'
  BY BoundsAreNat DEF ScreenInv, PickRefused, Trouble, NoStart, Release, hubVars, Send,
    StopIsTyped, NoStop
<1>5. SenderIsTyped'
  BY BoundsAreNat DEF ScreenInv, PickRefused, Trouble, NoStart, Release, hubVars, Send,
    SenderIsTyped
<1>6. QueuesAreTyped'
  BY BoundsAreNat DEF ScreenInv, PickRefused, Trouble, NoStart, Release, hubVars, Send,
    QueuesAreTyped, Ups, Downs
<1>7. BoundsAreTyped'
  BY BoundsAreNat DEF ScreenInv, PickRefused, Trouble, NoStart, Release, hubVars, Send,
    BoundsAreTyped
<1>8. Offline'
  BY BoundsAreNat DEF ScreenInv, PickRefused, Trouble, NoStart, Release, hubVars, Send,
    Offline, NoSender
<1>9. Picks'
  BY BoundsAreNat DEF ScreenInv, PickRefused, Trouble, NoStart, Release, hubVars, Send,
    Picks, NoStop, Captures
<1>10. SenderIsRight'
  BY BoundsAreNat DEF ScreenInv, PickRefused, Trouble, NoStart, Release, hubVars, Send,
    SenderIsRight, QueuesAreTyped, Picks, TypeOK, Ups, Downs, NoStop, Captures
<1>11. CapturesAreHeld'
  BY BoundsAreNat DEF ScreenInv, PickRefused, Trouble, NoStart, Release, hubVars, Send,
    CapturesAreHeld, Running
<1>12. OwnerIsTold'
  BY BoundsAreNat DEF ScreenInv, PickRefused, Trouble, NoStart, Release, hubVars, Send,
    OwnerIsTold
<1>13. LeaseIsHeld'
  BY <1>1 DEF LeaseIsHeld
<1>14. OneAnswer'
  <2>1. screen' = 0
    BY DEF ScreenInv, PickRefused, Picks
  <2>2. QED
    BY <1>1, <2>1, AnswersAreKept DEF ScreenInv, PickRefused
<1>15. GrantIsKept'
  BY BoundsAreNat DEF ScreenInv, PickRefused, Trouble, NoStart, Release, hubVars, Send,
    GrantIsKept, QueuesAreTyped, Picks, TypeOK, Answers, Lost, Ups, Downs, NoStop,
    Captures
<1>16. late' \in BOOLEAN
  BY DEF ScreenInv, PickRefused, Trouble, NoStart, Release, hubVars, Send
<1>17. QED
  BY <1>2, <1>3, <1>4, <1>5, <1>6, <1>7, <1>8, <1>9, <1>10, <1>11, <1>12, <1>13, <1>14,
    <1>15, <1>16 DEF ScreenInv

LEMMA ActivateHolds ==
  ASSUME ScreenInv, Activate
  PROVE  ScreenInv'
<1>0. /\ SenderIsTyped' /\ sender'.conn = sender.conn /\ sender'.track = sender.track
      /\ sender = NoSender => sender' = NoSender
      /\ sender # NoSender => sender'.active = ~suspended
  BY EncodingIsSet DEF ScreenInv, TypeOK, Activate
<1>1. TypeOK'
  BY <1>0, BoundsAreNat, StateNames DEF ScreenInv, Activate, NoSender, hubVars, bounds,
    TypeOK, QueuesAreTyped, BoundsAreTyped, SenderIsTyped, StartIsTyped, Picks,
    Offline, Captures, Ups, Downs, StartPcs, NoStart, NoStop
<1>2. StartIsTyped'
  BY BoundsAreNat DEF ScreenInv, Activate, NoSender, hubVars, bounds, StartIsTyped,
    StartPcs, NoStart
<1>3. StopIsTyped'
  BY BoundsAreNat DEF ScreenInv, Activate, NoSender, hubVars, bounds, StopIsTyped,
    NoStop
<1>4. SenderIsTyped'
  BY <1>0
<1>5. QueuesAreTyped'
  BY BoundsAreNat DEF ScreenInv, Activate, NoSender, hubVars, bounds, QueuesAreTyped,
    Ups, Downs
<1>6. BoundsAreTyped'
  BY BoundsAreNat DEF ScreenInv, Activate, NoSender, hubVars, bounds, BoundsAreTyped
<1>7. Offline'
  BY <1>0 DEF ScreenInv, Activate, hubVars, bounds, Offline
<1>8. Picks'
  BY BoundsAreNat DEF ScreenInv, Activate, NoSender, hubVars, bounds, Picks, NoStop,
    Captures
<1>9. SenderIsRight'
  <2>1. NoSender.conn = 0
    BY DEF NoSender
  <2>2. QED
    BY <1>0, <2>1 DEF ScreenInv, Activate, hubVars, bounds, SenderIsRight
<1>10. CapturesAreHeld'
  BY BoundsAreNat DEF ScreenInv, Activate, NoSender, hubVars, bounds, CapturesAreHeld,
    Running
<1>11. OwnerIsTold'
  BY BoundsAreNat DEF ScreenInv, Activate, NoSender, hubVars, bounds, OwnerIsTold
<1>12. LeaseIsHeld'
  BY BoundsAreNat DEF ScreenInv, Activate, NoSender, hubVars, bounds, LeaseIsHeld,
    Claimed
<1>13. OneAnswer'
  BY BoundsAreNat DEF ScreenInv, Activate, NoSender, hubVars, bounds, OneAnswer,
    Pending, Answers
<1>14. GrantIsKept'
  BY BoundsAreNat DEF ScreenInv, Activate, NoSender, hubVars, bounds, GrantIsKept,
    Answers, Lost
<1>15. late' \in BOOLEAN
  BY DEF ScreenInv, Activate, NoSender, hubVars, bounds
<1>16. QED
  BY <1>1, <1>2, <1>3, <1>4, <1>5, <1>6, <1>7, <1>8, <1>9, <1>10, <1>11, <1>12, <1>13,
    <1>14, <1>15 DEF ScreenInv

LEMMA UndoneHolds ==
  ASSUME ScreenInv, Undone
  PROVE  ScreenInv'
<1>1. /\ up' \in Seq(Ups) /\ Pending' = Pending
      /\ Claimed' => Claimed /\ up' = up
  <2>1. conn' = conn /\ lease' = lease /\ up' \in {up, Release(up)}
    BY DEF Undone, hubVars, GiveUp
  <2>2. QED
    BY <2>1, UpIsQuiet
<1>2. TypeOK'
  BY BoundsAreNat, StateNames DEF ScreenInv, Undone, NoSender, GiveUp, hubVars, bounds,
    Release, CameraAfter, NoStart, Send, TypeOK, QueuesAreTyped, BoundsAreTyped,
    SenderIsTyped, StartIsTyped, Picks, Offline, Captures, Ups, Downs, StartPcs, NoStop
<1>3. StartIsTyped'
  BY BoundsAreNat DEF ScreenInv, Undone, NoSender, GiveUp, hubVars, bounds, Release,
    CameraAfter, NoStart, Send, StartIsTyped, StartPcs
<1>4. StopIsTyped'
  BY BoundsAreNat DEF ScreenInv, Undone, NoSender, GiveUp, hubVars, bounds, Release,
    CameraAfter, NoStart, Send, StopIsTyped, NoStop
<1>5. SenderIsTyped'
  <2>1. sender \in [conn : Nat, track : 0 .. MaxStarts, active : BOOLEAN] /\ 0 \in 0 .. MaxStarts
    BY BoundsAreNat DEF ScreenInv, SenderIsTyped
  <2>2. sender' = sender \/ sender' = [sender EXCEPT !.active = FALSE, !.track = 0]
        \/ sender' = [sender EXCEPT !.track = 0, !.active = FALSE]
    BY DEF Undone
  <2>3. sender' \in [conn : Nat, track : 0 .. MaxStarts, active : BOOLEAN]
    BY <2>1, <2>2
  <2>4. QED
    BY <2>3 DEF SenderIsTyped
<1>6. QueuesAreTyped'
  BY BoundsAreNat DEF ScreenInv, Undone, NoSender, GiveUp, hubVars, bounds, Release,
    CameraAfter, NoStart, Send, QueuesAreTyped, Ups, Downs
<1>7. BoundsAreTyped'
  BY BoundsAreNat DEF ScreenInv, Undone, NoSender, GiveUp, hubVars, bounds, Release,
    CameraAfter, NoStart, Send, BoundsAreTyped
<1>8. Offline'
  BY BoundsAreNat, StateNames DEF ScreenInv, Undone, NoSender, GiveUp, hubVars, bounds,
    Release, CameraAfter, NoStart, Send, TypeOK, StartIsTyped, StopIsTyped,
    SenderIsTyped, QueuesAreTyped, Offline, Captures, StartPcs, NoStop, Ups, Downs
<1>9. Picks'
  BY BoundsAreNat DEF ScreenInv, Undone, NoSender, GiveUp, hubVars, bounds, Release,
    CameraAfter, NoStart, Send, Picks, NoStop, Captures
<1>10. SenderIsRight'
  BY BoundsAreNat DEF ScreenInv, Undone, NoSender, GiveUp, hubVars, bounds, Release,
    CameraAfter, NoStart, Send, SenderIsRight, QueuesAreTyped, Picks, TypeOK, Ups,
    Downs, NoStop, Captures
<1>11. CapturesAreHeld'
  BY BoundsAreNat DEF ScreenInv, Undone, NoSender, GiveUp, hubVars, bounds, Release,
    CameraAfter, NoStart, Send, CapturesAreHeld, Running
<1>12. OwnerIsTold'
  BY BoundsAreNat DEF ScreenInv, Undone, NoSender, GiveUp, hubVars, bounds, Release,
    CameraAfter, NoStart, Send, OwnerIsTold
<1>13. LeaseIsHeld'
  <2>1. ~Claimed'
    <3>1. up' = Release(up) /\ conn' = conn /\ lease' = lease
      BY DEF Undone, GiveUp, hubVars
    <3>2. QED
      BY <3>1, ReleasesAreQuiet DEF ScreenInv, QueuesAreTyped, Offline
  <2>2. QED
    BY <2>1 DEF LeaseIsHeld
<1>14. OneAnswer'
  <2>1. screen' = 0
    BY DEF ScreenInv, Undone, Picks
  <2>2. QED
    BY <1>1, <2>1, AnswersAreKept DEF ScreenInv, Undone
<1>15. GrantIsKept'
  BY BoundsAreNat DEF ScreenInv, Undone, NoSender, GiveUp, hubVars, bounds, Release,
    CameraAfter, NoStart, Send, GrantIsKept, QueuesAreTyped, Picks, TypeOK, Answers,
    Lost, Ups, Downs, NoStop, Captures
<1>16. late' \in BOOLEAN
  BY DEF ScreenInv, Undone, NoSender, GiveUp, hubVars, bounds, Release, CameraAfter,
    NoStart, Send
<1>17. QED
  BY <1>2, <1>3, <1>4, <1>5, <1>6, <1>7, <1>8, <1>9, <1>10, <1>11, <1>12, <1>13, <1>14,
    <1>15, <1>16 DEF ScreenInv

LEMMA StoppedHolds ==
  ASSUME ScreenInv, Stopped
  PROVE  ScreenInv'
<1>0. /\ SenderIsTyped' /\ sender'.conn = sender.conn /\ sender'.track = sender.track
      /\ sender = NoSender => sender' = NoSender
      /\ sender # NoSender => sender'.active = ~suspended
  BY EncodingIsSet DEF ScreenInv, TypeOK, Stopped
<1>1. TypeOK'
  BY <1>0, BoundsAreNat DEF ScreenInv, Stopped, NoStop, hubVars, bounds, TypeOK, Captures,
    SenderIsTyped
<1>2. StartIsTyped'
  BY BoundsAreNat DEF ScreenInv, Stopped, NoStop, hubVars, bounds, StartIsTyped,
    StartPcs, NoStart
<1>3. StopIsTyped'
  BY BoundsAreNat DEF ScreenInv, Stopped, NoStop, hubVars, bounds, StopIsTyped
<1>4. SenderIsTyped'
  BY <1>0
<1>5. QueuesAreTyped'
  BY BoundsAreNat DEF ScreenInv, Stopped, NoStop, hubVars, bounds, QueuesAreTyped, Ups,
    Downs
<1>6. BoundsAreTyped'
  BY BoundsAreNat DEF ScreenInv, Stopped, NoStop, hubVars, bounds, BoundsAreTyped
<1>7. Offline'
  BY <1>0 DEF ScreenInv, Stopped, NoStop, hubVars, bounds, Offline, NoSender
<1>8. Picks'
  BY BoundsAreNat DEF ScreenInv, Stopped, NoStop, hubVars, bounds, Picks, Captures
<1>9. SenderIsRight'
  <2>1. NoSender.conn = 0
    BY DEF NoSender
  <2>2. QED
    BY <1>0, <2>1 DEF ScreenInv, Stopped, NoStop, hubVars, bounds, SenderIsRight, Picks
<1>10. CapturesAreHeld'
  BY BoundsAreNat DEF ScreenInv, Stopped, NoStop, hubVars, bounds, CapturesAreHeld, Running
<1>11. OwnerIsTold'
  BY BoundsAreNat DEF ScreenInv, Stopped, NoStop, hubVars, bounds, OwnerIsTold
<1>12. LeaseIsHeld'
  BY BoundsAreNat DEF ScreenInv, Stopped, NoStop, hubVars, bounds, LeaseIsHeld, Claimed
<1>13. OneAnswer'
  BY BoundsAreNat DEF ScreenInv, Stopped, NoStop, hubVars, bounds, OneAnswer, Pending,
    Answers
<1>14. GrantIsKept'
  BY BoundsAreNat DEF ScreenInv, Stopped, NoStop, hubVars, bounds, GrantIsKept,
    Answers, Lost
<1>15. late' \in BOOLEAN
  BY DEF ScreenInv, Stopped, NoStop, hubVars, bounds
<1>16. QED
  BY <1>1, <1>2, <1>3, <1>4, <1>5, <1>6, <1>7, <1>8, <1>9, <1>10, <1>11, <1>12, <1>13,
    <1>14, <1>15 DEF ScreenInv

LEMMA SuspendVideoHolds ==
  ASSUME ScreenInv, SuspendVideo
  PROVE  ScreenInv'
<1>1. /\ SenderIsTyped' /\ sender'.conn = sender.conn /\ sender'.track = sender.track
      /\ sender = NoSender => sender' = NoSender
      /\ sender # NoSender => sender'.active = ~suspended'
  BY EncodingIsSet DEF ScreenInv, SuspendVideo
<1>2. /\ suspended' \in BOOLEAN
      /\ UNCHANGED <<conn, live, screen, start, stop, request, owner, allowed, camera, lease,
                     enabled, up, down, starts, drops, cut, late, failed>>
  BY DEF SuspendVideo, hubVars
<1>3. BoundsAreTyped'
  BY <1>2, TroubleIsBounded DEF SuspendVideo
<1>4. StartIsTyped' /\ StopIsTyped' /\ QueuesAreTyped' /\ late' \in BOOLEAN
  BY <1>2 DEF ScreenInv, StartIsTyped, StopIsTyped, QueuesAreTyped
<1>5. TypeOK'
  BY <1>1, <1>2, BoundsAreNat DEF ScreenInv, TypeOK, SenderIsTyped, Captures
<1>6. Offline' /\ Picks' /\ CapturesAreHeld' /\ OwnerIsTold' /\ LeaseIsHeld'
  BY <1>1, <1>2 DEF ScreenInv, Offline, Picks, CapturesAreHeld, Running, OwnerIsTold,
                    LeaseIsHeld, Claimed
<1>7. SenderIsRight'
  <2>1. NoSender.conn = 0
    BY DEF NoSender
  <2>2. QED
    BY <1>1, <1>2, <2>1 DEF ScreenInv, SenderIsRight
<1>8. OneAnswer' /\ GrantIsKept'
  BY <1>2 DEF ScreenInv, OneAnswer, GrantIsKept, Pending, Answers, Lost
<1>9. QED
  BY <1>1, <1>3, <1>4, <1>5, <1>6, <1>7, <1>8 DEF ScreenInv

LEMMA DetachHolds ==
  ASSUME ScreenInv, Detach
  PROVE  ScreenInv'
<1> USE BoundsAreNat
<1>1. /\ stop.pc = "pausing" /\ screen = 0
      /\ UNCHANGED <<conn, screen, start, request, owner, allowed, camera, lease, enabled,
                     down, starts, drops, troubles, suspended, cut, late, failed>>
  BY DEF ScreenInv, Picks, NoStop, Detach, hubVars, bounds
<1>2. /\ sender \in [conn : Nat, track : 0 .. MaxStarts, active : BOOLEAN]
      /\ stop \in [pc : {"idle", "pausing", "resuming"}, conn : Nat, cap : 0 .. MaxStarts]
  BY DEF ScreenInv, SenderIsTyped, StopIsTyped
<1>3. /\ StartIsTyped' /\ BoundsAreTyped' /\ Picks' /\ OwnerIsTold' /\ GrantIsKept'
      /\ late' \in BOOLEAN
  <2>1. StartIsTyped' /\ BoundsAreTyped' /\ OwnerIsTold' /\ late' \in BOOLEAN
    BY <1>1 DEF ScreenInv, StartIsTyped, BoundsAreTyped, OwnerIsTold
  <2>2. Picks' /\ GrantIsKept'
    BY <1>1 DEF ScreenInv, Picks, GrantIsKept, NoStop
  <2>3. QED
    BY <2>1, <2>2
<1>4. up' \in {up, Release(up)} /\ conn' = conn /\ lease' = lease
  BY <1>1 DEF Detach
<1>5. /\ up' \in Seq(Ups) /\ Pending' = Pending
      /\ conn = 0 => up' = <<>>
  BY <1>4, UpIsQuiet
<1>6. OneAnswer' /\ QueuesAreTyped'
  BY <1>1, <1>5, AnswersAreKept DEF ScreenInv, QueuesAreTyped
<1>7. CASE stop.conn = conn
  <2>1. /\ sender' = [sender EXCEPT !.track = 0, !.active = FALSE]
        /\ live' = live \ {stop.cap} /\ up' = Release(up)
        /\ stop' = [stop EXCEPT !.pc = "resuming"]
    BY <1>7 DEF Detach
  <2>2. ~Claimed'
    BY <1>1, <2>1, ReleasesAreQuiet DEF ScreenInv, QueuesAreTyped, Offline
  <2>3. /\ sender' \in [conn : Nat, track : 0 .. MaxStarts, active : BOOLEAN]
        /\ sender'.conn = sender.conn /\ sender'.track = 0 /\ ~sender'.active
        /\ stop'.pc = "resuming"
        /\ stop' \in [pc : {"idle", "pausing", "resuming"}, conn : Nat, cap : 0 .. MaxStarts]
    <3>1. /\ stop'.pc = "resuming"
          /\ stop' \in [pc : {"idle", "pausing", "resuming"}, conn : Nat, cap : 0 .. MaxStarts]
      BY <1>2, <2>1
    <3>2. sender' = [conn |-> sender.conn, track |-> 0, active |-> FALSE]
      BY <1>2, <2>1
    <3>3. QED
      BY <1>2, <3>1, <3>2
  <2>4. SenderIsTyped' /\ StopIsTyped'
    BY <2>3 DEF SenderIsTyped, StopIsTyped, NoStop
  <2>5. TypeOK'
    BY <1>1, <2>1, <2>3 DEF ScreenInv, TypeOK
  <2>6. Offline'
    <3>1. conn = 0 => sender = NoSender
      BY DEF ScreenInv, Offline
    <3>2. sender = NoSender => sender' = NoSender
      <4>1. sender' = [conn |-> sender.conn, track |-> 0, active |-> FALSE]
        BY <1>2, <2>1
      <4>2. QED
        BY <4>1 DEF NoSender
    <3>3. QED
      BY <1>1, <1>5, <2>3, <3>1, <3>2 DEF ScreenInv, Offline
  <2>7. SenderIsRight'
    BY <1>1, <2>3 DEF SenderIsRight
  <2>8. CapturesAreHeld'
    BY <1>1, <2>1, <2>3 DEF ScreenInv, CapturesAreHeld, Running
  <2>9. LeaseIsHeld'
    BY <2>2 DEF LeaseIsHeld
  <2>10. QED
    BY <1>3, <1>6, <2>4, <2>5, <2>6, <2>7, <2>8, <2>9 DEF ScreenInv
<1>8. CASE stop.conn # conn
  <2>1. stop' = NoStop /\ UNCHANGED <<sender, live, up>>
    BY <1>8 DEF Detach
  <2>2. conn = 0 /\ cut /\ sender = NoSender /\ ~Claimed'
    BY <1>1, <1>8, <2>1 DEF ScreenInv, Offline, Claimed
  <2>3. stop'.pc = "idle" /\ SenderIsTyped' /\ StopIsTyped'
    BY <1>2, <2>1 DEF SenderIsTyped, StopIsTyped, NoStop
  <2>4. TypeOK' /\ Offline'
    BY <1>1, <2>1, <2>3 DEF ScreenInv, TypeOK, Offline
  <2>5. SenderIsRight' /\ CapturesAreHeld' /\ LeaseIsHeld'
    BY <1>1, <2>1, <2>2 DEF SenderIsRight, CapturesAreHeld, LeaseIsHeld, NoSender
  <2>6. QED
    BY <1>3, <1>6, <2>3, <2>4, <2>5 DEF ScreenInv
<1>9. QED
  BY <1>7, <1>8

\* The catch, from the invariant to the invariant.
LEMMA CatchKeeps ==
  ASSUME ScreenInv, Catch, start.pc \notin {"idle", "undoing", "asking"},
         UNCHANGED <<conn, sender, stop, owner, allowed, hubVars, down, suspended, cut, late>>,
         BoundsAreTyped'
  PROVE  ScreenInv'
<1>1. /\ UNCHANGED <<conn, sender, stop, owner, allowed, lease, enabled, down, suspended, cut, late>>
      /\ owner' \in {"none", "me", "other"} /\ down' \in Seq(Downs) /\ CatchAfter(up)
  BY DEF ScreenInv, TypeOK, QueuesAreTyped, hubVars, Catch
<1>2. /\ TypeOK' /\ StartIsTyped' /\ StopIsTyped' /\ SenderIsTyped' /\ QueuesAreTyped'
      /\ BoundsAreTyped' /\ Offline' /\ Picks' /\ SenderIsRight' /\ CapturesAreHeld'
      /\ LeaseIsHeld' /\ GrantIsKept' /\ Pending' = Pending /\ ~request'
  BY <1>1, CatchHolds DEF hubVars
<1>3. OwnerIsTold' /\ late' \in BOOLEAN
  BY <1>1 DEF ScreenInv, OwnerIsTold
<1>4. OneAnswer'
  <2>1. screen' = 0 /\ request' = FALSE
    BY <1>1 DEF CatchAfter
  <2>2. ~request' /\ ~request
    BY <2>1 DEF ScreenInv, TypeOK
  <2>3. QED
    BY <1>1, <1>2, <2>1, <2>2, AnswersAreKept DEF ScreenInv
<1>5. QED
  BY <1>2, <1>3, <1>4 DEF ScreenInv

LEMMA AskHolds ==
  ASSUME ScreenInv, Ask
  PROVE  ScreenInv'
<1>1. /\ start.pc = "closing" /\ ~request
      /\ UNCHANGED <<conn, sender, stop, owner, allowed, lease, enabled, down, suspended, cut, late>>
      /\ BoundsAreTyped'
  BY SameBounds DEF ScreenInv, TypeOK, Ask, hubVars
<1>2. CASE conn = 0 \/ screen = 0
  BY <1>1, <1>2, CatchKeeps DEF Ask, hubVars
<1>3. CASE conn # 0 /\ screen # 0
  <2>1. /\ request' = TRUE /\ up' = Append(up, "start")
        /\ start' = [start EXCEPT !.pc = "asking"]
        /\ UNCHANGED <<screen, live, camera, failed>>
    BY <1>3 DEF Ask
  <2>2. /\ up \in Seq(Ups) /\ "start" \in Ups /\ conn \in Nat
        /\ start \in [pc : StartPcs, conn : Nat, camera : BOOLEAN, cap : 0 .. MaxStarts,
                      denied : BOOLEAN, ended : BOOLEAN]
        /\ stop = NoStop
    BY <1>3 DEF ScreenInv, QueuesAreTyped, StartIsTyped, Ups, Picks
  <2>3. /\ start' \in [pc : StartPcs, conn : Nat, camera : BOOLEAN, cap : 0 .. MaxStarts,
                      denied : BOOLEAN, ended : BOOLEAN]
        /\ start'.pc = "asking"
    BY <2>1, <2>2 DEF StartPcs
  <2>4. start' # NoStart
    BY <2>3 DEF NoStart
  <2>5. /\ up' \in Seq(Ups) /\ Len(up) \in Nat /\ DOMAIN up = 1 .. Len(up)
        /\ Len(up') = Len(up) + 1 /\ DOMAIN up' = 1 .. Len(up) + 1
        /\ \A i \in 1 .. Len(up) : up'[i] = up[i]
        /\ up'[Len(up) + 1] = "start"
    BY <2>1, <2>2
  <2>6. /\ StartIsTyped' /\ StopIsTyped' /\ SenderIsTyped' /\ QueuesAreTyped' /\ TypeOK'
        /\ late' \in BOOLEAN
    <3>1. StartIsTyped'
      BY <2>3, <2>4 DEF StartIsTyped
    <3>2. StopIsTyped' /\ SenderIsTyped' /\ QueuesAreTyped' /\ late' \in BOOLEAN
      BY <1>1, <2>5 DEF ScreenInv, StopIsTyped, SenderIsTyped, QueuesAreTyped
    <3>3. TypeOK'
      BY <1>1, <2>1, <2>3 DEF ScreenInv, TypeOK
    <3>4. QED
      BY <3>1, <3>2, <3>3
  <2>7. Offline' /\ Picks' /\ OwnerIsTold'
    BY <1>1, <1>3, <2>1, <2>2, <2>3, <2>4 DEF ScreenInv, Offline, Picks, OwnerIsTold
  <2>8. SenderIsRight'
    BY <1>1, <2>1, <2>2, <2>3, <2>4 DEF ScreenInv, SenderIsRight
  <2>9. CapturesAreHeld' /\ LeaseIsHeld'
    BY <1>1, <2>1, <2>3 DEF ScreenInv, CapturesAreHeld, Running, LeaseIsHeld
  <2>10. ~late => Pending = {} /\ Answers = {}
    BY <1>1 DEF ScreenInv, OneAnswer
  <2>11. ~late => Pending' = {Len(up')} /\ Answers' = {}
    <3>1. Pending' = {i \in 1 .. Len(up) + 1 : up'[i] = "start"}
      BY <2>5 DEF Pending
    <3>2. ~late => \A i \in 1 .. Len(up) : up[i] # "start"
      BY <2>5, <2>10 DEF Pending
    <3>3. Answers' = Answers
      BY <1>1 DEF Answers, AnswersIn
    <3>4. QED
      BY <2>5, <2>10, <3>1, <3>2, <3>3
  <2>12. OneAnswer'
    BY <1>1, <2>1, <2>11 DEF OneAnswer
  <2>13. GrantIsKept'
    BY <1>1, <2>3, <2>11 DEF GrantIsKept
  <2>14. QED
    BY <1>1, <2>6, <2>7, <2>8, <2>9, <2>12, <2>13 DEF ScreenInv
<1>4. QED
  BY <1>2, <1>3

LEMMA NegotiationFailsHolds ==
  ASSUME ScreenInv, NegotiationFails
  PROVE  ScreenInv'
<1>1. Trouble /\ UNCHANGED <<starts, drops>> /\ start.pc = "negotiating" /\ Catch
      /\ UNCHANGED <<conn, sender, stop, owner, allowed, hubVars, down, suspended, cut, late>>
  BY DEF NegotiationFails
<1>2. QED
  BY <1>1, TroubleIsBounded, CatchKeeps

LEMMA AttachHolds ==
  ASSUME ScreenInv, Attach
  PROVE  ScreenInv'
<1>1. /\ start.pc = "attaching" /\ ~request
      /\ UNCHANGED <<conn, stop, owner, allowed, lease, enabled, down, starts, drops, troubles, suspended, cut, late>>
      /\ BoundsAreTyped'
  BY SameBounds DEF ScreenInv, TypeOK, Attach, hubVars, bounds
<1>2. CASE start.conn # conn
  BY <1>1, <1>2, CatchKeeps DEF Attach, hubVars
<1>3. CASE start.conn = conn
  <2>1. /\ sender' = [sender EXCEPT !.track = screen]
        /\ start' = [start EXCEPT !.pc = "negotiating"]
        /\ UNCHANGED <<screen, request, live, up, camera, failed>>
    BY <1>3 DEF Attach
  <2>2. /\ start \in [pc : StartPcs, conn : Nat, camera : BOOLEAN, cap : 0 .. MaxStarts,
                      denied : BOOLEAN, ended : BOOLEAN]
        /\ sender \in [conn : Nat, track : 0 .. MaxStarts, active : BOOLEAN]
        /\ screen \in 0 .. MaxStarts
        /\ screen # 0 => stop = NoStop /\ conn # 0 /\ sender.conn = conn
    <3>1. screen \in 0 .. MaxStarts
      BY BoundsAreNat DEF ScreenInv, TypeOK, Captures
    <3>2. screen # 0 => stop = NoStop /\ conn # 0 /\ sender.conn = conn
      BY <1>1 DEF ScreenInv, Picks, SenderIsRight
    <3>3. QED
      BY <3>1, <3>2 DEF ScreenInv, StartIsTyped, SenderIsTyped
  <2>3. /\ start' \in [pc : StartPcs, conn : Nat, camera : BOOLEAN, cap : 0 .. MaxStarts,
                      denied : BOOLEAN, ended : BOOLEAN]
        /\ start'.pc = "negotiating"
    BY <2>1, <2>2 DEF StartPcs
  <2>4. start' # NoStart
    BY <2>3 DEF NoStart
  <2>5. sender' = [conn |-> sender.conn, track |-> screen, active |-> sender.active]
    BY <2>1, <2>2
  <2>6. /\ sender' \in [conn : Nat, track : 0 .. MaxStarts, active : BOOLEAN]
        /\ sender'.conn = sender.conn /\ sender'.track = screen
    BY <2>2, <2>5
  <2>7. StartIsTyped' /\ SenderIsTyped' /\ StopIsTyped' /\ QueuesAreTyped' /\ late' \in BOOLEAN
    BY <1>1, <2>1, <2>3, <2>4, <2>6
       DEF ScreenInv, StartIsTyped, SenderIsTyped, StopIsTyped, QueuesAreTyped
  <2>8. TypeOK'
    BY <1>1, <2>1, <2>2, <2>3, <2>6 DEF ScreenInv, TypeOK, Captures, SenderIsTyped
  <2>9. Offline'
    <3>1. screen = 0 /\ sender = NoSender => sender' = NoSender
      BY <2>5 DEF NoSender
    <3>2. sender.conn = 0 => sender = NoSender /\ screen = 0
      BY <1>1, <2>2 DEF ScreenInv, Offline
    <3>3. conn = 0 => sender = NoSender /\ screen = 0
      BY <1>1, <2>2 DEF ScreenInv, Offline
    <3>4. QED
      BY <1>1, <2>1, <2>6, <3>1, <3>2, <3>3 DEF ScreenInv, Offline
  <2>10. Picks'
    BY <1>1, <2>1, <2>3 DEF ScreenInv, Picks
  <2>11. SenderIsRight'
    BY <1>1, <2>1, <2>2, <2>3, <2>6 DEF SenderIsRight
  <2>12. CapturesAreHeld' /\ OwnerIsTold' /\ LeaseIsHeld'
    BY <1>1, <2>1, <2>3 DEF ScreenInv, CapturesAreHeld, Running, OwnerIsTold, LeaseIsHeld, Claimed
  <2>13. Pending' = Pending /\ Answers' = Answers /\ (Lost' <=> Lost)
    BY <1>1, <2>1 DEF Pending, Answers, AnswersIn, Lost, LostIn
  <2>14. OneAnswer' /\ GrantIsKept'
    BY <1>1, <2>1, <2>3, <2>13 DEF ScreenInv, OneAnswer, GrantIsKept
  <2>15. QED
    BY <1>1, <2>7, <2>8, <2>9, <2>10, <2>11, <2>12, <2>14 DEF ScreenInv
<1>4. QED
  BY <1>2, <1>3

LEMMA SharedHolds ==
  ASSUME ScreenInv, Shared
  PROVE  ScreenInv'
<1>1. /\ start.pc = "activating" /\ ~request
      /\ UNCHANGED <<conn, stop, sender, owner, allowed, lease, enabled, down, starts, drops,
                     troubles, suspended, cut, late>>
      /\ BoundsAreTyped'
  BY SameBounds DEF ScreenInv, TypeOK, Shared, hubVars, bounds
<1>2. CASE screen = 0 \/ screen \notin live
  BY <1>1, <1>2, CatchKeeps DEF Shared, hubVars
<1>3. CASE screen # 0 /\ screen \in live
  <2>1. start' = NoStart /\ start'.pc = "idle"
        /\ UNCHANGED <<screen, request, live, up, camera, failed>>
    BY <1>3 DEF Shared, NoStart
  <2>2. StartIsTyped'
    <3>1. NoStart \in [pc : StartPcs, conn : Nat, camera : BOOLEAN, cap : 0 .. MaxStarts,
                       denied : BOOLEAN, ended : BOOLEAN]
      BY BoundsAreNat DEF NoStart, StartPcs
    <3>2. QED
      BY <2>1, <3>1 DEF StartIsTyped
  <2>3. SenderIsTyped' /\ StopIsTyped' /\ QueuesAreTyped' /\ late' \in BOOLEAN
    BY <1>1, <2>1 DEF ScreenInv, SenderIsTyped, StopIsTyped, QueuesAreTyped
  <2>4. TypeOK'
    BY <1>1, <2>1 DEF ScreenInv, TypeOK
  <2>5. Offline' /\ Picks' /\ OwnerIsTold'
    BY <1>1, <2>1 DEF ScreenInv, Offline, Picks, OwnerIsTold
  <2>6. SenderIsRight'
    BY <1>1, <1>3, <2>1 DEF ScreenInv, SenderIsRight
  <2>7. CapturesAreHeld' /\ LeaseIsHeld'
    BY <1>1, <1>3, <2>1 DEF ScreenInv, CapturesAreHeld, Running, LeaseIsHeld, Claimed
  <2>8. Pending' = Pending /\ Answers' = Answers /\ (Lost' <=> Lost)
    BY <1>1, <2>1 DEF Pending, Answers, AnswersIn, Lost, LostIn
  <2>9. OneAnswer' /\ GrantIsKept'
    BY <1>1, <2>1, <2>8 DEF ScreenInv, OneAnswer, GrantIsKept
  <2>10. QED
    BY <1>1, <2>2, <2>3, <2>4, <2>5, <2>6, <2>7, <2>9 DEF ScreenInv
<1>4. QED
  BY <1>2, <1>3

LEMMA TimeOutHolds ==
  ASSUME ScreenInv, TimeOut
  PROVE  ScreenInv'
<1>1. /\ start.pc = "asking" /\ BoundsAreTyped' /\ CatchAfter(Release(up)) /\ late' = TRUE
      /\ UNCHANGED <<conn, sender, stop, owner, allowed, lease, enabled, down, suspended, cut>>
      /\ owner' \in {"none", "me", "other"} /\ down' \in Seq(Downs)
  BY TroubleIsBounded DEF ScreenInv, TypeOK, QueuesAreTyped, TimeOut, hubVars
<1>2. /\ TypeOK' /\ StartIsTyped' /\ StopIsTyped' /\ SenderIsTyped' /\ QueuesAreTyped'
      /\ BoundsAreTyped' /\ Offline' /\ Picks' /\ SenderIsRight' /\ CapturesAreHeld'
      /\ LeaseIsHeld' /\ GrantIsKept'
  BY <1>1, CatchHolds DEF hubVars
<1>3. OwnerIsTold' /\ OneAnswer'
  BY <1>1 DEF ScreenInv, OwnerIsTold, OneAnswer
<1>4. QED
  BY <1>1, <1>2, <1>3 DEF ScreenInv

\* Reading a message keeps what the page will take the owner to be.
LEMMA TailKeepsTold ==
  ASSUME ScreenInv, down # <<>>, down' = Tail(down), UNCHANGED <<conn, lease>>,
         owner' = IF Head(down) \in States THEN OwnerOf(Head(down)) ELSE owner
  PROVE  /\ OwnerIsTold' /\ conn # 0
         /\ down' \in Seq(Downs) /\ Head(down) \in Downs
         /\ owner' \in {"none", "me", "other"}
         /\ Answers' = {i \in 1 .. Len(down) - 1 : down[i + 1] = "state me"}
         /\ Lost => Lost' \/ Head(down) = "off"
         /\ Head(down) = down[1] /\ 1 \in DOMAIN down
         /\ DOMAIN down = 1 .. Len(down) /\ Len(down) \in Nat
<1>1. /\ conn # 0 /\ down \in Seq(Downs) /\ lease \in {"none", "me", "other"}
      /\ owner \in {"none", "me", "other"}
  BY DEF ScreenInv, Offline, QueuesAreTyped, TypeOK
<1>2. /\ down' \in Seq(Downs) /\ Len(down) \in Nat /\ Len(down) > 0
      /\ Len(down') = Len(down) - 1
      /\ \A i \in 1 .. Len(down) - 1 : down'[i] = down[i + 1]
      /\ Head(down) = down[1] /\ Head(down) \in Downs
      /\ DOMAIN down = 1 .. Len(down) /\ DOMAIN down' = 1 .. Len(down) - 1
  <2>1. Len(Tail(down)) = Len(down) - 1 /\ Tail(down) \in Seq(Downs)
    BY <1>1, TailDoes
  <2>2. QED
    BY <1>1, <2>1, TailDoes
<1>3. /\ \A i \in DOMAIN down :
           down[i] \in States /\ (\A j \in i + 1 .. Len(down) : down[j] \notin States)
             => down[i] = StateOf[lease]
      /\ (\A i \in DOMAIN down : down[i] \notin States) => owner = lease
  BY <1>1 DEF ScreenInv, OwnerIsTold, Told
<1>4. ASSUME NEW i \in DOMAIN down', down'[i] \in States,
             \A j \in i + 1 .. Len(down') : down'[j] \notin States
      PROVE  down'[i] = StateOf[lease]
  <2>1. i \in Nat /\ i + 1 \in DOMAIN down /\ down'[i] = down[i + 1]
    BY <1>2
  <2>2. ASSUME NEW j \in (i + 1) + 1 .. Len(down)
        PROVE  down[j] \notin States
    <3>1. j - 1 \in i + 1 .. Len(down') /\ j - 1 \in 1 .. Len(down) - 1 /\ (j - 1) + 1 = j
      BY <1>2, <2>1
    <3>2. QED
      BY <1>2, <1>4, <3>1
  <2>3. QED
    BY <1>3, <1>4, <2>1, <2>2
<1>5. ASSUME \A i \in DOMAIN down' : down'[i] \notin States
      PROVE  owner' = lease
  <2>1. ASSUME NEW j \in 2 .. Len(down)
        PROVE  down[j] \notin States
    <3>1. j - 1 \in DOMAIN down' /\ j - 1 \in 1 .. Len(down) - 1 /\ (j - 1) + 1 = j
      BY <1>2
    <3>2. QED
      BY <1>2, <1>5, <3>1
  <2>2. 1 \in DOMAIN down
    BY <1>2
  <2>3. CASE Head(down) \in States
    <3>1. down[1] = StateOf[lease]
      BY <1>2, <1>3, <2>1, <2>2, <2>3
    <3>2. QED
      BY <1>1, <1>2, <2>3, <3>1, StateNames
  <2>4. CASE Head(down) \notin States
    <3>1. \A i \in DOMAIN down : down[i] \notin States
      BY <1>2, <2>1, <2>4
    <3>2. QED
      BY <1>3, <2>4, <3>1
  <2>5. QED
    BY <2>3, <2>4
<1>6. OwnerIsTold'
  BY <1>4, <1>5 DEF OwnerIsTold, Told
<1>7. owner' \in {"none", "me", "other"}
  BY <1>1, StateNames
<1>8. Answers' = {i \in 1 .. Len(down) - 1 : down[i + 1] = "state me"}
  BY <1>2 DEF Answers, AnswersIn
<1>9. Lost => Lost' \/ Head(down) = "off"
  <2>1. ASSUME NEW i \in DOMAIN down, down[i] = "off", i # 1
        PROVE  Lost'
    <3>1. i - 1 \in DOMAIN down' /\ i - 1 \in 1 .. Len(down) - 1 /\ (i - 1) + 1 = i
      BY <1>2, <2>1
    <3>2. down'[i - 1] = "off"
      BY <1>2, <2>1, <3>1
    <3>3. QED
      BY <3>1, <3>2 DEF Lost, LostIn
  <2>2. QED
    BY <1>2, <2>1 DEF Lost, LostIn
<1>10. 1 \in DOMAIN down
  BY <1>2
<1>11. QED
  BY <1>1, <1>2, <1>6, <1>7, <1>8, <1>9, <1>10

\* Positions in a queue whose head was read.
LEMMA Shifted ==
  ASSUME NEW n \in Nat, NEW i \in 1 .. n - 1
  PROVE  i \in Nat /\ i + 1 \in 1 .. n /\ i + 1 \in 2 .. n /\ i + 1 # 1
  OBVIOUS

LEMMA ShiftIsInjective ==
  ASSUME NEW i \in Nat, NEW j \in Nat, i + 1 = j + 1
  PROVE  i = j
  OBVIOUS

\* Reading a message adds no answer.
LEMMA FewerAnswers ==
  ASSUME ScreenInv, down \in Seq(Downs), Len(down) \in Nat, DOMAIN down = 1 .. Len(down),
         Answers' = {i \in 1 .. Len(down) - 1 : down[i + 1] = "state me"}
  PROVE  /\ Answers = {} => Answers' = {}
         /\ (\A i, j \in Answers : i = j) => \A i, j \in Answers' : i = j
         /\ (\A i, j \in Answers : i = j) /\ 1 \in Answers => Answers' = {}
<1>1. ASSUME NEW i \in Answers'
      PROVE  i \in Nat /\ i + 1 \in Answers /\ i + 1 # 1
  <2>1. i \in 1 .. Len(down) - 1 /\ down[i + 1] = "state me"
    OBVIOUS
  <2>2. i \in Nat /\ i + 1 \in 1 .. Len(down) /\ i + 1 # 1
    BY <2>1, Shifted
  <2>3. QED
    BY <2>1, <2>2 DEF Answers, AnswersIn
<1>2. ASSUME \A i, j \in Answers : i = j, NEW i \in Answers', NEW j \in Answers'
      PROVE  i = j
  <2>1. i + 1 = j + 1
    BY <1>1, <1>2
  <2>2. i \in Nat /\ j \in Nat
    BY <1>1, <1>2
  <2>3. QED
    BY <2>1, <2>2, ShiftIsInjective
<1>3. QED
  BY <1>1, <1>2

\* A message that changes only what the page knows.
LEMMA MessageIsRead ==
  ASSUME ScreenInv, down # <<>>, down' = Tail(down), UNCHANGED <<conn, lease, enabled>>,
         owner' = IF Head(down) \in States THEN OwnerOf(Head(down)) ELSE owner,
         UNCHANGED <<live, screen, sender, start, stop, request, camera, up, starts, drops,
                     troubles, suspended, cut, failed>>,
         allowed' \in BOOLEAN, late' \in BOOLEAN, late => late',
         Head(down) = "off" => screen = 0
  PROVE  ScreenInv'
<1>1. /\ OwnerIsTold' /\ conn # 0
      /\ down' \in Seq(Downs) /\ Head(down) \in Downs
      /\ owner' \in {"none", "me", "other"}
      /\ Answers' = {i \in 1 .. Len(down) - 1 : down[i + 1] = "state me"}
      /\ Lost => Lost' \/ Head(down) = "off"
      /\ DOMAIN down = 1 .. Len(down) /\ Len(down) \in Nat
  BY TailKeepsTold
<1>2. /\ StartIsTyped' /\ StopIsTyped' /\ SenderIsTyped' /\ QueuesAreTyped'
      /\ BoundsAreTyped'
  BY <1>1 DEF ScreenInv, StartIsTyped, StopIsTyped, SenderIsTyped, QueuesAreTyped,
              BoundsAreTyped
<1>3. TypeOK'
  BY <1>1 DEF ScreenInv, TypeOK
<1>4. Offline'
  BY <1>1 DEF ScreenInv, Offline
<1>5. Picks' /\ SenderIsRight' /\ CapturesAreHeld'
  BY DEF ScreenInv, Picks, SenderIsRight, CapturesAreHeld, Running
<1>6. LeaseIsHeld'
  BY DEF ScreenInv, LeaseIsHeld, Claimed
<1>7. down \in Seq(Downs)
  BY DEF ScreenInv, QueuesAreTyped
<1>8. Pending' = Pending /\ (Answers = {} => Answers' = {})
      /\ ((\A i, j \in Answers : i = j) => \A i, j \in Answers' : i = j)
  BY <1>1, <1>7, FewerAnswers DEF Pending
<1>9. OneAnswer' /\ GrantIsKept'
  BY <1>1, <1>8 DEF ScreenInv, OneAnswer, GrantIsKept
<1>10. QED
  BY <1>1, <1>2, <1>3, <1>4, <1>5, <1>6, <1>9 DEF ScreenInv

\* A message that ends a start.
LEMMA MessageIsCaught ==
  ASSUME ScreenInv, down # <<>>, down' = Tail(down), Catch, request,
         UNCHANGED <<conn, sender, stop, allowed, lease, enabled, starts, drops, troubles, suspended, cut>>,
         owner' = IF Head(down) \in States THEN OwnerOf(Head(down)) ELSE owner,
         late' \in BOOLEAN, late => late',
         late' \/ ~Unanswered \/ Head(down) = "state me"
  PROVE  ScreenInv'
<1>1. /\ OwnerIsTold' /\ conn # 0
      /\ down' \in Seq(Downs) /\ Head(down) \in Downs
      /\ owner' \in {"none", "me", "other"}
      /\ Answers' = {i \in 1 .. Len(down) - 1 : down[i + 1] = "state me"}
      /\ Head(down) = down[1] /\ 1 \in DOMAIN down
      /\ DOMAIN down = 1 .. Len(down) /\ Len(down) \in Nat
  BY TailKeepsTold
<1>2. /\ start.pc = "asking" /\ BoundsAreTyped' /\ CatchAfter(up) /\ down \in Seq(Downs)
  BY SameBounds DEF ScreenInv, TypeOK, QueuesAreTyped, Catch, bounds
<1>3. /\ TypeOK' /\ StartIsTyped' /\ StopIsTyped' /\ SenderIsTyped' /\ QueuesAreTyped'
      /\ BoundsAreTyped' /\ Offline' /\ Picks' /\ SenderIsRight' /\ CapturesAreHeld'
      /\ LeaseIsHeld' /\ GrantIsKept' /\ Pending' = Pending /\ ~request'
  BY <1>1, <1>2, CatchHolds DEF hubVars
<1>4. ~late' => Pending = {} /\ Answers' = {}
  <2>1. CASE ~Unanswered
    <3>1. Pending = {}
      BY <2>1 DEF Unanswered, Pending
    <3>2. ASSUME NEW i \in Answers'
          PROVE  FALSE
      <4>1. i \in 1 .. Len(down) - 1 /\ down[i + 1] = "state me" /\ Len(down) \in Nat
        BY <1>1
      <4>2. QED
        <5>1. i + 1 \in 2 .. Len(down)
          BY <4>1, Shifted
        <5>2. QED
          BY <2>1, <4>1, <5>1 DEF Unanswered
    <3>3. QED
      BY <3>1, <3>2
  <2>2. CASE Head(down) = "state me"
    <3>1. 1 \in Answers
      BY <1>1, <2>2 DEF Answers, AnswersIn
    <3>2. ~late => Pending = {} /\ \A i, j \in Answers : i = j
      BY <3>1 DEF ScreenInv, OneAnswer
    <3>3. ~late => Answers' = {}
      BY <1>1, <1>2, <3>1, <3>2, FewerAnswers
    <3>4. QED
      BY <3>2, <3>3
  <2>3. QED
    BY <2>1, <2>2
<1>5. OneAnswer'
  BY <1>3, <1>4 DEF OneAnswer
<1>6. QED
  BY <1>1, <1>3, <1>5 DEF ScreenInv

LEMMA ErrorArrivesHolds ==
  ASSUME ScreenInv, ErrorArrives
  PROVE  ScreenInv'
<1>1. /\ down # <<>> /\ Head(down) = "error" /\ down' = Tail(down)
      /\ Head(down) \notin States
      /\ UNCHANGED <<conn, sender, stop, owner, allowed, lease, enabled, starts, drops,
                     troubles, suspended, cut>>
      /\ late' = (late \/ (request /\ Unanswered)) /\ late \in BOOLEAN
      /\ allowed \in BOOLEAN /\ (request <=> start.pc = "asking")
  BY StateNames DEF ScreenInv, TypeOK, ErrorArrives, Message, hubVars, bounds
<1>2. CASE request
  BY <1>1, <1>2, MessageIsCaught DEF ErrorArrives
<1>3. CASE ~request
  <2>1. UNCHANGED <<screen, request, start, live, up, camera, failed>>
    BY <1>3 DEF ErrorArrives
  <2>2. QED
    BY <1>1, <1>3, <2>1, MessageIsRead
<1>4. QED
  BY <1>2, <1>3

\* A stop keeps the parts of the invariant, from wherever it is called.
LEMMA StopHolds ==
  ASSUME ScreenInv, Stop, BoundsAreTyped', allowed' \in BOOLEAN, down' \in Seq(Downs),
         UNCHANGED <<conn, sender, start, request, owner, camera, lease, enabled, starts, suspended, cut,
                     late, failed>>,
         conn = 0 => down' = down
  PROVE  /\ TypeOK' /\ StartIsTyped' /\ StopIsTyped' /\ SenderIsTyped' /\ QueuesAreTyped'
         /\ Offline' /\ Picks' /\ SenderIsRight' /\ CapturesAreHeld' /\ LeaseIsHeld'
         /\ Pending' = Pending /\ late' \in BOOLEAN
         /\ screen' # 0 => screen # 0 /\ up' = up
<1>1. /\ up' \in {up, Release(up)}
      /\ \/ screen = 0 /\ UNCHANGED <<stop, screen, live, up>>
         \/ /\ screen # 0 /\ screen' = 0 /\ stop = NoStop /\ UNCHANGED <<live, up>>
            /\ sender.conn = conn /\ conn # 0
            /\ stop' = [pc |-> "pausing", conn |-> conn, cap |-> screen]
         \/ /\ screen # 0 /\ screen' = 0 /\ stop = NoStop /\ live' = live \ {screen}
            /\ sender.conn # conn \/ conn = 0
            /\ stop' = [pc |-> "resuming", conn |-> conn, cap |-> screen]
            /\ ~Claimed'
  BY StopDoes
<1>2. /\ up' \in Seq(Ups) /\ Pending' = Pending
      /\ conn = 0 => up' = <<>>
      /\ Claimed' => Claimed /\ up' = up
  BY <1>1, UpIsQuiet
<1>3. /\ screen \in 0 .. MaxStarts /\ conn \in Nat /\ live' \subseteq live
      /\ screen' \in {screen, 0}
      /\ stop \in [pc : {"idle", "pausing", "resuming"}, conn : Nat, cap : 0 .. MaxStarts]
  <2>1. screen \in 0 .. MaxStarts
    BY BoundsAreNat DEF ScreenInv, TypeOK, Captures
  <2>2. QED
    BY <1>1, <2>1 DEF ScreenInv, QueuesAreTyped, StopIsTyped
<1>4. StopIsTyped'
  <2>1. CASE stop' = stop
    BY <2>1 DEF ScreenInv, StopIsTyped
  <2>2. CASE stop' = [pc |-> "pausing", conn |-> conn, cap |-> screen]
    BY <1>3, <2>2 DEF StopIsTyped, NoStop
  <2>3. CASE stop' = [pc |-> "resuming", conn |-> conn, cap |-> screen]
    BY <1>3, <2>3 DEF StopIsTyped, NoStop
  <2>4. QED
    BY <1>1, <2>1, <2>2, <2>3
<1>5. StartIsTyped' /\ SenderIsTyped' /\ QueuesAreTyped' /\ late' \in BOOLEAN
  BY <1>2 DEF ScreenInv, StartIsTyped, SenderIsTyped, QueuesAreTyped
<1>6. TypeOK'
  BY <1>3 DEF ScreenInv, TypeOK
<1>7. Offline'
  <2>1. stop'.pc = "pausing" => stop' = stop \/ stop'.conn = conn
    BY <1>1
  <2>2. QED
    BY <1>2, <2>1 DEF ScreenInv, Offline
<1>8. Picks'
  BY <1>1 DEF ScreenInv, Picks
<1>9. SenderIsRight'
  <2>1. CASE screen = 0 /\ UNCHANGED <<stop, screen, live, up>>
    BY <2>1 DEF ScreenInv, SenderIsRight
  <2>2. CASE screen # 0 /\ screen' = 0 /\ stop = NoStop
    <3>1. start.pc = "idle" => stop'.pc = "pausing"
      BY <1>1, <2>2 DEF ScreenInv, SenderIsRight
    <3>2. stop.pc = "idle"
      BY <2>2 DEF NoStop
    <3>3. QED
      BY <2>2, <3>1, <3>2 DEF ScreenInv, SenderIsRight
  <2>3. QED
    BY <1>1, <2>1, <2>2
<1>10. CapturesAreHeld'
  <2>1. CASE screen = 0 /\ UNCHANGED <<stop, screen, live, up>>
    BY <2>1 DEF ScreenInv, CapturesAreHeld, Running
  <2>2. CASE screen # 0 /\ screen' = 0 /\ stop = NoStop
    <3>1. stop.pc = "idle"
      BY <2>2 DEF NoStop
    <3>2. live' \subseteq live /\ (stop'.pc = "pausing" => stop'.cap = screen)
          /\ (stop'.pc # "pausing" => live' = live \ {screen})
      BY <1>1, <2>2
    <3>3. QED
      BY <2>2, <3>1, <3>2 DEF ScreenInv, CapturesAreHeld, Running
  <2>3. QED
    BY <1>1, <2>1, <2>2
<1>11. LeaseIsHeld'
  BY <1>1, <1>2 DEF ScreenInv, LeaseIsHeld
<1>12. screen' # 0 => screen # 0 /\ up' = up
  BY <1>1
<1>13. QED
  BY <1>2, <1>4, <1>5, <1>6, <1>7, <1>8, <1>9, <1>10, <1>11, <1>12

\* A stop, from the invariant to the invariant.
LEMMA StopKeeps ==
  ASSUME ScreenInv, Stop, BoundsAreTyped',
         UNCHANGED <<conn, sender, start, request, owner, allowed, camera, lease, enabled, down,
                     starts, suspended, cut, late, failed>>
  PROVE  ScreenInv'
<1>1. allowed' \in BOOLEAN /\ down' \in Seq(Downs)
  BY DEF ScreenInv, TypeOK, QueuesAreTyped
<1>2. /\ TypeOK' /\ StartIsTyped' /\ StopIsTyped' /\ SenderIsTyped' /\ QueuesAreTyped'
      /\ Offline' /\ Picks' /\ SenderIsRight' /\ CapturesAreHeld' /\ LeaseIsHeld'
      /\ Pending' = Pending /\ late' \in BOOLEAN
      /\ screen' # 0 => screen # 0 /\ up' = up
  BY <1>1, StopHolds
<1>3. OwnerIsTold'
  BY <1>1 DEF ScreenInv, OwnerIsTold
<1>4. OneAnswer'
  BY <1>1, <1>2, AnswersAreKept DEF ScreenInv
<1>5. GrantIsKept'
  BY <1>1, <1>2 DEF ScreenInv, GrantIsKept, Answers, AnswersIn, Lost, LostIn
<1>6. QED
  BY <1>1, <1>2, <1>3, <1>4, <1>5 DEF ScreenInv

LEMMA UserStopsHolds ==
  ASSUME ScreenInv, UserStops
  PROVE  ScreenInv'
<1>1. /\ Stop /\ BoundsAreTyped'
      /\ UNCHANGED <<conn, sender, start, request, owner, allowed, camera, lease, enabled, down,
                     starts, suspended, cut, late, failed>>
  BY BoundsAreNat DEF ScreenInv, UserStops, Trouble, BoundsAreTyped, hubVars
<1>2. QED
  BY <1>1, StopKeeps

LEMMA CaptureEndsHolds ==
  ASSUME ScreenInv, CaptureEnds
  PROVE  ScreenInv'
<1>1. /\ BoundsAreTyped' /\ screen \in live
      /\ UNCHANGED <<conn, sender, start, request, owner, allowed, camera, lease, enabled, down,
                     starts, suspended, cut, late, failed>>
  BY TroubleIsBounded DEF CaptureEnds, hubVars
<1>2. CASE start # NoStart
  <2>1. live' \subseteq live /\ UNCHANGED <<stop, screen, up>>
    BY <1>2 DEF CaptureEnds
  <2>2. /\ StartIsTyped' /\ StopIsTyped' /\ SenderIsTyped' /\ QueuesAreTyped'
        /\ late' \in BOOLEAN
    BY <1>1, <2>1 DEF ScreenInv, StartIsTyped, StopIsTyped, SenderIsTyped, QueuesAreTyped
  <2>3. TypeOK' /\ Offline' /\ Picks'
    BY <1>1, <2>1 DEF ScreenInv, TypeOK, Offline, Picks
  <2>4. SenderIsRight' /\ CapturesAreHeld' /\ OwnerIsTold' /\ LeaseIsHeld'
    BY <1>1, <2>1
       DEF ScreenInv, SenderIsRight, CapturesAreHeld, Running, OwnerIsTold, LeaseIsHeld, Claimed
  <2>5. OneAnswer' /\ GrantIsKept'
    BY <1>1, <2>1, ZenonT(30) DEF ScreenInv, OneAnswer, GrantIsKept, Pending, Answers, AnswersIn, Lost, LostIn
  <2>6. QED
    BY <1>1, <2>2, <2>3, <2>4, <2>5 DEF ScreenInv
<1>3. CASE start = NoStart
  BY <1>1, <1>3, StopKeeps DEF CaptureEnds
<1>4. QED
  BY <1>2, <1>3

LEMMA ConfigArrivesHolds ==
  ASSUME ScreenInv, ConfigArrives
  PROVE  ScreenInv'
<1>1. /\ down # <<>> /\ down' = Tail(down) /\ Head(down) \in {"on", "off"}
      /\ allowed' \in BOOLEAN /\ late' = late /\ late \in BOOLEAN
      /\ Head(down) \notin States
      /\ UNCHANGED <<conn, sender, start, request, owner, camera, lease, enabled, starts, drops,
                     troubles, suspended, cut, failed>>
      /\ Head(down) = "on" => UNCHANGED <<stop, screen, live, up>>
      /\ Head(down) = "off" => Stop
  BY StateNames DEF ScreenInv, ConfigArrives, Message, hubVars, bounds
<1>2. CASE Head(down) = "on" \/ screen = 0
  <2>1. UNCHANGED <<stop, screen, live, up>>
    BY <1>1, <1>2 DEF Stop
  <2>2. QED
    BY <1>1, <1>2, <2>1, MessageIsRead
<1>3. CASE Head(down) = "off" /\ screen # 0
  <2>1. /\ OwnerIsTold' /\ conn # 0 /\ down' \in Seq(Downs)
        /\ Answers' = {i \in 1 .. Len(down) - 1 : down[i + 1] = "state me"}
        /\ DOMAIN down = 1 .. Len(down) /\ Len(down) \in Nat
    BY <1>1, TailKeepsTold
  <2>2. BoundsAreTyped' /\ down \in Seq(Downs)
    BY <1>1, SameBounds DEF ScreenInv, QueuesAreTyped, bounds
  <2>3. /\ TypeOK' /\ StartIsTyped' /\ StopIsTyped' /\ SenderIsTyped' /\ QueuesAreTyped'
        /\ Offline' /\ Picks' /\ SenderIsRight' /\ CapturesAreHeld' /\ LeaseIsHeld'
        /\ Pending' = Pending /\ late' \in BOOLEAN
        /\ screen' # 0 => screen # 0 /\ up' = up
    BY <1>1, <1>3, <2>1, <2>2, StopHolds
  <2>4. screen' = 0
    BY <1>1, <1>3, StopDoes
  <2>5. GrantIsKept'
    BY <2>4 DEF GrantIsKept
  <2>6. /\ Answers = {} => Answers' = {}
        /\ (\A i, j \in Answers : i = j) => \A i, j \in Answers' : i = j
    BY <2>1, <2>2, FewerAnswers
  <2>7. OneAnswer'
    BY <1>1, <2>3, <2>4, <2>6 DEF ScreenInv, OneAnswer
  <2>8. QED
    BY <2>1, <2>2, <2>3, <2>5, <2>7 DEF ScreenInv
<1>4. QED
  BY <1>1, <1>2, <1>3

\* A grant is accepted only by the start that waits for it.
LEMMA IsGranted ==
  ASSUME ScreenInv, Granted, request, start.conn = conn, screen # 0,
         down # <<>>, Head(down) = "state me", down' = Tail(down), owner' = "me",
         UNCHANGED <<conn, stop, allowed, lease, enabled, starts, drops, troubles, suspended, cut, late>>
  PROVE  ScreenInv'
<1>1. /\ start' = [start EXCEPT !.pc = "attaching"]
      /\ sender' = IF sender = NoSender
                     THEN [conn |-> conn, track |-> screen, active |-> FALSE]
                     ELSE [sender EXCEPT !.active = FALSE]
      /\ request' = FALSE /\ UNCHANGED <<screen, live, up, camera, failed>>
  BY DEF Granted
<1>2. owner' = IF Head(down) \in States THEN OwnerOf(Head(down)) ELSE owner
  BY StateNames
<1>3. /\ OwnerIsTold' /\ conn # 0
      /\ down' \in Seq(Downs) /\ Head(down) \in Downs
      /\ Answers' = {i \in 1 .. Len(down) - 1 : down[i + 1] = "state me"}
      /\ Lost => Lost'
      /\ Head(down) = down[1] /\ 1 \in DOMAIN down
      /\ DOMAIN down = 1 .. Len(down) /\ Len(down) \in Nat
  BY <1>2, TailKeepsTold
<1>4. /\ start \in [pc : StartPcs, conn : Nat, camera : BOOLEAN, cap : 0 .. MaxStarts,
                    denied : BOOLEAN, ended : BOOLEAN]
      /\ sender \in [conn : Nat, track : 0 .. MaxStarts, active : BOOLEAN]
      /\ screen \in 0 .. MaxStarts /\ start.pc = "asking" /\ conn \in Nat
      /\ stop = NoStop /\ down \in Seq(Downs)
  <2>1. screen \in 0 .. MaxStarts /\ start.pc = "asking"
    <3>1. screen \in 0 .. MaxStarts
      BY ScreenIsNamed
    <3>2. QED
      BY <3>1 DEF ScreenInv, TypeOK
  <2>2. stop = NoStop
    BY DEF ScreenInv, Picks
  <2>3. QED
    BY <2>1, <2>2 DEF ScreenInv, StartIsTyped, SenderIsTyped, QueuesAreTyped
<1>5. /\ start' \in [pc : StartPcs, conn : Nat, camera : BOOLEAN, cap : 0 .. MaxStarts,
                     denied : BOOLEAN, ended : BOOLEAN]
      /\ start'.pc = "attaching"
  BY <1>1, <1>4 DEF StartPcs
<1>6. start' # NoStart
  <2>1. start'.pc = "attaching" /\ NoStart.pc = "idle"
    BY <1>5 DEF NoStart
  <2>2. QED
    BY <2>1
<1>7. sender # NoSender => sender.conn = conn
  BY <1>3 DEF ScreenInv, TypeOK, Offline
<1>8. /\ sender' \in [conn : Nat, track : 0 .. MaxStarts, active : BOOLEAN]
      /\ sender'.conn = conn
  <2>1. CASE sender = NoSender
    BY <1>1, <1>4, <2>1
  <2>2. CASE sender # NoSender
    BY <1>1, <1>4, <1>7, <2>2
  <2>3. QED
    BY <2>1, <2>2
<1>9. /\ StartIsTyped' /\ SenderIsTyped' /\ StopIsTyped' /\ QueuesAreTyped' /\ BoundsAreTyped'
      /\ late' \in BOOLEAN
  <2>1. StartIsTyped' /\ SenderIsTyped'
    BY <1>5, <1>6, <1>8 DEF StartIsTyped, SenderIsTyped
  <2>2. QED
    BY <1>1, <1>3, <2>1 DEF ScreenInv, StopIsTyped, QueuesAreTyped, BoundsAreTyped
<1>10. TypeOK'
  <2>1. /\ sender'.conn \in {0, conn'} /\ sender'.track \in {0} \union Captures
        /\ sender'.active \in BOOLEAN
    <3>1. conn' = conn /\ 0 .. MaxStarts = {0} \union Captures
      BY CapturesAre
    <3>2. QED
      BY <1>4, <1>8, <3>1
  <2>2. QED
    BY <1>1, <1>5, <2>1 DEF ScreenInv, TypeOK
<1>11. Offline'
  BY <1>1, <1>3, <1>8 DEF ScreenInv, Offline
<1>12. Picks' /\ SenderIsRight' /\ LeaseIsHeld'
  BY <1>1, <1>3, <1>4, <1>5, <1>8 DEF ScreenInv, Picks, SenderIsRight, LeaseIsHeld
<1>13. CapturesAreHeld'
  BY <1>1, <1>4, <1>5 DEF ScreenInv, CapturesAreHeld, Running
<1>14. 1 \in Answers
  BY <1>3 DEF Answers, AnswersIn
<1>15. ~late => Pending' = {} /\ Answers' = {}
  <2>1. ~late => Pending = {} /\ \A i, j \in Answers : i = j
    BY <1>14 DEF ScreenInv, OneAnswer
  <2>2. ~late => Answers' = {}
    BY <1>3, <1>4, <1>14, <2>1, FewerAnswers
  <2>3. QED
    BY <1>1, <2>1, <2>2 DEF Pending
<1>16. OneAnswer'
  BY <1>15 DEF OneAnswer
<1>17. GrantIsKept'
  BY <1>1, <1>3, <1>14 DEF ScreenInv, GrantIsKept
<1>18. QED
  BY <1>3, <1>9, <1>10, <1>11, <1>12, <1>13, <1>16, <1>17 DEF ScreenInv

LEMMA StateArrivesHolds ==
  ASSUME ScreenInv, StateArrives
  PROVE  ScreenInv'
<1>1. PICK m \in States :
        /\ Message(m) /\ owner' = OwnerOf(m)
        /\ CASE request /\ owner' = "me" -> Granted
             [] request /\ owner' = "other" -> Catch /\ UNCHANGED sender
             [] OTHER -> UNCHANGED <<screen, request, start, sender, live, up, camera, failed>>
        /\ late' = (late \/ (request /\ owner' = "other" /\ Unanswered))
        /\ UNCHANGED <<conn, stop, allowed, hubVars, bounds, suspended, cut>>
  BY DEF StateArrives
<1>2. /\ down # <<>> /\ Head(down) = m /\ down' = Tail(down)
      /\ UNCHANGED <<conn, stop, allowed, lease, enabled, starts, drops, troubles, suspended, cut>>
      /\ owner' = IF Head(down) \in States THEN OwnerOf(Head(down)) ELSE owner
      /\ late \in BOOLEAN /\ late' \in BOOLEAN /\ (late => late') /\ allowed' \in BOOLEAN
      /\ Head(down) # "off"
  BY <1>1, StateNames DEF ScreenInv, TypeOK, Message, hubVars, bounds
<1>3. owner' = "me" => m = "state me"
  BY <1>1, StateNames
<1>4. CASE request /\ owner' = "me"
  <2>1. Granted /\ late' = late
    BY <1>1, <1>2, <1>4
  <2>2. CASE start.conn # conn \/ screen = 0
    <3>1. Catch /\ UNCHANGED sender
      BY <2>1, <2>2 DEF Granted
    <3>2. QED
      BY <1>2, <1>3, <1>4, <3>1, MessageIsCaught
  <2>3. CASE start.conn = conn /\ screen # 0
    BY <1>2, <1>3, <1>4, <2>1, <2>3, IsGranted
  <2>4. QED
    BY <2>2, <2>3
<1>5. CASE request /\ owner' = "other"
  <2>1. Catch /\ UNCHANGED sender /\ (late' \/ ~Unanswered)
    BY <1>1, <1>5
  <2>2. QED
    BY <1>2, <1>5, <2>1, MessageIsCaught
<1>6. CASE ~(request /\ owner' = "me") /\ ~(request /\ owner' = "other")
  <2>1. UNCHANGED <<screen, request, start, sender, live, up, camera, failed>>
    BY <1>1, <1>6
  <2>2. QED
    BY <1>2, <2>1, MessageIsRead
<1>7. QED
  BY <1>4, <1>5, <1>6

\* The hub tells every change of the lease: appending the new state keeps Told.
LEMMA AppendTells ==
  ASSUME NEW d \in Seq(Downs), NEW m \in Downs, NEW l, NEW k, NEW o, Told(d, l, o),
         IF m \in States THEN m = StateOf[k] ELSE k = l
  PROVE  /\ Told(Append(d, m), k, o) /\ Append(d, m) \in Seq(Downs)
         /\ AnswersIn(Append(d, m)) =
              AnswersIn(d) \union (IF m = "state me" THEN {Len(d) + 1} ELSE {})
         /\ LostIn(d) \/ m = "off" => LostIn(Append(d, m))
<1> DEFINE e == Append(d, m)
<1>1. /\ e \in Seq(Downs) /\ Len(d) \in Nat /\ Len(e) = Len(d) + 1
      /\ e[Len(d) + 1] = m /\ \A i \in 1 .. Len(d) : e[i] = d[i]
      /\ DOMAIN d = 1 .. Len(d) /\ DOMAIN e = 1 .. Len(d) + 1
  <2>1. Len(e) = Len(d) + 1 /\ e \in Seq(Downs)
    BY AppendDoes
  <2>2. QED
    BY <2>1, AppendDoes
<1> HIDE DEF e
<1>2. \A i \in DOMAIN e : i \in DOMAIN d \/ i = Len(d) + 1
  BY <1>1
<1>3. DOMAIN d \subseteq DOMAIN e /\ Len(d) + 1 \in DOMAIN e /\ Len(d) + 1 \notin DOMAIN d
  BY <1>1
<1>4. ASSUME NEW i \in DOMAIN e, e[i] \in States,
             \A j \in i + 1 .. Len(e) : e[j] \notin States
      PROVE  e[i] = StateOf[k]
  <2>1. CASE i = Len(d) + 1
    BY <1>1, <1>4, <2>1
  <2>2. CASE i \in DOMAIN d
    <3>1. i \in Nat /\ Len(d) + 1 \in i + 1 .. Len(e)
      BY <1>1, <2>2
    <3>2. m \notin States /\ k = l
      BY <1>1, <1>4, <3>1
    <3>3. ASSUME NEW j \in i + 1 .. Len(d)
          PROVE  d[j] \notin States
      <4>1. j \in 1 .. Len(d) /\ j \in i + 1 .. Len(e)
        BY <1>1, <3>1
      <4>2. QED
        BY <1>1, <1>4, <4>1
    <3>4. d[i] \in States
      BY <1>1, <1>4, <2>2
    <3>5. QED
      BY <1>1, <2>2, <3>2, <3>3, <3>4 DEF Told
  <2>3. QED
    BY <1>2, <2>1, <2>2
<1>5. ASSUME \A i \in DOMAIN e : e[i] \notin States
      PROVE  o = k
  BY <1>1, <1>3, <1>5 DEF Told
<1>6. Told(e, k, o)
  BY <1>4, <1>5 DEF Told
<1>7. AnswersIn(e) = AnswersIn(d) \union (IF m = "state me" THEN {Len(d) + 1} ELSE {})
  BY <1>1, <1>2, <1>3 DEF AnswersIn
<1>8. LostIn(d) \/ m = "off" => LostIn(e)
  BY <1>1, <1>3 DEF LostIn
<1>9. QED
  BY <1>1, <1>6, <1>7, <1>8 DEF e

\* A step of the hub keeps what is only of the page.
LEMMA HubKeeps ==
  ASSUME ScreenInv, conn # 0,
         UNCHANGED <<conn, live, screen, sender, start, stop, request, owner, allowed, camera,
                     suspended, cut, late, failed>>,
         BoundsAreTyped', starts' = starts, up' \in Seq(Ups), down' \in Seq(Downs),
         lease' \in {"none", "me", "other"}, enabled' \in BOOLEAN, OwnerIsTold',
         Claimed' => Claimed, OneAnswer', GrantIsKept'
  PROVE  ScreenInv'
<1>1. /\ StartIsTyped' /\ StopIsTyped' /\ SenderIsTyped' /\ QueuesAreTyped'
      /\ late' \in BOOLEAN
  BY DEF ScreenInv, StartIsTyped, StopIsTyped, SenderIsTyped, QueuesAreTyped
<1>2. TypeOK' /\ Offline'
  BY DEF ScreenInv, TypeOK, Offline
<1>3. Picks' /\ SenderIsRight' /\ CapturesAreHeld' /\ LeaseIsHeld'
  BY DEF ScreenInv, Picks, SenderIsRight, CapturesAreHeld, Running, LeaseIsHeld
<1>4. QED
  BY <1>1, <1>2, <1>3 DEF ScreenInv

\* The hub grants and releases for others, or for the operator.
LEMMA HubActsHolds ==
  ASSUME ScreenInv, HubActs
  PROVE  ScreenInv'
<1>1. /\ conn # 0 /\ BoundsAreTyped' /\ down \in Seq(Downs) /\ up \in Seq(Ups)
      /\ UNCHANGED <<conn, live, screen, sender, start, stop, request, owner, allowed, camera,
                     up, starts, suspended, cut, late, failed>>
      /\ lease \in {"none", "me", "other"} /\ enabled \in BOOLEAN
      /\ Told(down, lease, owner)
      /\ States \union {"error", "on", "off"} = Downs
  BY TroubleIsBounded DEF ScreenInv, TypeOK, QueuesAreTyped, HubActs, OwnerIsTold, Downs
<1>2. CASE /\ lease \in {"none", "other"} /\ enabled
           /\ lease' = IF lease = "none" THEN "other" ELSE "none"
           /\ down' = Broadcast(lease, lease') /\ UNCHANGED enabled
  <2>1. /\ down' = Append(down, StateOf[lease']) /\ lease' \in {"none", "other"}
        /\ StateOf[lease'] \in States /\ StateOf[lease'] # "state me"
        /\ StateOf[lease'] \in Downs
    BY <1>1, <1>2, StateNames DEF Broadcast
  <2>2. /\ Told(down', lease', owner) /\ down' \in Seq(Downs) /\ Answers' = Answers
        /\ Lost => Lost'
    <3> DEFINE m == StateOf[lease']
    <3>1. m \in Downs /\ m \in States /\ m = StateOf[lease'] /\ m # "state me"
      BY <2>1
    <3> HIDE DEF m
    <3>2. /\ Told(Append(down, m), lease', owner) /\ Append(down, m) \in Seq(Downs)
          /\ AnswersIn(Append(down, m)) =
               AnswersIn(down) \union (IF m = "state me" THEN {Len(down) + 1} ELSE {})
          /\ LostIn(down) \/ m = "off" => LostIn(Append(down, m))
      BY <1>1, <3>1, AppendTells
    <3>3. down' = Append(down, m)
      BY <2>1 DEF m
    <3>4. QED
      BY <3>1, <3>2, <3>3 DEF Answers, Lost
  <2>3. Claimed' => Claimed
    BY <1>1, <2>1 DEF Claimed
  <2>4. OneAnswer' /\ GrantIsKept' /\ OwnerIsTold'
    BY <1>1, <1>2, <2>1, <2>2, ZenonT(30) DEF ScreenInv, OneAnswer, GrantIsKept, OwnerIsTold, Pending
  <2>5. QED
    BY <1>1, <1>2, <2>1, <2>2, <2>3, <2>4, HubKeeps
<1>3. CASE /\ enabled' = ~enabled
           /\ lease' = IF enabled THEN "none" ELSE lease
           /\ down' = Append(Broadcast(lease, lease'), IF enabled THEN "off" ELSE "on")
  <2> DEFINE d == Broadcast(lease, lease')
             m == IF enabled THEN "off" ELSE "on"
  <2>1. /\ Told(d, lease', owner) /\ d \in Seq(Downs)
        /\ AnswersIn(d) = Answers
        /\ Lost => LostIn(d)
    <3>1. CASE lease = lease'
      BY <1>1, <3>1 DEF Broadcast, Answers, Lost
    <3>2. CASE lease # lease'
      <4>1. /\ d = Append(down, StateOf[lease']) /\ StateOf[lease'] \in States
            /\ StateOf[lease'] # "state me" /\ StateOf[lease'] \in Downs
        BY <1>1, <1>3, <3>2, StateNames DEF Broadcast
      <4> DEFINE n == StateOf[lease']
      <4> HIDE DEF d
      <4>2. n \in Downs /\ n \in States /\ n = StateOf[lease'] /\ n # "state me"
        BY <4>1
      <4> HIDE DEF n
      <4>3. /\ Told(Append(down, n), lease', owner) /\ Append(down, n) \in Seq(Downs)
            /\ AnswersIn(Append(down, n)) =
                 AnswersIn(down) \union (IF n = "state me" THEN {Len(down) + 1} ELSE {})
            /\ LostIn(down) \/ n = "off" => LostIn(Append(down, n))
        BY <1>1, <4>2, AppendTells
      <4>4. d = Append(down, n)
        BY <4>1 DEF n
      <4>5. QED
        BY <4>2, <4>3, <4>4 DEF Answers, Lost
    <3>3. QED
      BY <3>1, <3>2
  <2>2. m \in Downs /\ m \notin States /\ m # "state me" /\ down' = Append(d, m)
    BY <1>1, <1>3, StateNames
  <2>3. /\ Told(down', lease', owner) /\ down' \in Seq(Downs) /\ Answers' = Answers
        /\ Lost \/ enabled => Lost'
    <3> HIDE DEF d
    <3>1. m = "off" <=> enabled
      OBVIOUS
    <3> HIDE DEF m
    <3>2. /\ Told(down', lease', owner) /\ down' \in Seq(Downs)
          /\ AnswersIn(down') =
               AnswersIn(d) \union (IF m = "state me" THEN {Len(d) + 1} ELSE {})
          /\ LostIn(d) \/ m = "off" => LostIn(down')
      BY <2>1, <2>2, AppendTells
    <3>3. QED
      BY <2>1, <2>2, <3>1, <3>2 DEF Answers, Lost
  <2>4. lease' \in {"none", "me", "other"} /\ enabled' \in BOOLEAN /\ (lease' = "me" => lease = "me")
    BY <1>1, <1>3
  <2>5. Claimed' => Claimed
    BY <1>1, <2>4 DEF Claimed
  <2>6. OneAnswer' /\ GrantIsKept' /\ OwnerIsTold'
    <3>1. OneAnswer' /\ OwnerIsTold'
      BY <1>1, <2>3 DEF ScreenInv, OneAnswer, OwnerIsTold, Pending
    <3>2. enabled \/ lease' = lease
      BY <1>3
    <3>3. GrantIsKept'
      <4>1. GrantIsKept
        BY DEF ScreenInv
      <4>2. CASE enabled
        <5>1. Lost'
          BY <2>3, <4>2
        <5>2. QED
          BY <5>1 DEF GrantIsKept
      <4>3. CASE lease' = lease
        BY <1>1, <2>3, <4>1, <4>3 DEF GrantIsKept
      <4>4. QED
        BY <3>2, <4>2, <4>3
    <3>4. QED
      BY <3>1, <3>3
  <2>7. QED
    BY <1>1, <2>3, <2>4, <2>5, <2>6, HubKeeps
<1>4. CASE down' = Append(down, "error") /\ UNCHANGED hubVars
  <2>1. "error" \in Downs /\ "error" \notin States
    BY <1>1, StateNames
  <2>2. UNCHANGED <<lease, enabled>>
    BY <1>4 DEF hubVars
  <2>3. /\ Told(down', lease, owner) /\ down' \in Seq(Downs) /\ Answers' = Answers
        /\ Lost => Lost'
    <3>1. /\ Told(Append(down, "error"), lease, owner) /\ Append(down, "error") \in Seq(Downs)
          /\ AnswersIn(Append(down, "error")) =
               AnswersIn(down) \union (IF "error" = "state me" THEN {Len(down) + 1} ELSE {})
          /\ LostIn(down) \/ "error" = "off" => LostIn(Append(down, "error"))
      BY <1>1, <2>1, AppendTells
    <3>2. QED
      BY <1>4, <3>1 DEF Answers, Lost
  <2>4. Claimed' => Claimed
    BY <1>1, <2>2 DEF Claimed
  <2>5. OneAnswer' /\ GrantIsKept' /\ OwnerIsTold'
    BY <1>1, <2>2, <2>3 DEF ScreenInv, OneAnswer, GrantIsKept, OwnerIsTold, Pending
  <2>6. QED
    BY <1>1, <2>2, <2>3, <2>4, <2>5, HubKeeps
<1>5. QED
  BY <1>2, <1>3, <1>4 DEF HubActs

\* The hub handles what the page sent.
LEMMA HubHandlesHolds ==
  ASSUME ScreenInv, HubHandles
  PROVE  ScreenInv'
<1>1. /\ up # <<>> /\ up' = Tail(up) /\ down \in Seq(Downs) /\ up \in Seq(Ups)
      /\ UNCHANGED <<conn, live, screen, sender, start, stop, request, owner, allowed, camera,
                     enabled, starts, drops, troubles, suspended, cut, late, failed>>
      /\ lease \in {"none", "me", "other"} /\ enabled \in BOOLEAN
      /\ Told(down, lease, owner) /\ conn # 0 /\ BoundsAreTyped'
      /\ States \union {"error", "on", "off"} = Downs
  <2>1. conn # 0 /\ up # <<>> /\ up' = Tail(up)
    BY DEF ScreenInv, Offline, HubHandles
  <2>2. BoundsAreTyped'
    BY SameBounds DEF HubHandles
  <2>3. QED
    BY <2>1, <2>2
       DEF ScreenInv, TypeOK, QueuesAreTyped, HubHandles, hubVars, bounds, OwnerIsTold, Downs
<1>2. /\ up' \in Seq(Ups) /\ Len(up) \in Nat /\ Len(up) > 0
      /\ Len(up') = Len(up) - 1
      /\ \A i \in 1 .. Len(up) - 1 : up'[i] = up[i + 1]
      /\ Head(up) = up[1] /\ up[1] \in Ups
      /\ DOMAIN up = 1 .. Len(up) /\ DOMAIN up' = 1 .. Len(up) - 1
  <2>1. Len(Tail(up)) = Len(up) - 1 /\ Tail(up) \in Seq(Ups)
    BY <1>1, TailDoes
  <2>2. QED
    BY <1>1, <2>1, TailDoes
<1>3. /\ Pending = {} => Pending' = {}
      /\ (\A i, j \in Pending : i = j) => \A i, j \in Pending' : i = j
      /\ (\A i, j \in Pending : i = j) /\ 1 \in Pending => Pending' = {}
      /\ (\A i \in Pending : i = Len(up)) => \A i \in Pending' : i = Len(up')
  <2>1. ASSUME NEW i \in Pending'
        PROVE  i \in Nat /\ i + 1 \in Pending /\ i + 1 # 1
    <3>1. i \in 1 .. Len(up) - 1 /\ up'[i] = "start"
      BY <1>2 DEF Pending
    <3>2. i \in Nat /\ i + 1 \in 1 .. Len(up) /\ i + 1 # 1
      BY <1>2, <3>1, Shifted
    <3>3. QED
      BY <1>2, <3>1, <3>2 DEF Pending
  <2>2. ASSUME \A i, j \in Pending : i = j, NEW i \in Pending', NEW j \in Pending'
        PROVE  i = j
    BY <2>1, <2>2, ShiftIsInjective
  <2>3. ASSUME \A i \in Pending : i = Len(up), NEW i \in Pending'
        PROVE  i = Len(up')
    <3>1. i \in Nat /\ i + 1 = Len(up)
      BY <2>1, <2>3
    <3>2. QED
      BY <1>2, <3>1
  <2>4. QED
    BY <2>1, <2>2, <2>3
<1>4. up' # <<>> => up'[Len(up')] = up[Len(up)]
  <2>1. SUFFICES ASSUME up' # <<>> PROVE up'[Len(up')] = up[Len(up)]
    OBVIOUS
  <2>2. Len(up') \in 1 .. Len(up) - 1 /\ Len(up') + 1 = Len(up)
    BY <1>2, <2>1
  <2>3. QED
    BY <1>2, <2>2
<1>5. up' = <<>> => Len(up) = 1
  BY <1>2
<1>6. CASE Head(up) = "start" /\ (~enabled \/ lease = "other")
  <2>1. down' = Append(down, "error") /\ lease' = lease
    BY <1>6 DEF HubHandles
  <2>2. "error" \in Downs /\ "error" \notin States
    BY <1>1, StateNames
  <2>3. /\ Told(Append(down, "error"), lease, owner) /\ Append(down, "error") \in Seq(Downs)
        /\ AnswersIn(Append(down, "error")) =
             AnswersIn(down) \union (IF "error" = "state me" THEN {Len(down) + 1} ELSE {})
        /\ LostIn(down) \/ "error" = "off" => LostIn(Append(down, "error"))
    BY <1>1, <2>2, AppendTells
  <2>4. /\ Told(down', lease, owner) /\ down' \in Seq(Downs) /\ Answers' = Answers
        /\ Lost => Lost'
    BY <2>1, <2>3 DEF Answers, Lost
  <2>5. Claimed' => Claimed
    BY <1>1, <1>2, <1>4, <1>5, <1>6, <2>1 DEF Claimed
  <2>6. OneAnswer' /\ OwnerIsTold'
    BY <1>1, <1>3, <2>1, <2>4 DEF ScreenInv, OneAnswer, OwnerIsTold
  <2>7. GrantIsKept'
    BY <1>1, <2>4 DEF ScreenInv, GrantIsKept
  <2>8. QED
    BY <1>1, <1>2, <2>1, <2>4, <2>5, <2>6, <2>7, HubKeeps
<1>7. CASE ~(Head(up) = "start" /\ (~enabled \/ lease = "other"))
  <2>1. /\ lease' = IF Head(up) = "start" THEN "me"
                    ELSE IF lease = "me" THEN "none" ELSE lease
        /\ down' = Broadcast(lease, lease')
    BY <1>7 DEF HubHandles
  <2>2. /\ lease' \in {"none", "me", "other"}
        /\ lease' = "me" <=> Head(up) = "start"
    BY <1>1, <2>1
  <2>3. /\ Told(down', lease', owner) /\ down' \in Seq(Downs)
        /\ Answers' = Answers \/ (Head(up) = "start" /\ Answers' = Answers \union {Len(down) + 1})
        /\ Lost => Lost'
    <3>1. CASE lease' = lease
      BY <1>1, <2>1, <3>1 DEF Broadcast, Answers, Lost
    <3>2. CASE lease' # lease
      <4> DEFINE m == StateOf[lease']
      <4>1. m \in Downs /\ m \in States /\ m = StateOf[lease'] /\ (m = "state me" => lease' = "me")
        BY <1>1, <2>2, StateNames
      <4> HIDE DEF m
      <4>2. /\ Told(Append(down, m), lease', owner) /\ Append(down, m) \in Seq(Downs)
            /\ AnswersIn(Append(down, m)) =
                 AnswersIn(down) \union (IF m = "state me" THEN {Len(down) + 1} ELSE {})
            /\ LostIn(down) \/ m = "off" => LostIn(Append(down, m))
        BY <1>1, <4>1, AppendTells
      <4>3. down' = Append(down, m)
        BY <2>1, <3>2, <4>1 DEF Broadcast
      <4>4. QED
        BY <2>2, <4>1, <4>2, <4>3 DEF Answers, Lost
    <3>3. QED
      BY <3>1, <3>2
  <2>4. Claimed' => Claimed
    <3>1. CASE up' = <<>>
      BY <1>1, <1>2, <1>5, <2>2, <3>1 DEF Claimed
    <3>2. CASE up' # <<>>
      BY <1>1, <1>4, <3>2 DEF Claimed
    <3>3. QED
      BY <3>1, <3>2
  <2>5. Head(up) = "start" => 1 \in Pending
    BY <1>2 DEF Pending
  <2>6. \A i, j \in Answers' : i = j \/ Answers # {}
    BY <2>3
  <2>7. OneAnswer
    BY DEF ScreenInv
  <2>8. OneAnswer'
    <3>1. CASE Answers' = Answers
      BY <1>1, <1>3, <2>7, <3>1 DEF OneAnswer
    <3>2. CASE Head(up) = "start" /\ Answers' = Answers \union {Len(down) + 1}
      <4>1. ~late => /\ request /\ Answers = {} /\ Pending' = {}
        BY <1>3, <2>5, <2>7, <3>2 DEF OneAnswer
      <4>2. QED
        BY <1>1, <2>6, <4>1 DEF OneAnswer
    <3>3. QED
      BY <2>3, <3>1, <3>2
  <2>9. GrantIsKept'
    <3>1. GrantIsKept
      BY DEF ScreenInv
    <3>2. CASE Answers' = Answers
      BY <1>1, <2>3, <3>1, <3>2 DEF GrantIsKept
    <3>3. CASE Head(up) = "start" /\ Answers' = Answers \union {Len(down) + 1}
      <4>1. ~late /\ screen # 0 => request /\ 1 = Len(up)
        BY <2>5, <2>7, <3>3 DEF OneAnswer
      <4>2. ~late /\ screen # 0 => up' = <<>> /\ lease' = "me"
        <5>1. Len(up) = 1 => up' = <<>>
          BY <1>2, EmptySeq
        <5>2. QED
          BY <2>2, <3>3, <4>1, <5>1
      <4>3. QED
        BY <1>1, <4>2 DEF GrantIsKept
    <3>4. QED
      BY <2>3, <3>2, <3>3
  <2>10. OwnerIsTold'
    BY <1>1, <2>3 DEF OwnerIsTold
  <2>11. QED
    BY <1>1, <1>2, <2>2, <2>3, <2>4, <2>8, <2>9, <2>10, HubKeeps
<1>8. QED
  BY <1>6, <1>7

\* Two messages appended at once.
LEMMA PairIsAppended ==
  ASSUME NEW S, NEW a \in S, NEW b \in S
  PROVE  <<a, b>> = Append(Append(<<>>, a), b)
<1>1. <<a, b>> = Append(<<a>>, b)
  OBVIOUS
<1>2. <<a>> = Append(<<>>, a)
  OBVIOUS
<1>3. QED
  BY <1>1, <1>2

\* The connection is lost, and made again.
LEMMA ResetHolds ==
  ASSUME ScreenInv, Reset
  PROVE  ScreenInv'
<1>1. /\ conn' = 0 /\ sender' = NoSender /\ screen' = 0 /\ request' = FALSE /\ owner' = "none"
      /\ live' = live \ {screen} /\ up' = <<>> /\ down' = <<>> /\ failed' = FALSE
      /\ drops < MaxDrops /\ drops' = drops + 1
      /\ start' = IF start.pc \in {"asking", "negotiating"} THEN NoStart ELSE start
      /\ lease' = IF lease = "me" THEN "none" ELSE lease
      /\ cut' = (cut \/ stop.pc = "pausing")
      /\ UNCHANGED <<stop, allowed, camera, enabled, starts, troubles, suspended, late>>
  BY DEF Reset
<1>2. NoStart \in [pc : StartPcs, conn : Nat, camera : BOOLEAN, cap : 0 .. MaxStarts,
                   denied : BOOLEAN, ended : BOOLEAN]
      /\ NoStart.pc = "idle"
  BY BoundsAreNat DEF NoStart, StartPcs
<1>3. /\ start'.pc = start.pc \/ start'.pc = "idle"
      /\ start'.pc \notin {"asking", "negotiating"}
      /\ start'.pc = "undoing" => start' = start
      /\ start' = NoStart \/ start' = start
  BY <1>1, <1>2
<1>4. StartIsTyped'
  BY <1>1, <1>2, <1>3 DEF ScreenInv, StartIsTyped
<1>5. SenderIsTyped' /\ QueuesAreTyped'
  <2>1. <<>> \in Seq(Ups) /\ <<>> \in Seq(Downs)
    BY EmptySeq
  <2>2. NoSender \in [conn : Nat, track : 0 .. MaxStarts, active : BOOLEAN]
    BY BoundsAreNat DEF NoSender
  <2>3. QED
    BY <1>1, <2>1, <2>2 DEF SenderIsTyped, QueuesAreTyped
<1>6. StopIsTyped' /\ BoundsAreTyped' /\ late' \in BOOLEAN
  <2>1. drops' \in 0 .. MaxDrops
    BY <1>1, BoundsAreNat DEF ScreenInv, BoundsAreTyped
  <2>2. QED
    BY <1>1, <2>1 DEF ScreenInv, StopIsTyped, BoundsAreTyped
<1>7. TypeOK'
  <2>1. /\ conn' \in 0 .. MaxDrops + 1 /\ live' \subseteq Captures
        /\ screen' \in {0} \union Captures
        /\ lease' \in {"none", "me", "other"} /\ owner' \in {"none", "me", "other"}
        /\ request' <=> start'.pc = "asking"
    BY <1>1, <1>3, BoundsAreNat DEF ScreenInv, TypeOK
  <2>2. /\ sender'.conn \in {0, conn'} /\ sender'.track \in {0} \union Captures
        /\ sender'.active \in BOOLEAN
    BY <1>1 DEF NoSender
  <2>3. {allowed', camera', enabled', suspended', cut', failed'} \subseteq BOOLEAN
    BY <1>1 DEF ScreenInv, TypeOK
  <2>4. QED
    BY <2>1, <2>2, <2>3 DEF TypeOK
<1>8. Offline' /\ Picks' /\ GrantIsKept'
  <2>1. lease' # "me"
    BY <1>1
  <2>2. Offline'
    BY <1>1, <2>1 DEF ScreenInv, Offline
  <2>3. Picks' /\ GrantIsKept'
    BY <1>1, <1>3 DEF ScreenInv, Picks, GrantIsKept
  <2>4. QED
    BY <2>2, <2>3
<1>9. SenderIsRight'
  BY <1>1, <1>3 DEF ScreenInv, SenderIsRight, NoSender
<1>10. CapturesAreHeld'
  BY <1>1, <1>3 DEF ScreenInv, CapturesAreHeld, Running
<1>11. OwnerIsTold' /\ LeaseIsHeld'
  BY <1>1 DEF OwnerIsTold, LeaseIsHeld, Claimed
<1>12. OneAnswer'
  <2>1. Pending' = {} /\ Answers' = {}
    BY <1>1 DEF Pending, Answers, AnswersIn
  <2>2. QED
    BY <2>1 DEF OneAnswer
<1>13. QED
  BY <1>4, <1>5, <1>6, <1>7, <1>8, <1>9, <1>10, <1>11, <1>12 DEF ScreenInv

LEMMA ConnectHolds ==
  ASSUME ScreenInv, Connect
  PROVE  ScreenInv'
<1>1. /\ conn = 0 /\ stop.pc # "pausing" /\ conn' = drops + 1
      /\ down' = <<IF enabled THEN "on" ELSE "off", StateOf[lease]>>
      /\ UNCHANGED <<live, screen, sender, start, stop, request, owner, allowed, camera,
                     lease, enabled, up, starts, drops, troubles, suspended, cut, late, failed>>
  BY DEF Connect, hubVars, bounds
<1>2. /\ sender = NoSender /\ owner = "none" /\ lease # "me" /\ up = <<>>
      /\ conn' \in Nat /\ conn' # 0 /\ conn' \in 0 .. MaxDrops + 1
      /\ lease \in {"none", "other"}
  <2>1. drops \in Nat /\ drops \in 0 .. MaxDrops
    BY BoundsAreNat DEF ScreenInv, BoundsAreTyped
  <2>2. conn' \in Nat /\ conn' # 0 /\ conn' \in 0 .. MaxDrops + 1
    BY <1>1, <2>1, BoundsAreNat
  <2>3. lease \in {"none", "me", "other"} /\ lease # "me"
    BY <1>1 DEF ScreenInv, TypeOK, Offline
  <2>4. QED
    BY <1>1, <2>2, <2>3 DEF ScreenInv, Offline
<1>3. PICK a \in Downs, b \in Downs :
        /\ a \notin States /\ b \in States /\ a # "state me" /\ b # "state me"
        /\ b = StateOf[lease] /\ down' = <<a, b>>
  <2> DEFINE x == IF enabled THEN "on" ELSE "off"
             y == StateOf[lease]
  <2>1. /\ x \in Downs /\ y \in Downs /\ x \notin States /\ y \in States
        /\ x # "state me" /\ y # "state me" /\ down' = <<x, y>>
    BY <1>1, <1>2, StateNames DEF Downs
  <2>2. QED
    BY <2>1
<1>4. a \notin States /\ b \in States /\ a # "state me" /\ b # "state me" /\ b = StateOf[lease]
  BY <1>3
<1>5. /\ Told(down', lease, owner) /\ down' \in Seq(Downs) /\ AnswersIn(down') = {}
  <2> DEFINE d == Append(<<>>, a)
  <2>1. <<>> \in Seq(Downs) /\ Told(<<>>, owner, owner) /\ AnswersIn(<<>>) = {}
    BY EmptySeq DEF Told, AnswersIn
  <2>2. /\ Told(Append(<<>>, a), owner, owner) /\ Append(<<>>, a) \in Seq(Downs)
        /\ AnswersIn(Append(<<>>, a)) =
             AnswersIn(<<>>) \union (IF a = "state me" THEN {Len(<<>>) + 1} ELSE {})
    BY <1>4, <2>1, AppendTells
  <2>3. Told(d, owner, owner) /\ d \in Seq(Downs) /\ AnswersIn(d) = {}
    BY <1>4, <2>1, <2>2
  <2>4. down' = Append(d, b)
    <3>1. <<a, b>> = Append(Append(<<>>, a), b)
      BY PairIsAppended
    <3>2. QED
      BY <1>3, <3>1
  <2> HIDE DEF d
  <2>5. /\ Told(Append(d, b), lease, owner) /\ Append(d, b) \in Seq(Downs)
        /\ AnswersIn(Append(d, b)) =
             AnswersIn(d) \union (IF b = "state me" THEN {Len(d) + 1} ELSE {})
    BY <1>4, <2>3, AppendTells
  <2>6. QED
    BY <1>4, <2>3, <2>4, <2>5
<1>6. OwnerIsTold'
  BY <1>1, <1>5 DEF OwnerIsTold
<1>7. Answers' = {} /\ Pending' = {}
  BY <1>1, <1>2, <1>5 DEF Answers, Pending
<1>8. OneAnswer'
  BY <1>7 DEF OneAnswer
<1>9. /\ StartIsTyped' /\ StopIsTyped' /\ SenderIsTyped' /\ QueuesAreTyped' /\ BoundsAreTyped'
      /\ late' \in BOOLEAN
  BY <1>1, <1>2, <1>5 DEF ScreenInv, StartIsTyped, StopIsTyped, SenderIsTyped, QueuesAreTyped,
                          BoundsAreTyped
<1>10. sender.conn = 0
  BY <1>2 DEF NoSender
<1>11. TypeOK'
  BY <1>1, <1>2, <1>10 DEF ScreenInv, TypeOK
<1>12. Offline'
  BY <1>1, <1>2 DEF Offline
<1>13. Picks' /\ CapturesAreHeld'
  BY <1>1 DEF ScreenInv, Picks, CapturesAreHeld, Running
<1>14. SenderIsRight' /\ GrantIsKept'
  BY <1>1, <1>7 DEF ScreenInv, SenderIsRight, GrantIsKept
<1>15. LeaseIsHeld'
  BY <1>1, <1>2 DEF LeaseIsHeld, Claimed
<1>16. QED
  BY <1>6, <1>8, <1>9, <1>11, <1>12, <1>13, <1>14, <1>15 DEF ScreenInv

\* The invariant holds first, and every step keeps it.
LEMMA ScreenInit == Init => ScreenInv
<1> SUFFICES ASSUME Init PROVE ScreenInv
  OBVIOUS
<1>1. /\ conn = 1 /\ live = {} /\ screen = 0 /\ sender = NoSender
      /\ start = NoStart /\ stop = NoStop /\ request = FALSE
      /\ owner = "none" /\ allowed = TRUE /\ camera \in BOOLEAN
      /\ lease = "none" /\ enabled = TRUE /\ up = <<>> /\ down = <<>>
      /\ starts = 0 /\ drops = 0 /\ troubles = 0 /\ suspended = FALSE /\ cut = FALSE /\ late = FALSE
      /\ failed = FALSE
  BY DEF Init
<1>2. /\ NoStart \in [pc : StartPcs, conn : Nat, camera : BOOLEAN, cap : 0 .. MaxStarts,
                      denied : BOOLEAN, ended : BOOLEAN]
      /\ NoStart.pc = "idle"
  BY BoundsAreNat DEF NoStart, StartPcs
<1>3. /\ NoStop \in [pc : {"idle", "pausing", "resuming"}, conn : Nat, cap : 0 .. MaxStarts]
      /\ NoStop.pc = "idle"
  BY BoundsAreNat DEF NoStop
<1>4. /\ NoSender \in [conn : Nat, track : 0 .. MaxStarts, active : BOOLEAN]
      /\ NoSender.conn = 0 /\ NoSender.track = 0 /\ NoSender.active = FALSE
  BY BoundsAreNat DEF NoSender
<1>5. StartIsTyped /\ StopIsTyped /\ SenderIsTyped
  BY <1>1, <1>2, <1>3, <1>4 DEF StartIsTyped, StopIsTyped, SenderIsTyped
<1>6. QueuesAreTyped /\ BoundsAreTyped
  BY <1>1, BoundsAreNat, EmptySeq DEF QueuesAreTyped, BoundsAreTyped
<1>7. TypeOK
  <2>1. /\ conn \in 0 .. MaxDrops + 1 /\ live \subseteq Captures
        /\ screen \in {0} \union Captures /\ sender.conn \in {0, conn}
        /\ sender.track \in {0} \union Captures /\ sender.active \in BOOLEAN
    BY <1>1, <1>4, BoundsAreNat
  <2>2. {allowed, camera, enabled, suspended, cut, failed} \subseteq BOOLEAN
    BY <1>1
  <2>3. request <=> start.pc = "asking"
    BY <1>1, <1>2
  <2>4. QED
    BY <1>1, <2>1, <2>2, <2>3 DEF TypeOK
<1>8. Offline /\ Picks /\ SenderIsRight /\ CapturesAreHeld
  BY <1>1, <1>2, <1>3, <1>4 DEF Offline, Picks, SenderIsRight, CapturesAreHeld
<1>9. OwnerIsTold /\ LeaseIsHeld
  BY <1>1 DEF OwnerIsTold, Told, LeaseIsHeld, Claimed
<1>10. Pending = {} /\ Answers = {}
  BY <1>1 DEF Pending, Answers, AnswersIn
<1>11. OneAnswer /\ GrantIsKept
  BY <1>1, <1>10 DEF OneAnswer, GrantIsKept
<1>12. QED
  BY <1>1, <1>5, <1>6, <1>7, <1>8, <1>9, <1>11 DEF ScreenInv

LEMMA ScreenStutters == ASSUME ScreenInv, UNCHANGED vars PROVE ScreenInv'
<1>1. UNCHANGED <<conn, live, screen, sender, start, stop, request, owner, allowed, camera,
                  lease, enabled, up, down, starts, drops, troubles, suspended, cut, late, failed>>
  BY DEF vars
<1>2. /\ StartIsTyped' /\ StopIsTyped' /\ SenderIsTyped' /\ QueuesAreTyped' /\ BoundsAreTyped'
      /\ late' \in BOOLEAN /\ TypeOK'
  BY <1>1 DEF ScreenInv, StartIsTyped, StopIsTyped, SenderIsTyped, QueuesAreTyped,
              BoundsAreTyped, TypeOK
<1>3. Offline' /\ Picks' /\ SenderIsRight' /\ CapturesAreHeld' /\ OwnerIsTold' /\ LeaseIsHeld'
  BY <1>1 DEF ScreenInv, Offline, Picks, SenderIsRight, CapturesAreHeld, Running, OwnerIsTold,
              LeaseIsHeld, Claimed
<1>4. OneAnswer' /\ GrantIsKept'
  BY <1>1 DEF ScreenInv, OneAnswer, GrantIsKept, Pending, Answers, Lost
<1>5. QED
  BY <1>2, <1>3, <1>4 DEF ScreenInv

LEMMA ScreenNext == ScreenInv /\ [Next]_vars => ScreenInv'
<1> SUFFICES ASSUME ScreenInv, [Next]_vars PROVE ScreenInv'
  OBVIOUS
<1>1. CASE StartSteps
  BY <1>1, PickedHolds, PickRefusedHolds, AskHolds, AttachHolds, ActivateHolds,
     NegotiationFailsHolds, SharedHolds, UndoneHolds DEF StartSteps
<1>2. CASE Messages
  BY <1>2, StateArrivesHolds, ErrorArrivesHolds, ConfigArrivesHolds DEF Messages
<1>3. CASE UNCHANGED vars
  BY <1>3, ScreenStutters
<1>4. QED
  BY <1>1, <1>2, <1>3, ToggleHolds, TimeOutHolds, UserStopsHolds, CaptureEndsHolds, DetachHolds,
     StoppedHolds, SuspendVideoHolds, HubHandlesHolds, HubActsHolds, ResetHolds, ConnectHolds DEF Next

LEMMA ScreenInvIsInvariant == Spec => []ScreenInv
  BY ScreenInit, ScreenNext, PTL DEF Spec

\* The invariant implies what is checked of the screen.
LEMMA ScreenImplies ==
  ScreenInv => TypeOK /\ LeaseMatchesShare /\ NoCaptureLeftOver /\ SharedIsSent
<1> SUFFICES ASSUME ScreenInv PROVE TypeOK /\ LeaseMatchesShare /\ NoCaptureLeftOver /\ SharedIsSent
  OBVIOUS
<1>1. TypeOK
  BY DEF ScreenInv
<1>2. NoStart.pc = "idle" /\ NoStop.pc = "idle"
  BY DEF NoStart, NoStop
<1>3. LeaseMatchesShare
  <2>1. SUFFICES ASSUME start = NoStart, stop = NoStop, up = <<>>, down = <<>>, conn # 0
                 PROVE  /\ owner = lease
                        /\ lease = "me" => screen # 0
                        /\ screen # 0 /\ ~late => lease = "me"
    BY DEF LeaseMatchesShare, Quiet
  <2>2. owner = lease
    BY <2>1 DEF ScreenInv, OwnerIsTold, Told
  <2>3. lease = "me" => screen # 0
    BY <1>2, <2>1 DEF ScreenInv, LeaseIsHeld, Claimed
  <2>4. ~Lost
    BY <2>1 DEF Lost, LostIn
  <2>5. screen # 0 /\ ~late => lease = "me"
    BY <1>2, <2>1, <2>4 DEF ScreenInv, GrantIsKept
  <2>6. QED
    BY <2>2, <2>3, <2>5
<1>4. NoCaptureLeftOver
  BY <1>2 DEF ScreenInv, NoCaptureLeftOver, CapturesAreHeld, Running
<1>5. SharedIsSent
  BY <1>2 DEF ScreenInv, SharedIsSent, SenderIsRight
<1>6. QED
  BY <1>1, <1>3, <1>4, <1>5

\* In a quiet moment the lease of the hub and the share of the page agree, no
\* capture runs unaccounted for, and what is shared is sent (startScreenShare,
\* stopScreenShare, handleWebRTCMessage and the screen handlers of hub.go).
THEOREM ScreenIsSafe == Spec => [](LeaseMatchesShare /\ NoCaptureLeftOver /\ SharedIsSent)
  BY ScreenInvIsInvariant, ScreenImplies, PTL

(*****************************************************************************)
(* The adaptation of the screen.                                             *)
(*****************************************************************************)
Call == [who : {"update", "sample"}, bits : Nat, rate : Nat, scale : Nat]
Sampled(q) == {i \in DOMAIN q : q[i].who = "sample"}
IsCurrent(c) == c.bits = budget.bits /\ c.rate = rate /\ c.scale = scale

AdaptIsTyped ==
  /\ generation \in Nat /\ calls \in Seq(Call)
  /\ rate \in Nat /\ scale \in Nat /\ over \in {0, 1} /\ previous \in Nat
  /\ sampling \in [pc : {"idle", "stats", "applying"}, generation : Nat]
  /\ sampling.generation <= generation
  /\ sampling.pc = "idle" <=> sampling = NoSample

BudgetIsTyped ==
  /\ budget \in Budgets \union {NoBudget}
  /\ budget.bits \in Nat /\ budget.fps \in Nat /\ rate <= budget.fps

\* A sample has at most one call under way, and only while it is applying.
OneSample ==
  /\ \A i, j \in Sampled(calls) : i = j
  /\ (sampling.pc = "applying") <=> Sampled(calls) # {}

\* The last call carries what was decided last: once all are answered, so does
\* the sender.
LastIsCurrent == calls # <<>> => IsCurrent(calls[Len(calls)])

\* The inductive invariant of the adaptation.
ControlInv ==
  /\ AdaptIsTyped /\ BudgetIsTyped
  /\ scale \in 4 .. MaxScale /\ previous <= generation
  /\ {stopped, timer, refused, heavy} \subseteq BOOLEAN
  /\ OneSample /\ LastIsCurrent /\ AppliedIsCurrent

\* The bounds are natural numbers.
LEMMA AdaptConstants ==
  /\ \A b \in Budgets : b.bits \in Nat /\ b.fps \in Nat
  /\ MinFrameRate \in Nat /\ MaxScale \in Nat /\ MaxScale >= 4
  BY ScreenAdaptationAssumptions DEF ScreenAdaptationAssumptions

\* The larger of two numbers is one of them.
LEMMA MaxOfTwo ==
  ASSUME NEW a \in Int, NEW b \in Int
  PROVE  Max({a, b}) \in {a, b} /\ Max({a, b}) >= a /\ Max({a, b}) >= b
<1>1. \E m \in {a, b} : \A y \in {a, b} : m >= y
  <2>1. CASE a >= b
    BY <2>1
  <2>2. CASE b >= a
    BY <2>2
  <2>3. QED
    BY <2>1, <2>2
<1>2. Max({a, b}) \in {a, b} /\ \A y \in {a, b} : Max({a, b}) >= y
  BY <1>1 DEF Max
<1>3. QED
  BY <1>2

\* A step down lowers the rate and stays above the least one.
LEMMA StepDownIsSmall ==
  ASSUME rate \in Nat, scale \in 4 .. MaxScale, StepDown
  PROVE  /\ rate' \in Nat /\ rate' <= rate /\ scale' \in 4 .. MaxScale /\ scale' >= scale
         /\ rate' < rate => rate' >= MinFrameRate /\ scale' = scale
<1> USE AdaptConstants
<1>1. CASE rate > MinFrameRate
  <2>1. (rate * 4) \div 5 \in Nat /\ (rate * 4) \div 5 <= rate
    OBVIOUS
  <2> DEFINE q == (rate * 4) \div 5
  <2>2. rate' = Max({MinFrameRate, q}) /\ scale' = scale
    BY <1>1 DEF StepDown
  <2>3. q \in Nat /\ q <= rate
    BY <2>1
  <2> HIDE DEF q
  <2>4. Max({MinFrameRate, q}) \in {MinFrameRate, q} /\ Max({MinFrameRate, q}) >= MinFrameRate
    BY <2>3, MaxOfTwo
  <2>5. QED
    BY <1>1, <2>2, <2>3, <2>4
<1>2. CASE ~(rate > MinFrameRate)
  BY <1>2 DEF StepDown
<1>3. QED
  BY <1>1, <1>2

\* A call is added at the end; the answered one leaves.
LEMMA CallsGrow ==
  ASSUME NEW q \in Seq(Call), NEW c \in Call
  PROVE  /\ Append(q, c) \in Seq(Call) /\ Append(q, c) # <<>>
         /\ Append(q, c)[Len(Append(q, c))] = c
         /\ Sampled(Append(q, c)) =
              Sampled(q) \union (IF c.who = "sample" THEN {Len(q) + 1} ELSE {})
<1>1. /\ Append(q, c) \in Seq(Call) /\ Append(q, c) # <<>> /\ Len(q) \in Nat
      /\ Len(Append(q, c)) = Len(q) + 1 /\ Append(q, c)[Len(q) + 1] = c
      /\ \A i \in 1 .. Len(q) : Append(q, c)[i] = q[i]
      /\ DOMAIN q = 1 .. Len(q) /\ DOMAIN Append(q, c) = 1 .. Len(q) + 1
  OBVIOUS
<1>2. Append(q, c)[Len(Append(q, c))] = c
  BY <1>1
<1>3. Sampled(Append(q, c)) =
        Sampled(q) \union (IF c.who = "sample" THEN {Len(q) + 1} ELSE {})
  BY <1>1 DEF Sampled
<1>4. QED
  BY <1>1, <1>2, <1>3

LEMMA CallsShrink ==
  ASSUME NEW q \in Seq(Call), q # <<>>
  PROVE  /\ Tail(q) \in Seq(Call) /\ Head(q) \in Call
         /\ Tail(q) # <<>> => Tail(q)[Len(Tail(q))] = q[Len(q)]
         /\ Tail(q) = <<>> => Head(q) = q[Len(q)]
         /\ \A i \in Sampled(Tail(q)) : i \in Nat /\ i + 1 \in Sampled(q)
         /\ \A i \in Sampled(q) : i # 1 => i - 1 \in Sampled(Tail(q))
         /\ 1 \in Sampled(q) <=> Head(q).who = "sample"
<1>1. /\ Tail(q) \in Seq(Call) /\ Len(q) \in Nat /\ Len(q) > 0
      /\ Len(Tail(q)) = Len(q) - 1 /\ Head(q) = q[1] /\ q[1] \in Call
      /\ \A i \in 1 .. Len(q) - 1 : Tail(q)[i] = q[i + 1]
      /\ DOMAIN q = 1 .. Len(q) /\ DOMAIN Tail(q) = 1 .. Len(q) - 1
  <2>1. /\ Tail(q) \in Seq(Call) /\ Len(q) \in Nat /\ Len(q) > 0
        /\ Len(Tail(q)) = Len(q) - 1 /\ Head(q) = q[1] /\ q[1] \in Call
        /\ \A i \in 1 .. Len(q) - 1 : Tail(q)[i] = q[i + 1]
    OBVIOUS
  <2>2. QED
    BY <2>1
<1>2. Tail(q) # <<>> => Tail(q)[Len(Tail(q))] = q[Len(q)]
  <2>1. SUFFICES ASSUME Tail(q) # <<>> PROVE Tail(q)[Len(Tail(q))] = q[Len(q)]
    OBVIOUS
  <2>2. Len(Tail(q)) \in 1 .. Len(q) - 1 /\ Len(Tail(q)) + 1 = Len(q)
    BY <1>1, <2>1
  <2>3. QED
    BY <1>1, <2>2
<1>3. Tail(q) = <<>> => Head(q) = q[Len(q)]
  <2>1. Tail(q) = <<>> => Len(q) = 1
    <3>1. Tail(q) = <<>> => Len(Tail(q)) = 0
      <4>1. Len(<<>>) = 0
        OBVIOUS
      <4>2. QED
        BY <4>1
    <3>2. QED
      BY <1>1, <3>1
  <2>2. QED
    BY <1>1, <2>1
<1>4. ASSUME NEW i \in Sampled(Tail(q))
      PROVE  i \in Nat /\ i + 1 \in Sampled(q)
  <2>1. i \in 1 .. Len(q) - 1 /\ Tail(q)[i].who = "sample"
    BY <1>1 DEF Sampled
  <2>2. i \in Nat /\ i + 1 \in 1 .. Len(q)
    BY <1>1, <2>1
  <2>3. QED
    BY <1>1, <2>1, <2>2 DEF Sampled
<1>5. ASSUME NEW i \in Sampled(q), i # 1
      PROVE  i - 1 \in Sampled(Tail(q))
  <2>1. i \in 1 .. Len(q) /\ q[i].who = "sample"
    BY <1>1 DEF Sampled
  <2>2. i - 1 \in 1 .. Len(q) - 1 /\ (i - 1) + 1 = i
    BY <1>1, <1>5, <2>1
  <2>3. Tail(q)[i - 1] = q[i]
    BY <1>1, <2>2
  <2>4. QED
    BY <1>1, <2>1, <2>2, <2>3 DEF Sampled
<1>6. 1 \in Sampled(q) <=> Head(q).who = "sample"
  BY <1>1 DEF Sampled
<1>7. QED
  BY <1>1, <1>2, <1>3, <1>4, <1>5, <1>6

\* What the invariant says of each variable.
LEMMA AdaptFacts ==
  ASSUME ControlInv
  PROVE  /\ generation \in Nat /\ calls \in Seq(Call) /\ rate \in Nat /\ scale \in 4 .. MaxScale
         /\ over \in {0, 1} /\ previous \in Nat /\ previous <= generation
         /\ sampling \in [pc : {"idle", "stats", "applying"}, generation : Nat]
         /\ sampling.generation <= generation
         /\ sampling.pc = "idle" <=> sampling = NoSample
         /\ budget \in Budgets \union {NoBudget}
         /\ budget.bits \in Nat /\ budget.fps \in Nat /\ rate <= budget.fps
         /\ {stopped, timer, refused, heavy} \subseteq BOOLEAN
         /\ NoSample \in [pc : {"idle", "stats", "applying"}, generation : Nat]
         /\ NoSample.pc = "idle" /\ NoSample.generation = 0
<1>1. /\ NoSample \in [pc : {"idle", "stats", "applying"}, generation : Nat]
      /\ NoSample.pc = "idle" /\ NoSample.generation = 0
  BY DEF NoSample
<1>2. /\ generation \in Nat /\ calls \in Seq(Call) /\ rate \in Nat /\ scale \in 4 .. MaxScale
      /\ over \in {0, 1} /\ previous \in Nat /\ previous <= generation
      /\ sampling \in [pc : {"idle", "stats", "applying"}, generation : Nat]
      /\ sampling.generation <= generation
      /\ sampling.pc = "idle" <=> sampling = NoSample
  BY DEF ControlInv, AdaptIsTyped
<1>3. /\ budget \in Budgets \union {NoBudget}
      /\ budget.bits \in Nat /\ budget.fps \in Nat /\ rate <= budget.fps
      /\ {stopped, timer, refused, heavy} \subseteq BOOLEAN
  BY DEF ControlInv, BudgetIsTyped
<1>4. QED
  BY <1>1, <1>2, <1>3

\* What the call answered first has applied.
LEMMA AppliedCall ==
  ASSUME calls \in Seq(Call), NEW w \in {"update", "sample"}, Apply(w),
         budget'.bits \in Nat, rate' \in Nat, scale' \in Nat
  PROVE  /\ calls' \in Seq(Call) /\ calls' # <<>> /\ LastIsCurrent'
         /\ Sampled(calls') = Sampled(calls) \union (IF w = "sample" THEN {Len(calls) + 1} ELSE {})
<1> DEFINE c == [who |-> w, bits |-> budget'.bits, rate |-> rate', scale |-> scale']
<1>1. /\ c \in Call /\ calls' = Append(calls, c) /\ c.who = w /\ c.bits = budget'.bits
      /\ c.rate = rate' /\ c.scale = scale'
  BY DEF Apply, Call
<1> HIDE DEF c
<1>2. /\ Append(calls, c) \in Seq(Call) /\ Append(calls, c) # <<>>
      /\ Append(calls, c)[Len(Append(calls, c))] = c
      /\ Sampled(Append(calls, c)) =
           Sampled(calls) \union (IF c.who = "sample" THEN {Len(calls) + 1} ELSE {})
  BY <1>1, CallsGrow
<1>3. LastIsCurrent'
  BY <1>1, <1>2 DEF LastIsCurrent, IsCurrent
<1>4. QED
  BY <1>1, <1>2, <1>3

\* Each action keeps the invariant.
LEMMA UpdateControls == ASSUME ControlInv, Update PROVE ControlInv'
<1> USE AdaptConstants
<1>1. PICK b \in Budgets :
        /\ ~stopped /\ generation < MaxUpdates /\ generation' = generation + 1
        /\ IF b = budget THEN UNCHANGED <<budget, rate, scale, over>>
           ELSE budget' = b /\ rate' = b.fps /\ scale' = 4 /\ over' = 0
        /\ previous' = 0 /\ Apply("update")
        /\ UNCHANGED <<sampling, stopped, timer, applied, refused, heavy, hitches>>
  BY DEF Update
<1>2. /\ budget' = b /\ b.bits \in Nat /\ b.fps \in Nat /\ rate' \in Nat /\ rate' <= b.fps
      /\ scale' \in 4 .. MaxScale /\ over' \in {0, 1} /\ generation' \in Nat
      /\ sampling.generation <= generation'
  <2>1. CASE b = budget
    BY <1>1, <2>1, AdaptFacts
  <2>2. CASE b # budget
    BY <1>1, <2>2, AdaptFacts, SMTT(30)
  <2>3. QED
    BY <2>1, <2>2
<1>3. calls' \in Seq(Call) /\ calls' # <<>> /\ LastIsCurrent' /\ Sampled(calls') = Sampled(calls)
  <2>1. scale' \in Nat /\ budget'.bits \in Nat /\ calls \in Seq(Call)
    BY <1>2, AdaptFacts
  <2>2. QED
    BY <1>1, <1>2, <2>1, AppliedCall
<1>4. AdaptIsTyped'
  BY <1>1, <1>2, <1>3, AdaptFacts DEF AdaptIsTyped
<1>5. BudgetIsTyped'
  BY <1>2 DEF BudgetIsTyped
<1>6. OneSample' /\ AppliedIsCurrent'
  BY <1>1, <1>3 DEF ControlInv, OneSample, AppliedIsCurrent
<1>7. {stopped', timer', refused', heavy'} \subseteq BOOLEAN /\ previous' <= generation'
  BY <1>1, <1>2, AdaptFacts
<1>8. QED
  BY <1>2, <1>3, <1>4, <1>5, <1>6, <1>7 DEF ControlInv

\* A sample starts, and what it decides is applied.
LEMMA SampleIsTaken ==
  ASSUME ControlInv, sampling' = [pc |-> "stats", generation |-> generation], sampling = NoSample,
         UNCHANGED <<budget, rate, scale, over, previous, generation, stopped, timer,
                     calls, applied, refused, heavy>>
  PROVE  ControlInv'
<1>1. /\ sampling' \in [pc : {"idle", "stats", "applying"}, generation : Nat]
      /\ sampling'.pc = "stats" /\ sampling'.generation = generation /\ sampling' # NoSample
      /\ generation <= generation
  BY AdaptFacts
<1>2. AdaptIsTyped'
  BY <1>1, AdaptFacts DEF AdaptIsTyped
<1>3. BudgetIsTyped' /\ LastIsCurrent' /\ AppliedIsCurrent'
  BY DEF ControlInv, BudgetIsTyped, LastIsCurrent, IsCurrent, AppliedIsCurrent
<1>4. OneSample'
  BY <1>1, AdaptFacts DEF ControlInv, OneSample, Sampled
<1>5. QED
  BY <1>2, <1>3, <1>4 DEF ControlInv

\* A sample is over, and nothing was lowered.
LEMMA SampleIsDropped ==
  ASSUME ControlInv, sampling.pc = "stats", sampling' = NoSample,
         over' \in {0, 1}, previous' \in {previous, generation},
         UNCHANGED <<budget, rate, scale, generation, stopped, timer, calls, applied, refused,
                     heavy>>
  PROVE  ControlInv'
<1>1. /\ sampling'.pc = "idle" /\ sampling'.generation = 0
      /\ sampling' \in [pc : {"idle", "stats", "applying"}, generation : Nat]
      /\ generation \in Nat /\ previous' \in Nat /\ previous' <= generation
  BY AdaptFacts
<1>2. AdaptIsTyped'
  BY <1>1, AdaptFacts DEF AdaptIsTyped
<1>3. BudgetIsTyped' /\ LastIsCurrent' /\ AppliedIsCurrent'
  BY DEF ControlInv, BudgetIsTyped, LastIsCurrent, IsCurrent, AppliedIsCurrent
<1>4. OneSample'
  BY <1>1, AdaptFacts DEF ControlInv, OneSample, Sampled
<1>5. QED
  BY <1>1, <1>2, <1>3, <1>4 DEF ControlInv

LEMMA StatsControls == ASSUME ControlInv, Stats PROVE ControlInv'
<1>1. /\ sampling.pc = "stats"
      /\ UNCHANGED <<budget, generation, stopped, timer, applied, refused, heavy, hitches>>
  BY DEF Stats
<1>2. CASE stopped \/ sampling.generation # generation
  BY <1>1, <1>2, AdaptFacts, SampleIsDropped DEF Stats
<1>3. CASE ~(stopped \/ sampling.generation # generation)
  <2>1. PICK tooMuch \in BOOLEAN : (heavy => tooMuch) /\ Judge(tooMuch)
    BY <1>3 DEF Stats
  <2>2. CASE previous = 0
    BY <1>1, <2>1, <2>2, AdaptFacts, SampleIsDropped DEF Judge
  <2>3. CASE previous # 0 /\ tooMuch /\ over = 1
    <3>1. /\ over' = 0 /\ StepDown /\ Apply("sample")
          /\ sampling' = [sampling EXCEPT !.pc = "applying"] /\ UNCHANGED previous
      BY <2>1, <2>3 DEF Judge
    <3>2. /\ rate' \in Nat /\ rate' <= rate /\ scale' \in 4 .. MaxScale /\ scale' \in Nat
          /\ budget'.bits \in Nat
      BY <1>1, <3>1, AdaptFacts, AdaptConstants, StepDownIsSmall
    <3>3. /\ calls' \in Seq(Call) /\ calls' # <<>> /\ LastIsCurrent'
          /\ Sampled(calls') = Sampled(calls) \union {Len(calls) + 1}
      BY <3>1, <3>2, AdaptFacts, AppliedCall
    <3>4. /\ sampling' \in [pc : {"idle", "stats", "applying"}, generation : Nat]
          /\ sampling'.pc = "applying" /\ sampling'.generation = sampling.generation
      BY <3>1, AdaptFacts
    <3>5. sampling' # NoSample
      BY <3>4, AdaptFacts
    <3>6. AdaptIsTyped'
      BY <1>1, <3>1, <3>2, <3>3, <3>4, <3>5, AdaptFacts DEF AdaptIsTyped
    <3>7. BudgetIsTyped'
      BY <1>1, <3>2, AdaptFacts DEF BudgetIsTyped
    <3>8. OneSample'
      <4>1. Sampled(calls) = {}
        BY <1>1 DEF ControlInv, OneSample
      <4>2. QED
        BY <3>3, <3>4, <4>1 DEF OneSample
    <3>9. AppliedIsCurrent' /\ previous' <= generation'
      BY <1>1, <3>1, <3>3, AdaptFacts DEF AppliedIsCurrent
    <3>10. QED
      BY <1>1, <3>2, <3>3, <3>6, <3>7, <3>8, <3>9 DEF ControlInv
  <2>4. CASE previous # 0 /\ ~(tooMuch /\ over = 1)
    <3>1. /\ over' = (IF tooMuch THEN over + 1 ELSE 0) /\ previous' = generation
          /\ sampling' = NoSample /\ UNCHANGED <<rate, scale, calls>>
      BY <2>1, <2>4 DEF Judge
    <3>2. over' \in {0, 1}
      BY <2>4, <3>1, AdaptFacts
    <3>3. QED
      BY <1>1, <3>1, <3>2, SampleIsDropped
  <2>5. QED
    BY <2>2, <2>3, <2>4
<1>4. QED
  BY <1>2, <1>3

LEMMA AnsweredControls == ASSUME ControlInv, Answered PROVE ControlInv'
<1>1. /\ calls # <<>> /\ calls' = Tail(calls)
      /\ \/ /\ applied' = [bits |-> Head(calls).bits, rate |-> Head(calls).rate,
                           scale |-> Head(calls).scale]
            /\ refused' = FALSE
         \/ refused' = TRUE /\ UNCHANGED applied
      /\ UNCHANGED <<budget, rate, scale, over, generation, stopped, heavy>>
  BY DEF Answered
<1>2. /\ calls' \in Seq(Call) /\ Head(calls) \in Call
      /\ calls' # <<>> => calls'[Len(calls')] = calls[Len(calls)]
      /\ calls' = <<>> => Head(calls) = calls[Len(calls)]
      /\ \A i \in Sampled(calls') : i \in Nat /\ i + 1 \in Sampled(calls)
      /\ \A i \in Sampled(calls) : i # 1 => i - 1 \in Sampled(calls')
      /\ 1 \in Sampled(calls) <=> Head(calls).who = "sample"
  BY <1>1, AdaptFacts, CallsShrink
<1>3. LastIsCurrent'
  BY <1>1, <1>2 DEF ControlInv, LastIsCurrent, IsCurrent
<1>4. AppliedIsCurrent'
  <2>1. calls' = <<>> => IsCurrent(Head(calls))
    BY <1>1, <1>2 DEF ControlInv, LastIsCurrent
  <2>2. QED
    BY <1>1, <2>1 DEF AppliedIsCurrent, IsCurrent
<1>5. BudgetIsTyped'
  BY <1>1, AdaptFacts DEF BudgetIsTyped
<1>6. \A i, j \in Sampled(calls') : i = j
  <2>1. ASSUME NEW i \in Sampled(calls'), NEW j \in Sampled(calls')
        PROVE  i = j
    <3>1. i \in Nat /\ j \in Nat /\ i + 1 = j + 1
      BY <1>2, <2>1 DEF ControlInv, OneSample
    <3>2. QED
      BY <3>1
  <2>2. QED
    BY <2>1
<1>7. CASE Head(calls).who = "update"
  <2>1. timer' = TRUE /\ UNCHANGED <<sampling, previous>>
    BY <1>1, <1>7 DEF Answered
  <2>2. AdaptIsTyped'
    BY <1>1, <1>2, <2>1, AdaptFacts DEF AdaptIsTyped
  <2>3. Sampled(calls) # {} <=> Sampled(calls') # {}
    <3>1. 1 \notin Sampled(calls)
      BY <1>2, <1>7
    <3>2. QED
      BY <1>2, <3>1
  <2>4. OneSample'
    BY <1>6, <2>1, <2>3 DEF ControlInv, OneSample
  <2>5. {stopped', timer', refused', heavy'} \subseteq BOOLEAN
    BY <1>1, <2>1, AdaptFacts
  <2>6. QED
    BY <1>1, <1>3, <1>4, <1>5, <2>1, <2>2, <2>4, <2>5, AdaptFacts DEF ControlInv
<1>8. CASE Head(calls).who # "update"
  <2>1. /\ previous' = sampling.generation /\ sampling' = NoSample /\ UNCHANGED timer
    BY <1>1, <1>8 DEF Answered
  <2>2. Head(calls).who = "sample"
    BY <1>2, <1>8 DEF Call
  <2>3. /\ previous' \in Nat /\ previous' <= generation'
        /\ sampling' \in [pc : {"idle", "stats", "applying"}, generation : Nat]
        /\ sampling'.pc = "idle" /\ sampling'.generation <= generation'
    BY <1>1, <2>1, AdaptFacts
  <2>4. AdaptIsTyped'
    BY <1>1, <1>2, <2>1, <2>3, AdaptFacts DEF AdaptIsTyped
  <2>5. Sampled(calls') = {}
    <3>1. ASSUME NEW i \in Sampled(calls')
          PROVE  FALSE
      <4>1. 1 \in Sampled(calls) /\ i \in Nat /\ i + 1 \in Sampled(calls) /\ \A j \in Sampled(calls) : j = 1
        BY <1>2, <2>2 DEF ControlInv, OneSample
      <4>2. QED
        <5>1. i + 1 = 1 /\ i \in Nat
          BY <4>1
        <5>2. i \in DOMAIN calls'
          BY DEF Sampled
        <5>3. i # 0
          BY <1>2, <5>2
        <5>4. QED
          BY <5>1, <5>3
    <3>2. QED
      BY <3>1
  <2>6. OneSample'
    BY <2>3, <2>5 DEF OneSample
  <2>7. {stopped', timer', refused', heavy'} \subseteq BOOLEAN
    BY <1>1, <2>1, AdaptFacts
  <2>8. QED
    BY <1>1, <1>3, <1>4, <1>5, <2>3, <2>4, <2>6, <2>7, AdaptFacts DEF ControlInv
<1>9. QED
  BY <1>7, <1>8

\* The invariant holds first, and every step keeps it.
LEMMA AdaptInitControls == ASSUME AdaptInit PROVE ControlInv
<1>1. /\ NoBudget.bits = 0 /\ NoBudget.fps = 0
      /\ NoSample \in [pc : {"idle", "stats", "applying"}, generation : Nat]
      /\ NoSample.pc = "idle" /\ NoSample.generation = 0
  BY DEF NoBudget, NoSample
<1>2. calls \in Seq(Call) /\ Sampled(calls) = {}
  BY DEF AdaptInit, Sampled
<1>3. AdaptIsTyped /\ BudgetIsTyped
  BY <1>1, <1>2 DEF AdaptInit, AdaptIsTyped, BudgetIsTyped
<1>4. OneSample /\ LastIsCurrent
  BY <1>1, <1>2 DEF AdaptInit, OneSample, LastIsCurrent
<1>5. AppliedIsCurrent
  BY <1>1 DEF AdaptInit, AppliedIsCurrent
<1>6. {stopped, timer, refused, heavy} \subseteq BOOLEAN /\ scale \in 4 .. MaxScale /\ previous <= generation
  <2>1. {stopped, timer, refused, heavy} \subseteq BOOLEAN
    BY DEF AdaptInit
  <2>2. QED
    BY <2>1, AdaptConstants DEF AdaptInit
<1>7. QED
  BY <1>3, <1>4, <1>5, <1>6 DEF ControlInv

LEMMA AdaptNextControls == ASSUME ControlInv, [AdaptNext]_adaptVars PROVE ControlInv'
<1>1. CASE Tick
  BY <1>1, SampleIsTaken DEF Tick
<1>2. CASE NoStats
  BY <1>2, AdaptFacts, SampleIsDropped DEF NoStats
<1>3. CASE StopAdaptation
  <2>1. /\ stopped' = TRUE /\ timer' = FALSE /\ generation' = generation + 1
        /\ UNCHANGED <<budget, rate, scale, over, previous, sampling, calls, applied, refused,
                       heavy, hitches>>
    BY <1>3 DEF StopAdaptation
  <2>2. /\ generation' \in Nat /\ previous' <= generation' /\ sampling'.generation <= generation'
        /\ {stopped', timer', refused', heavy'} \subseteq BOOLEAN
    <3>1. {stopped', timer', refused', heavy'} \subseteq BOOLEAN
      BY <2>1, AdaptFacts
    <3>2. QED
      BY <2>1, <3>1, AdaptFacts
  <2>3. AdaptIsTyped'
    BY <2>1, <2>2, AdaptFacts DEF AdaptIsTyped
  <2>4. BudgetIsTyped' /\ LastIsCurrent' /\ AppliedIsCurrent' /\ OneSample'
    BY <2>1 DEF ControlInv, BudgetIsTyped, LastIsCurrent, IsCurrent, AppliedIsCurrent,
                OneSample, Sampled
  <2>5. QED
    BY <2>1, <2>2, <2>3, <2>4 DEF ControlInv
<1>4. CASE UNCHANGED adaptVars
  <2>1. UNCHANGED <<budget, rate, scale, over, previous, sampling, generation, stopped,
                    timer, calls, applied, refused, heavy, hitches>>
    BY <1>4 DEF adaptVars
  <2>2. AdaptIsTyped' /\ BudgetIsTyped' /\ LastIsCurrent' /\ AppliedIsCurrent' /\ OneSample'
    BY <2>1 DEF ControlInv, AdaptIsTyped, BudgetIsTyped, LastIsCurrent, IsCurrent,
                AppliedIsCurrent, OneSample, Sampled
  <2>3. QED
    BY <2>1, <2>2 DEF ControlInv
<1>5. QED
  BY <1>1, <1>2, <1>3, <1>4, UpdateControls, StatsControls, AnsweredControls DEF AdaptNext

LEMMA ControlInvImplies == ControlInv => AdaptTypeOK /\ AppliedIsCurrent
<1> SUFFICES ASSUME ControlInv PROVE AdaptTypeOK /\ AppliedIsCurrent
  OBVIOUS
<1>1. rate \in 0 .. budget.fps /\ over \in 0 .. 1 /\ previous \in 0 .. generation
  BY AdaptFacts
<1>2. Sampled(calls) # {} <=> \E i \in DOMAIN calls : calls[i].who = "sample"
  BY DEF Sampled
<1>3. (sampling.pc = "applying") <=> (\E i \in DOMAIN calls : calls[i].who = "sample")
  BY <1>2 DEF ControlInv, OneSample
<1>4. QED
  BY <1>1, <1>3, AdaptFacts DEF ControlInv, AdaptTypeOK

\* What one step does to the rate and the scale.
LEMMA StepKeepsLearned ==
  ASSUME ControlInv, [AdaptNext]_adaptVars, budget' = budget
  PROVE  /\ rate' <= rate /\ scale' >= scale
         /\ rate' < rate => rate' >= MinFrameRate /\ scale' = scale
<1>1. CASE UNCHANGED <<rate, scale>>
  BY <1>1, AdaptFacts
<1>2. CASE Update
  BY <1>2, AdaptFacts DEF Update
<1>3. CASE Stats
  <2>1. UNCHANGED <<rate, scale>> \/ StepDown
    BY <1>3 DEF Stats, Judge
  <2>2. QED
    BY <1>1, <2>1, AdaptFacts, StepDownIsSmall
<1>4. QED
  BY <1>1, <1>2, <1>3 DEF AdaptNext, Tick, NoStats, Answered, StopAdaptation, adaptVars

\* The sender carries what was decided last once every call is answered, and under
\* one budget the rate only falls and the scale only grows (createScreenShareAdaptation).
THEOREM AdaptIsSafe == AdaptSpec => [](AdaptTypeOK /\ AppliedIsCurrent) /\ LearnedIsKept
<1>1. AdaptInit => ControlInv
  BY AdaptInitControls
<1>2. ControlInv /\ [AdaptNext]_adaptVars => ControlInv'
  BY AdaptNextControls
<1>3. AdaptSpec => []ControlInv
  BY <1>1, <1>2, PTL DEF AdaptSpec
<1>4. ControlInv => AdaptTypeOK /\ AppliedIsCurrent
  BY ControlInvImplies
<1>5. ControlInv /\ [AdaptNext]_adaptVars =>
        [budget' = budget =>
           /\ rate' <= rate /\ scale' >= scale
           /\ rate' < rate => rate' >= MinFrameRate /\ scale' = scale]_adaptVars
  BY StepKeepsLearned
<1>6. QED
  BY <1>3, <1>4, <1>5, PTL DEF AdaptSpec, LearnedIsKept

(*****************************************************************************)
(* The grid of tiles.                                                        *)
(*****************************************************************************)
GridInv ==
  /\ LayoutTypeOK
  /\ settled /\ tiles # 0 /\ width # 0 /\ height # 0 =>
       columns = ChooseColumns(width, height, tiles, columns)

\* A finite set of candidates has a best one.
LEMMA ArgMax ==
  ASSUME NEW n \in Nat, NEW A, A \subseteq 1 .. n, A # {}, NEW f, \A c \in A : f[c] \in Int
  PROVE  \E m \in A : \A c \in A : f[c] <= f[m]
<1> DEFINE Good(i) == \/ \A c \in A : c > i
                      \/ \E m \in A : m <= i /\ \A c \in A : c <= i => f[c] <= f[m]
           T == {i \in 0 .. n : Good(i)}
<1>1. 0 \in T
  OBVIOUS
<1>2. ASSUME NEW i \in 0 .. n - 1, i \in T
      PROVE  i + 1 \in T
  <2>1. Good(i)
    BY <1>2
  <2>2. \A c \in A : c \in Nat /\ (c <= i + 1 => c <= i \/ c = i + 1) /\ (c > i => c > i + 1 \/ c = i + 1)
    OBVIOUS
  <2>3. CASE i + 1 \notin A
    <3>1. Good(i + 1)
      BY <2>1, <2>2, <2>3
    <3>2. QED
      BY <3>1
  <2>4. CASE i + 1 \in A
    <3>1. CASE \A c \in A : c > i
      <4>1. \A c \in A : c <= i + 1 => f[c] <= f[i + 1]
        BY <2>2, <2>4, <3>1
      <4>2. QED
        BY <2>4, <4>1
    <3>2. CASE ~(\A c \in A : c > i)
      <4>1. PICK m \in A : m <= i /\ \A c \in A : c <= i => f[c] <= f[m]
        BY <2>1, <3>2
      <4>2. CASE f[i + 1] <= f[m]
        <5>1. \A c \in A : c <= i + 1 => f[c] <= f[m]
          BY <2>2, <4>1, <4>2
        <5>2. m <= i + 1
          BY <2>2, <4>1
        <5>3. QED
          BY <5>1, <5>2
      <4>3. CASE f[i + 1] > f[m]
        <5>1. \A c \in A : c <= i + 1 => f[c] <= f[i + 1]
          BY <2>2, <2>4, <4>1, <4>3
        <5>2. QED
          BY <2>4, <5>1
      <4>4. QED
        BY <2>4, <4>2, <4>3
    <3>3. QED
      BY <3>1, <3>2
  <2>5. QED
    BY <2>3, <2>4
<1> HIDE DEF T
<1>3. n \in T
  BY <1>1, <1>2, UpTo
<1>4. Good(n)
  BY <1>3 DEF T
<1>5. \A c \in A : c \in Nat /\ c <= n
  OBVIOUS
<1>6. PICK c0 \in A : TRUE
  OBVIOUS
<1>7. c0 \in Nat /\ ~(c0 > n)
  BY <1>5
<1>8. PICK m \in A : m <= n /\ \A c \in A : c <= n => f[c] <= f[m]
  BY <1>4, <1>7
<1>9. \A c \in A : f[c] <= f[m]
  BY <1>5, <1>8
<1>10. QED
  BY <1>9

\* The sizes are natural numbers.
LEMMA LayoutConstants ==
  /\ Widths \subseteq Nat /\ Heights \subseteq Nat /\ MaxTiles \in Nat
  /\ MinTileWidth \in Nat /\ MinTileHeight \in Nat /\ MaxTileWidth \in Nat /\ Denominator \in Nat
  BY LayoutAssumptions DEF LayoutAssumptions

\* Rows, widths and scores are numbers.
LEMMA RowsArePositive ==
  ASSUME NEW n \in Nat, NEW c \in 1 .. n
  PROVE  Rows(n, c) \in Nat /\ Rows(n, c) >= 1
<1>1. /\ n + c - 1 \in Nat /\ c \in Nat /\ c > 0 /\ n + c - 1 >= c
  OBVIOUS
<1>2. ASSUME NEW a \in Nat, NEW d \in Nat, d > 0, a >= d
      PROVE  a \div d \in Nat /\ a \div d >= 1
  BY <1>2
<1>3. QED
  BY <1>1, <1>2 DEF Rows

LEMMA MinOfThree ==
  ASSUME NEW a \in Int, NEW b \in Int, NEW c \in Int
  PROVE  Min({a, b, c}) \in Int
<1>1. \E m \in {a, b, c} : \A y \in {a, b, c} : m =< y
  <2>1. CASE a <= b /\ a <= c
    BY <2>1
  <2>2. CASE b <= a /\ b <= c
    BY <2>2
  <2>3. CASE c <= a /\ c <= b
    BY <2>3
  <2>4. QED
    BY <2>1, <2>2, <2>3
<1>2. Min({a, b, c}) \in {a, b, c}
  BY <1>1 DEF Min
<1>3. QED
  BY <1>2

LEMMA TileWidthIsInt ==
  ASSUME NEW w \in Nat, NEW h \in Nat, NEW n \in Nat, NEW c \in 1 .. n
  PROVE  TileWidth(w, h, n, c) \in Int
<1>1. Rows(n, c) \in Nat /\ Rows(n, c) >= 1
  BY RowsArePositive
<1>2. c \in Nat /\ c > 0 /\ 9 * Rows(n, c) \in Nat /\ 9 * Rows(n, c) > 0
  BY <1>1
<1>3. Denominator \div c \in Int /\ Denominator \div (9 * Rows(n, c)) \in Int
  BY <1>2, LayoutConstants
<1>4. w - (c - 1) \in Int /\ (h - (Rows(n, c) - 1)) * 16 \in Int
  BY <1>1, <1>2
<1>5. /\ (w - (c - 1)) * (Denominator \div c) \in Int
      /\ (h - (Rows(n, c) - 1)) * 16 * (Denominator \div (9 * Rows(n, c))) \in Int
  BY <1>3, <1>4
<1>6. MaxTileWidth * Denominator \in Int
  BY LayoutConstants
<1>7. QED
  BY <1>5, <1>6, MinOfThree DEF TileWidth

LEMMA ScoreIsInt ==
  ASSUME NEW w \in Nat, NEW h \in Nat, NEW n \in Nat, NEW p, NEW c \in 1 .. n
  PROVE  Score(w, h, n, c, p) \in Int
<1>1. TileWidth(w, h, n, c) \in Int
  BY TileWidthIsInt
<1>2. Weight(c, p, Usable(w, h, n) # {}) \in Int
  BY DEF Weight
<1>3. \A t \in Int, k \in Int : t * t * k \in Int
  OBVIOUS
<1>4. QED
  BY <1>1, <1>2, <1>3 DEF Score

\* The choice has the greatest score, and is the least of those that have it.
LEMMA BestIsBest ==
  ASSUME NEW w \in Nat, NEW h \in Nat, NEW n \in Nat, NEW p,
         NEW A, A \subseteq 1 .. n, A # {}
  PROVE  /\ Best(w, h, n, p, A) \in A
         /\ \A c \in A : Score(w, h, n, c, p) <= Score(w, h, n, Best(w, h, n, p, A), p)
         /\ \A c \in A : Score(w, h, n, c, p) = Score(w, h, n, Best(w, h, n, p, A), p)
                         => Best(w, h, n, p, A) <= c
<1> DEFINE S(c) == Score(w, h, n, c, p)
           f == [c \in A |-> S(c)]
           scores == {S(c) : c \in A}
           top == Max(scores)
           least == {c \in A : S(c) = top}
<1>1. \A c \in A : S(c) \in Int
  BY ScoreIsInt
<1>2. Best(w, h, n, p, A) = Min(least)
  BY DEF Best
<1> HIDE DEF S
<1>3. \A c \in A : f[c] = S(c)
  OBVIOUS
<1>4. \A c \in A : f[c] \in Int
  BY <1>1, <1>3
<1> HIDE DEF f
<1>5. PICK m \in A : \A c \in A : f[c] <= f[m]
  BY <1>4, ArgMax
<1>6. S(m) \in scores /\ \A y \in scores : S(m) >= y
  BY <1>1, <1>3, <1>5
<1>7. top \in scores /\ \A y \in scores : top >= y
  BY <1>6 DEF Max
<1> HIDE DEF top
<1>8. least # {} /\ least \subseteq Nat
  BY <1>7
<1>9. PICK x \in least : \A y \in least : x <= y
  BY <1>8, LeastNumber
<1> HIDE DEF least
<1>10. Min(least) \in least /\ \A y \in least : Min(least) <= y
  BY <1>9 DEF Min
<1> DEFINE b == Min(least)
<1> HIDE DEF b
<1>11. b \in least /\ \A y \in least : b <= y
  BY <1>10 DEF b
<1>12. b \in A /\ S(b) = top
  BY <1>11 DEF least
<1>13. \A c \in A : S(c) <= S(b)
  BY <1>1, <1>7, <1>12
<1>14. \A c \in A : S(c) = S(b) => b <= c
  BY <1>11, <1>12 DEF least
<1>15. b = Best(w, h, n, p, A)
  BY <1>2 DEF b
<1>16. QED
  BY <1>12, <1>13, <1>14, <1>15 DEF S

\* A square is not negative.
LEMMA Squares ==
  ASSUME NEW t \in Int
  PROVE  t * t \in Int /\ t * t >= 0
  OBVIOUS

\* Preferring what has just been chosen chooses it again.
LEMMA BestIsStable ==
  ASSUME NEW w \in Nat, NEW h \in Nat, NEW n \in Nat, NEW p,
         NEW A, A \subseteq 1 .. n, A # {}
  PROVE  Best(w, h, n, Best(w, h, n, p, A), A) = Best(w, h, n, p, A)
<1> DEFINE b == Best(w, h, n, p, A)
           c == Best(w, h, n, b, A)
           area(k) == TileWidth(w, h, n, k) * TileWidth(w, h, n, k)
           u == Usable(w, h, n) # {}
<1>1. /\ b \in A
      /\ Score(w, h, n, c, p) <= Score(w, h, n, b, p) \/ c \notin A
      /\ Score(w, h, n, c, p) = Score(w, h, n, b, p) => b <= c \/ c \notin A
  BY BestIsBest, ZenonT(30)
<1> HIDE DEF b
<1>2. /\ c \in A
      /\ Score(w, h, n, b, b) <= Score(w, h, n, c, b)
      /\ Score(w, h, n, b, b) = Score(w, h, n, c, b) => c <= b
  BY <1>1, BestIsBest
<1> HIDE DEF c
<1>3. SUFFICES ASSUME c # b PROVE FALSE
  BY DEF b, c
<1>4. b \in Nat /\ c \in Nat
  BY <1>1, <1>2
<1>5. area(b) \in Int /\ area(b) >= 0 /\ area(c) \in Int /\ area(c) >= 0
  <2>1. TileWidth(w, h, n, b) \in Int /\ TileWidth(w, h, n, c) \in Int
    BY <1>1, <1>2, TileWidthIsInt
  <2>2. QED
    BY <2>1, Squares
<1>6. /\ Score(w, h, n, b, p) = area(b) * Weight(b, p, u)
      /\ Score(w, h, n, c, p) = area(c) * Weight(c, p, u)
      /\ Score(w, h, n, b, b) = area(b) * Weight(b, b, u)
      /\ Score(w, h, n, c, b) = area(c) * Weight(c, b, u)
  BY DEF Score
<1> DEFINE x == area(b)
           y == area(c)
<1>7. x \in Int /\ x >= 0 /\ y \in Int /\ y >= 0
  BY <1>5
<1> HIDE DEF area, u, x, y
<1>8. CASE u
  <2>1. /\ Weight(b, b, u) = 53 /\ Weight(c, b, u) = 50
        /\ Weight(c, p, u) \in {50, 53} /\ Weight(b, p, u) \in {50, 53}
        /\ Weight(b, p, u) = 53 => Weight(c, p, u) = 50
        /\ Weight(c, p, u) = 53 => Weight(b, p, u) = 50
    BY <1>3, <1>8 DEF Weight
  <2>2. x * 53 <= y * 50 /\ (x * 53 = y * 50 => c <= b)
    BY <1>2, <1>6, <2>1 DEF x, y
  <2>3. (x = 0 /\ y = 0) \/ x < y
    BY <1>7, <2>2
  <2>4. y * Weight(c, p, u) <= x * Weight(b, p, u)
    BY <1>1, <1>2, <1>6 DEF x, y
  <2>5. x = 0 /\ y = 0
    <3>1. CASE Weight(b, p, u) = 50
      <4>1. y * 50 <= x * 50 \/ y * 53 <= x * 50
        BY <2>1, <2>4, <3>1
      <4>2. QED
        BY <1>7, <2>3, <4>1
    <3>2. CASE Weight(b, p, u) = 53
      <4>1. y * 50 <= x * 53
        BY <2>1, <2>4, <3>2
      <4>2. Weight(c, p, u) = 50
        BY <2>1, <3>2
      <4>3. x * 53 = y * 50
        BY <1>7, <2>2, <4>1
      <4>4. Score(w, h, n, c, p) = Score(w, h, n, b, p)
        BY <1>6, <3>2, <4>2, <4>3 DEF x, y
      <4>5. FALSE
        BY <1>1, <1>2, <1>3, <1>4, <2>2, <4>3, <4>4
      <4>6. QED
        BY <4>5
    <3>3. QED
      BY <2>1, <3>1, <3>2
  <2>6. Score(w, h, n, c, p) = Score(w, h, n, b, p)
    <3>1. Weight(c, p, u) \in Int /\ Weight(b, p, u) \in Int
      BY <2>1
    <3>2. QED
      BY <1>6, <2>5, <3>1 DEF x, y
  <2>7. x * 53 = y * 50
    BY <2>5
  <2>8. QED
    BY <1>1, <1>2, <1>3, <1>4, <2>2, <2>6, <2>7
<1>9. CASE ~u
  <2>1. /\ Weight(b, b, u) = 13 /\ Weight(c, b, u) = 10
        /\ Weight(c, p, u) \in {10, 13} /\ Weight(b, p, u) \in {10, 13}
        /\ Weight(b, p, u) = 13 => Weight(c, p, u) = 10
        /\ Weight(c, p, u) = 13 => Weight(b, p, u) = 10
    BY <1>3, <1>9 DEF Weight
  <2>2. x * 13 <= y * 10 /\ (x * 13 = y * 10 => c <= b)
    BY <1>2, <1>6, <2>1 DEF x, y
  <2>3. (x = 0 /\ y = 0) \/ x < y
    BY <1>7, <2>2
  <2>4. y * Weight(c, p, u) <= x * Weight(b, p, u)
    BY <1>1, <1>2, <1>6 DEF x, y
  <2>5. x = 0 /\ y = 0
    <3>1. CASE Weight(b, p, u) = 10
      <4>1. y * 10 <= x * 10 \/ y * 13 <= x * 10
        BY <2>1, <2>4, <3>1
      <4>2. QED
        BY <1>7, <2>3, <4>1
    <3>2. CASE Weight(b, p, u) = 13
      <4>1. y * 10 <= x * 13
        BY <2>1, <2>4, <3>2
      <4>2. Weight(c, p, u) = 10
        BY <2>1, <3>2
      <4>3. x * 13 = y * 10
        BY <1>7, <2>2, <4>1
      <4>4. Score(w, h, n, c, p) = Score(w, h, n, b, p)
        BY <1>6, <3>2, <4>2, <4>3 DEF x, y
      <4>5. FALSE
        BY <1>1, <1>2, <1>3, <1>4, <2>2, <4>3, <4>4
      <4>6. QED
        BY <4>5
    <3>3. QED
      BY <2>1, <3>1, <3>2
  <2>6. Score(w, h, n, c, p) = Score(w, h, n, b, p)
    <3>1. Weight(c, p, u) \in Int /\ Weight(b, p, u) \in Int
      BY <2>1
    <3>2. QED
      BY <1>6, <2>5, <3>1 DEF x, y
  <2>7. x * 13 = y * 10
    BY <2>5
  <2>8. QED
    BY <1>1, <1>2, <1>3, <1>4, <2>2, <2>6, <2>7
<1>10. QED
  BY <1>8, <1>9

\* What is chosen lies between 1 and the number of tiles.
LEMMA ColumnsAreSome ==
  ASSUME NEW w \in Nat, NEW h \in Nat, NEW n \in Nat, NEW p
  PROVE  /\ Candidates(w, h, n) \subseteq 1 .. n
         /\ Usable(w, h, n) \subseteq Candidates(w, h, n)
         /\ ChooseColumns(w, h, n, p) \in 1 .. n \/ ChooseColumns(w, h, n, p) = 1
<1>1. Candidates(w, h, n) \subseteq 1 .. n
  BY Zenon DEF Candidates
<1>2. Usable(w, h, n) \subseteq Candidates(w, h, n)
  BY Zenon DEF Usable
<1> DEFINE C == Candidates(w, h, n)
           U == Usable(w, h, n)
<1>3. C # {} => Best(w, h, n, p, C) \in 1 .. n
  BY <1>1, BestIsBest
<1>4. U \subseteq 1 .. n
  BY <1>1, <1>2
<1>5. U # {} => Best(w, h, n, p, U) \in 1 .. n
  BY <1>4, BestIsBest
<1>6. 2 \in U => 2 \in 1 .. n
  BY <1>4
<1> HIDE DEF C, U
<1>7. ChooseColumns(w, h, n, p) \in 1 .. n \/ ChooseColumns(w, h, n, p) = 1
  BY <1>3, <1>5, <1>6 DEF ChooseColumns, C, U
<1>8. QED
  BY <1>1, <1>2, <1>7

\* A second pass over the same stage chooses what the first one chose.
LEMMA ChoiceIsStable ==
  ASSUME NEW w \in Nat, NEW h \in Nat, NEW n \in Nat, NEW p
  PROVE  ChooseColumns(w, h, n, ChooseColumns(w, h, n, p)) = ChooseColumns(w, h, n, p)
<1> DEFINE C == Candidates(w, h, n)
           U == Usable(w, h, n)
<1>1. C \subseteq 1 .. n /\ U \subseteq C
  BY ColumnsAreSome
<1>2. C # {} => Best(w, h, n, Best(w, h, n, p, C), C) = Best(w, h, n, p, C)
  BY <1>1, BestIsStable
<1>3. U \subseteq 1 .. n
  BY <1>1
<1>4. U # {} => Best(w, h, n, Best(w, h, n, p, U), U) = Best(w, h, n, p, U)
  BY <1>3, BestIsStable
<1>5. CASE n = 0 \/ C = {}
  BY <1>5 DEF ChooseColumns
<1>6. CASE ~(n = 0 \/ C = {}) /\ U = {}
  <2>1. \A q : ChooseColumns(w, h, n, q) = Best(w, h, n, q, C)
    BY <1>6 DEF ChooseColumns
  <2>2. QED
    BY <1>2, <1>6, <2>1
<1>7. CASE ~(n = 0 \/ C = {}) /\ U # {} /\ n = 3 /\ 2 \in U
  <2>1. \A q : ChooseColumns(w, h, n, q) = 2
    BY <1>7 DEF ChooseColumns
  <2>2. QED
    BY <2>1
<1>8. CASE ~(n = 0 \/ C = {}) /\ U # {} /\ ~(n = 3 /\ 2 \in U)
  <2>1. \A q : ChooseColumns(w, h, n, q) = Best(w, h, n, q, U)
    BY <1>8 DEF ChooseColumns
  <2>2. QED
    BY <1>4, <1>8, <2>1
<1>9. QED
  BY <1>5, <1>6, <1>7, <1>8

\* The invariant holds first, every step keeps it, and over a settled grid no step
\* changes the columns.
LEMMA GridInitHolds == LayoutInit => GridInv
<1> SUFFICES ASSUME LayoutInit PROVE GridInv
  OBVIOUS
<1>1. {frame, settled} \subseteq BOOLEAN
  BY Zenon DEF LayoutInit
<1>2. tiles \in 0 .. MaxTiles /\ columns \in 0 .. MaxTiles
  BY LayoutConstants DEF LayoutInit
<1>3. width \in Widths /\ height \in Heights /\ tiles = 0
  BY DEF LayoutInit
<1>4. QED
  BY <1>1, <1>2, <1>3 DEF GridInv, LayoutTypeOK

LEMMA GridNext ==
  ASSUME GridInv, [LayoutNext]_layoutVars
  PROVE  GridInv'
<1>1. /\ width \in Widths /\ height \in Heights /\ tiles \in 0 .. MaxTiles
      /\ columns \in 0 .. MaxTiles
  BY DEF GridInv, LayoutTypeOK
<1>2. frame \in BOOLEAN /\ settled \in BOOLEAN
  BY DEF GridInv, LayoutTypeOK
<1>3. settled /\ tiles # 0 /\ width # 0 /\ height # 0 =>
        columns = ChooseColumns(width, height, tiles, columns)
  BY DEF GridInv
<1>4. width \in Nat /\ height \in Nat /\ tiles \in Nat
  BY <1>1, LayoutConstants
<1>5. CASE Resize
  <2>1. /\ width' \in Widths /\ height' \in Heights /\ tiles' = tiles /\ columns' = columns
        /\ frame' = TRUE /\ settled' = FALSE
    BY <1>5 DEF Resize
  <2>2. {frame', settled'} \subseteq BOOLEAN
    BY <2>1
  <2>3. QED
    BY <1>1, <2>1, <2>2 DEF GridInv, LayoutTypeOK
<1>6. CASE RenderTiles
  <2>1. /\ width' = width /\ height' = height /\ tiles' \in 0 .. MaxTiles /\ columns' = columns
        /\ frame' = TRUE /\ settled' = (settled /\ tiles' = tiles)
    BY <1>6 DEF RenderTiles
  <2>2. {frame', settled'} \subseteq BOOLEAN
    BY <2>1
  <2>3. settled' /\ tiles' # 0 /\ width' # 0 /\ height' # 0 =>
          columns' = ChooseColumns(width', height', tiles', columns')
    BY <1>3, <2>1
  <2>4. QED
    BY <1>1, <2>1, <2>2, <2>3 DEF GridInv, LayoutTypeOK
<1>7. CASE Frame
  <2>1. /\ width' = width /\ height' = height /\ tiles' = tiles
        /\ frame' = FALSE /\ settled' = TRUE
        /\ columns' = IF tiles = 0 \/ width = 0 \/ height = 0 THEN columns
                      ELSE ChooseColumns(width, height, tiles, columns)
    BY <1>7 DEF Frame
  <2>2. {frame', settled'} \subseteq BOOLEAN
    BY <2>1
  <2>3. tiles # 0 /\ width # 0 /\ height # 0 =>
          columns' = ChooseColumns(width, height, tiles, columns')
    BY <1>4, <2>1, ChoiceIsStable
  <2>4. tiles # 0 => ChooseColumns(width, height, tiles, columns) \in 0 .. MaxTiles
    <3>1. \/ ChooseColumns(width, height, tiles, columns) \in 1 .. tiles
          \/ ChooseColumns(width, height, tiles, columns) = 1
      BY <1>4, ColumnsAreSome
    <3>2. QED
      BY <1>1, <3>1, LayoutConstants
  <2>5. columns' \in 0 .. MaxTiles
    BY <1>1, <2>1, <2>4
  <2>6. QED
    BY <1>1, <2>1, <2>2, <2>3, <2>5 DEF GridInv, LayoutTypeOK
<1>8. CASE UNCHANGED layoutVars
  <2>1. /\ width' = width /\ height' = height /\ tiles' = tiles /\ columns' = columns
        /\ frame' = frame /\ settled' = settled
    BY <1>8 DEF layoutVars
  <2>2. {frame', settled'} \subseteq BOOLEAN
    BY <1>2, <2>1
  <2>3. QED
    BY <1>1, <1>3, <2>1, <2>2 DEF GridInv, LayoutTypeOK
<1>9. QED
  BY <1>5, <1>6, <1>7, <1>8 DEF LayoutNext

LEMMA GridSettles ==
  ASSUME GridInv, [LayoutNext]_layoutVars, settled
  PROVE  columns' = columns
<1>1. settled /\ tiles # 0 /\ width # 0 /\ height # 0 =>
        columns = ChooseColumns(width, height, tiles, columns)
  BY DEF GridInv
<1>2. CASE Resize
  BY <1>2 DEF Resize
<1>3. CASE RenderTiles
  BY <1>3 DEF RenderTiles
<1>4. CASE Frame
  BY <1>1, <1>4 DEF Frame
<1>5. CASE UNCHANGED layoutVars
  BY <1>5 DEF layoutVars
<1>6. QED
  BY <1>2, <1>3, <1>4, <1>5 DEF LayoutNext

\* What was chosen is at most a preferred score away from the best.
LEMMA GridIsNearlyBest ==
  ASSUME GridInv
  PROVE  NearlyBest
<1> DEFINE U == Usable(width, height, tiles)
           T(k) == TileWidth(width, height, tiles, k)
<1> SUFFICES ASSUME settled, tiles # 0, tiles # 3, U # {}, columns # 0, NEW c \in U
             PROVE  T(columns) * T(columns) * 53 >= T(c) * T(c) * 50
  BY DEF NearlyBest
<1>1. width \in Nat /\ height \in Nat /\ tiles \in Nat
  BY LayoutConstants DEF GridInv, LayoutTypeOK
<1>2. Candidates(width, height, tiles) \subseteq 1 .. tiles /\ U \subseteq Candidates(width, height, tiles)
  BY <1>1, ColumnsAreSome
<1>3. U \subseteq 1 .. tiles
  BY <1>2
<1>4. c \in 1 .. tiles /\ width > c - 1 /\ height > Rows(tiles, c) - 1
  BY <1>2 DEF Candidates
<1>5. Rows(tiles, c) \in Nat /\ Rows(tiles, c) >= 1
  BY <1>1, <1>4, RowsArePositive
<1>6. width # 0 /\ height # 0
  BY <1>1, <1>4, <1>5
<1>7. columns = ChooseColumns(width, height, tiles, columns)
  BY <1>6 DEF GridInv
<1>8. columns = Best(width, height, tiles, columns, U)
  BY <1>2, <1>7 DEF ChooseColumns
<1>9. /\ columns \in U
      /\ Score(width, height, tiles, c, columns) <= Score(width, height, tiles, columns, columns)
  BY <1>1, <1>3, <1>8, BestIsBest
<1>10. T(c) \in Int /\ T(columns) \in Int
  BY <1>1, <1>3, <1>9, TileWidthIsInt
<1>11. T(c) * T(c) \in Int /\ T(c) * T(c) >= 0 /\ T(columns) * T(columns) \in Int
  BY <1>10, Squares
<1>12. /\ Score(width, height, tiles, columns, columns) = T(columns) * T(columns) * 53
       /\ Score(width, height, tiles, c, columns) \in {T(c) * T(c) * 50, T(c) * T(c) * 53}
  BY DEF Score, Weight
<1> HIDE DEF T
<1>13. QED
  BY <1>9, <1>11, <1>12

\* The grid is typed, comes to rest over a stage that does not change, and
\* shows no tile much smaller than it could be.
THEOREM GridIsSound == LayoutSpec => [](LayoutTypeOK /\ NearlyBest) /\ LayoutSettles
<1>1. LayoutInit => GridInv
  BY GridInitHolds
<1>2. GridInv /\ [LayoutNext]_layoutVars => GridInv'
  BY GridNext
<1>3. GridInv => LayoutTypeOK /\ NearlyBest
  BY GridIsNearlyBest DEF GridInv
<1>4. GridInv /\ [LayoutNext]_layoutVars => [settled => columns' = columns]_layoutVars
  BY GridSettles
<1>5. QED
  BY <1>1, <1>2, <1>3, <1>4, PTL DEF LayoutSpec, LayoutSettles

(*****************************************************************************)
(* The people.                                                               *)
(*****************************************************************************)
\* The list is rebuilt from what it was built from.
ListIsBuilt ==
  /\ rows = RowsOf(people, tile, receive, hiddenIds)
  /\ signature = SignatureOf(people, tile, receive, hiddenIds)

\* Labels follow what is known; badges do too, except between a departure and the
\* next refresh of the hands.
LabelsAreCurrent == \A p \in Present : label[p] = LabelOf(p, tile, sharer, receive)

BadgesAreCurrent == ~departed => \A p \in Present : badge[p] = BadgeOf(p, people, tile)

\* A raised hand has a place in the order.
RaisedHaveOrder == \A p \in Ids : tile[p].hand => tile[p].order >= 1

FlagsAreTyped ==
  /\ hiddenIds \subseteq Remotes /\ receive \in BOOLEAN
  /\ sharer \in Ids \union {"none"} /\ pendingHand \in {"none", "raise", "lower"}
  /\ handTimer \in BOOLEAN /\ reaction \subseteq Ids /\ departed \in BOOLEAN

PeopleAreTyped ==
  /\ people \in Seq(Ids) /\ IsInjective(people) /\ tile \in [Ids -> Tiles]
  /\ removal \subseteq Present \ {"me"}

\* The inductive invariant of the people.
PeopleInv ==
  /\ PeopleAreTyped /\ FlagsAreTyped /\ RaisedHaveOrder
  /\ ListIsBuilt /\ LabelsAreCurrent /\ BadgesAreCurrent

\* Finitely many participants, and what a tile holds.
LEMMA IdsAreFinite == IsFiniteSet(Ids)
<1>1. IsFiniteSet(Remotes)
  BY PeopleAssumptions DEF PeopleAssumptions
<1>2. QED
  BY <1>1, FS_AddElement DEF Ids

LEMMA TileFields ==
  ASSUME NEW t \in [Ids -> Tiles], NEW p \in Ids
  PROVE  /\ t[p] \in Tiles
         /\ t[p].hand \in BOOLEAN /\ t[p].order \in Nat
         /\ t[p].conn \in {"connected", "disconnected", "left"}
         /\ t[p].mic \in {"unknown", "on", "off"}
         /\ t[p].camera \in {"unknown", "on", "off", "paused"}
<1>1. t[p] \in Tiles
  OBVIOUS
<1>2. QED
  BY <1>1 DEF Tiles

LEMMA CountIsNat ==
  ASSUME NEW S, S \subseteq Ids
  PROVE  Cardinality(S) \in Nat
<1>1. IsFiniteSet(S)
  BY IdsAreFinite, FS_Subset
<1>2. QED
  BY <1>1, FS_CardinalityType

\* What a row, a label and a badge depend on.
LEMMA ListDecides ==
  ASSUME NEW ps, NEW t, NEW r, NEW h, NEW ps2, NEW t2, NEW r2, NEW h2,
         SignatureOf(ps, t, r, h) = SignatureOf(ps2, t2, r2, h2)
  PROVE  RowsOf(ps, t, r, h) = RowsOf(ps2, t2, r2, h2)
<1> DEFINE A == SignatureOf(ps, t, r, h)
           B == SignatureOf(ps2, t2, r2, h2)
<1>1. DOMAIN A = DOMAIN ps /\ DOMAIN B = DOMAIN ps2
  BY DEF SignatureOf
<1>2. DOMAIN ps = DOMAIN ps2
  BY <1>1
<1>3. \A i \in DOMAIN ps : A[i] = <<ps[i], t[ps[i]], r, ps[i] \in h>>
  BY DEF SignatureOf
<1>4. \A i \in DOMAIN ps2 : B[i] = <<ps2[i], t2[ps2[i]], r2, ps2[i] \in h2>>
  BY DEF SignatureOf
<1> HIDE DEF A, B
<1>5. A = B
  BY DEF A, B
<1>6. \A i \in DOMAIN ps : /\ ps[i] = ps2[i] /\ t[ps[i]] = t2[ps[i]] /\ r = r2
                           /\ (ps[i] \in h) = (ps[i] \in h2)
  BY <1>2, <1>3, <1>4, <1>5
<1>7. ToSet(ps) = ToSet(ps2)
  BY <1>2, <1>6 DEF ToSet
<1>8. \A p \in ToSet(ps) : t[p] = t2[p]
  BY <1>6 DEF ToSet
<1>9. Raised(ps, t) = Raised(ps2, t2)
  BY <1>7, <1>8 DEF Raised
<1>10. ASSUME NEW i \in DOMAIN ps
       PROVE  RowOf(ps[i], ps, t, r, h) = RowOf(ps2[i], ps2, t2, r2, h2)
  <2>1. BadgeOf(ps[i], ps, t) = BadgeOf(ps[i], ps2, t2)
    BY <1>6, <1>9 DEF BadgeOf
  <2>2. ps[i] = ps2[i] /\ t[ps[i]] = t2[ps2[i]] /\ r = r2
    BY <1>6
  <2>3. (ps[i] \in h) = (ps2[i] \in h2)
    BY <1>6
  <2>4. BadgeOf(ps[i], ps, t) = BadgeOf(ps2[i], ps2, t2)
    BY <2>1, <2>2
  <2>5. QED
    BY <2>2, <2>3, <2>4, Zenon DEF RowOf
<1>11. QED
  BY <1>2, <1>10 DEF RowsOf

\* renderRoomRoster rebuilds the list exactly when what it shows has changed.
LEMMA ListStays ==
  ASSUME ListIsBuilt, RenderList
  PROVE  ListIsBuilt'
<1> DEFINE now == SignatureOf(people', tile', receive', hiddenIds')
<1>1. signature' = now
  BY DEF RenderList
<1>2. CASE now = signature
  <2>1. rows' = rows
    BY <1>2 DEF RenderList
  <2>2. rows = RowsOf(people', tile', receive', hiddenIds')
    BY <1>2, ListDecides DEF ListIsBuilt
  <2>3. QED
    BY <1>1, <2>1, <2>2 DEF ListIsBuilt
<1>3. CASE now # signature
  BY <1>1, <1>3 DEF RenderList, ListIsBuilt
<1>4. QED
  BY <1>2, <1>3

LEMMA ListKept ==
  ASSUME ListIsBuilt, UNCHANGED <<people, tile, receive, hiddenIds, rows, signature>>
  PROVE  ListIsBuilt'
  BY DEF ListIsBuilt

\* updateRaisedHandsUI refreshes every badge.
LEMMA BadgesRefreshed ==
  ASSUME PeopleAreTyped', RefreshHands
  PROVE  BadgesAreCurrent' /\ departed' = FALSE
<1>1. \A p \in Ids : p \in ToSet(people') => badge'[p] = BadgeOf(p, people', tile')
  BY DEF RefreshHands
<1>2. ToSet(people') \subseteq Ids
  BY DEF PeopleAreTyped, ToSet
<1>3. \A p \in ToSet(people') : badge'[p] = BadgeOf(p, people', tile')
  BY <1>1, <1>2
<1>4. departed' = FALSE
  BY DEF RefreshHands
<1>5. QED
  BY <1>3, <1>4 DEF BadgesAreCurrent, Present

\* Badges stay right while the hands and their order do.
LEMMA BadgesKept ==
  ASSUME BadgesAreCurrent, departed' = departed, badge' = badge,
         Present' \subseteq Present,
         Raised(people', tile') = Raised(people, tile),
         \A p \in Present' : tile'[p].hand = tile[p].hand /\ tile'[p].order = tile[p].order
  PROVE  BadgesAreCurrent'
<1>1. ASSUME NEW p \in Present'
      PROVE  BadgeOf(p, people', tile') = BadgeOf(p, people, tile)
  BY DEF BadgeOf
<1>2. QED
  BY <1>1 DEF BadgesAreCurrent

LEMMA BadgesUntouched ==
  ASSUME BadgesAreCurrent, UNCHANGED <<people, tile, badge, departed>>
  PROVE  BadgesAreCurrent'
<1>1. Present' = Present
  BY DEF Present
<1>2. QED
  BY <1>1 DEF BadgesAreCurrent

\* Labels that are written, and those whose tile stays as it was.
LEMMA LabelsWritten ==
  ASSUME LabelsAreCurrent, PeopleAreTyped', NEW ps, Relabel(ps),
         \A p \in Present' \ ps : p \in Present /\ LabelOf(p, tile', sharer', receive') =
                                    LabelOf(p, tile, sharer, receive)
  PROVE  LabelsAreCurrent'
<1>1. Present' \subseteq Ids
  BY DEF PeopleAreTyped, Present, ToSet
<1>2. ASSUME NEW p \in Present'
      PROVE  label'[p] = LabelOf(p, tile', sharer', receive')
  <2>1. p \in Ids
    BY <1>1
  <2>2. label'[p] = IF p \in ps THEN LabelOf(p, tile', sharer', receive') ELSE label[p]
    BY <2>1 DEF Relabel
  <2>3. CASE p \in ps
    BY <2>2, <2>3
  <2>4. CASE p \notin ps
    BY <2>2, <2>4 DEF LabelsAreCurrent
  <2>5. QED
    BY <2>3, <2>4
<1>3. QED
  BY <1>2 DEF LabelsAreCurrent

LEMMA LabelsUntouched ==
  ASSUME LabelsAreCurrent, Present' \subseteq Present, UNCHANGED <<label, sharer, receive>>,
         \A p \in Present' : tile'[p].conn = tile[p].conn /\ tile'[p].camera = tile[p].camera
  PROVE  LabelsAreCurrent'
<1>1. \A p \in Present' : LabelOf(p, tile', sharer', receive') = LabelOf(p, tile, sharer, receive)
  BY DEF LabelOf
<1>2. QED
  BY <1>1 DEF LabelsAreCurrent

\* What the hands do while those and their order stay.
LEMMA SameHands ==
  ASSUME NEW ps \in Seq(Ids), NEW t, NEW t2,
         \A p \in ToSet(ps) : t2[p].hand = t[p].hand
  PROVE  Raised(ps, t2) = Raised(ps, t)
  BY DEF Raised

\* Who is in the room is a participant.
LEMMA PresentIds ==
  ASSUME PeopleAreTyped
  PROVE  Present \subseteq Ids
  BY DEF PeopleAreTyped, Present, ToSet

\* An action on the tile of p that leaves the hands alone.
LEMMA TileChanges ==
  ASSUME PeopleInv, NEW p \in Ids, tile' \in [Ids -> Tiles],
         \A q \in Ids : q # p => tile'[q] = tile[q],
         tile'[p].hand = tile[p].hand, tile'[p].order = tile[p].order,
         people' = people, removal' \subseteq removal, FlagsAreTyped',
         UNCHANGED <<sharer, receive, departed, badge>>,
         Relabel({p}), RenderList
  PROVE  PeopleInv'
<1>1. PeopleAreTyped /\ RaisedHaveOrder /\ ListIsBuilt /\ LabelsAreCurrent /\ BadgesAreCurrent
  BY DEF PeopleInv
<1>4. Present' = Present
  BY DEF Present
<1>5. PeopleAreTyped'
  BY <1>1, <1>4 DEF PeopleAreTyped
<1>6. \A q \in Ids : tile'[q].hand = tile[q].hand /\ tile'[q].order = tile[q].order
  OBVIOUS
<1>7. RaisedHaveOrder'
  BY <1>1, <1>6 DEF RaisedHaveOrder
<1>8. ListIsBuilt'
  BY <1>1, ListStays
<1>9. \A q \in Present' \ {p} : q \in Present /\ LabelOf(q, tile', sharer', receive') =
                                   LabelOf(q, tile, sharer, receive)
  <2>1. \A q \in Present' \ {p} : q \in Present /\ tile'[q] = tile[q]
    BY <1>1, <1>4, PresentIds
  <2>2. QED
    BY <2>1 DEF LabelOf
<1>10. LabelsAreCurrent'
  BY <1>1, <1>5, <1>9, LabelsWritten
<1>11. Raised(people', tile') = Raised(people, tile)
  <2>1. Present \subseteq Ids
    BY <1>1, PresentIds
  <2>2. \A q \in ToSet(people) : tile'[q].hand = tile[q].hand
    BY <1>6, <2>1 DEF Present
  <2>3. QED
    BY <2>2 DEF Raised
<1>12. BadgesAreCurrent'
  BY <1>1, <1>4, <1>6, <1>11, PresentIds, BadgesKept
<1>13. QED
  BY <1>5, <1>7, <1>8, <1>10, <1>12 DEF PeopleInv

\* Each action keeps the invariant.
LEMMA ReturnsKeeps ==
  ASSUME PeopleInv, NEW p \in Ids, Returns(p)
  PROVE  PeopleInv'
<1>1. PeopleAreTyped /\ FlagsAreTyped
  BY DEF PeopleInv
<1>2. tile \in [Ids -> Tiles]
  BY <1>1 DEF PeopleAreTyped
<1>3. tile' = [tile EXCEPT ![p].conn = "connected", ![p].mic = "unknown",
                           ![p].camera = "unknown"]
  BY DEF Returns
<1>4. tile' \in [Ids -> Tiles]
  <2> DEFINE f == [tile EXCEPT ![p].conn = "connected"]
  <2>1. f \in [Ids -> Tiles]
    BY <1>2 DEF Tiles
  <2>2. tile' = [f EXCEPT ![p].mic = "unknown", ![p].camera = "unknown"]
    BY <1>3
  <2> HIDE DEF f
  <2>3. QED
    BY <2>1, <2>2, ZenonT(30) DEF Tiles
<1>5. \A q \in Ids : q # p => tile'[q] = tile[q]
  BY <1>2, <1>3
<1>6. tile'[p].hand = tile[p].hand /\ tile'[p].order = tile[p].order
  BY <1>2, <1>3 DEF Tiles
<1>7. /\ people' = people /\ removal' \subseteq removal
      /\ UNCHANGED <<hiddenIds, receive, sharer, pendingHand, handTimer, badge, reaction, departed>>
      /\ Relabel({p}) /\ RenderList
  BY DEF Returns
<1>8. FlagsAreTyped'
  BY <1>1, <1>7 DEF FlagsAreTyped
<1>9. QED
  BY <1>4, <1>5, <1>6, <1>7, <1>8, TileChanges

LEMMA MediaStateKeeps ==
  ASSUME PeopleInv, NEW p \in Ids, NEW m \in Medias, MediaState(p, m)
  PROVE  PeopleInv'
<1>1. PeopleAreTyped /\ FlagsAreTyped
  BY DEF PeopleInv
<1>2. tile \in [Ids -> Tiles]
  BY <1>1 DEF PeopleAreTyped
<1>3. tile' = [tile EXCEPT ![p].mic = m.mic, ![p].camera = m.camera]
  BY DEF MediaState
<1>4. tile' \in [Ids -> Tiles]
  <2>1. m.mic \in {"on", "off"} /\ m.camera \in {"on", "off", "paused"}
    BY PeopleAssumptions DEF PeopleAssumptions
  <2>2. m.mic \in {"unknown", "on", "off"} /\ m.camera \in {"unknown", "on", "off", "paused"}
    BY <2>1
  <2>3. QED
    BY <1>2, <1>3, <2>2, ZenonT(30) DEF Tiles
<1>5. \A q \in Ids : q # p => tile'[q] = tile[q]
  BY <1>2, <1>3
<1>6. tile'[p].hand = tile[p].hand /\ tile'[p].order = tile[p].order
  BY <1>2, <1>3 DEF Tiles
<1>7. /\ people' = people /\ removal' \subseteq removal
      /\ UNCHANGED <<hiddenIds, receive, sharer, pendingHand, handTimer, badge, reaction, departed>>
      /\ Relabel({p}) /\ RenderList
  BY DEF MediaState
<1>8. FlagsAreTyped'
  BY <1>1, <1>7 DEF FlagsAreTyped
<1>9. QED
  BY <1>4, <1>5, <1>6, <1>7, <1>8, TileChanges

LEMMA ShareStateKeeps ==
  ASSUME PeopleInv, NEW p \in Ids \union {"none"}, ShareState(p)
  PROVE  PeopleInv'
<1>1. /\ PeopleAreTyped /\ FlagsAreTyped /\ RaisedHaveOrder /\ ListIsBuilt
      /\ LabelsAreCurrent /\ BadgesAreCurrent
  BY DEF PeopleInv
<1>2. /\ UNCHANGED <<people, tile, removal, hiddenIds, receive, pendingHand, handTimer, rows,
                     signature, badge, reaction, departed>>
      /\ sharer' = p /\ Relabel(Present)
  BY DEF ShareState
<1>3. Present' = Present
  BY <1>2 DEF Present
<1>4. PeopleAreTyped'
  BY <1>1, <1>2, <1>3 DEF PeopleAreTyped
<1>5. FlagsAreTyped'
  BY <1>1, <1>2 DEF FlagsAreTyped
<1>6. RaisedHaveOrder'
  BY <1>1, <1>2 DEF RaisedHaveOrder
<1>7. ListIsBuilt'
  BY <1>1, <1>2, ListKept
<1>8. LabelsAreCurrent'
  BY <1>1, <1>2, <1>3, <1>4, LabelsWritten
<1>9. BadgesAreCurrent'
  BY <1>1, <1>2, BadgesUntouched
<1>10. QED
  BY <1>4, <1>5, <1>6, <1>7, <1>8, <1>9 DEF PeopleInv

\* Actions that touch neither a tile nor what is derived from it.
LEMMA ShownStays ==
  ASSUME PeopleInv, FlagsAreTyped',
         UNCHANGED <<people, tile, removal, hiddenIds, receive, sharer, rows, signature, label>>,
         RefreshHands \/ UNCHANGED <<badge, departed>>
  PROVE  PeopleInv'
<1>1. /\ PeopleAreTyped /\ FlagsAreTyped /\ RaisedHaveOrder /\ ListIsBuilt
      /\ LabelsAreCurrent /\ BadgesAreCurrent
  BY DEF PeopleInv
<1>3. Present' = Present
  BY DEF Present
<1>4. PeopleAreTyped'
  BY <1>1, <1>3 DEF PeopleAreTyped
<1>6. RaisedHaveOrder'
  BY <1>1 DEF RaisedHaveOrder
<1>7. ListIsBuilt'
  BY <1>1, ListKept
<1>8. LabelsAreCurrent'
  BY <1>1, <1>3, LabelsUntouched
<1>9. BadgesAreCurrent'
  BY <1>1, <1>4, BadgesUntouched, BadgesRefreshed
<1>10. QED
  BY <1>4, <1>6, <1>7, <1>8, <1>9 DEF PeopleInv

LEMMA QuietKeeps ==
  ASSUME PeopleInv,
         \/ \E p \in Ids : React(p) \/ ReactionTimer(p)
         \/ ErrorMessage \/ RaiseHandClick \/ HandTimer
         \/ UNCHANGED peopleVars
  PROVE  PeopleInv'
<1>1. FlagsAreTyped
  BY DEF PeopleInv
<1>2. ASSUME NEW p \in Ids, React(p)
      PROVE  PeopleInv'
  <2>1. /\ reaction' = reaction \union {p}
        /\ UNCHANGED <<people, tile, removal, hiddenIds, receive, sharer, pendingHand, handTimer,
                       rows, signature, label, badge, departed>>
    BY <1>2 DEF React, shown
  <2>2. FlagsAreTyped'
    BY <1>1, <2>1 DEF FlagsAreTyped
  <2>3. QED
    BY <2>1, <2>2, ShownStays
<1>3. ASSUME NEW p \in Ids, ReactionTimer(p)
      PROVE  PeopleInv'
  <2>1. /\ reaction' = reaction \ {p}
        /\ UNCHANGED <<people, tile, removal, hiddenIds, receive, sharer, pendingHand, handTimer,
                       rows, signature, label, badge, departed>>
    BY <1>3 DEF ReactionTimer, shown
  <2>2. FlagsAreTyped'
    BY <1>1, <2>1 DEF FlagsAreTyped
  <2>3. QED
    BY <2>1, <2>2, ShownStays
<1>4. CASE ErrorMessage
  <2>1. /\ pendingHand' = "none" /\ RefreshHands
        /\ UNCHANGED <<people, tile, removal, hiddenIds, receive, sharer, handTimer, rows,
                       signature, label, reaction>>
    BY <1>4 DEF ErrorMessage
  <2>2. departed' = FALSE
    BY <2>1 DEF RefreshHands
  <2>3. FlagsAreTyped'
    BY <1>1, <2>1, <2>2 DEF FlagsAreTyped
  <2>4. QED
    BY <2>1, <2>3, ShownStays
<1>5. CASE RaiseHandClick
  <2>1. /\ pendingHand' = (IF tile["me"].hand THEN "lower" ELSE "raise") /\ handTimer' = TRUE
        /\ RefreshHands
        /\ UNCHANGED <<people, tile, removal, hiddenIds, receive, sharer, rows, signature, label,
                       reaction>>
    BY <1>5 DEF RaiseHandClick
  <2>2. departed' = FALSE /\ pendingHand' \in {"raise", "lower"}
    BY <2>1 DEF RefreshHands
  <2>3. FlagsAreTyped'
    BY <1>1, <2>1, <2>2 DEF FlagsAreTyped
  <2>4. QED
    BY <2>1, <2>3, ShownStays
<1>6. CASE HandTimer
  <2>1. /\ pendingHand' = "none" /\ handTimer' = FALSE
        /\ RefreshHands \/ UNCHANGED <<badge, departed>>
        /\ UNCHANGED <<people, tile, removal, hiddenIds, receive, sharer, rows, signature, label,
                       reaction>>
    BY <1>6 DEF HandTimer
  <2>2. departed' = FALSE \/ departed' = departed
    BY <2>1 DEF RefreshHands
  <2>3. FlagsAreTyped'
    BY <1>1, <2>1, <2>2 DEF FlagsAreTyped
  <2>4. QED
    BY <2>1, <2>3, ShownStays
<1>7. CASE UNCHANGED peopleVars
  <2>1. UNCHANGED <<people, tile, removal, hiddenIds, receive, sharer, pendingHand, handTimer,
                    rows, signature, label, badge, reaction, departed>>
    BY <1>7 DEF peopleVars
  <2>2. FlagsAreTyped'
    BY <1>1, <2>1 DEF FlagsAreTyped
  <2>3. QED
    BY <2>1, <2>2, ShownStays
<1>8. QED
  BY <1>2, <1>3, <1>4, <1>5, <1>6, <1>7

LEMMA ReceiveVideoKeeps ==
  ASSUME PeopleInv, ReceiveVideo
  PROVE  PeopleInv'
<1>1. /\ PeopleAreTyped /\ FlagsAreTyped /\ RaisedHaveOrder /\ ListIsBuilt
      /\ LabelsAreCurrent /\ BadgesAreCurrent
  BY DEF PeopleInv
<1>2. /\ UNCHANGED <<people, tile, removal, hiddenIds, sharer, pendingHand, handTimer, badge,
                     reaction, departed>>
      /\ receive' = ~receive /\ Relabel(Present \ {"me"}) /\ RenderList
  BY DEF ReceiveVideo
<1>3. Present' = Present
  BY <1>2 DEF Present
<1>4. PeopleAreTyped'
  BY <1>1, <1>2, <1>3 DEF PeopleAreTyped
<1>5. FlagsAreTyped'
  <2>1. receive' \in BOOLEAN
    BY <1>2
  <2>2. QED
    BY <1>1, <1>2, <2>1 DEF FlagsAreTyped
<1>6. RaisedHaveOrder'
  BY <1>1, <1>2 DEF RaisedHaveOrder
<1>7. ListIsBuilt'
  BY <1>1, <1>2, ListStays
<1>8. LabelsAreCurrent'
  <2>1. LabelOf("me", tile', sharer', receive') = LabelOf("me", tile, sharer, receive)
    BY <1>2 DEF LabelOf
  <2>2. \A q \in Present' \ (Present \ {"me"}) : q \in Present /\
          LabelOf(q, tile', sharer', receive') = LabelOf(q, tile, sharer, receive)
    BY <1>3, <2>1
  <2>3. QED
    BY <1>1, <1>2, <1>4, <2>2, LabelsWritten
<1>9. BadgesAreCurrent'
  BY <1>1, <1>2, BadgesUntouched
<1>10. QED
  BY <1>4, <1>5, <1>6, <1>7, <1>8, <1>9 DEF PeopleInv

LEMMA HideTileKeeps ==
  ASSUME PeopleInv, NEW p \in Ids, HideTile(p)
  PROVE  PeopleInv'
<1>1. /\ PeopleAreTyped /\ FlagsAreTyped /\ RaisedHaveOrder /\ ListIsBuilt
      /\ LabelsAreCurrent /\ BadgesAreCurrent
  BY DEF PeopleInv
<1>2. /\ UNCHANGED <<people, tile, removal, receive, sharer, pendingHand, handTimer, label,
                     badge, reaction, departed>>
      /\ RenderList /\ p # "me"
      /\ hiddenIds' = IF p \in hiddenIds THEN hiddenIds \ {p} ELSE hiddenIds \union {p}
  BY DEF HideTile
<1>3. Present' = Present
  BY <1>2 DEF Present
<1>4. PeopleAreTyped'
  BY <1>1, <1>2, <1>3 DEF PeopleAreTyped
<1>5. FlagsAreTyped'
  <2>1. hiddenIds' \subseteq Remotes
    BY <1>1, <1>2 DEF FlagsAreTyped, Ids
  <2>2. QED
    BY <1>1, <1>2, <2>1 DEF FlagsAreTyped
<1>6. RaisedHaveOrder'
  BY <1>1, <1>2 DEF RaisedHaveOrder
<1>7. ListIsBuilt'
  BY <1>1, <1>2, ListStays
<1>8. LabelsAreCurrent'
  BY <1>1, <1>2, <1>3, LabelsUntouched
<1>9. BadgesAreCurrent'
  BY <1>1, <1>2, BadgesUntouched
<1>10. QED
  BY <1>4, <1>5, <1>6, <1>7, <1>8, <1>9 DEF PeopleInv

LEMMA ResetPeopleKeeps ==
  ASSUME PeopleInv, ResetPeople
  PROVE  PeopleInv'
<1>1. /\ PeopleAreTyped /\ FlagsAreTyped /\ RaisedHaveOrder /\ ListIsBuilt
      /\ LabelsAreCurrent /\ BadgesAreCurrent
  BY DEF PeopleInv
<1>2. /\ people' = <<>> /\ removal' = {} /\ sharer' = "none" /\ pendingHand' = "none"
      /\ UNCHANGED <<tile, hiddenIds, receive, handTimer, label, reaction>>
      /\ RefreshHands /\ RenderList
  BY DEF ResetPeople
<1>3. Present' = {}
  BY <1>2 DEF Present, ToSet
<1>4. PeopleAreTyped'
  <2>1. people' \in Seq(Ids) /\ IsInjective(people')
    BY <1>2 DEF IsInjective
  <2>2. QED
    BY <1>1, <1>2, <2>1 DEF PeopleAreTyped
<1>5. BadgesAreCurrent' /\ departed' = FALSE
  BY <1>2, <1>4, BadgesRefreshed
<1>6. FlagsAreTyped'
  BY <1>1, <1>2, <1>5 DEF FlagsAreTyped
<1>7. RaisedHaveOrder'
  BY <1>1, <1>2 DEF RaisedHaveOrder
<1>8. ListIsBuilt'
  BY <1>1, <1>2, ListStays
<1>9. LabelsAreCurrent'
  BY <1>3 DEF LabelsAreCurrent
<1>10. QED
  BY <1>4, <1>5, <1>6, <1>7, <1>8, <1>9 DEF PeopleInv

LEMMA ConnectionStateKeeps ==
  ASSUME PeopleInv, NEW state \in {"connected", "disconnected"}, ConnectionState(state)
  PROVE  PeopleInv'
<1>1. /\ PeopleAreTyped /\ FlagsAreTyped /\ RaisedHaveOrder /\ ListIsBuilt
      /\ LabelsAreCurrent /\ BadgesAreCurrent
  BY DEF PeopleInv
<1>2. /\ UNCHANGED <<people, removal, hiddenIds, receive, sharer, pendingHand, handTimer, badge,
                     reaction, departed>>
      /\ Relabel(Present \ {"me"}) /\ RenderList
      /\ tile' = [p \in Ids |-> IF p \in Present \ {"me"} THEN [tile[p] EXCEPT !.conn = state]
                                ELSE tile[p]]
  BY DEF ConnectionState
<1>3. tile \in [Ids -> Tiles]
  BY <1>1 DEF PeopleAreTyped
<1>4. Present' = Present
  BY <1>2 DEF Present
<1>5. ASSUME NEW p \in Ids
      PROVE  /\ tile'[p] \in Tiles
             /\ tile'[p].hand = tile[p].hand /\ tile'[p].order = tile[p].order
             /\ p \notin Present \ {"me"} => tile'[p] = tile[p]
  <2>1. tile[p] \in Tiles
    BY <1>3
  <2>2. tile'[p] = IF p \in Present \ {"me"} THEN [tile[p] EXCEPT !.conn = state] ELSE tile[p]
    BY <1>2
  <2>3. CASE p \in Present \ {"me"}
    <3>1. tile'[p] = [tile[p] EXCEPT !.conn = state]
      BY <2>2, <2>3
    <3>2. QED
      BY <2>1, <2>3, <3>1 DEF Tiles
  <2>4. CASE p \notin Present \ {"me"}
    BY <2>1, <2>2, <2>4
  <2>5. QED
    BY <2>3, <2>4
<1>6. tile' \in [Ids -> Tiles]
  BY <1>2, <1>5
<1>7. PeopleAreTyped'
  BY <1>1, <1>2, <1>4, <1>6 DEF PeopleAreTyped
<1>8. FlagsAreTyped'
  BY <1>1, <1>2 DEF FlagsAreTyped
<1>9. RaisedHaveOrder'
  BY <1>1, <1>5 DEF RaisedHaveOrder
<1>10. ListIsBuilt'
  BY <1>1, <1>2, ListStays
<1>11. Present \subseteq Ids
  BY <1>1, PresentIds
<1>12. LabelsAreCurrent'
  <2>1. \A q \in Present' \ (Present \ {"me"}) : q \in Present /\ tile'[q] = tile[q]
    BY <1>4, <1>5, <1>11
  <2>2. \A q \in Present' \ (Present \ {"me"}) : q \in Present /\
          LabelOf(q, tile', sharer', receive') = LabelOf(q, tile, sharer, receive)
    BY <1>2, <2>1 DEF LabelOf
  <2>3. QED
    BY <1>1, <1>2, <1>7, <2>2, LabelsWritten
<1>13. Raised(people', tile') = Raised(people, tile)
  BY <1>2, <1>5, <1>11 DEF Raised, Present
<1>14. BadgesAreCurrent'
  BY <1>1, <1>2, <1>4, <1>5, <1>11, <1>13, BadgesKept
<1>15. QED
  BY <1>7, <1>8, <1>9, <1>10, <1>12, <1>14 DEF PeopleInv

LEMMA HandStateKeeps ==
  ASSUME PeopleInv, NEW p \in Ids, NEW raised \in BOOLEAN, NEW order \in Nat,
         raised => order >= 1, HandState(p, raised, order)
  PROVE  PeopleInv'
<1>1. /\ PeopleAreTyped /\ FlagsAreTyped /\ RaisedHaveOrder /\ ListIsBuilt
      /\ LabelsAreCurrent /\ BadgesAreCurrent
  BY DEF PeopleInv
<1>2. /\ UNCHANGED <<people, removal, hiddenIds, receive, sharer, handTimer, label, reaction>>
      /\ RefreshHands /\ RenderList
      /\ pendingHand' \in {pendingHand, "none"}
      /\ tile' = [tile EXCEPT ![p].hand = raised, ![p].order = IF raised THEN order ELSE 0]
  BY DEF HandState
<1>3. tile \in [Ids -> Tiles]
  BY <1>1 DEF PeopleAreTyped
<1>4. Present' = Present
  BY <1>2 DEF Present
<1> DEFINE o == IF raised THEN order ELSE 0
<1>5. o \in Nat /\ (raised => o >= 1)
  OBVIOUS
<1>6. tile' = [tile EXCEPT ![p].hand = raised, ![p].order = o]
  BY <1>2
<1> HIDE DEF o
<1>7. tile' \in [Ids -> Tiles]
  BY <1>3, <1>5, <1>6, ZenonT(30) DEF Tiles
<1>8. /\ \A q \in Ids : q # p => tile'[q] = tile[q]
      /\ tile'[p].hand = raised /\ tile'[p].order = o
      /\ tile'[p].conn = tile[p].conn /\ tile'[p].camera = tile[p].camera
  BY <1>3, <1>6 DEF Tiles
<1>9. PeopleAreTyped'
  BY <1>1, <1>2, <1>4, <1>7 DEF PeopleAreTyped
<1>10. BadgesAreCurrent' /\ departed' = FALSE
  BY <1>2, <1>9, BadgesRefreshed
<1>11. FlagsAreTyped'
  BY <1>1, <1>2, <1>10 DEF FlagsAreTyped
<1>12. RaisedHaveOrder'
  <2>1. ASSUME NEW q \in Ids, tile'[q].hand
        PROVE  tile'[q].order >= 1
    <3>1. CASE q = p
      BY <1>5, <1>8, <2>1, <3>1
    <3>2. CASE q # p
      BY <1>1, <1>8, <2>1, <3>2 DEF RaisedHaveOrder
    <3>3. QED
      BY <3>1, <3>2
  <2>2. QED
    BY <2>1 DEF RaisedHaveOrder
<1>13. ListIsBuilt'
  BY <1>1, <1>2, ListStays
<1>14. LabelsAreCurrent'
  <2>1. \A q \in Ids : tile'[q].conn = tile[q].conn /\ tile'[q].camera = tile[q].camera
    BY <1>8
  <2>2. Present' \subseteq Ids
    BY <1>1, <1>4, PresentIds
  <2>3. QED
    BY <1>1, <1>2, <1>4, <2>1, <2>2, LabelsUntouched
<1>15. QED
  BY <1>9, <1>10, <1>11, <1>12, <1>13, <1>14 DEF PeopleInv

\* A new tile with its hand.
LEMMA UnknownWith ==
  ASSUME NEW u, NEW v
  PROVE  [Unknown EXCEPT !.hand = u, !.order = v] =
           [conn |-> "connected", mic |-> "unknown", camera |-> "unknown", hand |-> u, order |-> v]
<1>1. PICK y : y = [Unknown EXCEPT !.hand = u]
  OBVIOUS
<1>2. y = [conn |-> "connected", mic |-> "unknown", camera |-> "unknown", hand |-> u, order |-> 0]
  BY <1>1 DEF Unknown
<1>3. PICK z : z = [y EXCEPT !.order = v]
  OBVIOUS
<1>4. z = [conn |-> "connected", mic |-> "unknown", camera |-> "unknown", hand |-> u, order |-> v]
  BY <1>2, <1>3
<1>5. [Unknown EXCEPT !.hand = u, !.order = v] = z
  BY <1>1, <1>3, Zenon
<1>6. QED
  BY <1>4, <1>5, Zenon

LEMMA JoinsKeeps ==
  ASSUME PeopleInv, NEW p \in Ids, NEW hand \in BOOLEAN, Joins(p, hand)
  PROVE  PeopleInv'
<1>1. /\ PeopleAreTyped /\ FlagsAreTyped /\ RaisedHaveOrder /\ ListIsBuilt
      /\ LabelsAreCurrent /\ BadgesAreCurrent
  BY DEF PeopleInv
<1> DEFINE n == IF hand THEN Cardinality(Raised(people, tile)) + 1 ELSE 0
           x == [Unknown EXCEPT !.hand = hand, !.order = n]
<1>2. /\ UNCHANGED <<removal, hiddenIds, receive, sharer, pendingHand, handTimer, reaction>>
      /\ p \notin Present /\ people' = Append(people, p) /\ tile' = [tile EXCEPT ![p] = x]
      /\ Relabel({p}) /\ RefreshHands /\ RenderList
  BY DEF Joins
<1>3. tile \in [Ids -> Tiles] /\ people \in Seq(Ids) /\ IsInjective(people)
  BY <1>1 DEF PeopleAreTyped
<1>4. n \in Nat /\ (hand => n >= 1)
  <2>1. Raised(people, tile) \subseteq Ids
    BY <1>1, PresentIds DEF Raised, Present
  <2>2. Cardinality(Raised(people, tile)) \in Nat
    BY <2>1, CountIsNat
  <2>3. QED
    BY <2>2
<1> HIDE DEF n
<1>5. x = [conn |-> "connected", mic |-> "unknown", camera |-> "unknown", hand |-> hand, order |-> n]
  BY UnknownWith
<1>6. x \in Tiles /\ x.hand = hand /\ x.order = n
  BY <1>4, <1>5 DEF Tiles
<1> HIDE DEF x
<1>7. /\ tile' \in [Ids -> Tiles] /\ tile'[p] = x
      /\ \A q \in Ids : q # p => tile'[q] = tile[q]
  BY <1>2, <1>3, <1>6
<1>8. /\ people' \in Seq(Ids) /\ ToSet(people') = ToSet(people) \union {p} /\ IsInjective(people')
  BY <1>2, <1>3, AppendAdds DEF Present
<1>9. Present' = Present \union {p}
  BY <1>8 DEF Present
<1>10. PeopleAreTyped'
  BY <1>1, <1>2, <1>7, <1>8, <1>9 DEF PeopleAreTyped
<1>11. BadgesAreCurrent' /\ departed' = FALSE
  BY <1>2, <1>10, BadgesRefreshed
<1>12. FlagsAreTyped'
  BY <1>1, <1>2, <1>11 DEF FlagsAreTyped
<1>13. RaisedHaveOrder'
  BY <1>1, <1>4, <1>6, <1>7 DEF RaisedHaveOrder
<1>14. ListIsBuilt'
  BY <1>1, <1>2, ListStays
<1>15. LabelsAreCurrent'
  <2>1. Present \subseteq Ids
    BY <1>1, PresentIds
  <2>2. \A q \in Present' \ {p} : q \in Present /\ tile'[q] = tile[q]
    BY <1>7, <1>9, <2>1
  <2>3. \A q \in Present' \ {p} : q \in Present /\
          LabelOf(q, tile', sharer', receive') = LabelOf(q, tile, sharer, receive)
    BY <1>2, <2>2 DEF LabelOf
  <2>4. QED
    BY <1>1, <1>2, <1>10, <2>3, LabelsWritten
<1>16. QED
  BY <1>10, <1>11, <1>12, <1>13, <1>14, <1>15 DEF PeopleInv

LEMMA RemovalTimerKeeps ==
  ASSUME PeopleInv, NEW p \in Ids, RemovalTimer(p)
  PROVE  PeopleInv'
<1>1. /\ PeopleAreTyped /\ FlagsAreTyped /\ RaisedHaveOrder /\ ListIsBuilt
      /\ LabelsAreCurrent /\ BadgesAreCurrent
  BY DEF PeopleInv
<1>2. /\ UNCHANGED <<tile, hiddenIds, receive, sharer, pendingHand, handTimer, label, badge,
                     reaction>>
      /\ removal' = removal \ {p} /\ people' = Keep(people, Ids \ {p})
      /\ departed' = (departed \/ tile[p].hand)
      /\ RenderList
  BY DEF RemovalTimer
<1>3. tile \in [Ids -> Tiles] /\ people \in Seq(Ids) /\ IsInjective(people)
  BY <1>1 DEF PeopleAreTyped
<1>4. people' \in Seq(Ids) /\ IsInjective(people') /\ ToSet(people') = ToSet(people) \intersect (Ids \ {p})
  BY <1>2, <1>3, KeepPart
<1>5. Present \subseteq Ids
  BY <1>1, PresentIds
<1>6. Present' = Present \ {p}
  BY <1>4, <1>5 DEF Present
<1>7. PeopleAreTyped'
  BY <1>1, <1>2, <1>3, <1>4, <1>6 DEF PeopleAreTyped
<1>8. FlagsAreTyped'
  <2>1. tile[p].hand \in BOOLEAN
    BY <1>3, TileFields
  <2>2. departed' \in BOOLEAN
    BY <1>2
  <2>3. QED
    BY <1>1, <1>2, <2>2 DEF FlagsAreTyped
<1>9. RaisedHaveOrder'
  BY <1>1, <1>2 DEF RaisedHaveOrder
<1>10. ListIsBuilt'
  BY <1>1, <1>2, ListStays
<1>11. LabelsAreCurrent'
  BY <1>1, <1>2, <1>6, LabelsUntouched
<1>12. BadgesAreCurrent'
  <2>1. CASE departed'
    BY <2>1 DEF BadgesAreCurrent
  <2>2. CASE ~departed'
    <3>1. ~departed /\ ~tile[p].hand
      BY <1>2, <2>2
    <3>2. Raised(people', tile') = Raised(people, tile)
      BY <1>2, <1>6, <3>1 DEF Raised, Present
    <3>3. QED
      BY <1>1, <1>2, <1>6, <2>2, <3>1, <3>2, BadgesKept DEF BadgesAreCurrent, BadgeOf
  <2>3. QED
    BY <2>1, <2>2
<1>13. QED
  BY <1>7, <1>8, <1>9, <1>10, <1>11, <1>12 DEF PeopleInv

\* normalizeRaisedHandOrders gives an order to every raised hand, and changes no
\* other field.
LEMMA NormalizedKeeps ==
  ASSUME NEW ps \in Seq(Ids), NEW t \in [Ids -> Tiles]
  PROVE  /\ Normalized(ps, t) \in [Ids -> Tiles]
         /\ \A p \in Ids : /\ Normalized(ps, t)[p].hand = t[p].hand
                           /\ Normalized(ps, t)[p].conn = t[p].conn
                           /\ Normalized(ps, t)[p].camera = t[p].camera
                           /\ \/ Normalized(ps, t)[p].order = t[p].order
                              \/ p \in ToSet(ps) /\ t[p].hand /\ Normalized(ps, t)[p].order >= 1
<1> DEFINE index(p) == CHOOSE i \in DOMAIN ps : ps[i] = p
           before(p, q) == t[p].order < t[q].order
                           \/ (t[p].order = t[q].order /\ index(p) < index(q))
           place(p) == Cardinality({q \in Raised(ps, t) : before(q, p)}) + 1
           N == Normalized(ps, t)
<1>1. N = [p \in Ids |-> IF p \in Raised(ps, t) THEN [t[p] EXCEPT !.order = place(p)] ELSE t[p]]
  BY DEF Normalized
<1>2. ASSUME NEW p \in Ids
      PROVE  place(p) \in Nat /\ place(p) >= 1
  <2>1. Raised(ps, t) \subseteq Ids
    BY DEF Raised, ToSet
  <2> DEFINE B == {q \in Raised(ps, t) : before(q, p)}
  <2>2. B \subseteq Ids
    BY <2>1
  <2> HIDE DEF B
  <2>3. Cardinality(B) \in Nat
    BY <2>2, CountIsNat
  <2>4. QED
    BY <2>3 DEF B
<1> HIDE DEF place, N
<1>3. ASSUME NEW p \in Ids
      PROVE  /\ N[p] \in Tiles /\ N[p].hand = t[p].hand /\ N[p].conn = t[p].conn
             /\ N[p].camera = t[p].camera
             /\ \/ N[p].order = t[p].order
                \/ p \in ToSet(ps) /\ t[p].hand /\ N[p].order >= 1
  <2>1. t[p] \in Tiles
    OBVIOUS
  <2>2. CASE p \in Raised(ps, t)
    <3>1. N[p] = [t[p] EXCEPT !.order = place(p)]
      BY <1>1, <2>2
    <3>2. /\ N[p] \in Tiles /\ N[p].hand = t[p].hand /\ N[p].conn = t[p].conn
          /\ N[p].camera = t[p].camera /\ N[p].order = place(p)
      BY <1>2, <2>1, <3>1 DEF Tiles
    <3>3. p \in ToSet(ps) /\ t[p].hand
      BY <2>2 DEF Raised
    <3>4. QED
      BY <1>2, <3>2, <3>3
  <2>3. CASE p \notin Raised(ps, t)
    <3>1. N[p] = t[p]
      BY <1>1, <2>3
    <3>2. QED
      BY <2>1, <3>1
  <2>4. QED
    BY <2>2, <2>3
<1>4. DOMAIN N = Ids /\ N = [p \in Ids |-> N[p]]
  BY <1>1
<1>5. N \in [Ids -> Tiles]
  BY <1>3, <1>4
<1>6. QED
  BY <1>3, <1>5 DEF N

LEMMA LeavesKeeps ==
  ASSUME PeopleInv, NEW p \in Ids, Leaves(p)
  PROVE  PeopleInv'
<1>1. /\ PeopleAreTyped /\ FlagsAreTyped /\ RaisedHaveOrder /\ ListIsBuilt
      /\ LabelsAreCurrent /\ BadgesAreCurrent
  BY DEF PeopleInv
<1> DEFINE t == [tile EXCEPT ![p].conn = "left", ![p].hand = FALSE, ![p].order = 0]
<1>2. /\ UNCHANGED <<people, hiddenIds, receive, pendingHand, handTimer, badge, reaction>>
      /\ p \in Present \ {"me"} /\ removal' = removal \union {p}
      /\ tile' = Normalized(people, t)
      /\ sharer' = IF p = sharer THEN "none" ELSE sharer
      /\ departed' = (departed \/ \E q \in Present : tile'[q].order # tile[q].order)
      /\ Relabel(IF p = sharer THEN Present ELSE {p}) /\ RenderList
  BY DEF Leaves
<1>3. tile \in [Ids -> Tiles] /\ people \in Seq(Ids) /\ IsInjective(people)
  BY <1>1 DEF PeopleAreTyped
<1>4. t \in [Ids -> Tiles]
  <2> DEFINE f == [tile EXCEPT ![p].conn = "left"]
  <2>1. f \in [Ids -> Tiles]
    BY <1>3 DEF Tiles
  <2>2. t = [f EXCEPT ![p].hand = FALSE, ![p].order = 0]
    OBVIOUS
  <2> HIDE DEF f, t
  <2>3. QED
    BY <2>1, <2>2, ZenonT(30) DEF Tiles
<1>5. t[p].hand = FALSE /\ t[p].order = 0 /\ \A q \in Ids : q # p => t[q] = tile[q]
  BY <1>3 DEF Tiles
<1> HIDE DEF t
<1> DEFINE N == Normalized(people, t)
<1>6. /\ N \in [Ids -> Tiles]
      /\ \A q \in Ids : /\ N[q].hand = t[q].hand /\ N[q].conn = t[q].conn /\ N[q].camera = t[q].camera
                        /\ \/ N[q].order = t[q].order
                           \/ q \in ToSet(people) /\ t[q].hand /\ N[q].order >= 1
  BY <1>3, <1>4, NormalizedKeeps
<1>7. tile' = N
  BY <1>2
<1> HIDE DEF N
<1>8. Present' = Present /\ Present \subseteq Ids
  BY <1>1, <1>2, PresentIds DEF Present
<1>9. PeopleAreTyped'
  BY <1>1, <1>2, <1>6, <1>7, <1>8 DEF PeopleAreTyped
<1>10. FlagsAreTyped'
  <2>1. departed' \in BOOLEAN
    BY <1>1, <1>2 DEF FlagsAreTyped
  <2>2. sharer' \in Ids \union {"none"}
    BY <1>1, <1>2 DEF FlagsAreTyped
  <2>3. QED
    BY <1>1, <1>2, <2>1, <2>2 DEF FlagsAreTyped
<1>11. RaisedHaveOrder'
  <2>1. ASSUME NEW q \in Ids, N[q].hand
        PROVE  N[q].order >= 1
    <3>1. t[q].hand
      BY <1>6, <2>1
    <3>2. q # p
      BY <1>5, <3>1
    <3>3. t[q] = tile[q] /\ t[q].order >= 1
      BY <1>1, <1>5, <3>1, <3>2 DEF RaisedHaveOrder
    <3>4. QED
      BY <1>6, <3>3
  <2>2. QED
    BY <1>7, <2>1 DEF RaisedHaveOrder
<1>12. ListIsBuilt'
  BY <1>1, <1>2, ListStays
<1>13. LabelsAreCurrent'
  <2> DEFINE ps == IF p = sharer THEN Present ELSE {p}
  <2>1. ASSUME NEW q \in Present' \ ps
        PROVE  q \in Present /\ LabelOf(q, tile', sharer', receive') = LabelOf(q, tile, sharer, receive)
    <3>1. p # sharer /\ q # p /\ q \in Present /\ q \in Ids
      BY <1>8, <2>1
    <3>2. tile'[q].conn = tile[q].conn /\ tile'[q].camera = tile[q].camera
      BY <1>5, <1>6, <1>7, <3>1
    <3>3. sharer' = sharer /\ receive' = receive
      BY <1>2, <3>1
    <3>4. QED
      BY <3>1, <3>2, <3>3 DEF LabelOf
  <2>2. Relabel(ps)
    BY <1>2
  <2> HIDE DEF ps
  <2>3. QED
    BY <1>1, <1>9, <2>1, <2>2, LabelsWritten
<1>14. BadgesAreCurrent'
  <2>1. CASE departed'
    BY <2>1 DEF BadgesAreCurrent
  <2>2. CASE ~departed'
    <3>1. ~departed /\ \A q \in Present : tile'[q].order = tile[q].order
      BY <1>2, <2>2
    <3>2. tile'[p].order = 0
      BY <1>5, <1>6, <1>7, <1>8, <1>2
    <3>3. ~tile[p].hand
      BY <1>1, <1>2, <3>1, <3>2 DEF RaisedHaveOrder
    <3>4. tile[p].hand \in BOOLEAN
      BY <1>3, TileFields
    <3>5. \A q \in Present : tile'[q].hand = tile[q].hand
      BY <1>5, <1>6, <1>7, <1>8, <3>3, <3>4
    <3>6. Raised(people', tile') = Raised(people, tile)
      BY <1>2, <3>5 DEF Raised, Present
    <3>7. departed' = departed
      <4>1. departed \in BOOLEAN /\ departed' \in BOOLEAN
        BY <1>1, <1>10 DEF FlagsAreTyped
      <4>2. QED
        BY <2>2, <3>1, <4>1, Zenon
    <3>8. QED
      BY <1>1, <1>2, <1>8, <3>1, <3>5, <3>6, <3>7, BadgesKept
  <2>3. QED
    BY <2>1, <2>2
<1>15. QED
  BY <1>9, <1>10, <1>11, <1>12, <1>13, <1>14 DEF PeopleInv

\* The invariant holds first, every step keeps it, and it implies what is checked.
LEMMA PeopleInitHolds == PeopleInit => PeopleInv
<1> SUFFICES ASSUME PeopleInit PROVE PeopleInv
  OBVIOUS
<1>1. /\ people = <<>> /\ tile = [p \in Ids |-> Unknown] /\ removal = {} /\ hiddenIds = {}
      /\ receive = TRUE /\ sharer = "none" /\ pendingHand = "none" /\ handTimer = FALSE
      /\ rows = <<>> /\ signature = <<>> /\ reaction = {} /\ departed = FALSE
  BY DEF PeopleInit
<1>2. Unknown \in Tiles /\ Unknown.hand = FALSE
  BY DEF Unknown, Tiles
<1>3. Present = {}
  BY <1>1 DEF Present, ToSet
<1>4. people \in Seq(Ids) /\ IsInjective(people)
  BY <1>1 DEF IsInjective
<1>5. tile \in [Ids -> Tiles] /\ \A p \in Ids : tile[p] = Unknown
  BY <1>1, <1>2
<1>6. PeopleAreTyped
  BY <1>1, <1>4, <1>5 DEF PeopleAreTyped
<1>7. FlagsAreTyped
  BY <1>1 DEF FlagsAreTyped
<1>8. RaisedHaveOrder
  BY <1>2, <1>5 DEF RaisedHaveOrder
<1>9. ListIsBuilt
  <2>1. DOMAIN people = {}
    BY <1>1
  <2>2. /\ RowsOf(people, tile, receive, hiddenIds) = <<>>
        /\ SignatureOf(people, tile, receive, hiddenIds) = <<>>
    BY <2>1 DEF RowsOf, SignatureOf
  <2>3. QED
    BY <1>1, <2>2 DEF ListIsBuilt
<1>10. LabelsAreCurrent /\ BadgesAreCurrent
  BY <1>3 DEF LabelsAreCurrent, BadgesAreCurrent
<1>11. QED
  BY <1>6, <1>7, <1>8, <1>9, <1>10 DEF PeopleInv

LEMMA PeopleNextKeeps ==
  ASSUME PeopleInv, [PeopleNext]_peopleVars
  PROVE  PeopleInv'
<1>1. ASSUME NEW p \in Ids, NEW hand \in BOOLEAN, Joins(p, hand)
      PROVE  PeopleInv'
  BY <1>1, JoinsKeeps
<1>2. ASSUME NEW p \in Ids, Returns(p)
      PROVE  PeopleInv'
  BY <1>2, ReturnsKeeps
<1>3. ASSUME NEW p \in Ids, Leaves(p)
      PROVE  PeopleInv'
  BY <1>3, LeavesKeeps
<1>4. ASSUME NEW p \in Ids, React(p) \/ ReactionTimer(p)
      PROVE  PeopleInv'
  BY <1>4, QuietKeeps
<1>5. ASSUME NEW p \in Ids, HideTile(p)
      PROVE  PeopleInv'
  BY <1>5, HideTileKeeps
<1>6. ASSUME NEW p \in Ids, RemovalTimer(p)
      PROVE  PeopleInv'
  BY <1>6, RemovalTimerKeeps
<1>7. ASSUME NEW p \in Ids, NEW m \in Medias, MediaState(p, m)
      PROVE  PeopleInv'
  BY <1>7, MediaStateKeeps
<1>8. ASSUME NEW p \in Ids, HandState(p, FALSE, 0)
      PROVE  PeopleInv'
  BY <1>8, HandStateKeeps
<1>9. ASSUME NEW p \in Ids, NEW order \in 1 .. Cardinality(Ids), HandState(p, TRUE, order)
      PROVE  PeopleInv'
  <2>1. order \in Nat /\ order >= 1
    OBVIOUS
  <2>2. QED
    BY <1>9, <2>1, HandStateKeeps
<1>10. ASSUME NEW p \in Ids \union {"none"}, ShareState(p)
       PROVE  PeopleInv'
  BY <1>10, ShareStateKeeps
<1>11. ASSUME NEW state \in {"connected", "disconnected"}, ConnectionState(state)
       PROVE  PeopleInv'
  BY <1>11, ConnectionStateKeeps
<1>12. CASE ErrorMessage \/ RaiseHandClick \/ HandTimer \/ UNCHANGED peopleVars
  BY <1>12, QuietKeeps
<1>13. CASE ReceiveVideo
  BY <1>13, ReceiveVideoKeeps
<1>14. CASE ResetPeople
  BY <1>14, ResetPeopleKeeps
<1>15. QED
  BY <1>1, <1>2, <1>3, <1>4, <1>5, <1>6, <1>7, <1>8, <1>9, <1>10, <1>11, <1>12, <1>13, <1>14
  DEF PeopleNext

LEMMA PeopleInvImplies ==
  ASSUME PeopleInv
  PROVE  PeopleTypeOK /\ ListIsCurrent /\ TilesAreCurrent
<1>1. /\ PeopleAreTyped /\ FlagsAreTyped /\ ListIsBuilt /\ LabelsAreCurrent /\ BadgesAreCurrent
  BY DEF PeopleInv
<1>2. {receive, handTimer, departed} \subseteq BOOLEAN
  BY <1>1 DEF FlagsAreTyped
<1>3. PeopleTypeOK
  BY <1>1, <1>2 DEF PeopleTypeOK, PeopleAreTyped, FlagsAreTyped
<1>4. ListIsCurrent
  BY <1>1 DEF ListIsBuilt, ListIsCurrent
<1>5. TilesAreCurrent
  BY <1>1 DEF LabelsAreCurrent, BadgesAreCurrent, TilesAreCurrent
<1>6. QED
  BY <1>3, <1>4, <1>5

(*****************************************************************************)
(* The microphone.                                                           *)
(*****************************************************************************)
MicTracks == [live : BOOLEAN, on : BOOLEAN]
MicCalls ==
  [pc : {"asking", "replacing", "adopting", "replaced", "negotiating", "done", "failed"},
   epoch : Nat, next : Nat, prev : Nat]

LinkIsTyped ==
  /\ link \in {"down", "asking", "ready", "up", "lost", "cut"}
  /\ epoch \in Nat /\ setups \subseteq 1 .. epoch

TracksAreTyped ==
  /\ tracks \in Seq(MicTracks)
  /\ stream \in Seq(Nat) /\ ToSet(stream) \subseteq Captured
  /\ senders \in Seq(Nat) /\ ToSet(senders) \subseteq Captured \union {0}

CallsAreTyped == switches \in Seq(MicCalls)

ButtonIsTyped ==
  /\ pressed \in BOOLEAN /\ usable \in BOOLEAN /\ told \in BOOLEAN
  /\ talking \in BOOLEAN /\ wasOn \in BOOLEAN /\ crossed \in BOOLEAN

\* A connection without a microphone, or without media, has no track.
LinkIsRight ==
  /\ link = "down" => stream = <<>> /\ senders = <<>>
  /\ link \in {"asking", "lost"} => stream = <<>> /\ senders = <<0>>
  /\ link \in {"ready", "up", "cut"} => senders # <<>>

\* What a call of replaceLocalDevice has captured and what it replaces.
CallIsRight(s) ==
  /\ switches[s].next \in Captured \union {0} /\ switches[s].prev \in Captured \union {0}
  /\ switches[s].pc = "asking" => switches[s].next = 0
  /\ switches[s].pc \notin {"asking", "done"} =>
       switches[s].next # 0 /\ switches[s].next # switches[s].prev
  /\ switches[s].epoch <= epoch

CallsAreRight ==
  /\ \A s \in DOMAIN switches : CallIsRight(s)
  /\ \A s, r \in DOMAIN switches :
       switches[s].next = switches[r].next => s = r \/ switches[s].next = 0

\* A track that a call not over yet has captured, and one it has already sent.
Exempt(t) == \E s \in DOMAIN switches : switches[s].next = t /\ switches[s].pc # "done"
Swapped(t) == \E s \in DOMAIN switches : switches[s].next = t /\ switches[s].pc = "replaced"

\* Only the first track of the stream is enabled, and the button shows it, unless
\* a call is still placing it.
OnIsShown == \A t \in ToSet(stream) : tracks[t].on => t = Mic /\ (pressed \/ Exempt(t))

\* A live track that is sent is in the stream, or a call is about to put it there.
SentIsHeld ==
  \A t \in ToSet(senders) : t # 0 /\ tracks[t].live => t \in ToSet(stream) \/ Swapped(t)

\* What a call of an earlier connection captured is neither held nor sent.
StaleAreOut ==
  \A s \in DOMAIN switches : ~Current(s) /\ switches[s].next # 0 =>
    switches[s].next \notin ToSet(stream) /\ switches[s].next \notin ToSet(senders)

\* A device is selected once there is a stream.
NoCallYet == link \in {"asking", "lost"} => \A s \in DOMAIN switches : ~Current(s)

\* A call that has put its track in the stream still has it there, or it was
\* stopped.
AdoptedIsHeld ==
  \A s \in DOMAIN switches :
    switches[s].pc \in {"adopting", "negotiating"} /\ Current(s) =>
      switches[s].next \in ToSet(stream) \/ ~tracks[switches[s].next].live

\* The inductive invariant of muting.
MutedInv ==
  /\ LinkIsTyped /\ TracksAreTyped /\ CallsAreTyped /\ ButtonIsTyped
  /\ LinkIsRight /\ CallsAreRight
  /\ OnIsShown /\ SentIsHeld /\ StaleAreOut /\ AdoptedIsHeld /\ NoCallYet

(***************************************************************************)
(* While no switch has met another one or the end of the connection.       *)
(***************************************************************************)
Runs(s) == switches[s].pc \notin {"done", "failed"}
Placing(t) == \E s \in DOMAIN switches :
                switches[s].next = t /\ switches[s].pc \in {"replacing", "replaced"}
Adopts == \E s \in DOMAIN switches : switches[s].pc \in {"adopting", "negotiating"}

\* One call at a time, of this connection.
OneRuns ==
  /\ \A s, r \in DOMAIN switches : Runs(s) /\ Runs(r) => s = r
  /\ \A s \in DOMAIN switches : Runs(s) =>
       switches[s].epoch = epoch /\ link \in {"ready", "up", "cut"}

\* Every live track is in the stream or being placed.
LiveIsHeld == \A t \in Captured : tracks[t].live => t \in ToSet(stream) \/ Placing(t)

\* The stream holds one track, and it is live.
StreamIsOne == stream # <<>> => stream = <<Mic>> /\ tracks[Mic].live

\* What the call under way replaces, sends and holds, by how far it has come.
RunIsRight(s) ==
  /\ switches[s].pc \in {"replacing", "replaced"} => switches[s].prev = Mic
  /\ switches[s].pc \in {"replaced", "negotiating"} => switches[s].next \in ToSet(senders)
  /\ switches[s].pc \in {"adopting", "negotiating"} => stream = <<switches[s].next>>

Alone == OneRuns /\ LiveIsHeld /\ StreamIsOne /\ \A s \in DOMAIN switches : RunIsRight(s)

\* The button shows the track, and the others were told what it shows.
ShownIsTold ==
  link \in {"ready", "up"} /\ ~Adopts => /\ pressed = IsOn(Mic)
                                         /\ link = "up" => told = pressed

\* What is held is sent, once no call is under way.
HeldIsSent ==
  link = "up" /\ stream # <<>>
  /\ (\A s \in DOMAIN switches : switches[s].pc \notin {"replaced", "adopting"}) =>
    Mic \in ToSet(senders)

\* The inductive invariant of hearing.
HeardInv == ~crossed => Alone /\ ShownIsTold /\ HeldIsSent

\* The first element stays the first if it is kept.
LEMMA KeepHead ==
  ASSUME NEW E, NEW s \in Seq(E), NEW S, s # <<>>, s[1] \in S
  PROVE  Keep(s, S) # <<>> /\ Keep(s, S)[1] = s[1]
<1>1. PICK f : KeptBy(f, s, S, Len(s)) /\ Keep(s, S) = f[Len(s)]
  BY KeptLast
<1> DEFINE n == Len(s)
           Good(i) == f[i] \in Seq(E) /\ (i >= 1 => Len(f[i]) >= 1 /\ f[i][1] = s[1])
           T == {i \in 0 .. n : Good(i)}
<1>2. n \in Nat /\ n >= 1 /\ \A i \in 1 .. n : s[i] \in E
  OBVIOUS
<1>3. f[0] = <<>>
  BY <1>1, <1>2 DEF KeptBy
<1>4. 0 \in T
  <2>1. f[0] \in Seq(E)
    BY <1>3
  <2>2. QED
    BY <1>2, <2>1
<1>5. ASSUME NEW i \in 0 .. n - 1, i \in T
      PROVE  i + 1 \in T
  <2>1. i + 1 \in 0 .. n /\ i + 1 \in 1 .. n /\ i + 1 # 0 /\ i \in Nat
    BY <1>2
  <2>2. f[i + 1] = IF s[i + 1] \in S THEN Append(f[i], s[i + 1]) ELSE f[i]
    <3>1. i + 1 \in 0 .. Len(s) /\ i + 1 # 0 /\ (i + 1) - 1 = i
      OBVIOUS
    <3>2. QED
      BY <1>1, <3>1 DEF KeptBy
  <2>3. f[i] \in Seq(E) /\ s[i + 1] \in E
    BY <1>2, <1>5
  <2>4. CASE i = 0
    <3>1. f[i + 1] = Append(<<>>, s[1])
      <4>1. s[i + 1] = s[1] /\ f[i] = <<>>
        BY <1>3, <2>4
      <4>2. QED
        BY <2>2, <4>1
    <3>2. s[1] \in E
      BY <1>2
    <3>3. f[i + 1] \in Seq(E) /\ Len(f[i + 1]) >= 1 /\ f[i + 1][1] = s[1]
      BY <3>1, <3>2
    <3>4. QED
      BY <2>1, <3>3
  <2>5. CASE i # 0
    <3>1. Len(f[i]) >= 1 /\ f[i][1] = s[1]
      BY <1>5, <2>5
    <3> DEFINE y == f[i]
    <3>2. y \in Seq(E) /\ Len(y) >= 1 /\ y[1] = s[1]
      BY <2>3, <3>1
    <3> HIDE DEF y
    <3>3. /\ Append(y, s[i + 1]) \in Seq(E) /\ Len(Append(y, s[i + 1])) >= 1
          /\ Append(y, s[i + 1])[1] = y[1]
      BY <2>3, <3>2
    <3>4. f[i + 1] \in {Append(y, s[i + 1]), y}
      BY <2>2 DEF y
    <3>5. f[i + 1] \in Seq(E) /\ Len(f[i + 1]) >= 1 /\ f[i + 1][1] = s[1]
      BY <3>2, <3>3, <3>4
    <3>6. QED
      BY <2>1, <3>5
  <2>6. QED
    BY <2>4, <2>5
<1> HIDE DEF T
<1>6. \A i \in 0 .. n : i \in T
  BY <1>2, <1>4, <1>5, UpTo
<1>7. f[n] \in Seq(E) /\ Len(f[n]) >= 1 /\ f[n][1] = s[1]
  <2>1. n \in 0 .. n
    BY <1>2
  <2>2. n \in T
    BY <1>6, <2>1
  <2>3. QED
    BY <1>2, <2>2 DEF T
<1>8. QED
  BY <1>1, <1>7

\* Sequences of tracks, and the microphone held.
LEMMA ContainsIs ==
  ASSUME NEW E, NEW s \in Seq(E), NEW e
  PROVE  Contains(s, e) <=> e \in ToSet(s)
  BY DEF Contains, ToSet

LEMMA MicIs ==
  ASSUME stream \in Seq(Nat)
  PROVE  /\ stream = <<>> => Mic = 0
         /\ stream # <<>> => Mic = stream[1] /\ Mic \in ToSet(stream)
  BY DEF Mic, ToSet

LEMMA CapturedIs ==
  ASSUME tracks \in Seq(MicTracks)
  PROVE  /\ Len(tracks) \in Nat /\ Captured = 1 .. Len(tracks) /\ 0 \notin Captured
         /\ Fresh \in Nat /\ Fresh # 0 /\ Fresh \notin Captured
         /\ \A t \in Captured : /\ t \in Nat /\ tracks[t] \in MicTracks
                                /\ tracks[t].live \in BOOLEAN /\ tracks[t].on \in BOOLEAN
<1>1. \A t \in Captured : tracks[t] \in MicTracks
  BY DEF Captured
<1>2. \A x \in MicTracks : x.live \in BOOLEAN /\ x.on \in BOOLEAN
  BY DEF MicTracks
<1>3. QED
  BY <1>1, <1>2 DEF Captured, Fresh

\* What the invariant says of a call.
LEMMA CallFields ==
  ASSUME CallsAreTyped, NEW s \in DOMAIN switches
  PROVE  /\ switches[s] \in MicCalls
         /\ switches[s].pc \in {"asking", "replacing", "adopting", "replaced", "negotiating",
                                "done", "failed"}
         /\ switches[s].epoch \in Nat /\ switches[s].next \in Nat /\ switches[s].prev \in Nat
<1>1. switches[s] \in MicCalls
  BY DEF CallsAreTyped
<1>2. QED
  BY <1>1 DEF MicCalls

\* A call goes on.
LEMMA PcChanges ==
  ASSUME CallsAreTyped, NEW s \in DOMAIN switches,
         NEW x \in {"asking", "replacing", "adopting", "replaced", "negotiating", "done", "failed"},
         switches' = [switches EXCEPT ![s].pc = x]
  PROVE  /\ CallsAreTyped' /\ DOMAIN switches' = DOMAIN switches
         /\ \A r \in DOMAIN switches : r # s => switches'[r] = switches[r]
         /\ switches'[s].pc = x
         /\ \A r \in DOMAIN switches : /\ switches'[r].epoch = switches[r].epoch
                                       /\ switches'[r].next = switches[r].next
                                       /\ switches'[r].prev = switches[r].prev
<1>1. switches \in Seq(MicCalls)
  BY DEF CallsAreTyped
<1>2. switches[s] \in MicCalls
  BY <1>1
<1> DEFINE c == [switches[s] EXCEPT !.pc = x]
<1>3. c \in MicCalls /\ c.pc = x /\ c.epoch = switches[s].epoch /\ c.next = switches[s].next
      /\ c.prev = switches[s].prev
  BY <1>2 DEF MicCalls
<1>4. switches' = [switches EXCEPT ![s] = c]
  BY <1>1
<1> HIDE DEF c
<1>5. switches' \in Seq(MicCalls) /\ DOMAIN switches' = DOMAIN switches /\ switches'[s] = c
      /\ \A r \in DOMAIN switches : r # s => switches'[r] = switches[r]
  BY <1>1, <1>3, <1>4
<1>6. QED
  BY <1>3, <1>5 DEF CallsAreTyped

\* A function on 1 .. n is a sequence.
LEMMA FunctionIsSeq ==
  ASSUME NEW n \in Nat, NEW E, NEW f \in [1 .. n -> E]
  PROVE  f \in Seq(E) /\ Len(f) = n
  OBVIOUS

\* A step that leaves the calls alone leaves what is said of them alone.
LEMMA SameCalls ==
  ASSUME UNCHANGED <<switches, link, epoch>>
  PROVE  /\ \A t : Exempt(t)' = Exempt(t) /\ Swapped(t)' = Swapped(t)
         /\ \A s \in DOMAIN switches : Current(s)' = Current(s)
  BY DEF Exempt, Swapped, Current

\* Each action keeps what muting needs.
LEMMA StartMediaKeeps ==
  ASSUME MutedInv, StartMedia
  PROVE  MutedInv'
<1>1. /\ LinkIsTyped /\ TracksAreTyped /\ CallsAreTyped /\ ButtonIsTyped
      /\ LinkIsRight /\ CallsAreRight
  BY DEF MutedInv
<1>2. /\ link = "down" /\ link' = "asking" /\ epoch' = epoch + 1
      /\ setups' = setups \union {epoch'} /\ senders' = <<0>> /\ usable' = FALSE
      /\ UNCHANGED <<tracks, stream, pressed, told, talking, switches, refusals, wasOn, crossed>>
  BY DEF StartMedia
<1>3. stream' = <<>> /\ ToSet(stream') = {} /\ ToSet(senders') = {0}
  BY <1>1, <1>2 DEF LinkIsRight, ToSet
<1>4. LinkIsTyped'
  BY <1>1, <1>2 DEF LinkIsTyped
<1>5. TracksAreTyped'
  <2>1. senders' \in Seq(Nat) /\ stream' \in Seq(Nat) /\ Captured' = Captured
    BY <1>2, <1>3 DEF Captured
  <2>2. QED
    BY <1>1, <1>2, <1>3, <2>1 DEF TracksAreTyped
<1>6. CallsAreTyped' /\ ButtonIsTyped'
  BY <1>1, <1>2 DEF CallsAreTyped, ButtonIsTyped
<1>7. LinkIsRight'
  BY <1>2, <1>3 DEF LinkIsRight
<1>8. CallsAreRight'
  <2>1. \A s \in DOMAIN switches : switches[s].epoch \in Nat
    BY <1>1, CallFields
  <2>2. Captured' = Captured
    BY <1>2 DEF Captured
  <2>3. \A s \in DOMAIN switches : CallIsRight(s)'
    BY <1>1, <1>2, <2>1, <2>2 DEF CallsAreRight, CallIsRight, LinkIsTyped
  <2>4. QED
    BY <1>1, <1>2, <2>3 DEF CallsAreRight
<1>9. OnIsShown' /\ SentIsHeld' /\ AdoptedIsHeld' /\ NoCallYet'
  <2>1. OnIsShown'
    BY <1>3 DEF OnIsShown
  <2>2. SentIsHeld'
    BY <1>3 DEF SentIsHeld
  <2>3. \A s \in DOMAIN switches : ~Current(s)'
    <3>1. \A s \in DOMAIN switches : switches[s].epoch \in Nat /\ switches[s].epoch <= epoch
      BY <1>1, CallFields DEF CallsAreRight, CallIsRight
    <3>2. QED
      BY <1>1, <1>2, <3>1 DEF Current, LinkIsTyped
  <2>4. AdoptedIsHeld'
    BY <1>2, <2>3 DEF AdoptedIsHeld
  <2>5. NoCallYet'
    BY <1>2, <2>3 DEF NoCallYet
  <2>6. QED
    BY <2>1, <2>2, <2>4, <2>5
<1>10. StaleAreOut'
  BY <1>3 DEF StaleAreOut
<1>11. QED
  BY <1>4, <1>5, <1>6, <1>7, <1>8, <1>9, <1>10 DEF MutedInv

\* One more captured track changes nothing about the others.
LEMMA MoreCaptured ==
  ASSUME CallsAreRight, UNCHANGED <<switches, epoch>>, Captured \subseteq Captured'
  PROVE  CallsAreRight'
<1>1. \A s \in DOMAIN switches : CallIsRight(s)'
  BY DEF CallsAreRight, CallIsRight
<1>2. QED
  BY <1>1 DEF CallsAreRight

LEMMA TrackAppended ==
  ASSUME tracks \in Seq(MicTracks), NEW x \in MicTracks, tracks' = Append(tracks, x)
  PROVE  /\ tracks' \in Seq(MicTracks) /\ Captured' = Captured \union {Fresh}
         /\ tracks'[Fresh] = x /\ \A t \in Captured : tracks'[t] = tracks[t]
<1>1. /\ tracks' \in Seq(MicTracks) /\ Len(tracks') = Len(tracks) + 1 /\ Len(tracks) \in Nat
      /\ tracks'[Len(tracks) + 1] = x /\ \A t \in 1 .. Len(tracks) : tracks'[t] = tracks[t]
  OBVIOUS
<1>2. DOMAIN tracks = 1 .. Len(tracks) /\ DOMAIN tracks' = 1 .. Len(tracks) + 1
  BY <1>1
<1>3. 1 .. Len(tracks) + 1 = (1 .. Len(tracks)) \union {Len(tracks) + 1}
  BY <1>1
<1>4. QED
  BY <1>1, <1>2, <1>3 DEF Captured, Fresh

LEMMA CaptureKeeps ==
  ASSUME MutedInv, Capture
  PROVE  MutedInv'
<1>1. /\ LinkIsTyped /\ TracksAreTyped /\ CallsAreTyped /\ ButtonIsTyped
      /\ LinkIsRight /\ CallsAreRight
      /\ OnIsShown /\ SentIsHeld /\ StaleAreOut /\ AdoptedIsHeld /\ NoCallYet
  BY DEF MutedInv
<1>2. PICK e \in setups :
        /\ setups' = setups \ {e}
        /\ IF e = epoch /\ link = "asking"
             THEN /\ tracks' = Append(tracks, [live |-> TRUE, on |-> pressed])
                  /\ stream' = <<Fresh>> /\ link' = "ready" /\ ShowFor(stream', tracks')
             ELSE UNCHANGED <<link, tracks, stream, pressed, usable>>
        /\ UNCHANGED <<epoch, senders, told, talking, switches, refusals, wasOn, crossed>>
  BY DEF Capture
<1>3. setups' \subseteq 1 .. epoch'
  BY <1>1, <1>2 DEF LinkIsTyped
<1>4. CASE ~(e = epoch /\ link = "asking")
  <2>1. UNCHANGED <<link, tracks, stream, pressed, usable, epoch, senders, told, talking,
                    switches, wasOn, crossed>>
    BY <1>2, <1>4
  <2>2. Captured' = Captured /\ Mic' = Mic
    BY <2>1 DEF Captured, Mic
  <2>3. LinkIsTyped' /\ TracksAreTyped' /\ CallsAreTyped' /\ ButtonIsTyped' /\ LinkIsRight'
    BY <1>1, <1>3, <2>1, <2>2
    DEF LinkIsTyped, TracksAreTyped, CallsAreTyped, ButtonIsTyped, LinkIsRight
  <2>4. CallsAreRight'
    BY <1>1, <2>1, <2>2, MoreCaptured
  <2>5. OnIsShown' /\ SentIsHeld' /\ StaleAreOut' /\ AdoptedIsHeld' /\ NoCallYet'
    BY <1>1, <2>1, <2>2, SameCalls
    DEF OnIsShown, SentIsHeld, StaleAreOut, AdoptedIsHeld, NoCallYet
  <2>6. QED
    BY <2>3, <2>4, <2>5 DEF MutedInv
<1>5. CASE e = epoch /\ link = "asking"
  <2> DEFINE x == [live |-> TRUE, on |-> pressed]
  <2>1. /\ tracks' = Append(tracks, x) /\ stream' = <<Fresh>> /\ link' = "ready"
        /\ usable' = (stream' # <<>>)
        /\ pressed' = (stream' # <<>> /\ tracks'[Head(stream')].on)
        /\ UNCHANGED <<epoch, senders, told, talking, switches, refusals, wasOn, crossed>>
    BY <1>2, <1>5 DEF ShowFor
  <2>2. x \in MicTracks /\ x.on = pressed
    BY <1>1 DEF MicTracks, ButtonIsTyped
  <2>3. tracks \in Seq(MicTracks)
    BY <1>1 DEF TracksAreTyped
  <2> HIDE DEF x
  <2>4. /\ tracks' \in Seq(MicTracks) /\ Captured' = Captured \union {Fresh}
        /\ tracks'[Fresh] = x /\ \A t \in Captured : tracks'[t] = tracks[t]
    BY <2>1, <2>2, <2>3, TrackAppended
  <2>5. Fresh \in Nat /\ Fresh # 0 /\ Fresh \notin Captured
    BY <2>3, CapturedIs
  <2>6. /\ stream' \in Seq(Nat) /\ ToSet(stream') = {Fresh} /\ Head(stream') = Fresh
        /\ stream' # <<>> /\ Mic' = Fresh
    BY <2>1, <2>5 DEF ToSet, Mic
  <2>7. senders = <<0>> /\ senders' = <<0>> /\ ToSet(senders') = {0}
    BY <1>1, <1>5, <2>1 DEF LinkIsRight, ToSet
  <2>8. pressed' = pressed
    BY <1>1, <2>1, <2>2, <2>4, <2>6 DEF ButtonIsTyped
  <2>9. LinkIsTyped'
    BY <1>1, <1>3, <2>1 DEF LinkIsTyped
  <2>10. TracksAreTyped'
    <3>1. senders' \in Seq(Nat)
      BY <2>7
    <3>2. QED
      BY <2>4, <2>6, <2>7, <3>1 DEF TracksAreTyped
  <2>11. CallsAreTyped' /\ ButtonIsTyped'
    <3>1. usable' \in BOOLEAN
      BY <2>1
    <3>2. QED
      BY <1>1, <2>1, <2>8, <3>1 DEF CallsAreTyped, ButtonIsTyped
  <2>12. LinkIsRight'
    BY <2>1, <2>7 DEF LinkIsRight
  <2>13. CallsAreRight'
    BY <1>1, <2>1, <2>4, MoreCaptured
  <2>14. OnIsShown'
    <3>1. tracks'[Fresh].on => pressed'
      BY <2>2, <2>4, <2>8
    <3>2. QED
      BY <2>6, <3>1 DEF OnIsShown
  <2>15. SentIsHeld'
    BY <2>7 DEF SentIsHeld
  <2>16. \A s \in DOMAIN switches : switches[s].next # Fresh /\ Current(s)' = Current(s)
    <3>1. \A s \in DOMAIN switches : switches[s].next # Fresh
      BY <1>1, <2>5 DEF CallsAreRight, CallIsRight
    <3>2. \A s \in DOMAIN switches : Current(s)' = Current(s)
      BY <1>5, <2>1 DEF Current
    <3>3. QED
      BY <3>1, <3>2
  <2>17. StaleAreOut'
    BY <2>1, <2>6, <2>7, <2>16 DEF StaleAreOut
  <2>18. AdoptedIsHeld'
    <3>1. SUFFICES ASSUME NEW s \in DOMAIN switches,
                          switches[s].pc \in {"adopting", "negotiating"}, Current(s)
                   PROVE  ~tracks'[switches[s].next].live
      BY <2>1, <2>16 DEF AdoptedIsHeld
    <3>2. ToSet(stream) = {}
      BY <1>1, <1>5 DEF LinkIsRight, ToSet
    <3>3. ~tracks[switches[s].next].live
      BY <1>1, <3>1, <3>2 DEF AdoptedIsHeld
    <3>4. switches[s].next \in Captured
      BY <1>1, <3>1 DEF CallsAreRight, CallIsRight
    <3>5. QED
      BY <2>4, <3>3, <3>4
  <2>19. NoCallYet'
    BY <2>1 DEF NoCallYet
  <2>20. QED
    BY <2>19, <2>9, <2>10, <2>11, <2>12, <2>13, <2>14, <2>15, <2>17, <2>18 DEF MutedInv
<1>6. QED
  BY <1>4, <1>5

\* Steps that leave the tracks, the senders and the calls alone.
LEMMA TracksStay ==
  ASSUME MutedInv, UNCHANGED <<epoch, tracks, stream, senders, switches>>,
         LinkIsTyped', ButtonIsTyped', LinkIsRight',
         link = "down" <=> link' = "down",
         link' \in {"asking", "lost"} => link \in {"asking", "lost"},
         pressed => pressed' \/ stream = <<>>
  PROVE  MutedInv'
<1>1. /\ TracksAreTyped /\ CallsAreTyped /\ CallsAreRight
      /\ OnIsShown /\ SentIsHeld /\ StaleAreOut /\ AdoptedIsHeld /\ NoCallYet
  BY DEF MutedInv
<1>2. Captured' = Captured /\ Mic' = Mic /\ ToSet(stream') = ToSet(stream)
      /\ ToSet(senders') = ToSet(senders)
  BY DEF Captured, Mic
<1>3. TracksAreTyped' /\ CallsAreTyped'
  BY <1>1, <1>2 DEF TracksAreTyped, CallsAreTyped
<1>4. CallsAreRight'
  BY <1>1, <1>2, MoreCaptured
<1>5. \A s \in DOMAIN switches : Current(s)' = Current(s)
  BY DEF Current
<1>6. \A t : Exempt(t)' = Exempt(t) /\ Swapped(t)' = Swapped(t)
  BY DEF Exempt, Swapped
<1>7. stream = <<>> => ToSet(stream) = {}
  BY DEF ToSet
<1>8. OnIsShown'
  BY <1>1, <1>2, <1>6, <1>7 DEF OnIsShown
<1>9. SentIsHeld' /\ StaleAreOut' /\ AdoptedIsHeld' /\ NoCallYet'
  BY <1>1, <1>2, <1>5, <1>6 DEF SentIsHeld, StaleAreOut, AdoptedIsHeld, NoCallYet
<1>10. QED
  BY <1>3, <1>4, <1>8, <1>9 DEF MutedInv

LEMMA CaptureRefusedKeeps ==
  ASSUME MutedInv, CaptureRefused
  PROVE  MutedInv'
<1>1. LinkIsTyped /\ ButtonIsTyped /\ LinkIsRight
  BY DEF MutedInv
<1>2. PICK e \in setups :
        /\ setups' = setups \ {e}
        /\ IF e = epoch /\ link = "asking"
             THEN link' = "ready" /\ ShowFor(stream, tracks)
             ELSE UNCHANGED <<link, pressed, usable>>
        /\ UNCHANGED <<epoch, tracks, stream, senders, told, talking, switches, wasOn, crossed>>
  BY DEF CaptureRefused
<1>3. setups' \subseteq 1 .. epoch'
  BY <1>1, <1>2 DEF LinkIsTyped
<1>4. CASE ~(e = epoch /\ link = "asking")
  <2>1. UNCHANGED <<link, pressed, usable, epoch, tracks, stream, senders, told, talking, switches,
                    wasOn, crossed>>
    BY <1>2, <1>4
  <2>2. LinkIsTyped' /\ ButtonIsTyped' /\ LinkIsRight'
    BY <1>1, <1>3, <2>1 DEF LinkIsTyped, ButtonIsTyped, LinkIsRight
  <2>3. QED
    BY <2>1, <2>2, TracksStay
<1>5. CASE e = epoch /\ link = "asking"
  <2>1. /\ link' = "ready" /\ usable' = (stream # <<>>)
        /\ pressed' = (stream # <<>> /\ tracks[Head(stream)].on)
        /\ UNCHANGED <<epoch, tracks, stream, senders, told, talking, switches, wasOn, crossed>>
    BY <1>2, <1>5 DEF ShowFor
  <2>2. stream = <<>> /\ senders = <<0>>
    BY <1>1, <1>5 DEF LinkIsRight
  <2>3. pressed' = FALSE /\ usable' = FALSE
    BY <2>1, <2>2
  <2>4. LinkIsTyped'
    BY <1>1, <1>3, <2>1 DEF LinkIsTyped
  <2>5. ButtonIsTyped'
    BY <1>1, <2>1, <2>3 DEF ButtonIsTyped
  <2>6. LinkIsRight'
    BY <2>1, <2>2 DEF LinkIsRight
  <2>7. QED
    BY <1>5, <2>1, <2>2, <2>4, <2>5, <2>6, TracksStay
<1>6. QED
  BY <1>4, <1>5

LEMMA LoseKeeps ==
  ASSUME MutedInv, Lose
  PROVE  MutedInv'
<1>1. LinkIsTyped /\ ButtonIsTyped /\ LinkIsRight
  BY DEF MutedInv
<1>2. /\ link \in {"asking", "ready", "up"} /\ link' = IF link = "asking" THEN "lost" ELSE "cut"
      /\ wasOn' = IF link = "asking" THEN wasOn ELSE pressed /\ ~talking
      /\ UNCHANGED <<epoch, setups, tracks, stream, senders, pressed, usable, told, talking,
                     switches, refusals, crossed>>
  BY DEF Lose, Open
<1>3. LinkIsTyped' /\ ButtonIsTyped' /\ LinkIsRight'
  BY <1>1, <1>2 DEF LinkIsTyped, ButtonIsTyped, LinkIsRight
<1>4. QED
  BY <1>2, <1>3, TracksStay

\* A stuttering step.
LEMMA MicStutters ==
  ASSUME MutedInv, UNCHANGED micVars
  PROVE  MutedInv'
<1>1. LinkIsTyped /\ ButtonIsTyped /\ LinkIsRight
  BY DEF MutedInv
<1>2. UNCHANGED <<link, epoch, setups, tracks, stream, senders, pressed, usable, told, talking,
                  switches, refusals, wasOn, crossed>>
  BY DEF micVars
<1>3. LinkIsTyped' /\ ButtonIsTyped' /\ LinkIsRight'
  BY <1>1, <1>2 DEF LinkIsTyped, ButtonIsTyped, LinkIsRight
<1>4. QED
  BY <1>2, <1>3, TracksStay

\* What addTrack sends is part of the stream.
LEMMA UnsentIs ==
  ASSUME TracksAreTyped
  PROVE  Unsent \in Seq(Nat) /\ ToSet(Unsent) \subseteq ToSet(stream)
<1> DEFINE sent == {i \in DOMAIN stream : Contains(senders, stream[i])}
           n == IF sent = {} THEN Len(stream) ELSE Min(sent) - 1
<1>1. stream \in Seq(Nat) /\ Len(stream) \in Nat /\ DOMAIN stream = 1 .. Len(stream)
  BY DEF TracksAreTyped
<1>2. sent \subseteq DOMAIN stream
  OBVIOUS
<1>3. Unsent = SubSeq(stream, 1, n)
  BY DEF Unsent
<1> HIDE DEF sent
<1>4. n \in 0 .. Len(stream)
  <2>1. CASE sent = {}
    BY <1>1, <2>1
  <2>2. CASE sent # {}
    <3>1. sent \subseteq Nat
      BY <1>1, <1>2
    <3>2. PICK x \in sent : \A y \in sent : x <= y
      BY <2>2, <3>1, LeastNumber
    <3>3. Min(sent) \in sent
      BY <3>2 DEF Min
    <3>4. Min(sent) \in 1 .. Len(stream)
      BY <1>1, <1>2, <3>3
    <3>5. QED
      BY <1>1, <2>2, <3>4
  <2>3. QED
    BY <2>1, <2>2
<1> HIDE DEF n
<1>5. SubSeq(stream, 1, n) \in Seq(Nat) /\ ToSet(SubSeq(stream, 1, n)) \subseteq ToSet(stream)
  <2> DEFINE u == SubSeq(stream, 1, n)
  <2>1. u \in Seq(Nat) /\ DOMAIN u = 1 .. n /\ \A i \in 1 .. n : u[i] = stream[i]
    BY <1>1, <1>4
  <2>2. 1 .. n \subseteq DOMAIN stream
    BY <1>1, <1>4
  <2> HIDE DEF u
  <2>3. ToSet(u) \subseteq ToSet(stream)
    BY <2>1, <2>2 DEF ToSet
  <2>4. QED
    BY <2>1, <2>3 DEF u
<1>6. QED
  BY <1>3, <1>5

\* What concatenation and Tail hold.
LEMMA ConcatIs ==
  ASSUME NEW a \in Seq(Nat), NEW b \in Seq(Nat)
  PROVE  /\ a \o b \in Seq(Nat) /\ ToSet(a \o b) = ToSet(a) \union ToSet(b)
         /\ a # <<>> \/ b # <<>> => a \o b # <<>>
<1>1. /\ a \o b \in Seq(Nat) /\ Len(a \o b) = Len(a) + Len(b) /\ Len(a) \in Nat /\ Len(b) \in Nat
      /\ \A i \in 1 .. Len(a) : (a \o b)[i] = a[i]
      /\ \A i \in 1 .. Len(b) : (a \o b)[Len(a) + i] = b[i]
  OBVIOUS
<1> DEFINE c == a \o b
<1>2. /\ c \in Seq(Nat) /\ Len(c) = Len(a) + Len(b) /\ Len(a) \in Nat /\ Len(b) \in Nat
      /\ \A i \in 1 .. Len(a) : c[i] = a[i]
      /\ \A i \in 1 .. Len(b) : c[Len(a) + i] = b[i]
      /\ DOMAIN a = 1 .. Len(a) /\ DOMAIN b = 1 .. Len(b) /\ DOMAIN c = 1 .. Len(c)
  BY <1>1
<1> HIDE DEF c
<1>3. \A i \in DOMAIN c : i \in DOMAIN a \/ \E j \in DOMAIN b : i = Len(a) + j
  <2>1. ASSUME NEW i \in DOMAIN c
        PROVE  i \in 1 .. Len(a) \/ (i - Len(a) \in 1 .. Len(b) /\ i = Len(a) + (i - Len(a)))
    BY <1>2
  <2>2. QED
    BY <1>2, <2>1
<1>4. \A i \in DOMAIN a : i \in DOMAIN c
  BY <1>2
<1>5. \A j \in DOMAIN b : Len(a) + j \in DOMAIN c
  BY <1>2
<1>6. ToSet(c) = ToSet(a) \union ToSet(b)
  <2>1. ASSUME NEW i \in DOMAIN c
        PROVE  c[i] \in ToSet(a) \union ToSet(b)
    <3>1. CASE i \in DOMAIN a
      BY <1>2, <3>1 DEF ToSet
    <3>2. ASSUME NEW j \in DOMAIN b, i = Len(a) + j
          PROVE  c[i] \in ToSet(b)
      BY <1>2, <3>2 DEF ToSet
    <3>3. QED
      BY <1>3, <3>1, <3>2
  <2>2. ASSUME NEW i \in DOMAIN a
        PROVE  a[i] \in ToSet(c)
    <3>1. c[i] = a[i] /\ i \in DOMAIN c
      BY <1>2, <1>4
    <3>2. QED
      BY <3>1 DEF ToSet
  <2>3. ASSUME NEW j \in DOMAIN b
        PROVE  b[j] \in ToSet(c)
    <3>1. c[Len(a) + j] = b[j] /\ Len(a) + j \in DOMAIN c
      BY <1>2, <1>5
    <3>2. QED
      BY <3>1 DEF ToSet
  <2>4. ToSet(c) \subseteq ToSet(a) \union ToSet(b)
    BY <2>1 DEF ToSet
  <2>5. ToSet(a) \subseteq ToSet(c) /\ ToSet(b) \subseteq ToSet(c)
    BY <2>2, <2>3 DEF ToSet
  <2>6. QED
    BY <2>4, <2>5
<1>7. a # <<>> \/ b # <<>> => c # <<>>
  BY <1>2
<1>8. QED
  BY <1>2, <1>6, <1>7 DEF c

LEMMA TailIs ==
  ASSUME NEW a \in Seq(Nat), a # <<>>
  PROVE  Tail(a) \in Seq(Nat) /\ ToSet(Tail(a)) \subseteq ToSet(a)
         /\ ToSet(a) \subseteq {Head(a)} \union ToSet(Tail(a))
<1> DEFINE b == Tail(a)
<1>1. /\ b \in Seq(Nat) /\ Len(a) \in Nat /\ Len(b) = Len(a) - 1 /\ Len(a) >= 1
      /\ DOMAIN a = 1 .. Len(a) /\ DOMAIN b = 1 .. Len(b) /\ Head(a) = a[1]
      /\ \A i \in 1 .. Len(b) : b[i] = a[i + 1]
  OBVIOUS
<1> HIDE DEF b
<1>2. \A i \in DOMAIN b : i + 1 \in DOMAIN a
  BY <1>1, SMTT(30)
<1>3. \A i \in DOMAIN a : i = 1 \/ (i - 1 \in DOMAIN b /\ (i - 1) + 1 = i)
  BY <1>1
<1>4. ToSet(b) \subseteq ToSet(a)
  BY <1>1, <1>2 DEF ToSet
<1>5. ASSUME NEW i \in DOMAIN a
      PROVE  a[i] \in {Head(a)} \union ToSet(b)
  <2>1. CASE i = 1
    BY <1>1, <2>1
  <2>2. CASE i # 1
    <3>1. i - 1 \in DOMAIN b /\ b[i - 1] = a[i]
      BY <1>1, <1>3, <2>2
    <3>2. QED
      BY <3>1 DEF ToSet
  <2>3. QED
    BY <2>1, <2>2
<1>6. ToSet(a) \subseteq {Head(a)} \union ToSet(b)
  BY <1>5 DEF ToSet
<1>7. QED
  BY <1>1, <1>4, <1>6 DEF b

\* What startWebRTC adds to what is sent.
LEMMA SendersAfter ==
  ASSUME TracksAreTyped, senders # <<>>,
         senders' = IF Unsent # <<>> /\ Head(senders) = 0 THEN Unsent \o Tail(senders)
                    ELSE senders \o Unsent
  PROVE  /\ senders' \in Seq(Nat) /\ senders' # <<>>
         /\ ToSet(senders') \subseteq ToSet(senders) \union ToSet(stream)
         /\ ToSet(senders) \subseteq ToSet(senders') \union {0}
         /\ ToSet(Unsent) \subseteq ToSet(senders')
<1>1. senders \in Seq(Nat)
  BY DEF TracksAreTyped
<1>2. Unsent \in Seq(Nat) /\ ToSet(Unsent) \subseteq ToSet(stream)
  BY UnsentIs
<1> DEFINE u == Unsent
<1>3. u \in Seq(Nat) /\ ToSet(u) \subseteq ToSet(stream)
  BY <1>2
<1> HIDE DEF u
<1>4. CASE u # <<>> /\ Head(senders) = 0
  <2>1. Tail(senders) \in Seq(Nat) /\ ToSet(Tail(senders)) \subseteq ToSet(senders)
        /\ ToSet(senders) \subseteq {0} \union ToSet(Tail(senders))
    BY <1>1, <1>4, TailIs
  <2>2. /\ u \o Tail(senders) \in Seq(Nat) /\ u \o Tail(senders) # <<>>
        /\ ToSet(u \o Tail(senders)) = ToSet(u) \union ToSet(Tail(senders))
    BY <1>3, <1>4, <2>1, ConcatIs
  <2>3. senders' = u \o Tail(senders)
    BY <1>4 DEF u
  <2>4. QED
    BY <1>3, <2>1, <2>2, <2>3 DEF u
<1>5. CASE ~(u # <<>> /\ Head(senders) = 0)
  <2>1. /\ senders \o u \in Seq(Nat) /\ senders \o u # <<>>
        /\ ToSet(senders \o u) = ToSet(senders) \union ToSet(u)
    BY <1>1, <1>3, ConcatIs
  <2>2. senders' = senders \o u
    BY <1>5 DEF u
  <2>3. QED
    BY <1>3, <2>1, <2>2 DEF u
<1>6. QED
  BY <1>4, <1>5

LEMMA SendTrackKeeps ==
  ASSUME MutedInv, SendTrack
  PROVE  MutedInv'
<1>1. /\ LinkIsTyped /\ TracksAreTyped /\ CallsAreTyped /\ ButtonIsTyped
      /\ LinkIsRight /\ CallsAreRight
      /\ OnIsShown /\ SentIsHeld /\ StaleAreOut /\ AdoptedIsHeld /\ NoCallYet
  BY DEF MutedInv
<1>2. /\ link = "ready" /\ link' = "up"
      /\ told' = (stream # <<>> /\ tracks[Head(stream)].on)
      /\ senders' = IF Unsent # <<>> /\ Head(senders) = 0 THEN Unsent \o Tail(senders)
                    ELSE senders \o Unsent
      /\ UNCHANGED <<epoch, setups, tracks, stream, pressed, usable, talking, switches,
                     refusals, wasOn, crossed>>
  BY DEF SendTrack, TellFor, Open
<1>3. senders # <<>>
  BY <1>1, <1>2 DEF LinkIsRight
<1>4. /\ senders' \in Seq(Nat) /\ senders' # <<>>
      /\ ToSet(senders') \subseteq ToSet(senders) \union ToSet(stream)
  BY <1>1, <1>2, <1>3, SendersAfter
<1>5. Captured' = Captured /\ Mic' = Mic /\ ToSet(stream') = ToSet(stream)
  BY <1>2 DEF Captured, Mic
<1>6. LinkIsTyped' /\ LinkIsRight' /\ CallsAreTyped'
  BY <1>1, <1>2, <1>4 DEF LinkIsTyped, LinkIsRight, CallsAreTyped
<1>7. TracksAreTyped'
  BY <1>1, <1>2, <1>4, <1>5 DEF TracksAreTyped
<1>8. ButtonIsTyped'
  <2>1. told' \in BOOLEAN
    <3>1. stream # <<>> => Head(stream) \in Captured
      <4>1. stream # <<>> => Head(stream) = stream[1] /\ 1 \in DOMAIN stream
        BY <1>1 DEF TracksAreTyped
      <4>2. QED
        BY <1>1, <4>1 DEF TracksAreTyped, ToSet
    <3>2. stream # <<>> => tracks[Head(stream)].on \in BOOLEAN
      BY <1>1, <3>1, CapturedIs DEF TracksAreTyped
    <3>3. QED
      BY <1>2, <3>2
  <2>2. QED
    BY <1>1, <1>2, <2>1 DEF ButtonIsTyped
<1>9. CallsAreRight'
  BY <1>1, <1>2, <1>5, MoreCaptured
<1>10. \A s \in DOMAIN switches : Current(s)' = Current(s)
  BY <1>2 DEF Current
<1>11. \A t : Exempt(t)' = Exempt(t) /\ Swapped(t)' = Swapped(t)
  BY <1>2 DEF Exempt, Swapped
<1>12. OnIsShown'
  BY <1>1, <1>2, <1>5, <1>11 DEF OnIsShown
<1>13. SentIsHeld'
  BY <1>1, <1>2, <1>4, <1>5, <1>11 DEF SentIsHeld
<1>14. StaleAreOut'
  BY <1>1, <1>2, <1>4, <1>5, <1>10 DEF StaleAreOut
<1>15. AdoptedIsHeld'
  BY <1>1, <1>2, <1>5, <1>10 DEF AdoptedIsHeld
<1>16. NoCallYet'
  BY <1>2 DEF NoCallYet
<1>17. QED
  BY <1>16, <1>6, <1>7, <1>8, <1>9, <1>12, <1>13, <1>14, <1>15 DEF MutedInv

LEMMA ResetConnectionKeeps ==
  ASSUME MutedInv, ResetConnection
  PROVE  MutedInv'
<1>1. /\ LinkIsTyped /\ TracksAreTyped /\ CallsAreTyped /\ ButtonIsTyped /\ CallsAreRight
  BY DEF MutedInv
<1>2. /\ link' = "down"
      /\ tracks' = [t \in Captured |-> IF Contains(stream, t)
                                         THEN [tracks[t] EXCEPT !.live = FALSE] ELSE tracks[t]]
      /\ stream' = <<>> /\ senders' = <<>>
      /\ usable' = (<<>> # <<>>) /\ pressed' = (<<>> # <<>> /\ tracks[Head(<<>>)].on)
      /\ crossed' = (crossed \/ ~Idle)
      /\ UNCHANGED <<epoch, setups, told, talking, switches, refusals, wasOn>>
  BY DEF ResetConnection, ShowFor
<1>3. pressed' = FALSE /\ usable' = FALSE
  BY <1>2
<1>4. \A t \in Captured : tracks[t] \in MicTracks /\ [tracks[t] EXCEPT !.live = FALSE] \in MicTracks
  <2>1. \A t \in Captured : tracks[t] \in MicTracks
    BY <1>1, CapturedIs DEF TracksAreTyped
  <2>2. \A x \in MicTracks : [x EXCEPT !.live = FALSE] \in MicTracks
    BY DEF MicTracks
  <2>3. QED
    BY <2>1, <2>2
<1>5. tracks' \in Seq(MicTracks) /\ Captured' = Captured
  <2> DEFINE F(t) == IF Contains(stream, t) THEN [tracks[t] EXCEPT !.live = FALSE] ELSE tracks[t]
  <2>1. \A t \in Captured : F(t) \in MicTracks
    BY <1>4
  <2>2. tracks' = [t \in Captured |-> F(t)]
    BY <1>2
  <2>3. tracks \in Seq(MicTracks)
    BY <1>1 DEF TracksAreTyped
  <2>4. Captured = 1 .. Len(tracks) /\ Len(tracks) \in Nat
    BY <2>3, CapturedIs
  <2> HIDE DEF F
  <2>5. tracks' \in [1 .. Len(tracks) -> MicTracks]
    BY <2>1, <2>2, <2>4
  <2>6. tracks' \in Seq(MicTracks) /\ Len(tracks') = Len(tracks)
    BY <2>4, <2>5, FunctionIsSeq
  <2>7. QED
    BY <2>4, <2>6 DEF Captured
<1>6. ToSet(stream') = {} /\ ToSet(senders') = {}
  BY <1>2 DEF ToSet
<1>7. TracksAreTyped'
  <2>1. stream' \in Seq(Nat) /\ senders' \in Seq(Nat)
    BY <1>2
  <2>2. QED
    BY <1>5, <1>6, <2>1 DEF TracksAreTyped
<1>8. LinkIsTyped' /\ CallsAreTyped' /\ LinkIsRight'
  BY <1>1, <1>2 DEF LinkIsTyped, CallsAreTyped, LinkIsRight
<1>9. ButtonIsTyped'
  <2>1. crossed' \in BOOLEAN
    BY <1>2
  <2>2. QED
    BY <1>1, <1>2, <1>3, <2>1 DEF ButtonIsTyped
<1>10. CallsAreRight'
  BY <1>1, <1>2, <1>5, MoreCaptured
<1>11. \A s \in DOMAIN switches : ~Current(s)'
  BY <1>2 DEF Current
<1>12. OnIsShown' /\ SentIsHeld' /\ StaleAreOut' /\ AdoptedIsHeld' /\ NoCallYet'
  BY <1>2, <1>6, <1>11 DEF OnIsShown, SentIsHeld, StaleAreOut, AdoptedIsHeld, NoCallYet
<1>13. QED
  BY <1>7, <1>8, <1>9, <1>10, <1>12 DEF MutedInv

LEMMA ToggledKeeps ==
  ASSUME MutedInv, Toggled, talking' \in BOOLEAN, wasOn' \in BOOLEAN,
         UNCHANGED <<link, epoch, setups, stream, senders, switches, crossed>>
  PROVE  MutedInv'
<1>1. /\ LinkIsTyped /\ TracksAreTyped /\ CallsAreTyped /\ ButtonIsTyped
      /\ LinkIsRight /\ CallsAreRight
      /\ OnIsShown /\ SentIsHeld /\ StaleAreOut /\ AdoptedIsHeld /\ NoCallYet
  BY DEF MutedInv
<1>2. CASE ~usable \/ stream = <<>>
  <2>1. UNCHANGED <<tracks, pressed, usable, told>>
    BY <1>2 DEF Toggled
  <2>2. LinkIsTyped' /\ LinkIsRight'
    BY <1>1, <2>1 DEF LinkIsTyped, LinkIsRight
  <2>3. ButtonIsTyped'
    BY <1>1, <2>1 DEF ButtonIsTyped
  <2>4. QED
    BY <2>1, <2>2, <2>3, TracksStay
<1>3. CASE ~(~usable \/ stream = <<>>)
  <2>1. /\ stream # <<>> /\ tracks' = [tracks EXCEPT ![Mic].on = ~@]
        /\ usable' = (stream # <<>>)
        /\ pressed' = (stream # <<>> /\ tracks'[Head(stream)].on)
        /\ told' = IF Open THEN stream # <<>> /\ tracks'[Head(stream)].on ELSE told
    BY <1>3 DEF Toggled, ShowFor, TellFor
  <2>2. Mic = Head(stream) /\ Mic \in ToSet(stream)
    <3>1. stream \in Seq(Nat)
      BY <1>1 DEF TracksAreTyped
    <3>2. QED
      BY <2>1, <3>1, MicIs DEF Mic
  <2>3. Mic \in Captured /\ tracks[Mic] \in MicTracks
    BY <1>1, <2>2, CapturedIs DEF TracksAreTyped
  <2> DEFINE x == [tracks[Mic] EXCEPT !.on = ~tracks[Mic].on]
  <2>4. tracks' = [tracks EXCEPT ![Mic] = x]
    BY <2>1
  <2>5. x \in MicTracks /\ x.live = tracks[Mic].live /\ x.on \in BOOLEAN
    BY <2>3 DEF MicTracks
  <2> HIDE DEF x
  <2>6. /\ tracks' \in Seq(MicTracks) /\ Captured' = Captured /\ tracks'[Mic] = x
        /\ \A t \in Captured : t # Mic => tracks'[t] = tracks[t]
    BY <1>1, <2>3, <2>4, <2>5 DEF TracksAreTyped, Captured
  <2>7. \A t \in Captured : tracks'[t].live = tracks[t].live
    BY <2>5, <2>6
  <2>8. pressed' = x.on
    <3>1. tracks'[Head(stream)].on = x.on
      BY <2>2, <2>6
    <3>2. QED
      BY <2>1, <2>5, <3>1
  <2>9. Mic' = Mic /\ ToSet(stream') = ToSet(stream) /\ ToSet(senders') = ToSet(senders)
    BY DEF Mic
  <2>10. LinkIsTyped' /\ LinkIsRight' /\ CallsAreTyped'
    BY <1>1 DEF LinkIsTyped, LinkIsRight, CallsAreTyped
  <2>11. TracksAreTyped'
    BY <1>1, <2>6, <2>9 DEF TracksAreTyped
  <2>12. ButtonIsTyped'
    <3>1. pressed' \in BOOLEAN /\ usable' \in BOOLEAN
      BY <2>1, <2>5, <2>8
    <3>2. told' \in {x.on, told}
      <4>1. tracks'[Head(stream)].on = x.on
        BY <2>2, <2>6
      <4>2. CASE Open
        BY <2>1, <2>5, <4>1, <4>2
      <4>3. CASE ~Open
        BY <2>1, <4>3
      <4>4. QED
        BY <4>2, <4>3
    <3>3. told' \in BOOLEAN
      BY <1>1, <2>5, <3>2 DEF ButtonIsTyped
    <3>4. QED
      BY <1>1, <3>1, <3>3 DEF ButtonIsTyped
  <2>13. CallsAreRight'
    BY <1>1, <2>6, MoreCaptured
  <2>14. \A s \in DOMAIN switches : Current(s)' = Current(s)
    BY DEF Current
  <2>15. \A t : Exempt(t)' = Exempt(t) /\ Swapped(t)' = Swapped(t)
    BY DEF Exempt, Swapped
  <2>16. OnIsShown'
    <3>1. SUFFICES ASSUME NEW t \in ToSet(stream), tracks'[t].on
                   PROVE  t = Mic /\ (pressed' \/ Exempt(t))
      BY <2>9, <2>15 DEF OnIsShown
    <3>2. CASE t = Mic
      BY <2>6, <2>8, <3>1, <3>2
    <3>3. CASE t # Mic
      <4>1. t \in Captured
        BY <1>1 DEF TracksAreTyped
      <4>2. tracks[t].on
        BY <2>6, <3>1, <3>3, <4>1
      <4>3. QED
        BY <1>1, <3>3, <4>2 DEF OnIsShown
    <3>4. QED
      BY <3>2, <3>3
  <2>17. SentIsHeld'
    <3>1. SUFFICES ASSUME NEW t \in ToSet(senders), t # 0, tracks'[t].live
                   PROVE  t \in ToSet(stream) \/ Swapped(t)
      BY <2>9, <2>15 DEF SentIsHeld
    <3>2. t \in Captured
      BY <1>1, <3>1 DEF TracksAreTyped
    <3>3. QED
      BY <1>1, <2>7, <3>1, <3>2 DEF SentIsHeld
  <2>18. StaleAreOut'
    BY <1>1, <2>9, <2>14 DEF StaleAreOut
  <2>19. AdoptedIsHeld'
    <3>1. SUFFICES ASSUME NEW s \in DOMAIN switches,
                          switches[s].pc \in {"adopting", "negotiating"}, Current(s)
                   PROVE  switches[s].next \in ToSet(stream) \/ ~tracks'[switches[s].next].live
      BY <2>9, <2>14 DEF AdoptedIsHeld
    <3>2. switches[s].next \in Captured
      BY <1>1, <3>1 DEF CallsAreRight, CallIsRight
    <3>3. QED
      BY <1>1, <2>7, <3>1, <3>2 DEF AdoptedIsHeld
  <2>20. NoCallYet'
    BY <1>1, <2>14 DEF NoCallYet
  <2>21. QED
    BY <2>20, <2>10, <2>11, <2>12, <2>13, <2>16, <2>17, <2>18, <2>19 DEF MutedInv
<1>4. QED
  BY <1>2, <1>3

LEMMA ButtonKeeps ==
  ASSUME MutedInv, Click \/ SpaceDown \/ SpaceUp
  PROVE  MutedInv'
<1>1. talking \in BOOLEAN
  BY DEF MutedInv, ButtonIsTyped
<1>2. CASE Click
  BY <1>1, <1>2, ToggledKeeps DEF Click
<1>3. CASE SpaceDown
  BY <1>3, ToggledKeeps DEF SpaceDown
<1>4. CASE SpaceUp
  BY <1>4, ToggledKeeps DEF SpaceUp
<1>5. QED
  BY <1>2, <1>3, <1>4

\* A call is appended: it has no track yet.
LEMMA CallAppended ==
  ASSUME CallsAreTyped, NEW c \in MicCalls, switches' = Append(switches, c)
  PROVE  /\ CallsAreTyped'
         /\ \A s \in DOMAIN switches : s \in DOMAIN switches' /\ switches'[s] = switches[s]
         /\ \A s \in DOMAIN switches' : s \in DOMAIN switches \/ switches'[s] = c
         /\ \A s, r \in DOMAIN switches' : s \in DOMAIN switches \/ r \in DOMAIN switches \/ s = r
<1>1. switches \in Seq(MicCalls)
  BY DEF CallsAreTyped
<1>2. /\ switches' \in Seq(MicCalls) /\ Len(switches') = Len(switches) + 1 /\ Len(switches) \in Nat
      /\ DOMAIN switches = 1 .. Len(switches) /\ DOMAIN switches' = 1 .. Len(switches) + 1
      /\ \A s \in 1 .. Len(switches) : switches'[s] = switches[s]
      /\ switches'[Len(switches) + 1] = c
  BY <1>1
<1>3. \A s \in 1 .. Len(switches) + 1 : s \in 1 .. Len(switches) \/ s = Len(switches) + 1
  BY <1>2
<1>4. 1 .. Len(switches) \subseteq 1 .. Len(switches) + 1
  BY <1>2
<1>5. QED
  BY <1>2, <1>3, <1>4 DEF CallsAreTyped

LEMMA SelectDeviceKeeps ==
  ASSUME MutedInv, SelectDevice
  PROVE  MutedInv'
<1>1. /\ LinkIsTyped /\ TracksAreTyped /\ CallsAreTyped /\ ButtonIsTyped
      /\ LinkIsRight /\ CallsAreRight
      /\ OnIsShown /\ SentIsHeld /\ StaleAreOut /\ AdoptedIsHeld /\ NoCallYet
  BY DEF MutedInv
<1> DEFINE c == [pc |-> "asking", epoch |-> epoch, next |-> 0, prev |-> 0]
<1>2. /\ switches' = Append(switches, c) /\ crossed' = (crossed \/ ~Idle)
      /\ link \in {"ready", "up", "cut"}
      /\ UNCHANGED <<link, epoch, setups, tracks, stream, senders, pressed, usable, told,
                     talking, refusals, wasOn>>
  BY DEF SelectDevice
<1>3. c \in MicCalls /\ c.pc = "asking" /\ c.next = 0 /\ c.prev = 0 /\ c.epoch = epoch
  BY <1>1 DEF MicCalls, LinkIsTyped
<1> HIDE DEF c
<1>4. /\ CallsAreTyped'
      /\ \A s \in DOMAIN switches : s \in DOMAIN switches' /\ switches'[s] = switches[s]
      /\ \A s \in DOMAIN switches' : s \in DOMAIN switches \/ switches'[s] = c
      /\ \A s, r \in DOMAIN switches' : s \in DOMAIN switches \/ r \in DOMAIN switches \/ s = r
  BY <1>1, <1>2, <1>3, CallAppended
<1>5. Captured' = Captured /\ Mic' = Mic /\ ToSet(stream') = ToSet(stream)
      /\ ToSet(senders') = ToSet(senders)
  BY <1>2 DEF Captured, Mic
<1>6. LinkIsTyped' /\ LinkIsRight' /\ TracksAreTyped'
  BY <1>1, <1>2, <1>5 DEF LinkIsTyped, LinkIsRight, TracksAreTyped
<1>7. ButtonIsTyped'
  <2>1. crossed' \in BOOLEAN
    BY <1>2
  <2>2. QED
    BY <1>1, <1>2, <2>1 DEF ButtonIsTyped
<1>8. CallsAreRight'
  <2>1. ASSUME NEW s \in DOMAIN switches'
        PROVE  CallIsRight(s)'
    <3>1. CASE s \in DOMAIN switches
      BY <1>1, <1>2, <1>4, <1>5, <3>1 DEF CallsAreRight, CallIsRight
    <3>2. CASE switches'[s] = c
      <4>1. epoch \in Nat
        BY <1>1 DEF LinkIsTyped
      <4>2. QED
        BY <1>2, <1>3, <3>2, <4>1 DEF CallIsRight
    <3>3. QED
      BY <1>4, <3>1, <3>2
  <2>2. ASSUME NEW s \in DOMAIN switches', NEW r \in DOMAIN switches',
               switches'[s].next = switches'[r].next
        PROVE  s = r \/ switches'[s].next = 0
    <3>1. CASE s \in DOMAIN switches /\ r \in DOMAIN switches
      BY <1>1, <1>4, <2>2, <3>1 DEF CallsAreRight
    <3>2. CASE switches'[s] = c
      BY <1>3, <3>2
    <3>3. CASE switches'[r] = c
      BY <1>3, <2>2, <3>3
    <3>4. QED
      BY <1>4, <3>1, <3>2, <3>3
  <2>3. QED
    BY <2>1, <2>2 DEF CallsAreRight
<1>9. \A t : Exempt(t) => Exempt(t)'
  BY <1>4 DEF Exempt
<1>10. \A t : Swapped(t) => Swapped(t)'
  BY <1>4 DEF Swapped
<1>11. \A s \in DOMAIN switches : Current(s)' = Current(s)
  BY <1>2, <1>4 DEF Current
<1>12. OnIsShown' /\ SentIsHeld'
  BY <1>1, <1>2, <1>5, <1>9, <1>10 DEF OnIsShown, SentIsHeld
<1>13. StaleAreOut'
  BY <1>1, <1>3, <1>4, <1>5, <1>11 DEF StaleAreOut
<1>14. AdoptedIsHeld'
  BY <1>1, <1>2, <1>3, <1>4, <1>5, <1>11 DEF AdoptedIsHeld
<1>15. NoCallYet'
  BY <1>2 DEF NoCallYet
<1>16. QED
  BY <1>15, <1>4, <1>6, <1>7, <1>8, <1>12, <1>13, <1>14 DEF MutedInv

\* A call that ends without its track, or whose connection is gone.
LEMMA CallEnds ==
  ASSUME MutedInv, NEW s \in DOMAIN switches,
         ~Current(s) \/ switches[s].next = 0,
         switches' = [switches EXCEPT ![s].pc = "done"],
         UNCHANGED <<link, epoch, setups, tracks, stream, senders, pressed, usable, told,
                     talking, wasOn, crossed>>
  PROVE  MutedInv'
<1>1. /\ LinkIsTyped /\ TracksAreTyped /\ CallsAreTyped /\ ButtonIsTyped
      /\ LinkIsRight /\ CallsAreRight
      /\ OnIsShown /\ SentIsHeld /\ StaleAreOut /\ AdoptedIsHeld /\ NoCallYet
  BY DEF MutedInv
<1>2. /\ CallsAreTyped' /\ DOMAIN switches' = DOMAIN switches
      /\ \A r \in DOMAIN switches : r # s => switches'[r] = switches[r]
      /\ switches'[s].pc = "done"
      /\ \A r \in DOMAIN switches : /\ switches'[r].epoch = switches[r].epoch
                                    /\ switches'[r].next = switches[r].next
                                    /\ switches'[r].prev = switches[r].prev
  BY <1>1, PcChanges
<1>3. Captured' = Captured /\ Mic' = Mic /\ ToSet(stream') = ToSet(stream)
      /\ ToSet(senders') = ToSet(senders)
  BY DEF Captured, Mic
<1>4. LinkIsTyped' /\ LinkIsRight' /\ TracksAreTyped' /\ ButtonIsTyped'
  BY <1>1, <1>3 DEF LinkIsTyped, LinkIsRight, TracksAreTyped, ButtonIsTyped
<1>5. CallsAreRight'
  <2>1. \A r \in DOMAIN switches' : CallIsRight(r)'
    <3>1. ASSUME NEW r \in DOMAIN switches
          PROVE  CallIsRight(r)'
      <4>1. CallIsRight(r) /\ (r # s => switches'[r] = switches[r])
        BY <1>1, <1>2 DEF CallsAreRight
      <4>2. switches'[r].pc = switches[r].pc \/ switches'[r].pc = "done"
        BY <1>2, <4>1
      <4>3. QED
        BY <1>2, <1>3, <4>1, <4>2 DEF CallIsRight
    <3>2. QED
      BY <1>2, <3>1
  <2>2. \A r, q \in DOMAIN switches' : switches'[r].next = switches'[q].next => r = q \/ switches'[r].next = 0
    BY <1>1, <1>2 DEF CallsAreRight
  <2>3. QED
    BY <2>1, <2>2 DEF CallsAreRight
<1>6. \A r \in DOMAIN switches : Current(r)' = Current(r)
  BY <1>2 DEF Current
<1>7. ASSUME NEW t, t # 0, Exempt(t), ~Exempt(t)'
      PROVE  t = switches[s].next
  BY <1>2, <1>7 DEF Exempt
<1>8. ASSUME NEW t, t # 0, Swapped(t), ~Swapped(t)'
      PROVE  t = switches[s].next
  BY <1>2, <1>8 DEF Swapped
<1>9. switches[s].next # 0 => /\ switches[s].next \notin ToSet(stream)
                              /\ switches[s].next \notin ToSet(senders)
  BY <1>1 DEF StaleAreOut
<1>10. 0 \notin ToSet(stream)
  <2>1. 0 \notin Captured
    BY <1>1, CapturedIs DEF TracksAreTyped
  <2>2. QED
    BY <1>1, <2>1 DEF TracksAreTyped
<1>11. OnIsShown'
  BY <1>1, <1>3, <1>7, <1>9, <1>10 DEF OnIsShown
<1>12. SentIsHeld'
  BY <1>1, <1>3, <1>8, <1>9 DEF SentIsHeld
<1>13. StaleAreOut'
  BY <1>1, <1>2, <1>3, <1>6 DEF StaleAreOut
<1>14. AdoptedIsHeld'
  BY <1>1, <1>2, <1>3, <1>6 DEF AdoptedIsHeld
<1>15. NoCallYet'
  BY <1>1, <1>2, <1>6 DEF NoCallYet
<1>16. QED
  BY <1>2, <1>4, <1>5, <1>11, <1>12, <1>13, <1>14, <1>15 DEF MutedInv

LEMMA DeviceRefusedKeeps ==
  ASSUME MutedInv, NEW s \in DOMAIN switches, DeviceRefused(s)
  PROVE  MutedInv'
<1>1. /\ switches[s].pc = "asking" /\ switches' = [switches EXCEPT ![s].pc = "done"]
      /\ UNCHANGED <<link, epoch, setups, tracks, stream, senders, pressed, usable, told,
                     talking, wasOn, crossed>>
  BY DEF DeviceRefused, End
<1>2. switches[s].next = 0
  BY <1>1 DEF MutedInv, CallsAreRight, CallIsRight
<1>3. QED
  BY <1>1, <1>2, CallEnds

\* What is in localStream when the track n has taken the place of p.
Placed(n, p) ==
  /\ tracks' \in Seq(MicTracks) /\ Captured' = Captured \union {n}
  /\ stream' \in Seq(Nat) /\ stream' # <<>>
  /\ ToSet(stream') = (ToSet(stream) \ {p}) \union {n}
  /\ Mic' = Head(stream') /\ Mic' \in ToSet(stream')
  /\ tracks'[n].live = TRUE
  /\ tracks'[n].on = (Head(stream') = n /\ (p = 0 \/ IsOn(p)))
  /\ \A t \in Captured : t # n =>
       /\ tracks'[t].on = tracks[t].on
       /\ tracks'[t].live = IF t = p THEN FALSE ELSE tracks[t].live
  /\ stream # <<>> /\ Mic # p => Mic' = Mic
  /\ ToSet(stream) \subseteq {p} => stream' = <<n>>

\* What replaceLocalDevice does to the stream when it takes the place of a track.
LEMMA PlaceTaken ==
  ASSUME TracksAreTyped, NEW next \in Captured \union {Fresh}, NEW prev \in Captured \union {0},
         next # prev, TakePlace(next, prev)
  PROVE  Placed(next, prev)
<1>1. /\ tracks \in Seq(MicTracks) /\ stream \in Seq(Nat) /\ ToSet(stream) \subseteq Captured
  BY DEF TracksAreTyped
<1>2. /\ Captured = 1 .. Len(tracks) /\ Len(tracks) \in Nat /\ Fresh = Len(tracks) + 1
      /\ 0 \notin Captured /\ \A t \in Captured : t \in Nat /\ tracks[t] \in MicTracks
  BY <1>1, CapturedIs DEF Fresh
<1> DEFINE kept == Keep(stream, Captured \ {prev})
           x == [live |-> TRUE, on |-> Head(stream') = next /\ (prev = 0 \/ IsOn(prev))]
           D == Captured \union {next}
<1>3. /\ stream' = Append(kept, next)
      /\ tracks' = [t \in D |-> IF t = next THEN x
                                ELSE IF t = prev THEN [tracks[t] EXCEPT !.live = FALSE]
                                ELSE tracks[t]]
  BY DEF TakePlace
<1>4. next \in Nat /\ next # 0
  BY <1>2
<1>5. kept \in Seq(Nat) /\ ToSet(kept) = ToSet(stream) \intersect (Captured \ {prev})
  BY <1>1, KeepPart
<1>6. ToSet(kept) = ToSet(stream) \ {prev}
  BY <1>1, <1>5
<1>7. stream # <<>> /\ stream[1] # prev => kept # <<>> /\ kept[1] = stream[1]
  <2>1. stream # <<>> => stream[1] \in ToSet(stream)
    BY <1>1 DEF ToSet
  <2>2. QED
    BY <1>1, <2>1, KeepHead
<1> HIDE DEF kept
<1>8. /\ stream' \in Seq(Nat) /\ stream' # <<>> /\ ToSet(stream') = ToSet(kept) \union {next}
      /\ Len(stream') = Len(kept) + 1 /\ stream'[Len(kept) + 1] = next
      /\ \A i \in 1 .. Len(kept) : stream'[i] = kept[i]
  <2> DEFINE st == Append(kept, next)
  <2>1. /\ st \in Seq(Nat) /\ st # <<>> /\ Len(st) = Len(kept) + 1
        /\ st[Len(kept) + 1] = next
        /\ \A i \in 1 .. Len(kept) : st[i] = kept[i]
        /\ ToSet(st) = ToSet(kept) \union {next}
    BY <1>4, <1>5, AppendAdds
  <2>2. stream' = st
    BY <1>3
  <2> HIDE DEF st
  <2>3. QED
    BY <2>1, <2>2
<1>9. Head(stream') = stream'[1] /\ Mic' = Head(stream') /\ Mic' \in ToSet(stream')
  BY <1>8 DEF Mic, ToSet
<1>10. stream # <<>> /\ Mic # prev => Mic' = Mic
  <2>1. SUFFICES ASSUME stream # <<>>, Mic # prev PROVE Mic' = Mic
    OBVIOUS
  <2>2. Mic = stream[1]
    BY <1>1, <2>1, MicIs
  <2>3. kept # <<>> /\ kept[1] = stream[1]
    BY <1>7, <2>1, <2>2
  <2>4. 1 \in 1 .. Len(kept)
    BY <1>5, <2>3
  <2>5. QED
    BY <1>8, <1>9, <2>2, <2>3, <2>4
<1>11. ToSet(stream) \subseteq {prev} => stream' = <<next>>
  <2>1. SUFFICES ASSUME ToSet(stream) \subseteq {prev} PROVE stream' = <<next>>
    OBVIOUS
  <2>2. ToSet(kept) = {}
    BY <1>6, <2>1
  <2>3. kept = <<>>
    <3>1. ASSUME kept # <<>> PROVE FALSE
      <4>1. kept[1] \in ToSet(kept)
        BY <1>5, <3>1 DEF ToSet
      <4>2. QED
        BY <2>2, <4>1
    <3>2. QED
      BY <3>1
  <2>4. QED
    BY <1>3, <2>3
<1>12. x \in MicTracks /\ x.live = TRUE
       /\ x.on = (Head(stream') = next /\ (prev = 0 \/ IsOn(prev)))
  <2>1. (Head(stream') = next /\ (prev = 0 \/ IsOn(prev))) \in BOOLEAN
    OBVIOUS
  <2>2. QED
    BY <2>1 DEF MicTracks
<1> HIDE DEF x
<1>13. \A y \in MicTracks : LET z == [y EXCEPT !.live = FALSE]
                            IN  z \in MicTracks /\ z.on = y.on /\ z.live = FALSE
  BY DEF MicTracks
<1>14. \A t \in Captured : t # next =>
         /\ tracks'[t] \in MicTracks
         /\ tracks'[t].on = tracks[t].on
         /\ tracks'[t].live = IF t = prev THEN FALSE ELSE tracks[t].live
  <2>1. ASSUME NEW t \in Captured, t # next
        PROVE  /\ tracks'[t] \in MicTracks
               /\ tracks'[t].on = tracks[t].on
               /\ tracks'[t].live = IF t = prev THEN FALSE ELSE tracks[t].live
    <3>1. tracks'[t] = IF t = prev THEN [tracks[t] EXCEPT !.live = FALSE] ELSE tracks[t]
      BY <1>3, <2>1
    <3>2. tracks[t] \in MicTracks
      BY <1>2
    <3>3. CASE t = prev
      BY <1>13, <3>1, <3>2, <3>3
    <3>4. CASE t # prev
      BY <3>1, <3>2, <3>4
    <3>5. QED
      BY <3>3, <3>4
  <2>2. QED
    BY <2>1
<1>15. tracks'[next] = x /\ DOMAIN tracks' = D
  BY <1>3
<1>16. \A t \in D : tracks'[t] \in MicTracks
  BY <1>12, <1>14, <1>15
<1>17. \E n \in Nat : D = 1 .. n
  <2>1. CASE next \in Captured
    <3>1. D = Captured
      BY <2>1
    <3>2. QED
      BY <1>2, <3>1
  <2>2. CASE next = Fresh
    <3>1. 1 .. (Len(tracks) + 1) = (1 .. Len(tracks)) \union {Len(tracks) + 1}
      BY <1>2
    <3>2. QED
      BY <1>2, <2>2, <3>1
  <2>3. QED
    BY <2>1, <2>2
<1>18. tracks' \in [D -> MicTracks]
  BY <1>3, <1>16
<1> HIDE DEF D
<1>19. tracks' \in Seq(MicTracks)
  BY <1>17, <1>18, FunctionIsSeq
<1>20. Captured' = Captured \union {next}
  BY <1>15 DEF Captured, D
<1>21. QED
  BY <1>6, <1>8, <1>9, <1>10, <1>11, <1>12, <1>14, <1>15, <1>19, <1>20 DEF Placed

\* The capture answers: the call has a new track, which no other call has.
LEMMA CallHasTrack ==
  ASSUME LinkIsTyped, CallsAreTyped, CallsAreRight, tracks \in Seq(MicTracks),
         NEW s \in DOMAIN switches, switches[s].pc = "asking",
         NEW c \in MicCalls, c.next = Fresh, c.prev \in Captured \union {0}, c.epoch = epoch,
         c.pc \in {"replacing", "adopting"},
         switches' = [switches EXCEPT ![s] = c], epoch' = epoch,
         Captured' = Captured \union {Fresh}
  PROVE  /\ CallsAreTyped' /\ CallsAreRight' /\ DOMAIN switches' = DOMAIN switches
         /\ switches'[s] = c /\ \A r \in DOMAIN switches : r # s => switches'[r] = switches[r]
         /\ \A t \in Captured : /\ Exempt(t) => Exempt(t)'
                                /\ Swapped(t) => Swapped(t)'
<1>1. /\ CallsAreTyped' /\ DOMAIN switches' = DOMAIN switches
      /\ switches'[s] = c /\ \A r \in DOMAIN switches : r # s => switches'[r] = switches[r]
  BY DEF CallsAreTyped
<1>2. 0 \notin Captured /\ Fresh \notin Captured /\ Fresh # 0 /\ epoch \in Nat
  BY CapturedIs DEF LinkIsTyped
<1>3. switches[s].next = 0
  BY DEF CallsAreRight, CallIsRight
<1>4. ASSUME NEW r \in DOMAIN switches
      PROVE  CallIsRight(r)'
  <2>1. CASE r = s
    <3>1. /\ switches'[r].next = Fresh /\ switches'[r].prev \in Captured \union {0}
          /\ switches'[r].epoch = epoch /\ switches'[r].pc \notin {"asking"}
      BY <1>1, <2>1
    <3>2. Fresh # switches'[r].prev
      BY <1>2, <3>1
    <3>3. QED
      BY <1>2, <3>1, <3>2 DEF CallIsRight
  <2>2. CASE r # s
    <3>1. CallIsRight(r) /\ switches'[r] = switches[r]
      BY <1>1, <2>2 DEF CallsAreRight
    <3>2. QED
      BY <3>1 DEF CallIsRight
  <2>3. QED
    BY <2>1, <2>2
<1>5. ASSUME NEW r \in DOMAIN switches, NEW q \in DOMAIN switches,
             switches'[r].next = switches'[q].next
      PROVE  r = q \/ switches'[r].next = 0
  <2>1. \A p \in DOMAIN switches : switches[p].next # Fresh
    BY <1>2 DEF CallsAreRight, CallIsRight
  <2>2. CASE r # s /\ q # s
    BY <1>1, <1>5, <2>2 DEF CallsAreRight
  <2>3. CASE r = s \/ q = s
    BY <1>1, <1>5, <2>1, <2>3
  <2>4. QED
    BY <2>2, <2>3
<1>6. CallsAreRight'
  BY <1>1, <1>4, <1>5 DEF CallsAreRight
<1>7. ASSUME NEW t \in Captured
      PROVE  (Exempt(t) => Exempt(t)') /\ (Swapped(t) => Swapped(t)')
  <2>1. \A r \in DOMAIN switches : switches[r].next = t => switches'[r] = switches[r]
    BY <1>1, <1>2, <1>3
  <2>2. QED
    BY <1>1, <2>1 DEF Exempt, Swapped
<1>8. QED
  BY <1>1, <1>6, <1>7

LEMMA DeviceOpensKeeps ==
  ASSUME MutedInv, NEW s \in DOMAIN switches, DeviceOpens(s)
  PROVE  MutedInv'
<1>1. /\ LinkIsTyped /\ TracksAreTyped /\ CallsAreTyped /\ ButtonIsTyped
      /\ LinkIsRight /\ CallsAreRight
      /\ OnIsShown /\ SentIsHeld /\ StaleAreOut /\ AdoptedIsHeld /\ NoCallYet
  BY DEF MutedInv
<1> DEFINE call(x) == [pc |-> x, epoch |-> epoch, next |-> Fresh, prev |-> Mic]
           sends == \E i \in DOMAIN senders : senders[i] # 0
<1>2. /\ switches[s].pc = "asking"
      /\ IF ~Current(s) THEN End(s) /\ UNCHANGED <<tracks, stream, pressed, usable, told>>
         ELSE IF sends
           THEN /\ tracks' = Append(tracks, [live |-> TRUE, on |-> TRUE])
                /\ switches' = [switches EXCEPT ![s] = call("replacing")]
                /\ UNCHANGED <<stream, pressed, usable, told>>
           ELSE /\ TakePlace(Fresh, Mic)
                /\ switches' = [switches EXCEPT ![s] = call("adopting")]
                /\ UNCHANGED <<pressed, usable, told>>
      /\ UNCHANGED <<link, epoch, setups, senders, talking, refusals, wasOn, crossed>>
  BY DEF DeviceOpens
<1>3. switches[s].next = 0
  BY <1>1, <1>2 DEF CallsAreRight, CallIsRight
<1>4. CASE ~Current(s)
  BY <1>2, <1>3, <1>4, CallEnds DEF End
<1>5. /\ tracks \in Seq(MicTracks) /\ stream \in Seq(Nat)
      /\ ToSet(stream) \subseteq Captured /\ ToSet(senders) \subseteq Captured \union {0}
      /\ Mic \in Captured \union {0} /\ Mic \in Nat
  <2>1. /\ tracks \in Seq(MicTracks) /\ stream \in Seq(Nat)
        /\ ToSet(stream) \subseteq Captured /\ ToSet(senders) \subseteq Captured \union {0}
    BY <1>1 DEF TracksAreTyped
  <2>2. Mic = 0 \/ Mic \in ToSet(stream)
    BY <2>1, MicIs
  <2>3. QED
    BY <2>1, <2>2, CapturedIs
<1>6. /\ 0 \notin Captured /\ Fresh \notin Captured /\ Fresh # 0 /\ Fresh \in Nat
      /\ epoch \in Nat /\ \A t \in Captured : tracks[t].on \in BOOLEAN /\ tracks[t].live \in BOOLEAN
  BY <1>1, <1>5, CapturedIs DEF LinkIsTyped
<1>7. ASSUME NEW x \in {"replacing", "adopting"}
      PROVE  /\ call(x) \in MicCalls /\ call(x).next = Fresh /\ call(x).prev \in Captured \union {0}
             /\ call(x).epoch = epoch /\ call(x).pc = x
  BY <1>5, <1>6 DEF MicCalls
<1> HIDE DEF call
<1>8. \A r \in DOMAIN switches : switches[r].next \in Captured \union {0}
  BY <1>1 DEF CallsAreRight, CallIsRight
<1>9. LinkIsTyped' /\ ButtonIsTyped' /\ (Current(s) => LinkIsRight')
  <2>1. UNCHANGED <<pressed, usable, told>>
    BY <1>2 DEF End
  <2>2. LinkIsTyped' /\ ButtonIsTyped'
    BY <1>1, <1>2, <2>1 DEF LinkIsTyped, ButtonIsTyped
  <2>3. ASSUME Current(s) PROVE LinkIsRight'
    <3>1. link \notin {"asking", "lost", "down"}
      BY <1>1, <2>3 DEF NoCallYet, Current
    <3>2. QED
      BY <1>1, <1>2, <3>1 DEF LinkIsRight
  <2>4. QED
    BY <2>2, <2>3
<1>10. CASE Current(s) /\ sends
  <2>1. /\ tracks' = Append(tracks, [live |-> TRUE, on |-> TRUE])
        /\ switches' = [switches EXCEPT ![s] = call("replacing")]
        /\ UNCHANGED <<stream, senders, pressed, link, epoch>>
    BY <1>2, <1>10
  <2>2. [live |-> TRUE, on |-> TRUE] \in MicTracks
    BY DEF MicTracks
  <2>3. /\ tracks' \in Seq(MicTracks) /\ Captured' = Captured \union {Fresh}
        /\ \A t \in Captured : tracks'[t] = tracks[t]
    BY <1>5, <2>1, <2>2, TrackAppended
  <2>4. /\ CallsAreTyped' /\ CallsAreRight' /\ DOMAIN switches' = DOMAIN switches
        /\ switches'[s] = call("replacing")
        /\ \A r \in DOMAIN switches : r # s => switches'[r] = switches[r]
        /\ \A t \in Captured : (Exempt(t) => Exempt(t)') /\ (Swapped(t) => Swapped(t)')
    BY <1>1, <1>2, <1>5, <1>7, <2>1, <2>3, CallHasTrack
  <2>5. Mic' = Mic /\ ToSet(stream') = ToSet(stream) /\ ToSet(senders') = ToSet(senders)
    BY <2>1 DEF Mic
  <2>6. TracksAreTyped'
    BY <1>1, <2>1, <2>3, <2>5 DEF TracksAreTyped
  <2>7. OnIsShown'
    BY <1>1, <1>5, <2>1, <2>3, <2>4, <2>5 DEF OnIsShown
  <2>8. SentIsHeld'
    BY <1>1, <1>5, <2>3, <2>4, <2>5 DEF SentIsHeld
  <2>9. \A r \in DOMAIN switches : Current(r)' = Current(r)
    <3>1. switches'[s].epoch = epoch
      BY <1>7, <2>4
    <3>2. switches[s].epoch = epoch
      BY <1>10 DEF Current
    <3>3. \A r \in DOMAIN switches : switches'[r].epoch = switches[r].epoch
      BY <2>4, <3>1, <3>2
    <3>4. QED
      BY <2>1, <3>3 DEF Current
  <2>10. StaleAreOut'
    BY <1>1, <1>10, <2>4, <2>5, <2>9 DEF StaleAreOut
  <2>11. AdoptedIsHeld'
    <3>1. SUFFICES ASSUME NEW r \in DOMAIN switches,
                          switches'[r].pc \in {"adopting", "negotiating"}, Current(r)
                   PROVE  switches'[r].next \in ToSet(stream) \/ ~tracks'[switches'[r].next].live
      BY <2>4, <2>5, <2>9 DEF AdoptedIsHeld
    <3>2. r # s /\ switches'[r] = switches[r]
      BY <1>7, <2>4, <3>1
    <3>3. switches[r].next \in Captured
      BY <1>1, <3>1, <3>2 DEF CallsAreRight, CallIsRight
    <3>4. QED
      BY <1>1, <2>3, <3>1, <3>2, <3>3 DEF AdoptedIsHeld
  <2>12. NoCallYet'
    BY <1>1, <2>1, <2>4, <2>9 DEF NoCallYet
  <2>13. QED
    BY <1>9, <1>10, <2>4, <2>6, <2>7, <2>8, <2>10, <2>11, <2>12 DEF MutedInv
<1>11. CASE Current(s) /\ ~sends
  <2>1. /\ TakePlace(Fresh, Mic)
        /\ switches' = [switches EXCEPT ![s] = call("adopting")]
        /\ UNCHANGED <<senders, pressed, link, epoch>>
    BY <1>2, <1>11
  <2>2. Fresh # Mic
    BY <1>5, <1>6
  <2>3. /\ tracks' \in Seq(MicTracks) /\ Captured' = Captured \union {Fresh}
        /\ stream' \in Seq(Nat) /\ stream' # <<>>
        /\ ToSet(stream') = (ToSet(stream) \ {Mic}) \union {Fresh}
        /\ Mic' = Head(stream') /\ Mic' \in ToSet(stream')
        /\ tracks'[Fresh].live = TRUE
        /\ tracks'[Fresh].on = (Head(stream') = Fresh /\ (Mic = 0 \/ IsOn(Mic)))
        /\ \A t \in Captured : t # Fresh =>
             /\ tracks'[t].on = tracks[t].on
             /\ tracks'[t].live = IF t = Mic THEN FALSE ELSE tracks[t].live
    <3>1. Placed(Fresh, Mic)
      BY <1>1, <1>5, <2>1, <2>2, PlaceTaken
    <3>2. QED
      BY <3>1 DEF Placed
  <2>4. /\ CallsAreTyped' /\ CallsAreRight' /\ DOMAIN switches' = DOMAIN switches
        /\ switches'[s] = call("adopting")
        /\ \A r \in DOMAIN switches : r # s => switches'[r] = switches[r]
        /\ \A t \in Captured : (Exempt(t) => Exempt(t)') /\ (Swapped(t) => Swapped(t)')
    BY <1>1, <1>2, <1>5, <1>7, <2>1, <2>3, CallHasTrack
  <2>5. ToSet(senders') = ToSet(senders) /\ ToSet(senders) \subseteq {0}
    BY <1>11, <2>1 DEF ToSet
  <2>6. TracksAreTyped'
    <3>1. ToSet(stream') \subseteq Captured'
      BY <1>5, <2>3
    <3>2. ToSet(senders') \subseteq Captured' \union {0}
      BY <2>5
    <3>3. senders' \in Seq(Nat)
      BY <1>1, <2>1 DEF TracksAreTyped
    <3>4. QED
      BY <2>3, <3>1, <3>2, <3>3 DEF TracksAreTyped
  <2>7. OnIsShown'
    <3>1. SUFFICES ASSUME NEW t \in ToSet(stream'), tracks'[t].on
                   PROVE  t = Mic' /\ (pressed' \/ Exempt(t)')
      BY DEF OnIsShown
    <3>2. CASE t = Fresh
      <4>1. Head(stream') = Fresh
        BY <2>3, <3>1, <3>2
      <4>2. Exempt(t)'
        BY <1>7, <2>4, <3>2 DEF Exempt
      <4>3. QED
        BY <2>3, <3>2, <4>1, <4>2
    <3>3. CASE t # Fresh
      <4>1. t \in ToSet(stream) /\ t # Mic /\ t \in Captured
        BY <1>5, <2>3, <3>3
      <4>2. tracks[t].on
        BY <2>3, <3>1, <3>3, <4>1
      <4>3. QED
        BY <1>1, <4>1, <4>2 DEF OnIsShown
    <3>4. QED
      BY <3>2, <3>3
  <2>8. SentIsHeld'
    BY <2>5 DEF SentIsHeld
  <2>9. \A r \in DOMAIN switches : Current(r)' = Current(r)
    <3>1. switches'[s].epoch = epoch
      BY <1>7, <2>4
    <3>2. switches[s].epoch = epoch
      BY <1>11 DEF Current
    <3>3. \A r \in DOMAIN switches : switches'[r].epoch = switches[r].epoch
      BY <2>4, <3>1, <3>2
    <3>4. QED
      BY <2>1, <3>3 DEF Current
  <2>10. StaleAreOut'
    <3>1. SUFFICES ASSUME NEW r \in DOMAIN switches, ~Current(r), switches'[r].next # 0
                   PROVE  /\ switches'[r].next \notin ToSet(stream')
                          /\ switches'[r].next \notin ToSet(senders)
      BY <2>4, <2>5, <2>9 DEF StaleAreOut
    <3>2. r # s /\ switches'[r] = switches[r]
      BY <1>11, <2>4, <3>1
    <3>3. switches[r].next # Fresh
      BY <1>6, <1>8
    <3>4. /\ switches[r].next \notin ToSet(stream)
          /\ switches[r].next \notin ToSet(senders)
      BY <1>1, <3>1, <3>2 DEF StaleAreOut
    <3>5. QED
      BY <2>3, <3>2, <3>3, <3>4
  <2>11. AdoptedIsHeld'
    <3>1. SUFFICES ASSUME NEW r \in DOMAIN switches,
                          switches'[r].pc \in {"adopting", "negotiating"}, Current(r)
                   PROVE  switches'[r].next \in ToSet(stream') \/ ~tracks'[switches'[r].next].live
      BY <2>4, <2>9 DEF AdoptedIsHeld
    <3>2. CASE r = s
      BY <1>7, <2>3, <2>4, <3>2
    <3>3. CASE r # s
      <4>1. switches'[r] = switches[r]
        BY <2>4, <3>3
      <4>2. switches[r].next \in Captured
        BY <1>1, <3>1, <4>1 DEF CallsAreRight, CallIsRight
      <4>3. switches[r].next \in ToSet(stream) \/ ~tracks[switches[r].next].live
        BY <1>1, <3>1, <4>1 DEF AdoptedIsHeld
      <4>4. CASE switches[r].next = Mic
        BY <1>6, <2>3, <4>1, <4>2, <4>4
      <4>5. CASE switches[r].next # Mic
        BY <1>6, <2>3, <4>1, <4>2, <4>3, <4>5
      <4>6. QED
        BY <4>4, <4>5
    <3>4. QED
      BY <3>2, <3>3
  <2>12. NoCallYet'
    BY <1>1, <2>1, <2>4, <2>9 DEF NoCallYet
  <2>13. QED
    BY <1>9, <1>11, <2>4, <2>6, <2>7, <2>8, <2>10, <2>11, <2>12 DEF MutedInv
<1>12. QED
  BY <1>4, <1>10, <1>11

\* The sender that is given the new track exists.
LEMMA TargetIs ==
  ASSUME senders \in Seq(Nat), senders # <<>>, NEW x \in Nat,
         senders' = [senders EXCEPT ![Target] = x]
  PROVE  /\ senders' \in Seq(Nat) /\ senders' # <<>>
         /\ x \in ToSet(senders') /\ ToSet(senders') \subseteq ToSet(senders) \union {x}
<1> DEFINE S == {i \in DOMAIN senders : senders[i] # 0}
<1>1. DOMAIN senders = 1 .. Len(senders) /\ Len(senders) \in Nat /\ Len(senders) >= 1
  OBVIOUS
<1>2. Target \in DOMAIN senders
  <2>1. CASE S = {}
    <3>1. Target = 1
      BY <2>1 DEF Target
    <3>2. QED
      BY <1>1, <3>1
  <2>2. CASE S # {}
    <3>1. S \subseteq Nat
      BY <1>1
    <3>2. Target = CHOOSE y \in S : \A z \in S : y <= z
      BY <2>2 DEF Target, Min
    <3> HIDE DEF S
    <3>3. \E y \in S : \A z \in S : y <= z
      BY <2>2, <3>1, LeastNumber
    <3>4. Target \in S
      BY <3>2, <3>3
    <3>5. QED
      BY <3>4 DEF S
  <2>3. QED
    BY <2>1, <2>2
<1> DEFINE t == Target
<1>3. t \in DOMAIN senders /\ senders' = [senders EXCEPT ![t] = x]
  BY <1>2
<1> HIDE DEF t
<1>4. /\ senders' \in Seq(Nat) /\ Len(senders') = Len(senders)
      /\ DOMAIN senders' = DOMAIN senders /\ senders'[t] = x
      /\ \A i \in DOMAIN senders : i # t => senders'[i] = senders[i]
  <2>1. /\ DOMAIN senders' = DOMAIN senders /\ senders'[t] = x
        /\ \A i \in DOMAIN senders : i # t => senders'[i] = senders[i]
    BY <1>3
  <2>2. \A i \in DOMAIN senders : senders'[i] \in Nat
    BY <1>1, <2>1
  <2>3. senders' \in [1 .. Len(senders) -> Nat]
    BY <1>1, <1>3, <2>2
  <2>4. QED
    BY <1>1, <2>1, <2>3, FunctionIsSeq
<1>5. senders' # <<>>
  BY <1>1, <1>4
<1>6. QED
  BY <1>3, <1>4, <1>5 DEF ToSet

LEMMA ReplacedKeeps ==
  ASSUME MutedInv, NEW s \in DOMAIN switches, Replaced(s)
  PROVE  MutedInv'
<1>1. /\ LinkIsTyped /\ TracksAreTyped /\ CallsAreTyped /\ ButtonIsTyped
      /\ LinkIsRight /\ CallsAreRight
      /\ OnIsShown /\ SentIsHeld /\ StaleAreOut /\ AdoptedIsHeld /\ NoCallYet
  BY DEF MutedInv
<1> DEFINE next == switches[s].next
           x == IF switches[s].pc = "replacing" THEN "replaced" ELSE "negotiating"
<1>2. /\ switches[s].pc \in {"replacing", "adopting"}
      /\ IF Current(s)
           THEN /\ senders' = [senders EXCEPT ![Target] = next]
                /\ switches' = [switches EXCEPT ![s].pc =
                                  IF @ = "replacing" THEN "replaced" ELSE "negotiating"]
           ELSE End(s) /\ UNCHANGED senders
      /\ UNCHANGED <<link, epoch, setups, tracks, stream, pressed, usable, told, talking,
                     refusals, wasOn, crossed>>
  BY DEF Replaced
<1>3. CASE ~Current(s)
  BY <1>2, <1>3, CallEnds DEF End
<1>4. CASE Current(s)
  <2>1. link \in {"ready", "up", "cut"}
    BY <1>1, <1>4 DEF NoCallYet, LinkIsTyped, Current
  <2>2. /\ senders' = [senders EXCEPT ![Target] = next]
        /\ switches' = [switches EXCEPT ![s].pc = x]
    BY <1>2, <1>4
  <2>3. x \in {"replaced", "negotiating"}
        /\ (x = "negotiating" => switches[s].pc = "adopting")
    BY <1>2
  <2> HIDE DEF x
  <2>4. next \in Captured /\ next # 0 /\ next \in Nat
    BY <1>1, <1>2, CallFields DEF CallsAreRight, CallIsRight
  <2>5. /\ CallsAreTyped' /\ DOMAIN switches' = DOMAIN switches
        /\ \A r \in DOMAIN switches : r # s => switches'[r] = switches[r]
        /\ switches'[s].pc = x
        /\ \A r \in DOMAIN switches : /\ switches'[r].epoch = switches[r].epoch
                                      /\ switches'[r].next = switches[r].next
                                      /\ switches'[r].prev = switches[r].prev
    BY <1>1, <2>2, <2>3, PcChanges
  <2>6. /\ senders' \in Seq(Nat) /\ senders' # <<>>
        /\ next \in ToSet(senders') /\ ToSet(senders') \subseteq ToSet(senders) \union {next}
    <3>1. senders \in Seq(Nat) /\ senders # <<>>
      BY <1>1, <2>1 DEF TracksAreTyped, LinkIsRight
    <3>2. QED
      BY <2>2, <2>4, <3>1, TargetIs
  <2>7. Captured' = Captured /\ Mic' = Mic /\ ToSet(stream') = ToSet(stream)
    BY <1>2 DEF Captured, Mic
  <2>8. LinkIsTyped' /\ ButtonIsTyped' /\ LinkIsRight'
    BY <1>1, <1>2, <2>1, <2>6 DEF LinkIsTyped, ButtonIsTyped, LinkIsRight
  <2>9. TracksAreTyped'
    <3>1. ToSet(senders') \subseteq Captured \union {0}
      BY <1>1, <2>4, <2>6 DEF TracksAreTyped
    <3>2. QED
      BY <1>1, <1>2, <2>6, <2>7, <3>1 DEF TracksAreTyped
  <2>10. CallsAreRight'
    <3>1. ASSUME NEW r \in DOMAIN switches
          PROVE  CallIsRight(r)'
      <4>1. CallIsRight(r) /\ epoch' = epoch
        BY <1>1, <1>2 DEF CallsAreRight
      <4>2. \/ switches'[r].pc = switches[r].pc
            \/ /\ switches'[r].pc # "asking"
               /\ switches[r].pc \notin {"asking", "done"}
        BY <1>2, <2>3, <2>5
      <4>3. QED
        BY <2>5, <2>7, <4>1, <4>2 DEF CallIsRight
    <3>2. \A r, q \in DOMAIN switches :
            switches'[r].next = switches'[q].next => r = q \/ switches'[r].next = 0
      BY <1>1, <2>5 DEF CallsAreRight
    <3>3. QED
      BY <2>5, <3>1, <3>2 DEF CallsAreRight
  <2>11. \A t : Exempt(t) => Exempt(t)'
    BY <1>2, <2>3, <2>5 DEF Exempt
  <2>12. \A t : Swapped(t) => Swapped(t)'
    BY <1>2, <2>5 DEF Swapped
  <2>13. \A r \in DOMAIN switches : Current(r)' = Current(r)
    BY <1>2, <2>5 DEF Current
  <2>14. OnIsShown'
    BY <1>1, <1>2, <2>7, <2>11 DEF OnIsShown
  <2>15. SentIsHeld'
    <3>1. SUFFICES ASSUME NEW t \in ToSet(senders'), t # 0, tracks[t].live
                   PROVE  t \in ToSet(stream) \/ Swapped(t)'
      BY <1>2, <2>7 DEF SentIsHeld
    <3>2. CASE t = next
      <4>1. CASE x = "replaced"
        BY <2>5, <3>2, <4>1 DEF Swapped
      <4>2. CASE x = "negotiating"
        BY <1>1, <1>4, <2>3, <3>1, <3>2, <4>2 DEF AdoptedIsHeld
      <4>3. QED
        BY <2>3, <4>1, <4>2
    <3>3. CASE t # next
      BY <1>1, <2>6, <2>12, <3>1, <3>3 DEF SentIsHeld
    <3>4. QED
      BY <3>2, <3>3
  <2>16. StaleAreOut'
    <3>1. SUFFICES ASSUME NEW r \in DOMAIN switches, ~Current(r), switches[r].next # 0
                   PROVE  /\ switches[r].next \notin ToSet(stream)
                          /\ switches[r].next \notin ToSet(senders')
      BY <2>5, <2>7, <2>13 DEF StaleAreOut
    <3>2. switches[r].next # next
      BY <1>1, <1>4, <3>1 DEF CallsAreRight
    <3>3. QED
      BY <1>1, <2>6, <3>1, <3>2 DEF StaleAreOut
  <2>17. AdoptedIsHeld'
    <3>1. SUFFICES ASSUME NEW r \in DOMAIN switches,
                          switches'[r].pc \in {"adopting", "negotiating"}, Current(r)
                   PROVE  switches[r].next \in ToSet(stream) \/ ~tracks[switches[r].next].live
      BY <1>2, <2>5, <2>7, <2>13 DEF AdoptedIsHeld
    <3>2. switches[r].pc \in {"adopting", "negotiating"}
      BY <2>3, <2>5, <3>1
    <3>3. QED
      BY <1>1, <3>1, <3>2 DEF AdoptedIsHeld
  <2>18. NoCallYet'
    BY <1>2, <2>1 DEF NoCallYet
  <2>19. QED
    BY <2>5, <2>8, <2>9, <2>10, <2>14, <2>15, <2>16, <2>17, <2>18 DEF MutedInv
<1>5. QED
  BY <1>3, <1>4

\* The others are told what the first track is.
LEMMA TellIsTyped ==
  ASSUME ButtonIsTyped, NEW st, NEW trs, st = <<>> \/ trs[Head(st)].on \in BOOLEAN,
         ShowFor(st, trs), TellFor(st, trs), UNCHANGED <<talking, wasOn, crossed>>
  PROVE  ButtonIsTyped'
<1>1. /\ usable' = (st # <<>>)
      /\ pressed' = (st # <<>> /\ trs[Head(st)].on)
      /\ told' = IF Open THEN st # <<>> /\ trs[Head(st)].on ELSE told
  BY DEF ShowFor, TellFor
<1>2. (st # <<>> /\ trs[Head(st)].on) \in BOOLEAN /\ (st # <<>>) \in BOOLEAN
  OBVIOUS
<1>3. told' \in BOOLEAN
  BY <1>1, <1>2 DEF ButtonIsTyped
<1>4. QED
  BY <1>1, <1>2, <1>3 DEF ButtonIsTyped

LEMMA SwitchOverKeeps ==
  ASSUME MutedInv, NEW s \in DOMAIN switches, SwitchOver(s)
  PROVE  MutedInv'
<1>1. /\ LinkIsTyped /\ TracksAreTyped /\ CallsAreTyped /\ ButtonIsTyped
      /\ LinkIsRight /\ CallsAreRight
      /\ OnIsShown /\ SentIsHeld /\ StaleAreOut /\ AdoptedIsHeld /\ NoCallYet
  BY DEF MutedInv
<1> DEFINE next == switches[s].next
           prev == switches[s].prev
<1>2. /\ switches[s].pc = "replaced"
      /\ IF Current(s)
           THEN /\ TakePlace(next, prev)
                /\ Finish(s, stream', tracks')
           ELSE End(s) /\ UNCHANGED <<tracks, stream, pressed, usable, told>>
      /\ UNCHANGED <<link, epoch, setups, senders, talking, refusals, wasOn, crossed>>
  BY DEF SwitchOver
<1>3. CASE ~Current(s)
  BY <1>2, <1>3, CallEnds DEF End
<1>4. CASE Current(s)
  <2>1. link \in {"ready", "up", "cut"}
    BY <1>1, <1>4 DEF NoCallYet, LinkIsTyped, Current
  <2>2. /\ TakePlace(next, prev)
        /\ switches' = [switches EXCEPT ![s].pc = "done"]
        /\ ShowFor(stream', tracks') /\ TellFor(stream', tracks')
    BY <1>2, <1>4 DEF Finish, End
  <2>3. /\ next \in Captured /\ next # 0 /\ next \in Nat
        /\ prev \in Captured \union {0} /\ next # prev
    BY <1>1, <1>2, CallFields DEF CallsAreRight, CallIsRight
  <2>4. /\ CallsAreTyped' /\ DOMAIN switches' = DOMAIN switches
        /\ \A r \in DOMAIN switches : r # s => switches'[r] = switches[r]
        /\ switches'[s].pc = "done"
        /\ \A r \in DOMAIN switches : /\ switches'[r].epoch = switches[r].epoch
                                      /\ switches'[r].next = switches[r].next
                                      /\ switches'[r].prev = switches[r].prev
    BY <1>1, <2>2, PcChanges
  <2>5. \A r \in DOMAIN switches : r # s => switches[r].next # next
    BY <1>1, <2>3 DEF CallsAreRight
  <2>6. /\ tracks' \in Seq(MicTracks) /\ Captured' = Captured \union {next}
        /\ stream' \in Seq(Nat) /\ stream' # <<>>
        /\ ToSet(stream') = (ToSet(stream) \ {prev}) \union {next}
        /\ Mic' = Head(stream') /\ Mic' \in ToSet(stream')
        /\ tracks'[next].live = TRUE
        /\ tracks'[next].on = (Head(stream') = next /\ (prev = 0 \/ IsOn(prev)))
        /\ \A t \in Captured : t # next =>
             /\ tracks'[t].on = tracks[t].on
             /\ tracks'[t].live = IF t = prev THEN FALSE ELSE tracks[t].live
        /\ stream # <<>> /\ Mic # prev => Mic' = Mic
    <3>1. /\ TracksAreTyped /\ TakePlace(next, prev) /\ next \in Captured \union {Fresh}
          /\ prev \in Captured \union {0} /\ next # prev
      BY <1>1, <2>2, <2>3
    <3>2. PICK n \in Captured \union {Fresh}, p \in Captured \union {0} : n = next /\ p = prev
      BY <3>1
    <3>3. TakePlace(n, p) /\ n # p
      BY <3>1, <3>2 DEF TakePlace
    <3>4. n \in Captured
      BY <2>3, <3>2
    <3>5. Placed(n, p)
      BY <3>1, <3>3, PlaceTaken
    <3>6. QED
      BY <3>2, <3>5 DEF Placed, IsOn
  <2> HIDE DEF next, prev
  <2>7. /\ Captured' = Captured
        /\ ToSet(stream) \subseteq Captured /\ ToSet(senders) \subseteq Captured \union {0}
        /\ ToSet(senders') = ToSet(senders)
        /\ \A t \in Captured : tracks[t].on \in BOOLEAN /\ tracks[t].live \in BOOLEAN
    BY <1>1, <1>2, <2>3, <2>6, CapturedIs DEF TracksAreTyped
  <2>8. LinkIsTyped' /\ LinkIsRight'
    BY <1>1, <1>2, <2>1 DEF LinkIsTyped, LinkIsRight
  <2>9. TracksAreTyped'
    BY <1>1, <1>2, <2>3, <2>6, <2>7 DEF TracksAreTyped
  <2>10. ButtonIsTyped'
    <3>1. Mic' \in Captured'
      BY <2>3, <2>6, <2>7
    <3>2. tracks'[Head(stream')].on \in BOOLEAN
      <4>1. \A t \in Captured : tracks'[t].on \in BOOLEAN
        BY <2>6, <2>7
      <4>2. QED
        BY <2>6, <2>7, <3>1, <4>1
    <3>3. QED
      BY <1>1, <1>2, <2>2, <3>2, TellIsTyped
  <2>11. CallsAreRight'
    <3>1. ASSUME NEW r \in DOMAIN switches
          PROVE  CallIsRight(r)'
      <4>1. CallIsRight(r) /\ epoch' = epoch
        BY <1>1, <1>2 DEF CallsAreRight
      <4>2. switches'[r].pc = switches[r].pc \/ switches'[r].pc = "done"
        BY <2>4
      <4>3. QED
        BY <2>4, <2>7, <4>1, <4>2 DEF CallIsRight
    <3>2. \A r, q \in DOMAIN switches :
            switches'[r].next = switches'[q].next => r = q \/ switches'[r].next = 0
      BY <1>1, <2>4 DEF CallsAreRight
    <3>3. QED
      BY <2>4, <3>1, <3>2 DEF CallsAreRight
  <2>12. \A t : t # next /\ Swapped(t) => Swapped(t)'
    BY <2>4 DEF Swapped, next
  <2>13. \A r \in DOMAIN switches : Current(r)' = Current(r)
    BY <1>2, <2>4 DEF Current
  <2>14. OnIsShown'
    <3>1. SUFFICES ASSUME NEW t \in ToSet(stream'), tracks'[t].on
                   PROVE  t = Mic' /\ pressed'
      BY DEF OnIsShown
    <3>2. t = Mic'
      <4>1. CASE t = next
        BY <2>6, <3>1, <4>1
      <4>2. CASE t # next
        <5>1. t \in ToSet(stream) /\ t # prev /\ t \in Captured
          BY <2>6, <2>7, <4>2
        <5>2. tracks[t].on
          BY <2>6, <3>1, <4>2, <5>1
        <5>3. t = Mic
          BY <1>1, <5>1, <5>2 DEF OnIsShown
        <5>4. stream # <<>>
          BY <5>1 DEF ToSet
        <5>5. QED
          BY <2>6, <5>1, <5>3, <5>4
      <4>3. QED
        BY <4>1, <4>2
    <3>3. pressed'
      BY <2>2, <2>6, <3>1, <3>2 DEF ShowFor
    <3>4. QED
      BY <3>2, <3>3
  <2>15. SentIsHeld'
    <3>1. SUFFICES ASSUME NEW t \in ToSet(senders), t # 0, tracks'[t].live
                   PROVE  t \in ToSet(stream') \/ Swapped(t)'
      BY <2>7 DEF SentIsHeld
    <3>2. CASE t = next
      BY <2>6, <3>2
    <3>3. CASE t # next
      <4>1. t \in Captured
        BY <2>7, <3>1
      <4>2. t # prev /\ tracks[t].live
        BY <2>6, <3>1, <3>3, <4>1
      <4>3. t \in ToSet(stream) \/ Swapped(t)
        BY <1>1, <3>1, <4>2 DEF SentIsHeld
      <4>4. QED
        BY <2>6, <2>12, <3>3, <4>2, <4>3
    <3>4. QED
      BY <3>2, <3>3
  <2>16. StaleAreOut'
    <3>1. SUFFICES ASSUME NEW r \in DOMAIN switches, ~Current(r), switches[r].next # 0
                   PROVE  /\ switches[r].next \notin ToSet(stream')
                          /\ switches[r].next \notin ToSet(senders)
      BY <2>4, <2>7, <2>13 DEF StaleAreOut
    <3>2. switches[r].next # next
      BY <1>4, <2>5, <3>1
    <3>3. QED
      BY <1>1, <2>6, <3>1, <3>2 DEF StaleAreOut
  <2>17. AdoptedIsHeld'
    <3>1. SUFFICES ASSUME NEW r \in DOMAIN switches,
                          switches'[r].pc \in {"adopting", "negotiating"}, Current(r)
                   PROVE  switches[r].next \in ToSet(stream') \/ ~tracks'[switches[r].next].live
      BY <2>4, <2>13 DEF AdoptedIsHeld
    <3>2. r # s /\ switches[r].pc \in {"adopting", "negotiating"}
      BY <2>4, <3>1
    <3>3. switches[r].next \in Captured /\ switches[r].next # next
      BY <1>1, <2>5, <3>2 DEF CallsAreRight, CallIsRight
    <3>4. switches[r].next \in ToSet(stream) \/ ~tracks[switches[r].next].live
      BY <1>1, <3>1, <3>2 DEF AdoptedIsHeld
    <3>5. CASE switches[r].next = prev
      BY <2>6, <3>3, <3>5
    <3>6. CASE switches[r].next # prev
      BY <2>6, <3>3, <3>4, <3>6
    <3>7. QED
      BY <3>5, <3>6
  <2>18. NoCallYet'
    BY <1>2, <2>1 DEF NoCallYet
  <2>19. QED
    BY <2>4, <2>8, <2>9, <2>10, <2>11, <2>14, <2>15, <2>16, <2>17, <2>18 DEF MutedInv
<1>5. QED
  BY <1>3, <1>4

\* The call of an adopted track ends: the button shows the first track, or the
\* track stays excepted.
LEMMA AdoptionEnds ==
  ASSUME MutedInv, NEW s \in DOMAIN switches, switches[s].pc = "negotiating", Current(s),
         NEW x \in {"done", "failed"}, switches' = [switches EXCEPT ![s].pc = x],
         UNCHANGED <<epoch, tracks, stream, senders>>, link' \in {"ready", "up", "cut"},
         LinkIsTyped', LinkIsRight', ButtonIsTyped',
         \/ x = "failed" /\ pressed' = pressed
         \/ stream # <<>> /\ tracks[Mic].on => pressed'
  PROVE  MutedInv'
<1>1. /\ LinkIsTyped /\ TracksAreTyped /\ CallsAreTyped /\ ButtonIsTyped
      /\ LinkIsRight /\ CallsAreRight
      /\ OnIsShown /\ SentIsHeld /\ StaleAreOut /\ AdoptedIsHeld /\ NoCallYet
  BY DEF MutedInv
<1>2. /\ CallsAreTyped' /\ DOMAIN switches' = DOMAIN switches
      /\ \A r \in DOMAIN switches : r # s => switches'[r] = switches[r]
      /\ switches'[s].pc = x
      /\ \A r \in DOMAIN switches : /\ switches'[r].epoch = switches[r].epoch
                                    /\ switches'[r].next = switches[r].next
                                    /\ switches'[r].prev = switches[r].prev
  BY <1>1, PcChanges
<1>3. Captured' = Captured /\ Mic' = Mic /\ ToSet(stream') = ToSet(stream)
      /\ ToSet(senders') = ToSet(senders)
  BY DEF Captured, Mic
<1>4. TracksAreTyped'
  BY <1>1, <1>3 DEF TracksAreTyped
<1>5. CallsAreRight'
  <2>1. ASSUME NEW r \in DOMAIN switches
        PROVE  CallIsRight(r)'
    <3>1. CallIsRight(r)
      BY <1>1 DEF CallsAreRight
    <3>2. \/ switches'[r].pc = switches[r].pc
          \/ /\ switches'[r].pc # "asking"
             /\ switches[r].pc \notin {"asking", "done"}
      BY <1>2
    <3>3. QED
      BY <1>2, <1>3, <3>1, <3>2 DEF CallIsRight
  <2>2. \A r, q \in DOMAIN switches :
          switches'[r].next = switches'[q].next => r = q \/ switches'[r].next = 0
    BY <1>1, <1>2 DEF CallsAreRight
  <2>3. QED
    BY <1>2, <2>1, <2>2 DEF CallsAreRight
<1>6. \A r \in DOMAIN switches : Current(r)' = Current(r)
  <2>1. link # "down"
    BY DEF Current
  <2>2. QED
    BY <1>2, <2>1 DEF Current
<1>7. \A t : Swapped(t) => Swapped(t)'
  BY <1>2 DEF Swapped
<1>8. x = "failed" => \A t : Exempt(t) => Exempt(t)'
  BY <1>2 DEF Exempt
<1>9. OnIsShown'
  <2>1. CASE x = "failed" /\ pressed' = pressed
    BY <1>1, <1>3, <1>8, <2>1 DEF OnIsShown
  <2>2. CASE stream # <<>> /\ tracks[Mic].on => pressed'
    <3>1. \A t \in ToSet(stream) : stream # <<>>
      BY DEF ToSet
    <3>2. QED
      BY <1>1, <1>3, <2>2, <3>1 DEF OnIsShown
  <2>3. QED
    BY <2>1, <2>2
<1>10. SentIsHeld'
  BY <1>1, <1>3, <1>7 DEF SentIsHeld
<1>11. StaleAreOut'
  BY <1>1, <1>2, <1>3, <1>6 DEF StaleAreOut
<1>12. AdoptedIsHeld'
  <2>1. ASSUME NEW r \in DOMAIN switches, switches'[r].pc \in {"adopting", "negotiating"}
        PROVE  switches[r].pc \in {"adopting", "negotiating"}
    BY <1>2, <2>1
  <2>2. QED
    BY <1>1, <1>2, <1>3, <1>6, <2>1 DEF AdoptedIsHeld
<1>13. NoCallYet'
  BY DEF NoCallYet
<1>14. QED
  BY <1>2, <1>4, <1>5, <1>9, <1>10, <1>11, <1>12, <1>13 DEF MutedInv

LEMMA NegotiatedKeeps ==
  ASSUME MutedInv, NEW s \in DOMAIN switches, Negotiated(s)
  PROVE  MutedInv'
<1>1. /\ LinkIsTyped /\ TracksAreTyped /\ ButtonIsTyped /\ LinkIsRight /\ NoCallYet
  BY DEF MutedInv
<1>2. /\ switches[s].pc = "negotiating"
      /\ IF Current(s) THEN Open /\ Finish(s, stream, tracks)
         ELSE End(s) /\ UNCHANGED <<pressed, usable, told>>
      /\ UNCHANGED <<link, epoch, setups, tracks, stream, senders, talking, refusals,
                     wasOn, crossed>>
  BY DEF Negotiated
<1>3. CASE ~Current(s)
  BY <1>2, <1>3, CallEnds DEF End
<1>4. CASE Current(s)
  <2>1. /\ ShowFor(stream, tracks) /\ TellFor(stream, tracks)
        /\ switches' = [switches EXCEPT ![s].pc = "done"]
    BY <1>2, <1>4 DEF Finish, End
  <2>2. link' \in {"ready", "up", "cut"}
    BY <1>1, <1>2, <1>4 DEF NoCallYet, LinkIsTyped, Current
  <2>3. LinkIsTyped' /\ LinkIsRight'
    BY <1>1, <1>2 DEF LinkIsTyped, LinkIsRight
  <2>4. stream # <<>> => Mic = Head(stream) /\ tracks[Mic].on \in BOOLEAN
    <3>1. stream # <<>> => Mic \in Captured
      BY <1>1, MicIs DEF TracksAreTyped
    <3>2. QED
      BY <1>1, <3>1, CapturedIs DEF TracksAreTyped, Mic
  <2>5. ButtonIsTyped'
    BY <1>1, <1>2, <2>1, <2>4, TellIsTyped
  <2>6. stream # <<>> /\ tracks[Mic].on => pressed'
    BY <2>1, <2>4 DEF ShowFor
  <2>7. QED
    BY <1>2, <1>4, <2>1, <2>2, <2>3, <2>5, <2>6, AdoptionEnds
<1>5. QED
  BY <1>3, <1>4

LEMMA OfferTimesOutKeeps ==
  ASSUME MutedInv, NEW s \in DOMAIN switches, OfferTimesOut(s)
  PROVE  MutedInv'
<1>1. LinkIsTyped /\ ButtonIsTyped /\ LinkIsRight /\ NoCallYet
  BY DEF MutedInv
<1>2. /\ switches[s].pc = "negotiating" /\ Current(s) /\ link' = "cut"
      /\ switches' = [switches EXCEPT ![s].pc = "failed"]
      /\ wasOn' = (pressed /\ ~talking)
      /\ UNCHANGED <<epoch, setups, tracks, stream, senders, pressed, usable, told, talking,
                     crossed>>
  BY DEF OfferTimesOut
<1>3. link \in {"ready", "up", "cut"}
  BY <1>1, <1>2 DEF NoCallYet, LinkIsTyped, Current
<1>4. LinkIsTyped' /\ LinkIsRight' /\ ButtonIsTyped'
  BY <1>1, <1>2, <1>3 DEF LinkIsTyped, LinkIsRight, ButtonIsTyped
<1>5. QED
  BY <1>2, <1>4, AdoptionEnds

\* The invariant holds first, every step keeps it, and it implies that muted is
\* silent.
LEMMA MicInitHolds ==
  ASSUME MicInit
  PROVE  MutedInv
<1>1. Captured = {} /\ ToSet(stream) = {} /\ ToSet(senders) = {} /\ DOMAIN switches = {}
  BY DEF MicInit, Captured, ToSet
<1>2. LinkIsTyped /\ LinkIsRight /\ CallsAreTyped /\ ButtonIsTyped
  <2>1. LinkIsTyped
    BY DEF MicInit, LinkIsTyped
  <2>2. LinkIsRight
    BY DEF MicInit, LinkIsRight
  <2>3. ButtonIsTyped
    BY DEF MicInit, ButtonIsTyped
  <2>4. CallsAreTyped
    BY DEF MicInit, CallsAreTyped
  <2>5. QED
    BY <2>1, <2>2, <2>3, <2>4
<1>3. TracksAreTyped
  BY <1>1 DEF MicInit, TracksAreTyped
<1>4. CallsAreRight /\ OnIsShown /\ SentIsHeld /\ StaleAreOut /\ AdoptedIsHeld /\ NoCallYet
  BY <1>1 DEF CallsAreRight, OnIsShown, SentIsHeld, StaleAreOut, AdoptedIsHeld, NoCallYet
<1>5. QED
  BY <1>2, <1>3, <1>4 DEF MutedInv

LEMMA MicNextKeeps ==
  ASSUME MutedInv, [MicNext]_micVars
  PROVE  MutedInv'
<1>1. CASE StartMedia
  BY <1>1, StartMediaKeeps
<1>2. CASE Capture
  BY <1>2, CaptureKeeps
<1>3. CASE CaptureRefused
  BY <1>3, CaptureRefusedKeeps
<1>4. CASE SendTrack
  BY <1>4, SendTrackKeeps
<1>5. CASE Lose
  BY <1>5, LoseKeeps
<1>6. CASE ResetConnection
  BY <1>6, ResetConnectionKeeps
<1>7. CASE Click \/ SpaceDown \/ SpaceUp
  BY <1>7, ButtonKeeps
<1>8. CASE SelectDevice
  BY <1>8, SelectDeviceKeeps
<1>9. CASE Switching
  <2>1. PICK s \in DOMAIN switches :
           \/ DeviceOpens(s) \/ DeviceRefused(s) \/ Replaced(s) \/ SwitchOver(s)
           \/ Negotiated(s) \/ OfferTimesOut(s)
    BY <1>9 DEF Switching
  <2>2. QED
    BY <2>1, DeviceOpensKeeps, DeviceRefusedKeeps, ReplacedKeeps, SwitchOverKeeps,
       NegotiatedKeeps, OfferTimesOutKeeps
<1>10. CASE UNCHANGED micVars
  BY <1>10, MicStutters
<1>11. QED
  BY <1>1, <1>2, <1>3, <1>4, <1>5, <1>6, <1>7, <1>8, <1>9, <1>10 DEF MicNext

LEMMA MutedInvImplies ==
  ASSUME MutedInv
  PROVE  MicTypeOK /\ MutedIsSilent
<1>1. LinkIsTyped /\ TracksAreTyped /\ ButtonIsTyped /\ OnIsShown /\ SentIsHeld
  BY DEF MutedInv
<1>2. MicTypeOK
  <2>1. \A t \in Captured : tracks[t] \in [live : BOOLEAN, on : BOOLEAN]
    BY <1>1, CapturedIs DEF TracksAreTyped, MicTracks
  <2>2. /\ {stream[i] : i \in DOMAIN stream} \subseteq Captured
        /\ {senders[i] : i \in DOMAIN senders} \subseteq Captured \union {0}
    BY <1>1 DEF TracksAreTyped, ToSet
  <2>3. QED
    BY <1>1, <2>1, <2>2 DEF MicTypeOK, LinkIsTyped, ButtonIsTyped
<1>3. MutedIsSilent
  <2>1. SUFFICES ASSUME NEW t \in Captured, Sent(t)
                 PROVE  pressed \/ Exempt(t)
    BY DEF MutedIsSilent, Exempt
  <2>2. t \in ToSet(senders) /\ tracks[t].live /\ tracks[t].on
    <3>1. senders \in Seq(Nat)
      BY <1>1 DEF TracksAreTyped
    <3>2. QED
      BY <2>1, <3>1, ContainsIs DEF Sent
  <2>3. t # 0
    BY <1>1, <2>1, CapturedIs DEF TracksAreTyped
  <2>4. CASE t \in ToSet(stream)
    BY <1>1, <2>2, <2>4 DEF OnIsShown
  <2>5. CASE Swapped(t)
    BY <2>5 DEF Swapped, Exempt
  <2>6. QED
    BY <1>1, <2>2, <2>3, <2>4, <2>5 DEF SentIsHeld
<1>4. QED
  BY <1>2, <1>3

\* Without a connection no switch runs, and no capture is open.
LEMMA NothingRuns ==
  ASSUME Alone, \A s \in DOMAIN switches : ~Runs(s)
  PROVE  /\ ~Adopts /\ \A t : ~Placing(t)
         /\ \A t \in Captured : tracks[t].live => t \in ToSet(stream)
<1>1. ~Adopts /\ \A t : ~Placing(t)
  BY DEF Adopts, Placing, Runs
<1>2. QED
  BY <1>1 DEF Alone, LiveIsHeld

\* Without media there is no track and no call under way.
LEMMA NotLinked ==
  ASSUME MutedInv, Alone, link \in {"down", "asking", "lost"}
  PROVE  /\ stream = <<>> /\ \A s \in DOMAIN switches : ~Runs(s)
         /\ ~Adopts /\ (\A t : ~Placing(t)) /\ \A t \in Captured : ~tracks[t].live
<1>1. stream = <<>> /\ ToSet(stream) = {}
  BY DEF MutedInv, LinkIsRight, ToSet
<1>2. \A s \in DOMAIN switches : ~Runs(s)
  BY DEF Alone, OneRuns
<1>3. QED
  BY <1>1, <1>2, NothingRuns

\* What holds of the calls when none runs.
LEMMA IdleIsAlone ==
  ASSUME \A s \in DOMAIN switches' : ~Runs(s)',
         \A t \in Captured' : tracks'[t].live => t \in ToSet(stream'), StreamIsOne'
  PROVE  Alone' /\ ~Adopts'
<1>1. OneRuns' /\ LiveIsHeld'
  BY DEF OneRuns, LiveIsHeld
<1>2. \A s \in DOMAIN switches' : switches'[s].pc \in {"done", "failed"}
  BY DEF Runs
<1>3. \A s \in DOMAIN switches' : RunIsRight(s)'
  BY <1>2 DEF RunIsRight
<1>4. ~Adopts'
  BY <1>2 DEF Adopts
<1>5. QED
  BY <1>1, <1>3, <1>4 DEF Alone

\* Each action keeps what hearing needs, while nothing has crossed.
LEMMA StartMediaHeard ==
  ASSUME MutedInv, Alone, StartMedia
  PROVE  Alone' /\ ShownIsTold' /\ HeldIsSent'
<1>1. link = "down" /\ link' = "asking" /\ UNCHANGED <<tracks, stream, switches>>
  BY DEF StartMedia
<1>2. /\ stream' = <<>> /\ \A s \in DOMAIN switches : ~Runs(s)
      /\ \A t \in Captured : ~tracks[t].live
  BY <1>1, NotLinked
<1>3. \A s \in DOMAIN switches' : ~Runs(s)'
  BY <1>1, <1>2 DEF Runs
<1>4. \A t \in Captured' : tracks'[t].live => t \in ToSet(stream')
  BY <1>1, <1>2 DEF Captured
<1>5. StreamIsOne'
  BY <1>2 DEF StreamIsOne
<1>6. Alone'
  BY <1>3, <1>4, <1>5, IdleIsAlone
<1>7. QED
  BY <1>1, <1>6 DEF ShownIsTold, HeldIsSent

\* The media variables that the calls are about stay as they are.
LEMMA CallsStay ==
  ASSUME Alone, UNCHANGED <<epoch, tracks, stream, senders, switches>>,
         link' \in {"ready", "up", "cut"} \/ \A s \in DOMAIN switches : ~Runs(s)
  PROVE  Alone' /\ Adopts' = Adopts /\ Mic' = Mic
<1>1. Mic' = Mic /\ Captured' = Captured
  BY DEF Mic, Captured
<1>2. \A s : Runs(s)' = Runs(s)
  BY DEF Runs
<1>3. OneRuns'
  BY <1>2 DEF Alone, OneRuns
<1>4. \A t : Placing(t)' = Placing(t)
  BY DEF Placing
<1>5. LiveIsHeld' /\ StreamIsOne'
  BY <1>1, <1>4 DEF Alone, LiveIsHeld, StreamIsOne
<1>6. \A s \in DOMAIN switches' : RunIsRight(s)'
  BY <1>1 DEF Alone, RunIsRight
<1>7. QED
  BY <1>1, <1>3, <1>5, <1>6 DEF Alone, Adopts

LEMMA CaptureHeard ==
  ASSUME MutedInv, Alone, ShownIsTold, HeldIsSent, Capture
  PROVE  Alone' /\ ShownIsTold' /\ HeldIsSent'
<1>1. PICK e \in setups :
        /\ IF e = epoch /\ link = "asking"
             THEN /\ tracks' = Append(tracks, [live |-> TRUE, on |-> pressed])
                  /\ stream' = <<Fresh>> /\ link' = "ready" /\ ShowFor(stream', tracks')
             ELSE UNCHANGED <<link, tracks, stream, pressed, usable>>
        /\ UNCHANGED <<epoch, senders, told, switches>>
  BY DEF Capture
<1>2. CASE ~(e = epoch /\ link = "asking")
  <2>1. UNCHANGED <<link, tracks, stream, pressed, epoch, senders, told, switches>>
    BY <1>1, <1>2
  <2>2. link \in {"ready", "up", "cut"} \/ \A s \in DOMAIN switches : ~Runs(s)
    BY DEF Alone, OneRuns
  <2>3. Alone' /\ Adopts' = Adopts /\ Mic' = Mic
    BY <2>1, <2>2, CallsStay
  <2>4. IsOn(Mic)' = IsOn(Mic)
    BY <2>1, <2>3 DEF IsOn
  <2>5. QED
    BY <2>1, <2>3, <2>4 DEF ShownIsTold, HeldIsSent
<1>3. CASE e = epoch /\ link = "asking"
  <2> DEFINE x == [live |-> TRUE, on |-> pressed]
  <2>1. /\ tracks' = Append(tracks, x) /\ stream' = <<Fresh>> /\ link' = "ready"
        /\ pressed' = (stream' # <<>> /\ tracks'[Head(stream')].on)
        /\ UNCHANGED switches
    BY <1>1, <1>3 DEF ShowFor
  <2>2. x \in MicTracks /\ x.live = TRUE /\ x.on = pressed /\ pressed \in BOOLEAN
    BY DEF MicTracks, MutedInv, ButtonIsTyped
  <2> HIDE DEF x
  <2>3. tracks \in Seq(MicTracks)
    BY DEF MutedInv, TracksAreTyped
  <2>4. /\ Captured' = Captured \union {Fresh} /\ tracks'[Fresh] = x
        /\ \A t \in Captured : tracks'[t] = tracks[t]
    BY <2>1, <2>2, <2>3, TrackAppended
  <2>5. /\ \A s \in DOMAIN switches : ~Runs(s)
        /\ \A t \in Captured : ~tracks[t].live
    BY <1>3, NotLinked
  <2>6. Mic' = Fresh /\ Fresh # 0 /\ ToSet(stream') = {Fresh} /\ stream' # <<>> /\ Head(stream') = Fresh
    BY <2>1, <2>3, CapturedIs DEF Mic, ToSet
  <2>7. \A s \in DOMAIN switches' : ~Runs(s)'
    BY <2>1, <2>5 DEF Runs
  <2>8. \A t \in Captured' : tracks'[t].live => t \in ToSet(stream')
    BY <2>4, <2>5, <2>6
  <2>9. StreamIsOne'
    BY <2>1, <2>2, <2>4, <2>6 DEF StreamIsOne
  <2>10. Alone'
    BY <2>7, <2>8, <2>9, IdleIsAlone
  <2>11. IsOn(Mic)' = (Fresh # 0 /\ tracks'[Fresh].on)
    BY <2>6 DEF IsOn
  <2>12. pressed' = IsOn(Mic)'
    BY <2>1, <2>2, <2>4, <2>6, <2>11
  <2>13. QED
    BY <2>1, <2>10, <2>12 DEF ShownIsTold, HeldIsSent
<1>4. QED
  BY <1>2, <1>3

LEMMA CaptureRefusedHeard ==
  ASSUME MutedInv, Alone, ShownIsTold, HeldIsSent, CaptureRefused
  PROVE  Alone' /\ ShownIsTold' /\ HeldIsSent'
<1>1. PICK e \in setups :
        /\ IF e = epoch /\ link = "asking"
             THEN link' = "ready" /\ ShowFor(stream, tracks)
             ELSE UNCHANGED <<link, pressed, usable>>
        /\ UNCHANGED <<epoch, tracks, stream, senders, told, switches>>
  BY DEF CaptureRefused
<1>2. link \in {"ready", "up", "cut"} \/ \A s \in DOMAIN switches : ~Runs(s)
  BY DEF Alone, OneRuns
<1>3. link' \in {"ready", "up", "cut"} \/ \A s \in DOMAIN switches : ~Runs(s)
  BY <1>1, <1>2
<1>4. Alone' /\ Adopts' = Adopts /\ Mic' = Mic
  BY <1>1, <1>3, CallsStay
<1>5. IsOn(Mic)' = IsOn(Mic)
  BY <1>1, <1>4 DEF IsOn
<1>6. CASE ~(e = epoch /\ link = "asking")
  BY <1>1, <1>4, <1>5, <1>6 DEF ShownIsTold, HeldIsSent
<1>7. CASE e = epoch /\ link = "asking"
  <2>1. stream = <<>>
    BY <1>7, NotLinked
  <2>2. link' = "ready" /\ pressed' = FALSE
    BY <1>1, <1>7, <2>1 DEF ShowFor
  <2>3. ~IsOn(Mic)
    BY <2>1 DEF IsOn, Mic
  <2>4. IsOn(Mic)' = FALSE
    BY <1>5, <2>3 DEF IsOn
  <2>5. QED
    BY <1>4, <2>2, <2>4 DEF ShownIsTold, HeldIsSent
<1>8. QED
  BY <1>6, <1>7

LEMMA LoseHeard ==
  ASSUME Alone, Lose
  PROVE  Alone' /\ ShownIsTold' /\ HeldIsSent'
<1>1. /\ link' = (IF link = "asking" THEN "lost" ELSE "cut")
      /\ UNCHANGED <<epoch, tracks, stream, senders, switches>>
  BY DEF Lose
<1>2. link' \in {"ready", "up", "cut"} \/ \A s \in DOMAIN switches : ~Runs(s)
  BY <1>1 DEF Alone, OneRuns
<1>3. Alone'
  BY <1>1, <1>2, CallsStay
<1>4. QED
  BY <1>1, <1>3 DEF ShownIsTold, HeldIsSent

\* What the track of localStream is sent by.
LEMMA StreamIsSent ==
  ASSUME TracksAreTyped, stream = <<Mic>>
  PROVE  Mic \in ToSet(senders) \/ Mic \in ToSet(Unsent)
<1> DEFINE sent == {i \in DOMAIN stream : Contains(senders, stream[i])}
<1>1. DOMAIN stream = {1} /\ Len(stream) = 1 /\ stream[1] = Mic /\ Mic \in Nat
  BY DEF TracksAreTyped
<1>2. SUFFICES ASSUME Mic \notin ToSet(senders) PROVE Mic \in ToSet(Unsent)
  OBVIOUS
<1>3. senders \in Seq(Nat)
  BY DEF TracksAreTyped
<1>4. ~Contains(senders, Mic)
  BY <1>2, <1>3, ContainsIs
<1>5. sent = {}
  BY <1>1, <1>4
<1>6. Unsent = SubSeq(stream, 1, Len(stream))
  BY <1>5 DEF Unsent
<1> HIDE DEF sent
<1>7. Len(Unsent) = 1 /\ Unsent[1] = Mic
  <2>1. stream \in Seq(Nat)
    BY DEF TracksAreTyped
  <2>2. DOMAIN SubSeq(stream, 1, 1) = 1 .. 1 /\ SubSeq(stream, 1, 1)[1] = stream[1]
        /\ Len(SubSeq(stream, 1, 1)) = 1
    BY <1>1, <2>1
  <2>3. QED
    BY <1>1, <1>6, <2>2
<1>8. Unsent \in Seq(Nat)
  BY UnsentIs
<1>9. QED
  BY <1>7, <1>8 DEF ToSet

LEMMA SendTrackHeard ==
  ASSUME MutedInv, Alone, ShownIsTold, SendTrack
  PROVE  Alone' /\ ShownIsTold' /\ HeldIsSent'
<1>1. /\ link = "ready" /\ link' = "up"
      /\ told' = (stream # <<>> /\ tracks[Head(stream)].on)
      /\ senders' = IF Unsent # <<>> /\ Head(senders) = 0 THEN Unsent \o Tail(senders)
                    ELSE senders \o Unsent
      /\ UNCHANGED <<epoch, tracks, stream, pressed, switches>>
  BY DEF SendTrack, TellFor, Open
<1>2. TracksAreTyped /\ senders # <<>>
  BY <1>1 DEF MutedInv, LinkIsRight
<1>3. /\ ToSet(senders) \subseteq ToSet(senders') \union {0}
      /\ ToSet(Unsent) \subseteq ToSet(senders')
  BY <1>1, <1>2, SendersAfter
<1>4. Mic' = Mic /\ Captured' = Captured
  BY <1>1 DEF Mic, Captured
<1>5. stream # <<>> => Mic = Head(stream) /\ Mic # 0 /\ stream = <<Mic>>
  <2>1. stream # <<>> => Mic \in Captured /\ Mic = Head(stream)
    BY <1>2, MicIs DEF TracksAreTyped, Mic
  <2>2. 0 \notin Captured
    BY <1>2, CapturedIs DEF TracksAreTyped
  <2>3. QED
    BY <2>1, <2>2 DEF Alone, StreamIsOne
<1>6. OneRuns'
  <2>1. \A s : Runs(s)' = Runs(s)
    BY <1>1 DEF Runs
  <2>2. QED
    BY <1>1, <2>1 DEF Alone, OneRuns
<1>7. LiveIsHeld' /\ StreamIsOne'
  <2>1. \A t : Placing(t)' = Placing(t)
    BY <1>1 DEF Placing
  <2>2. QED
    BY <1>1, <1>4, <2>1 DEF Alone, LiveIsHeld, StreamIsOne
<1>8. \A s \in DOMAIN switches' : RunIsRight(s)'
  <2>1. ASSUME NEW s \in DOMAIN switches, switches[s].pc \in {"replaced", "negotiating"}
        PROVE  switches[s].next \in ToSet(senders')
    <3>1. switches[s].next # 0
      BY <2>1 DEF MutedInv, CallsAreRight, CallIsRight
    <3>2. switches[s].next \in ToSet(senders)
      BY <2>1 DEF Alone, RunIsRight
    <3>3. QED
      BY <1>3, <3>1, <3>2
  <2>2. QED
    BY <1>1, <1>4, <2>1 DEF Alone, RunIsRight
<1>9. ShownIsTold'
  <2>1. told' = IsOn(Mic)
    <3>1. CASE stream = <<>>
      <4>1. told' = FALSE /\ Mic = 0
        BY <1>1, <3>1 DEF Mic
      <4>2. QED
        BY <4>1 DEF IsOn
    <3>2. CASE stream # <<>>
      <4>1. tracks[Mic].on \in BOOLEAN
        BY <1>2, <1>5, <3>2, MicIs, CapturedIs DEF TracksAreTyped
      <4>2. told' = tracks[Mic].on
        BY <1>1, <1>5, <3>2, <4>1
      <4>3. QED
        BY <1>5, <3>2, <4>1, <4>2 DEF IsOn
    <3>3. QED
      BY <3>1, <3>2
  <2>2. Adopts' = Adopts /\ IsOn(Mic)' = IsOn(Mic)
    BY <1>1, <1>4 DEF Adopts, IsOn
  <2>3. QED
    BY <1>1, <2>1, <2>2 DEF ShownIsTold
<1>10. HeldIsSent'
  <2>1. SUFFICES ASSUME stream # <<>> PROVE Mic \in ToSet(senders')
    BY <1>1, <1>4 DEF HeldIsSent
  <2>2. Mic \in ToSet(senders) \/ Mic \in ToSet(Unsent)
    BY <1>2, <1>5, <2>1, StreamIsSent
  <2>3. QED
    BY <1>3, <1>5, <2>1, <2>2
<1>11. QED
  BY <1>6, <1>7, <1>8, <1>9, <1>10 DEF Alone

LEMMA ResetConnectionHeard ==
  ASSUME MutedInv, Alone, ResetConnection, ~crossed'
  PROVE  Alone' /\ ShownIsTold' /\ HeldIsSent'
<1>1. /\ link' = "down" /\ stream' = <<>>
      /\ tracks' = [t \in Captured |-> IF Contains(stream, t)
                                         THEN [tracks[t] EXCEPT !.live = FALSE] ELSE tracks[t]]
      /\ crossed' = (crossed \/ ~Idle) /\ UNCHANGED switches
  BY DEF ResetConnection
<1>2. \A s \in DOMAIN switches : ~Runs(s)
  BY <1>1 DEF Idle, Runs
<1>3. \A t \in Captured : tracks[t].live => t \in ToSet(stream)
  BY <1>2, NothingRuns
<1>4. Captured' = Captured
  BY <1>1 DEF Captured
<1>5. ASSUME NEW t \in Captured, tracks'[t].live
      PROVE  FALSE
  <2>1. stream \in Seq(Nat) /\ tracks[t] \in MicTracks
    BY CapturedIs DEF MutedInv, TracksAreTyped
  <2>2. CASE t \in ToSet(stream)
    <3>1. Contains(stream, t)
      BY <2>1, <2>2, ContainsIs
    <3>2. tracks'[t] = [tracks[t] EXCEPT !.live = FALSE]
      BY <1>1, <3>1
    <3>3. tracks'[t].live = FALSE
      BY <2>1, <3>2 DEF MicTracks
    <3>4. QED
      BY <1>5, <3>3
  <2>3. CASE t \notin ToSet(stream)
    <3>1. ~Contains(stream, t)
      BY <2>1, <2>3, ContainsIs
    <3>2. QED
      BY <1>1, <1>3, <1>5, <2>3, <3>1
  <2>4. QED
    BY <2>2, <2>3
<1>6. \A s \in DOMAIN switches' : ~Runs(s)'
  BY <1>1, <1>2 DEF Runs
<1>7. StreamIsOne'
  BY <1>1 DEF StreamIsOne
<1>8. Alone'
  BY <1>4, <1>5, <1>6, <1>7, IdleIsAlone
<1>9. QED
  BY <1>1, <1>8 DEF ShownIsTold, HeldIsSent

LEMMA ToggledHeard ==
  ASSUME MutedInv, Alone, ShownIsTold, HeldIsSent, Toggled,
         UNCHANGED <<link, epoch, stream, senders, switches>>
  PROVE  Alone' /\ ShownIsTold' /\ HeldIsSent'
<1>1. CASE ~usable \/ stream = <<>>
  <2>1. UNCHANGED <<tracks, pressed, told>>
    BY <1>1 DEF Toggled
  <2>2. link \in {"ready", "up", "cut"} \/ \A s \in DOMAIN switches : ~Runs(s)
    BY DEF Alone, OneRuns
  <2>3. Alone' /\ Adopts' = Adopts /\ Mic' = Mic
    BY <2>1, <2>2, CallsStay
  <2>4. IsOn(Mic)' = IsOn(Mic)
    BY <2>1, <2>3 DEF IsOn
  <2>5. QED
    BY <2>1, <2>3, <2>4 DEF ShownIsTold, HeldIsSent
<1>2. CASE ~(~usable \/ stream = <<>>)
  <2>1. /\ stream # <<>> /\ tracks' = [tracks EXCEPT ![Mic].on = ~@]
        /\ pressed' = (stream # <<>> /\ tracks'[Head(stream)].on)
        /\ told' = IF Open THEN stream # <<>> /\ tracks'[Head(stream)].on ELSE told
    BY <1>2 DEF Toggled, ShowFor, TellFor
  <2>2. TracksAreTyped
    BY DEF MutedInv
  <2>3. Mic = Head(stream) /\ Mic \in Captured /\ tracks[Mic] \in MicTracks /\ Mic # 0
    <3>1. Mic = Head(stream) /\ Mic \in Captured
      BY <2>1, <2>2, MicIs DEF TracksAreTyped, Mic
    <3>2. QED
      BY <2>2, <3>1, CapturedIs DEF TracksAreTyped
  <2> DEFINE x == [tracks[Mic] EXCEPT !.on = ~tracks[Mic].on]
  <2>4. tracks' = [tracks EXCEPT ![Mic] = x]
    BY <2>1
  <2>5. x.live = tracks[Mic].live /\ x.on \in BOOLEAN
    BY <2>3 DEF MicTracks
  <2> HIDE DEF x
  <2>6. Captured' = Captured /\ tracks'[Mic] = x
        /\ \A t \in Captured : t # Mic => tracks'[t] = tracks[t]
    BY <2>3, <2>4 DEF Captured
  <2>7. \A t \in Captured : tracks'[t].live = tracks[t].live
    BY <2>5, <2>6
  <2>8. Mic' = Mic
    BY DEF Mic
  <2>9. OneRuns'
    <3>1. \A s : Runs(s)' = Runs(s)
      BY DEF Runs
    <3>2. QED
      BY <3>1 DEF Alone, OneRuns
  <2>10. LiveIsHeld' /\ StreamIsOne'
    <3>1. \A t : Placing(t)' = Placing(t)
      BY DEF Placing
    <3>2. LiveIsHeld'
      BY <2>6, <2>7, <3>1 DEF Alone, LiveIsHeld
    <3>3. StreamIsOne'
      BY <2>3, <2>7, <2>8 DEF Alone, StreamIsOne
    <3>4. QED
      BY <3>2, <3>3
  <2>11. \A s \in DOMAIN switches' : RunIsRight(s)'
    BY <2>8 DEF Alone, RunIsRight
  <2>12. IsOn(Mic)' = x.on /\ pressed' = x.on
    <3>1. tracks'[Head(stream)].on = x.on
      BY <2>3, <2>6
    <3>2. pressed' = x.on
      BY <2>1, <2>5, <3>1
    <3>3. IsOn(Mic)' = (Mic # 0 /\ tracks'[Mic].on)
      BY <2>8 DEF IsOn
    <3>4. IsOn(Mic)' = x.on
      BY <2>3, <2>5, <2>6, <3>3
    <3>5. QED
      BY <3>2, <3>4
  <2>13. link = "up" => told' = pressed'
    BY <2>1 DEF Open
  <2>14. ShownIsTold'
    BY <2>12, <2>13 DEF ShownIsTold
  <2>15. HeldIsSent'
    BY <2>8 DEF HeldIsSent
  <2>16. QED
    BY <2>9, <2>10, <2>11, <2>14, <2>15 DEF Alone
<1>3. QED
  BY <1>1, <1>2

LEMMA SelectDeviceHeard ==
  ASSUME MutedInv, Alone, ShownIsTold, HeldIsSent, SelectDevice, ~crossed'
  PROVE  Alone' /\ ShownIsTold' /\ HeldIsSent'
<1> DEFINE c == [pc |-> "asking", epoch |-> epoch, next |-> 0, prev |-> 0]
<1>1. /\ switches' = Append(switches, c) /\ crossed' = (crossed \/ ~Idle)
      /\ link \in {"ready", "up", "cut"}
      /\ UNCHANGED <<link, epoch, tracks, stream, senders, pressed, told>>
  BY DEF SelectDevice
<1>2. CallsAreTyped /\ epoch \in Nat
  BY DEF MutedInv, LinkIsTyped
<1>3. c \in MicCalls /\ c.pc = "asking" /\ c.epoch = epoch
  BY <1>2 DEF MicCalls
<1> HIDE DEF c
<1>4. /\ \A s \in DOMAIN switches : s \in DOMAIN switches' /\ switches'[s] = switches[s]
      /\ \A s \in DOMAIN switches' : s \in DOMAIN switches \/ switches'[s] = c
      /\ \A s, r \in DOMAIN switches' : s \in DOMAIN switches \/ r \in DOMAIN switches \/ s = r
  BY <1>1, <1>2, <1>3, CallAppended
<1>5. \A s \in DOMAIN switches : ~Runs(s)
  BY <1>1 DEF Idle, Runs
<1>6. ~Adopts /\ (\A t : ~Placing(t))
      /\ \A t \in Captured : tracks[t].live => t \in ToSet(stream)
  BY <1>5, NothingRuns
<1>7. Mic' = Mic /\ Captured' = Captured
  BY <1>1 DEF Mic, Captured
<1>8. \A s \in DOMAIN switches : ~Runs(s)'
  BY <1>4, <1>5 DEF Runs
<1>9. \A s \in DOMAIN switches' : Runs(s)' => switches'[s] = c /\ s \notin DOMAIN switches
  BY <1>4, <1>8
<1>10. OneRuns'
  BY <1>1, <1>3, <1>4, <1>9 DEF OneRuns
<1>11. LiveIsHeld' /\ StreamIsOne'
  BY <1>1, <1>6, <1>7 DEF Alone, LiveIsHeld, StreamIsOne
<1>12. \A s \in DOMAIN switches' : switches'[s].pc \in {"done", "failed", "asking"}
  BY <1>3, <1>9 DEF Runs
<1>13. \A s \in DOMAIN switches' : RunIsRight(s)'
  BY <1>12 DEF RunIsRight
<1>14. ShownIsTold'
  <2>1. IsOn(Mic)' = IsOn(Mic)
    BY <1>1, <1>7 DEF IsOn
  <2>2. QED
    BY <1>1, <1>6, <2>1 DEF ShownIsTold
<1>15. HeldIsSent'
  <2>1. \A s \in DOMAIN switches : switches[s].pc \notin {"replaced", "adopting"}
    BY <1>5 DEF Runs
  <2>2. QED
    BY <1>1, <1>7, <2>1 DEF HeldIsSent
<1>16. QED
  BY <1>10, <1>11, <1>13, <1>14, <1>15 DEF Alone

\* The running call ends, or fails, where nothing else changes for it.
LEMMA RunEnds ==
  ASSUME CallsAreTyped, Alone, NEW s \in DOMAIN switches, Runs(s),
         NEW x \in {"done", "failed"}, switches' = [switches EXCEPT ![s].pc = x]
  PROVE  /\ DOMAIN switches' = DOMAIN switches
         /\ \A r \in DOMAIN switches' : ~Runs(r)'
<1>1. /\ DOMAIN switches' = DOMAIN switches
      /\ \A r \in DOMAIN switches : r # s => switches'[r] = switches[r]
      /\ switches'[s].pc = x
  BY PcChanges
<1>2. \A r \in DOMAIN switches : r # s => ~Runs(r)
  BY DEF Alone, OneRuns
<1>3. QED
  BY <1>1, <1>2 DEF Runs

LEMMA DeviceRefusedHeard ==
  ASSUME MutedInv, Alone, ShownIsTold, HeldIsSent, NEW s \in DOMAIN switches, DeviceRefused(s)
  PROVE  Alone' /\ ShownIsTold' /\ HeldIsSent'
<1>1. /\ switches[s].pc = "asking" /\ switches' = [switches EXCEPT ![s].pc = "done"]
      /\ UNCHANGED <<link, epoch, tracks, stream, senders, pressed, told>>
  BY DEF DeviceRefused, End
<1>2. Runs(s) /\ CallsAreTyped
  BY <1>1 DEF Runs, MutedInv
<1>3. \A r \in DOMAIN switches' : ~Runs(r)'
  BY <1>1, <1>2, RunEnds
<1>4. \A r \in DOMAIN switches : Runs(r) => r = s
  BY <1>2 DEF Alone, OneRuns
<1>5. \A r \in DOMAIN switches : switches[r].pc \in {"asking", "done", "failed"}
  BY <1>1, <1>4 DEF Runs
<1>6. (\A t : ~Placing(t)) /\ ~Adopts
  BY <1>5 DEF Placing, Adopts
<1>7. Mic' = Mic /\ Captured' = Captured
  BY <1>1 DEF Mic, Captured
<1>8. \A t \in Captured' : tracks'[t].live => t \in ToSet(stream')
  BY <1>1, <1>6, <1>7 DEF Alone, LiveIsHeld
<1>9. StreamIsOne'
  BY <1>1, <1>7 DEF Alone, StreamIsOne
<1>10. Alone'
  BY <1>3, <1>8, <1>9, IdleIsAlone
<1>11. IsOn(Mic)' = IsOn(Mic)
  BY <1>1, <1>7 DEF IsOn
<1>12. QED
  BY <1>1, <1>5, <1>6, <1>7, <1>10, <1>11 DEF ShownIsTold, HeldIsSent

\* The call that runs is the only one, and its connection is the current one.
LEMMA OnlyRun ==
  ASSUME Alone, NEW s \in DOMAIN switches, Runs(s)
  PROVE  /\ Current(s) /\ switches[s].epoch = epoch /\ link \in {"ready", "up", "cut"}
         /\ \A r \in DOMAIN switches : r # s => ~Runs(r)
<1>1. \A r \in DOMAIN switches : r # s => ~Runs(r)
  BY DEF Alone, OneRuns
<1>2. switches[s].epoch = epoch /\ link \in {"ready", "up", "cut"}
  BY DEF Alone, OneRuns
<1>3. QED
  BY <1>1, <1>2 DEF Current

\* What has to be shown when one call goes on running.
LEMMA OneGoesOn ==
  ASSUME Alone, NEW s \in DOMAIN switches, Runs(s), DOMAIN switches' = DOMAIN switches,
         \A r \in DOMAIN switches : r # s => switches'[r] = switches[r],
         switches'[s].epoch = epoch, UNCHANGED <<epoch, link>>,
         LiveIsHeld', StreamIsOne', RunIsRight(s)'
  PROVE  Alone' /\ \A r \in DOMAIN switches' : r # s => ~Runs(r)'
<1>1. /\ link \in {"ready", "up", "cut"}
      /\ \A r \in DOMAIN switches : r # s => ~Runs(r)
  BY OnlyRun
<1>2. \A r \in DOMAIN switches' : r # s => ~Runs(r)'
  BY <1>1 DEF Runs
<1>3. OneRuns'
  BY <1>1, <1>2 DEF OneRuns
<1>4. ASSUME NEW r \in DOMAIN switches', r # s
      PROVE  RunIsRight(r)'
  <2>1. switches'[r].pc \in {"done", "failed"}
    BY <1>2, <1>4 DEF Runs
  <2>2. QED
    BY <2>1 DEF RunIsRight
<1>5. \A r \in DOMAIN switches' : RunIsRight(r)'
  BY <1>4
<1>6. QED
  BY <1>2, <1>3, <1>5 DEF Alone

\* localStream holds at most the microphone.
LEMMA StreamHolds ==
  ASSUME TracksAreTyped, StreamIsOne
  PROVE  ToSet(stream) \subseteq {Mic}
<1>1. CASE stream = <<>>
  BY <1>1 DEF ToSet
<1>2. CASE stream # <<>>
  <2>1. stream = <<Mic>>
    BY <1>2 DEF StreamIsOne
  <2> DEFINE m == Mic
  <2>2. stream = <<m>>
    BY <2>1
  <2> HIDE DEF m
  <2>3. ToSet(stream) = {m}
    BY <2>2 DEF ToSet
  <2>4. QED
    BY <2>3 DEF m
<1>3. QED
  BY <1>1, <1>2

LEMMA DeviceOpensHeard ==
  ASSUME MutedInv, Alone, ShownIsTold, HeldIsSent, NEW s \in DOMAIN switches, DeviceOpens(s)
  PROVE  Alone' /\ ShownIsTold' /\ HeldIsSent'
<1> DEFINE call(x) == [pc |-> x, epoch |-> epoch, next |-> Fresh, prev |-> Mic]
           sends == \E i \in DOMAIN senders : senders[i] # 0
<1>1. /\ switches[s].pc = "asking"
      /\ IF ~Current(s) THEN End(s) /\ UNCHANGED <<tracks, stream, pressed, usable, told>>
         ELSE IF sends
           THEN /\ tracks' = Append(tracks, [live |-> TRUE, on |-> TRUE])
                /\ switches' = [switches EXCEPT ![s] = call("replacing")]
                /\ UNCHANGED <<stream, pressed, usable, told>>
           ELSE /\ TakePlace(Fresh, Mic)
                /\ switches' = [switches EXCEPT ![s] = call("adopting")]
                /\ UNCHANGED <<pressed, usable, told>>
      /\ UNCHANGED <<link, epoch, setups, senders, talking, refusals, wasOn, crossed>>
  BY DEF DeviceOpens
<1>2. Runs(s)
  BY <1>1 DEF Runs
<1>3. /\ Current(s) /\ switches[s].epoch = epoch /\ link \in {"ready", "up", "cut"}
      /\ \A r \in DOMAIN switches : r # s => ~Runs(r)
  BY <1>2, OnlyRun
<1>4. /\ TracksAreTyped /\ tracks \in Seq(MicTracks) /\ ToSet(stream) \subseteq Captured
      /\ Mic \in Captured \union {0} /\ Fresh \notin Captured /\ Fresh # 0
  <2>1. TracksAreTyped /\ tracks \in Seq(MicTracks) /\ ToSet(stream) \subseteq Captured
    BY DEF MutedInv, TracksAreTyped
  <2>2. Mic = 0 \/ Mic \in ToSet(stream)
    BY <2>1, MicIs DEF TracksAreTyped
  <2>3. QED
    BY <2>1, <2>2, CapturedIs
<1>5. \A x : call(x).pc = x /\ call(x).next = Fresh /\ call(x).prev = Mic /\ call(x).epoch = epoch
  OBVIOUS
<1> HIDE DEF call
<1>6. \A r \in DOMAIN switches : switches[r].pc \in {"asking", "done", "failed"}
  BY <1>1, <1>3 DEF Runs
<1>7. (\A t : ~Placing(t)) /\ ~Adopts
  BY <1>6 DEF Placing, Adopts
<1>8. \A t \in Captured : tracks[t].live => t \in ToSet(stream)
  BY <1>7 DEF Alone, LiveIsHeld
<1>9. CASE sends
  <2>1. /\ tracks' = Append(tracks, [live |-> TRUE, on |-> TRUE])
        /\ switches' = [switches EXCEPT ![s] = call("replacing")]
        /\ UNCHANGED <<stream, pressed, told, link, epoch, senders>>
    BY <1>1, <1>3, <1>9
  <2>2. [live |-> TRUE, on |-> TRUE] \in MicTracks
    BY DEF MicTracks
  <2>3. /\ Captured' = Captured \union {Fresh} /\ \A t \in Captured : tracks'[t] = tracks[t]
    BY <1>4, <2>1, <2>2, TrackAppended
  <2>4. /\ DOMAIN switches' = DOMAIN switches /\ switches'[s] = call("replacing")
        /\ \A r \in DOMAIN switches : r # s => switches'[r] = switches[r]
    BY <2>1
  <2>5. Mic' = Mic
    BY <2>1 DEF Mic
  <2>6. LiveIsHeld'
    <3>1. ASSUME NEW t, t = Fresh PROVE Placing(t)'
      BY <1>5, <2>4, <3>1 DEF Placing
    <3>2. ASSUME NEW t \in Captured, tracks'[t].live PROVE t \in ToSet(stream')
      BY <1>8, <2>1, <2>3, <3>2
    <3>3. ASSUME NEW t \in Captured' PROVE tracks'[t].live => t \in ToSet(stream') \/ Placing(t)'
      <4>1. CASE t \in Captured
        BY <3>2, <4>1
      <4>2. CASE t = Fresh
        BY <3>1, <4>2
      <4>3. QED
        BY <2>3, <4>1, <4>2
    <3>4. QED
      BY <3>3 DEF LiveIsHeld
  <2>7. stream # <<>> => Mic \in Captured
    BY <1>4, MicIs DEF TracksAreTyped
  <2>8. StreamIsOne'
    BY <2>1, <2>3, <2>5, <2>7 DEF Alone, StreamIsOne
  <2>9. RunIsRight(s)'
    BY <1>5, <2>4, <2>5 DEF RunIsRight
  <2>10. Alone' /\ \A r \in DOMAIN switches' : r # s => ~Runs(r)'
    BY <1>2, <1>5, <2>1, <2>4, <2>6, <2>8, <2>9, OneGoesOn
  <2>11. ShownIsTold'
    <3>1. IsOn(Mic)' = IsOn(Mic)
      <4>1. Mic # 0 => tracks'[Mic] = tracks[Mic]
        BY <1>4, <2>3
      <4>2. QED
        BY <2>5, <4>1 DEF IsOn
    <3>2. QED
      BY <1>7, <2>1, <3>1 DEF ShownIsTold
  <2>12. HeldIsSent'
    <3>1. \A r \in DOMAIN switches : switches[r].pc \notin {"replaced", "adopting"}
      BY <1>6
    <3>2. QED
      BY <2>1, <2>5, <3>1 DEF HeldIsSent
  <2>13. QED
    BY <2>10, <2>11, <2>12
<1>10. CASE ~sends
  <2>1. /\ TakePlace(Fresh, Mic)
        /\ switches' = [switches EXCEPT ![s] = call("adopting")]
        /\ UNCHANGED <<pressed, told, link, epoch, senders>>
    BY <1>1, <1>3, <1>10
  <2>2. Fresh # Mic
    BY <1>4
  <2>3. ToSet(stream) \subseteq {Mic}
    BY <1>4, StreamHolds DEF Alone
  <2>4. /\ Captured' = Captured \union {Fresh}
        /\ tracks'[Fresh].live = TRUE
        /\ \A t \in Captured : t # Fresh =>
             /\ tracks'[t].on = tracks[t].on
             /\ tracks'[t].live = IF t = Mic THEN FALSE ELSE tracks[t].live
        /\ stream' = <<Fresh>>
    <3>1. Placed(Fresh, Mic)
      BY <1>4, <2>1, <2>2, PlaceTaken
    <3>2. QED
      BY <2>3, <3>1 DEF Placed
  <2>5. /\ DOMAIN switches' = DOMAIN switches /\ switches'[s] = call("adopting")
        /\ \A r \in DOMAIN switches : r # s => switches'[r] = switches[r]
    BY <2>1
  <2>6. Mic' = Fresh /\ Fresh \in ToSet(stream')
    BY <2>4 DEF Mic, ToSet
  <2>7. LiveIsHeld'
    <3>1. ASSUME NEW t \in Captured', tracks'[t].live
          PROVE  t \in ToSet(stream')
      <4>1. CASE t = Fresh
        BY <2>6, <4>1
      <4>2. CASE t # Fresh
        BY <1>8, <2>3, <2>4, <3>1, <4>2
      <4>3. QED
        BY <4>1, <4>2
    <3>2. QED
      BY <3>1 DEF LiveIsHeld
  <2>8. StreamIsOne'
    BY <2>4, <2>6 DEF StreamIsOne
  <2>9. RunIsRight(s)'
    <3>1. switches'[s].pc = "adopting" /\ switches'[s].next = Fresh
      BY <1>5, <2>5
    <3>2. QED
      BY <2>4, <3>1 DEF RunIsRight
  <2>10. Alone'
    BY <1>2, <1>5, <2>1, <2>5, <2>7, <2>8, <2>9, OneGoesOn
  <2>11. switches'[s].pc = "adopting" /\ s \in DOMAIN switches'
    BY <1>5, <2>5
  <2>12. Adopts'
    BY <2>11 DEF Adopts
  <2>13. QED
    BY <2>10, <2>11, <2>12 DEF ShownIsTold, HeldIsSent
<1>11. QED
  BY <1>9, <1>10

LEMMA ReplacedHeard ==
  ASSUME MutedInv, Alone, ShownIsTold, HeldIsSent, NEW s \in DOMAIN switches, Replaced(s)
  PROVE  Alone' /\ ShownIsTold' /\ HeldIsSent'
<1> DEFINE next == switches[s].next
           x == IF switches[s].pc = "replacing" THEN "replaced" ELSE "negotiating"
<1>1. /\ switches[s].pc \in {"replacing", "adopting"}
      /\ IF Current(s)
           THEN /\ senders' = [senders EXCEPT ![Target] = next]
                /\ switches' = [switches EXCEPT ![s].pc =
                                  IF @ = "replacing" THEN "replaced" ELSE "negotiating"]
           ELSE End(s) /\ UNCHANGED senders
      /\ UNCHANGED <<link, epoch, setups, tracks, stream, pressed, usable, told, talking,
                     refusals, wasOn, crossed>>
  BY DEF Replaced
<1>2. Runs(s)
  BY <1>1 DEF Runs
<1>3. /\ Current(s) /\ switches[s].epoch = epoch /\ link \in {"ready", "up", "cut"}
      /\ \A r \in DOMAIN switches : r # s => ~Runs(r)
  BY <1>2, OnlyRun
<1>4. /\ senders' = [senders EXCEPT ![Target] = next]
      /\ switches' = [switches EXCEPT ![s].pc = x]
  BY <1>1, <1>3
<1>5. /\ x \in {"replaced", "negotiating"}
      /\ (x = "replaced" <=> switches[s].pc = "replacing")
      /\ (x = "negotiating" <=> switches[s].pc = "adopting")
  BY <1>1
<1> HIDE DEF x
<1>6. CallsAreTyped /\ TracksAreTyped /\ senders # <<>>
  BY <1>3 DEF MutedInv, LinkIsRight
<1>7. /\ DOMAIN switches' = DOMAIN switches
      /\ \A r \in DOMAIN switches : r # s => switches'[r] = switches[r]
      /\ switches'[s].pc = x
      /\ \A r \in DOMAIN switches : /\ switches'[r].epoch = switches[r].epoch
                                    /\ switches'[r].next = switches[r].next
                                    /\ switches'[r].prev = switches[r].prev
  BY <1>4, <1>5, <1>6, PcChanges
<1>8. next \in ToSet(senders')
  <2>1. next \in Nat /\ senders \in Seq(Nat)
    BY <1>6, CallFields DEF TracksAreTyped
  <2>2. QED
    BY <1>4, <1>6, <2>1, TargetIs
<1>9. Mic' = Mic /\ Captured' = Captured
  BY <1>1 DEF Mic, Captured
<1>10. \A t : Placing(t)' = Placing(t)
  <2>1. \A r \in DOMAIN switches :
          switches'[r].pc \in {"replacing", "replaced"} <=> switches[r].pc \in {"replacing", "replaced"}
    BY <1>1, <1>5, <1>7
  <2>2. QED
    BY <1>7, <2>1 DEF Placing
<1>11. LiveIsHeld' /\ StreamIsOne'
  BY <1>1, <1>9, <1>10 DEF Alone, LiveIsHeld, StreamIsOne
<1>12. RunIsRight(s)'
  <2>1. RunIsRight(s)
    BY DEF Alone
  <2>2. QED
    BY <1>1, <1>5, <1>7, <1>8, <1>9, <2>1 DEF RunIsRight
<1>13. Alone' /\ \A r \in DOMAIN switches' : r # s => ~Runs(r)'
  BY <1>1, <1>2, <1>3, <1>7, <1>11, <1>12, OneGoesOn
<1>14. Adopts' = Adopts
  <2>1. \A r \in DOMAIN switches :
          switches'[r].pc \in {"adopting", "negotiating"} <=> switches[r].pc \in {"adopting", "negotiating"}
    BY <1>1, <1>5, <1>7
  <2>2. QED
    BY <1>7, <2>1 DEF Adopts
<1>15. ShownIsTold'
  <2>1. IsOn(Mic)' = IsOn(Mic)
    BY <1>1, <1>9 DEF IsOn
  <2>2. QED
    BY <1>1, <1>14, <2>1 DEF ShownIsTold
<1>16. HeldIsSent'
  <2>1. CASE x = "replaced"
    BY <1>7, <2>1 DEF HeldIsSent
  <2>2. CASE x = "negotiating"
    <3>1. stream = <<next>>
      BY <1>5, <2>2 DEF Alone, RunIsRight
    <3>2. Mic' = next
      BY <1>9, <3>1 DEF Mic
    <3>3. QED
      BY <1>8, <3>2 DEF HeldIsSent
  <2>3. QED
    BY <1>5, <2>1, <2>2
<1>17. QED
  BY <1>13, <1>15, <1>16

LEMMA SwitchOverHeard ==
  ASSUME MutedInv, Alone, NEW s \in DOMAIN switches, SwitchOver(s)
  PROVE  Alone' /\ ShownIsTold' /\ HeldIsSent'
<1>1. /\ switches[s].pc = "replaced"
      /\ IF Current(s)
           THEN /\ TakePlace(switches[s].next, switches[s].prev)
                /\ Finish(s, stream', tracks')
           ELSE End(s) /\ UNCHANGED <<tracks, stream, pressed, usable, told>>
      /\ UNCHANGED <<link, epoch, setups, senders, talking, refusals, wasOn, crossed>>
  BY DEF SwitchOver
<1>2. Runs(s)
  BY <1>1 DEF Runs
<1>3. /\ Current(s) /\ link \in {"ready", "up", "cut"}
      /\ \A r \in DOMAIN switches : r # s => ~Runs(r)
  BY <1>2, OnlyRun
<1>4. /\ switches[s].next \in Captured /\ switches[s].next # 0
      /\ switches[s].prev \in Captured \union {0} /\ switches[s].next # switches[s].prev
  BY <1>1 DEF MutedInv, CallsAreRight, CallIsRight
<1>5. switches[s].prev = Mic /\ switches[s].next \in ToSet(senders)
  BY <1>1 DEF Alone, RunIsRight
<1>6. PICK n \in Captured \union {Fresh}, p \in Captured \union {0} :
        n = switches[s].next /\ p = switches[s].prev
  BY <1>4
<1>7. /\ TakePlace(n, p) /\ switches' = [switches EXCEPT ![s].pc = "done"]
      /\ usable' = (stream' # <<>>)
      /\ pressed' = (stream' # <<>> /\ tracks'[Head(stream')].on)
      /\ told' = IF Open THEN stream' # <<>> /\ tracks'[Head(stream')].on ELSE told
      /\ UNCHANGED <<link, epoch, senders>>
  BY <1>1, <1>3, <1>6 DEF Finish, End, ShowFor, TellFor, TakePlace
<1>8. /\ n \in Captured /\ n # 0 /\ n # p /\ p = Mic /\ n \in ToSet(senders)
      /\ TracksAreTyped /\ CallsAreTyped
  BY <1>4, <1>5, <1>6 DEF MutedInv
<1>9. ToSet(stream) \subseteq {p}
  BY <1>8, StreamHolds DEF Alone
<1>10. /\ Captured' = Captured \union {n} /\ tracks' \in Seq(MicTracks)
       /\ tracks'[n].live = TRUE
       /\ \A t \in Captured : t # n =>
            /\ tracks'[t].on = tracks[t].on
            /\ tracks'[t].live = IF t = p THEN FALSE ELSE tracks[t].live
       /\ stream' = <<n>>
  <2>1. Placed(n, p)
    BY <1>7, <1>8, PlaceTaken
  <2>2. QED
    BY <1>9, <2>1 DEF Placed
<1>11. Mic' = n /\ ToSet(stream') = {n} /\ stream' # <<>> /\ Head(stream') = n
  BY <1>10 DEF Mic, ToSet
<1>12. \A r \in DOMAIN switches' : ~Runs(r)'
  BY <1>2, <1>7, <1>8, RunEnds
<1>13. \A t \in Captured' : tracks'[t].live => t \in ToSet(stream')
  <2>1. SUFFICES ASSUME NEW t \in Captured, t # n, tracks'[t].live PROVE FALSE
    BY <1>8, <1>10, <1>11
  <2>2. t # p /\ tracks[t].live
    BY <1>10, <2>1
  <2>3. Placing(t)
    BY <1>9, <2>2 DEF Alone, LiveIsHeld
  <2>4. PICK r \in DOMAIN switches : switches[r].next = t /\ switches[r].pc \in {"replacing", "replaced"}
    BY <2>3 DEF Placing
  <2>5. Runs(r)
    BY <2>4 DEF Runs
  <2>6. QED
    BY <1>3, <1>6, <2>1, <2>4, <2>5
<1>14. StreamIsOne'
  BY <1>10, <1>11 DEF StreamIsOne
<1>15. Alone' /\ ~Adopts'
  BY <1>12, <1>13, <1>14, IdleIsAlone
<1>16. tracks'[n].on \in BOOLEAN
  <2>1. tracks'[n] \in MicTracks
    <3>1. n \in DOMAIN tracks'
      BY <1>10 DEF Captured
    <3>2. QED
      BY <1>10, <3>1
  <2>2. QED
    BY <2>1 DEF MicTracks
<1>17. pressed' = tracks'[n].on /\ IsOn(Mic)' = tracks'[n].on
  <2>1. pressed' = tracks'[n].on
    BY <1>7, <1>11, <1>16
  <2>2. IsOn(Mic)' = (n # 0 /\ tracks'[n].on)
    BY <1>11 DEF IsOn
  <2>3. QED
    BY <1>8, <1>16, <2>1, <2>2
<1>18. link = "up" => told' = pressed'
  BY <1>7 DEF Open
<1>19. ShownIsTold'
  BY <1>7, <1>17, <1>18 DEF ShownIsTold
<1>20. HeldIsSent'
  BY <1>7, <1>8, <1>11 DEF HeldIsSent
<1>21. QED
  BY <1>15, <1>19, <1>20

\* The call of an adopted track ends.
LEMMA AdoptionLeaves ==
  ASSUME MutedInv, Alone, NEW s \in DOMAIN switches, switches[s].pc = "negotiating",
         NEW x \in {"done", "failed"}, switches' = [switches EXCEPT ![s].pc = x],
         UNCHANGED <<epoch, tracks, stream, senders>>
  PROVE  /\ Alone' /\ ~Adopts' /\ Mic' = Mic /\ HeldIsSent'
         /\ Mic # 0 /\ Mic = Head(stream) /\ stream # <<>> /\ tracks[Mic].on \in BOOLEAN
<1>1. Runs(s) /\ TracksAreTyped /\ CallsAreTyped
  BY DEF Runs, MutedInv
<1>2. \A r \in DOMAIN switches' : ~Runs(r)'
  BY <1>1, RunEnds
<1>3. \A r \in DOMAIN switches : r # s => ~Runs(r)
  BY <1>1, OnlyRun
<1>4. \A t : ~Placing(t)
  BY <1>3 DEF Placing, Runs
<1>5. Mic' = Mic /\ Captured' = Captured
  BY DEF Mic, Captured
<1>6. \A t \in Captured' : tracks'[t].live => t \in ToSet(stream')
  BY <1>4, <1>5 DEF Alone, LiveIsHeld
<1>7. StreamIsOne'
  BY <1>5 DEF Alone, StreamIsOne
<1>8. Alone' /\ ~Adopts'
  BY <1>2, <1>6, <1>7, IdleIsAlone
<1>9. stream = <<switches[s].next>> /\ switches[s].next \in ToSet(senders)
  BY DEF Alone, RunIsRight
<1>10. Mic = switches[s].next /\ stream # <<>> /\ Mic = Head(stream)
  BY <1>9 DEF Mic
<1>11. Mic \in Captured /\ Mic # 0
  BY <1>10 DEF MutedInv, CallsAreRight, CallIsRight
<1>12. tracks[Mic].on \in BOOLEAN
  BY <1>1, <1>11, CapturedIs DEF TracksAreTyped
<1>13. HeldIsSent'
  BY <1>5, <1>9, <1>10 DEF HeldIsSent
<1>14. QED
  BY <1>5, <1>8, <1>10, <1>11, <1>12, <1>13

LEMMA NegotiatedHeard ==
  ASSUME MutedInv, Alone, NEW s \in DOMAIN switches, Negotiated(s)
  PROVE  Alone' /\ ShownIsTold' /\ HeldIsSent'
<1>1. /\ switches[s].pc = "negotiating"
      /\ IF Current(s) THEN Open /\ Finish(s, stream, tracks)
         ELSE End(s) /\ UNCHANGED <<pressed, usable, told>>
      /\ UNCHANGED <<link, epoch, tracks, stream, senders>>
  BY DEF Negotiated
<1>2. Current(s)
  BY <1>1, OnlyRun DEF Runs
<1>3. /\ switches' = [switches EXCEPT ![s].pc = "done"] /\ Open
      /\ pressed' = (stream # <<>> /\ tracks[Head(stream)].on)
      /\ told' = IF Open THEN stream # <<>> /\ tracks[Head(stream)].on ELSE told
  BY <1>1, <1>2 DEF Finish, End, ShowFor, TellFor
<1>4. /\ Alone' /\ ~Adopts' /\ Mic' = Mic /\ HeldIsSent'
      /\ Mic # 0 /\ Mic = Head(stream) /\ stream # <<>> /\ tracks[Mic].on \in BOOLEAN
  BY <1>1, <1>3, AdoptionLeaves
<1>5. pressed' = tracks[Mic].on /\ told' = tracks[Mic].on
  BY <1>3, <1>4
<1>6. IsOn(Mic)' = tracks[Mic].on
  <2>1. IsOn(Mic)' = (Mic # 0 /\ tracks[Mic].on)
    BY <1>1, <1>4 DEF IsOn
  <2>2. QED
    BY <1>4, <2>1
<1>7. QED
  BY <1>4, <1>5, <1>6 DEF ShownIsTold

LEMMA OfferTimesOutHeard ==
  ASSUME MutedInv, Alone, NEW s \in DOMAIN switches, OfferTimesOut(s)
  PROVE  Alone' /\ ShownIsTold' /\ HeldIsSent'
<1>1. /\ switches[s].pc = "negotiating" /\ link' = "cut"
      /\ switches' = [switches EXCEPT ![s].pc = "failed"]
      /\ UNCHANGED <<epoch, tracks, stream, senders>>
  BY DEF OfferTimesOut
<1>2. QED
  BY <1>1, AdoptionLeaves DEF ShownIsTold, HeldIsSent

\* The invariant holds first, every step keeps it, and it implies that an open
\* microphone is heard.
LEMMA HeardInitHolds ==
  ASSUME MicInit
  PROVE  HeardInv
<1>1. Captured = {} /\ stream = <<>> /\ DOMAIN switches = {} /\ link = "down"
  BY DEF MicInit, Captured
<1>2. Alone
  BY <1>1 DEF Alone, OneRuns, LiveIsHeld, StreamIsOne
<1>3. QED
  BY <1>1, <1>2 DEF HeardInv, ShownIsTold, HeldIsSent

LEMMA HeardNextKeeps ==
  ASSUME MutedInv, HeardInv, [MicNext]_micVars
  PROVE  HeardInv'
<1>1. SUFFICES ASSUME ~crossed' PROVE Alone' /\ ShownIsTold' /\ HeldIsSent'
  BY DEF HeardInv
<1>2. ~crossed
  <2>1. CASE UNCHANGED micVars
    BY <1>1, <2>1 DEF micVars
  <2>2. CASE MicNext
    <3>1. crossed' = crossed \/ crossed' = (crossed \/ ~Idle)
      BY <2>2
      DEF MicNext, StartMedia, Capture, CaptureRefused, SendTrack, Lose, ResetConnection,
          Click, SpaceDown, SpaceUp, SelectDevice, Switching, DeviceOpens, DeviceRefused,
          Replaced, SwitchOver, Negotiated, OfferTimesOut
    <3>2. QED
      BY <1>1, <3>1
  <2>3. QED
    BY <2>1, <2>2
<1>3. Alone /\ ShownIsTold /\ HeldIsSent
  BY <1>2 DEF HeardInv
<1>4. CASE StartMedia
  BY <1>3, <1>4, StartMediaHeard
<1>5. CASE Capture
  BY <1>3, <1>5, CaptureHeard
<1>6. CASE CaptureRefused
  BY <1>3, <1>6, CaptureRefusedHeard
<1>7. CASE SendTrack
  BY <1>3, <1>7, SendTrackHeard
<1>8. CASE Lose
  BY <1>3, <1>8, LoseHeard
<1>9. CASE ResetConnection
  BY <1>1, <1>3, <1>9, ResetConnectionHeard
<1>10. CASE Click \/ SpaceDown \/ SpaceUp
  <2>1. Toggled /\ UNCHANGED <<link, epoch, stream, senders, switches>>
    BY <1>10 DEF Click, SpaceDown, SpaceUp
  <2>2. QED
    BY <1>3, <2>1, ToggledHeard
<1>11. CASE SelectDevice
  BY <1>1, <1>3, <1>11, SelectDeviceHeard
<1>12. CASE Switching
  <2>1. PICK s \in DOMAIN switches :
           \/ DeviceOpens(s) \/ DeviceRefused(s) \/ Replaced(s) \/ SwitchOver(s)
           \/ Negotiated(s) \/ OfferTimesOut(s)
    BY <1>12 DEF Switching
  <2>2. QED
    BY <1>3, <2>1, DeviceOpensHeard, DeviceRefusedHeard, ReplacedHeard, SwitchOverHeard,
       NegotiatedHeard, OfferTimesOutHeard
<1>13. CASE UNCHANGED micVars
  <2>1. Alone' /\ Adopts' = Adopts /\ Mic' = Mic
    <3>1. UNCHANGED <<epoch, tracks, stream, senders, switches>> /\ link' = link
      BY <1>13 DEF micVars
    <3>2. link' \in {"ready", "up", "cut"} \/ \A s \in DOMAIN switches : ~Runs(s)
      BY <1>3, <3>1 DEF Alone, OneRuns
    <3>3. QED
      BY <1>3, <3>1, <3>2, CallsStay
  <2>2. IsOn(Mic)' = IsOn(Mic)
    BY <1>13, <2>1 DEF IsOn, micVars
  <2>3. QED
    BY <1>3, <1>13, <2>1, <2>2 DEF ShownIsTold, HeldIsSent, micVars
<1>14. QED
  BY <1>4, <1>5, <1>6, <1>7, <1>8, <1>9, <1>10, <1>11, <1>12, <1>13 DEF MicNext

LEMMA HeardInvImplies ==
  ASSUME MutedInv, HeardInv
  PROVE  HeardWhenOn /\ MicrophonesClose
<1>1. TracksAreTyped
  BY DEF MutedInv
<1>2. HeardWhenOn
  <2>1. SUFFICES ASSUME link = "up", Idle, ~crossed
                 PROVE  told = pressed /\ (pressed => Sent(Mic))
    BY DEF HeardWhenOn
  <2>2. Alone /\ ShownIsTold /\ HeldIsSent
    BY <2>1 DEF HeardInv
  <2>3. /\ ~Adopts
        /\ \A s \in DOMAIN switches : switches[s].pc \notin {"replaced", "adopting"}
    BY <2>1 DEF Idle, Adopts
  <2>4. pressed = IsOn(Mic) /\ told = pressed
    BY <2>1, <2>2, <2>3 DEF ShownIsTold
  <2>5. ASSUME pressed PROVE Sent(Mic)
    <3>1. Mic # 0 /\ tracks[Mic].on
      BY <2>4, <2>5 DEF IsOn
    <3>2. stream # <<>>
      BY <3>1 DEF Mic
    <3>3. Mic \in ToSet(senders) /\ tracks[Mic].live
      BY <2>1, <2>2, <2>3, <3>2 DEF HeldIsSent, Alone, StreamIsOne
    <3>4. senders \in Seq(Nat)
      BY <1>1 DEF TracksAreTyped
    <3>5. Contains(senders, Mic)
      BY <3>3, <3>4, ContainsIs
    <3>6. QED
      BY <3>1, <3>3, <3>5 DEF Sent
  <2>6. QED
    BY <2>4, <2>5
<1>3. MicrophonesClose
  <2>1. SUFFICES ASSUME Idle, ~crossed, NEW t \in Captured, tracks[t].live
                 PROVE  Contains(stream, t)
    BY DEF MicrophonesClose
  <2>2. Alone /\ \A s \in DOMAIN switches : ~Runs(s)
    BY <2>1 DEF HeardInv, Idle, Runs
  <2>3. t \in ToSet(stream)
    BY <2>1, <2>2, NothingRuns
  <2>4. stream \in Seq(Nat)
    BY <1>1 DEF TracksAreTyped
  <2>5. QED
    BY <2>3, <2>4, ContainsIs
<1>4. QED
  BY <1>2, <1>3

\* The list of people, the labels and the badges of the tiles are what follows
\* from what the page knows of each participant (renderParticipants and its callers).
THEOREM PeopleAreShown == PeopleSpec => [](PeopleTypeOK /\ ListIsCurrent /\ TilesAreCurrent)
<1>1. PeopleInit => PeopleInv
  BY PeopleInitHolds
<1>2. PeopleInv /\ [PeopleNext]_peopleVars => PeopleInv'
  BY PeopleNextKeeps
<1>3. PeopleInv => PeopleTypeOK /\ ListIsCurrent /\ TilesAreCurrent
  BY PeopleInvImplies
<1>4. QED
  BY <1>1, <1>2, <1>3, PTL DEF PeopleSpec

\* Muted is silent; who shows an open microphone is heard, and none is left open
\* (startWebRTC, replaceLocalDevice, resetMediaConnection).
THEOREM MicrophoneIsTrue ==
  MicSpec => [](MicTypeOK /\ MutedIsSilent /\ HeardWhenOn /\ MicrophonesClose)
<1>1. MicInit => MutedInv /\ HeardInv
  BY MicInitHolds, HeardInitHolds
<1>2. (MutedInv /\ HeardInv) /\ [MicNext]_micVars => (MutedInv /\ HeardInv)'
  BY MicNextKeeps, HeardNextKeeps
<1>3. MutedInv /\ HeardInv => MicTypeOK /\ MutedIsSilent /\ HeardWhenOn /\ MicrophonesClose
  BY MutedInvImplies, HeardInvImplies
<1>4. QED
  BY <1>1, <1>2, <1>3, PTL DEF MicSpec

(***************************************************************************)
(* The parts together.  A step of the page is a step of one part, and the  *)
(* others stutter: the page implements each of them.                       *)
(***************************************************************************)
LEMMA StepsOfParts ==
  ASSUME [ControlsNext]_controlsVars
  PROVE  /\ [Next]_vars /\ [AdaptNext]_adaptVars /\ [MicNext]_micVars
         /\ [PeopleNext]_peopleVars /\ [LayoutNext]_layoutVars
<1>1. CASE ScreenPart(Next)
  BY <1>1 DEF ScreenPart
<1>2. CASE AdaptPart(AdaptNext)
  BY <1>2 DEF AdaptPart
<1>3. CASE MicNext /\ UNCHANGED <<vars, adaptVars, peopleVars, layoutVars>>
  BY <1>3
<1>4. CASE PeopleNext /\ UNCHANGED <<vars, adaptVars, micVars, layoutVars>>
  BY <1>4
<1>5. CASE LayoutNext /\ UNCHANGED <<vars, adaptVars, micVars, peopleVars>>
  BY <1>5
<1>6. CASE UNCHANGED controlsVars
  BY <1>6 DEF controlsVars
<1>7. QED
  BY <1>1, <1>2, <1>3, <1>4, <1>5, <1>6 DEF ControlsNext

\* Each part of the meeting page behaves as its own specification says, whatever
\* the others do (app.js: they share no state).
THEOREM PartsAreImplemented ==
  ControlsSpec => Spec /\ AdaptSpec /\ MicSpec /\ PeopleSpec /\ LayoutSpec
<1>1. ControlsInit => Init /\ AdaptInit /\ MicInit /\ PeopleInit /\ LayoutInit
  BY DEF ControlsInit
<1>2. [ControlsNext]_controlsVars =>
        /\ [Next]_vars /\ [AdaptNext]_adaptVars /\ [MicNext]_micVars
        /\ [PeopleNext]_peopleVars /\ [LayoutNext]_layoutVars
  BY StepsOfParts
<1>3. QED
  BY <1>1, <1>2, PTL DEF ControlsSpec, Spec, AdaptSpec, MicSpec, PeopleSpec, LayoutSpec

\* What is shared is sent as it was decided last, no microphone is left open, the
\* list and the tiles show what is known, and the grid is nearly the best one.
THEOREM ControlsAreSafe == ControlsSpec => []ControlsInv
<1>1. ControlInv => AdaptTypeOK /\ AppliedIsCurrent
  BY ControlInvImplies
<1>2. ScreenInv => TypeOK /\ SharedIsSent
  BY ScreenImplies
<1>3. Spec => [](TypeOK /\ SharedIsSent)
  BY <1>2, ScreenInvIsInvariant, PTL
<1>4. ControlsSpec =>
        [](/\ TypeOK /\ SharedIsSent
           /\ AdaptTypeOK /\ AppliedIsCurrent
           /\ MicTypeOK /\ MicrophonesClose
           /\ PeopleTypeOK /\ ListIsCurrent /\ TilesAreCurrent
           /\ LayoutTypeOK /\ NearlyBest)
  BY <1>3, PartsAreImplemented, AdaptIsSafe, MicrophoneIsTrue, PeopleAreShown, GridIsSound, PTL
<1>5. QED
  BY <1>4, PTL DEF ControlsInv

\* In a quiet moment the hub's screen lease is held exactly by the page that shares
\* (startScreenShare, stopScreenShare).
THEOREM LeaseIsMatched == ControlsSpec => []LeaseMatchesShare
  BY PartsAreImplemented, ScreenIsSafe, PTL

\* No capture of the screen runs that the page neither shares nor is stopping.
THEOREM CapturesAreStopped == ControlsSpec => []NoCaptureLeftOver
  BY PartsAreImplemented, ScreenIsSafe, PTL

\* The microphone button tells the truth both ways.
THEOREM ButtonTellsTruth == ControlsSpec => []ButtonIsTrue
<1>1. ControlsSpec => [](MutedIsSilent /\ HeardWhenOn)
  BY PartsAreImplemented, MicrophoneIsTrue, PTL
<1>2. QED
  BY <1>1, PTL DEF ButtonIsTrue

\* The grid comes to rest over a stage that does not change (renderMeetingLayout), and
\* the bitrate control never takes back what it learned (sample, applyParameters).
THEOREM ControlsSettle == ControlsSpec => LayoutSettles /\ LearnedIsKept
  BY PartsAreImplemented, GridIsSound, AdaptIsSafe, PTL
=============================================================================
