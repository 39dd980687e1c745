------------------------------ MODULE CallProofs ------------------------------
(***************************************************************************)
(* A call of module Call is always moved on by somebody, and leaks       *)
(* nothing: the inductive invariant, and its proof.                        *)
(*  - A generation is used up only by what somebody did, by trouble, or by *)
(*    what is due since then, so their number is bounded by the acts.      *)
(*  - In a meeting the latest request is one for credentials, and the one  *)
(*    that the start of the current socket awaits.                         *)
(*  - Without a retry that skipped resetMediaConnection, the peer          *)
(*    connection and the microphone are those of the current generation.   *)
(***************************************************************************)
EXTENDS Call, TLAPS

LastGen == 2 * MaxActs + 2 * MaxFailures + 2 * MaxTroubles + MaxRetries
Requests == [v : Nat, tok : Nat]
Restarts == [timer : BOOLEAN, req : BOOLEAN, att : 0 .. MaxIceRestarts]

FormTypes == view \in {"welcome", "meeting", "ended"} /\ joinDisabled \in BOOLEAN /\ joining \in Nat
SockTypes == /\ gen \in Nat /\ sock \in {"connecting", "open", "closing", "closed"}
             /\ joined \in {"no", "yes", "refused"} /\ token \in Nat
LostTypes == /\ intentional \in BOOLEAN /\ switching \in BOOLEAN /\ attempts \in Nat
             /\ timer \in {"none", "backoff", "switch"} /\ strays \in Nat
ConfigTypes == /\ ver \in Nat /\ flights \subseteq Requests /\ pub \in Nat /\ cred \in Requests
               /\ watching \in Nat /\ servers \in {"none", "public", "session"}
TaskTypes == /\ task \in [Gens -> {"none", "creds", "mic", "setup", "done"}]
             /\ awaits \in [Gens -> Nat]
MediaTypes == /\ peer \in {0} \union Gens /\ openPeers \subseteq Gens /\ mics \subseteq Gens
              /\ stream \in {0} \union mics /\ stats \in BOOLEAN
              /\ media \in {"new", "connected", "disconnected", "failed"}
              /\ shown \in {"connecting", "connected", "reconnecting", "offline", "unavailable"}
              /\ rail \in BOOLEAN /\ doubled \in BOOLEAN
IceTypes == ice \in Restarts
BoundTypes == /\ failures \in 0 .. MaxFailures /\ troubles \in 0 .. MaxTroubles
              /\ acts \in 0 .. MaxActs /\ retries \in 0 .. MaxRetries /\ errors \in Nat
Types == /\ FormTypes /\ SockTypes /\ LostTypes /\ ConfigTypes /\ TaskTypes /\ MediaTypes
         /\ IceTypes /\ BoundTypes

One(condition) == IF condition THEN 1 ELSE 0
\* The generations that are due without anything more happening: a submission may
\* connect and its call be left, so may a stray timer; a timer connects, a call is
\* left, and a socket that is closing or was refused arms a timer.
Due == 2 * One(joining # 0) + One(timer # "none") + 2 * strays
       + One(view = "meeting" \/ sock \in {"connecting", "open"})
       + One(view = "meeting" /\ (sock = "closing" \/ (sock = "open" /\ joined = "refused")))
\* What may still be made is paid by what has happened.
Budget == 2 * acts + 2 * failures + 2 * troubles + retries
Counted ==
  /\ gen + Due <= Budget
  /\ strays + One(timer # "none" /\ sock = "connecting") <= retries

\* What the socket, the view, the timers and the token say of one another.
Phases ==
  /\ sock # "closed" => gen > 0
  /\ sock = "connecting" => joined = "no"
  /\ timer # "none" => view = "meeting" /\ sock \in {"closed", "connecting"}
  /\ timer = "switch" => switching
  /\ joined = "yes" => view = "meeting"
  /\ view = "meeting" <=> token # 0
  /\ token <= gen /\ (token = gen => gen = 0 \/ joined = "yes")
  /\ view = "meeting" => gen > 0
  /\ DownMeansScheduled

\* The requests for the ICE configuration are numbered, and the shared ones are under way.
Numbered ==
  /\ \A f \in flights : f.v > 0 /\ f.v <= ver
  /\ \A f, h \in flights : f.v = h.v => f = h
  /\ pub # 0 => [v |-> pub, tok |-> 0] \in flights
  /\ cred.v # 0 => cred \in flights /\ cred.tok # 0

\* In a meeting the latest request is one for credentials, and for the token that is held.
Requested ==
  /\ Numbered
  /\ \A f \in flights : f.tok <= gen /\ (f.tok = gen => gen = 0 \/ joined = "yes")
  /\ view = "meeting" => /\ \A f \in flights : f.tok = 0 => f.v # ver
                         /\ cred.v # 0 /\ cred.tok = token => cred.v = ver
  /\ joining <= ver /\ (view # "welcome" /\ joining # 0 => joining # ver)

\* What the start of each generation has reached.
Started ==
  /\ \A g \in Gens : g > gen \/ (g = gen /\ joined # "yes") => task[g] = "none"
  /\ \A g \in openPeers : task[g] \in {"mic", "setup", "done"}
  /\ peer # 0 => task[peer] \in {"mic", "setup", "done"}
  /\ Current(gen) /\ gen # 0 /\ task[gen] = "creds"
       => ver > 0 /\ awaits[gen] = ver /\ cred = [v |-> ver, tok |-> token]
  /\ CredentialsSurvive

\* Failed media is being restarted.
Restarting ==
  /\ ice.req \/ ice.timer => MaxIceRestarts > 0
  /\ FailureIsHandled

\* The media is the current generation's own.
Owned ==
  retries = 0 =>
    /\ peer # 0 => peer = gen /\ view = "meeting"
    /\ \A g \in openPeers : g = peer \/ task[g] = "mic"
    /\ \A g \in mics : g = stream
    /\ stream # 0 => stream = peer /\ task[stream] \in {"setup", "done"}
    /\ stats => peer # 0
    /\ view = "ended" => sock = "closed"

Inv == Types /\ Counted /\ Phases /\ Requested /\ Started /\ Restarting /\ Owned

----------------------------------------------------------------------------
(* Facts about the bounds, the restarts and the requests.                  *)

\* The generations that a call may reach have their numbers in Gens.
LEMMA Numbers ==
  ASSUME Inv
  PROVE  /\ LastGen \in Nat /\ Gens = 1 .. LastGen /\ Due \in Nat
         /\ gen \in {0} \union Gens
<1>1. LastGen \in Nat /\ Gens = 1 .. LastGen
  BY CallAssumptions DEF LastGen, Gens
<1>2. Due \in Nat
  BY DEF Inv, Types, LostTypes, Due, One
<1>3. Budget <= LastGen /\ Budget \in Nat
  BY CallAssumptions DEF Inv, Types, BoundTypes, LastGen, Budget
<1>4. gen <= Budget
  <2>1. gen \in Nat /\ gen + Due <= Budget
    BY DEF Inv, Types, SockTypes, Counted
  <2> HIDE DEF Due
  <2> QED  BY <1>2, <1>3, <2>1
<1>5. gen <= LastGen
  BY <1>1, <1>3, <1>4 DEF Inv, Types, SockTypes, BoundTypes
<1> QED  BY <1>1, <1>2, <1>5 DEF Inv, Types, SockTypes

\* Nothing of what is counted changes but acts, failures and troubles.
LEMMA StillCounted ==
  ASSUME Inv, UNCHANGED <<joining, timer, strays, view, sock, joined, gen>>,
         acts' \in Nat, failures' \in Nat, troubles' \in Nat,
         acts' >= acts, failures' >= failures, troubles' >= troubles, retries' = retries
  PROVE  Counted'
<1>1. Due' = Due
  BY DEF Due, One
<1>2. Due \in Nat
  BY Numbers
<1>3. gen + Due <= Budget
  BY DEF Inv, Counted
<1>4. gen \in Nat /\ acts \in Nat /\ failures \in Nat
      /\ troubles \in Nat /\ retries \in Nat
  BY DEF Inv, Types, SockTypes, BoundTypes
<1>5. Budget \in Nat /\ Budget' \in Nat /\ Budget' >= Budget
  <2>1. \A a, f, t, r, b, g, u \in Nat : b >= a /\ g >= f /\ u >= t
          => /\ 2 * a + 2 * f + 2 * t + r \in Nat /\ 2 * b + 2 * g + 2 * u + r \in Nat
             /\ 2 * b + 2 * g + 2 * u + r >= 2 * a + 2 * f + 2 * t + r
    OBVIOUS
  <2>2. /\ acts' \in Nat /\ failures' \in Nat /\ troubles' \in Nat /\ retries' = retries
        /\ acts' >= acts /\ failures' >= failures /\ troubles' >= troubles
    OBVIOUS
  <2> HIDE DEF Due
  <2> QED  BY ONLY <1>4, <2>1, <2>2 DEF Budget
<1>6. gen' + Due' <= Budget'
  <2>1. \A n, d, b, c \in Nat : n + d <= b /\ c >= b => n + d <= c
    OBVIOUS
  <2>2. gen' = gen
    OBVIOUS
  <2> HIDE DEF Due
  <2> QED  BY <1>1, <1>2, <1>3, <1>4, <1>5, <2>1, <2>2
<1> QED  BY <1>6 DEF Inv, Counted, One

\* What is newly used up or due is paid by acts, trouble or retries.
LEMMA Paid ==
  ASSUME Inv, NEW c \in Nat, gen' \in Nat, Due' \in Nat, Budget' \in Nat,
         gen' + Due' <= gen + Due + c,
         Budget + c <= Budget'
  PROVE  gen' + Due' <= Budget'
<1>1. \A n, d, m, e, k, x, y \in Nat : m + e <= n + d + k /\ n + d <= x /\ x + k <= y => m + e <= y
  OBVIOUS
<1>2. gen + Due <= Budget /\ Due \in Nat
  BY Numbers DEF Inv, Counted
<1>3. gen \in Nat /\ Budget \in Nat
  BY DEF Inv, Types, SockTypes, BoundTypes, Budget
<1> HIDE DEF Due
<1> QED  BY <1>1, <1>2, <1>3

\* A state of the restarts: what is under way or due was allowed by the number of attempts.
Restartable(i) == i \in Restarts /\ (i.req \/ i.timer => MaxIceRestarts > 0)

\* requestIceRestart and scheduleIceRestartRetry: a restart is under way or due unless the
\* attempts are used up.
LEMMA RestartFacts ==
  ASSUME NEW i, Restartable(i)
  PROVE  /\ Restartable(RequestRestart(i))
         /\ RequestRestart(i).req \/ i.att >= MaxIceRestarts
         /\ RequestRestart(i) # i => RequestRestart(i).req
         /\ Restartable(ScheduleRetry(i)) /\ ScheduleRetry(i).req = i.req
         /\ ScheduleRetry(i).req \/ ScheduleRetry(i).timer \/ i.att >= MaxIceRestarts
         /\ i.timer => ScheduleRetry(i).timer
         /\ Restartable([i EXCEPT !.timer = FALSE]) /\ [i EXCEPT !.timer = FALSE].att = i.att
         /\ Restartable([i EXCEPT !.req = FALSE])
         /\ Restartable(NoIce)
<1> USE CallAssumptions DEF Restartable, Restarts
<1>1. Restartable([i EXCEPT !.timer = FALSE]) /\ [i EXCEPT !.timer = FALSE].att = i.att
      /\ Restartable([i EXCEPT !.req = FALSE])
  OBVIOUS
<1>2. Restartable(NoIce)
  BY DEF NoIce
<1>3. CASE CanRestart(i)
  <2>1. ~i.req /\ i.att < MaxIceRestarts
    BY <1>3 DEF CanRestart
  <2>2. i.att + 1 \in 0 .. MaxIceRestarts /\ MaxIceRestarts > 0
    BY <2>1
  <2>3. RequestRestart(i) = [i EXCEPT !.req = TRUE, !.att = i.att + 1]
        /\ ScheduleRetry(i) = [i EXCEPT !.timer = TRUE]
    BY <1>3 DEF RequestRestart, ScheduleRetry
  <2>4. Restartable(RequestRestart(i)) /\ RequestRestart(i).req
    BY <2>2, <2>3
  <2>5. Restartable(ScheduleRetry(i)) /\ ScheduleRetry(i).req = i.req /\ ScheduleRetry(i).timer
    BY <2>2, <2>3
  <2> QED  BY <1>1, <1>2, <2>4, <2>5
<1>4. CASE ~CanRestart(i)
  <2>1. RequestRestart(i) = i /\ ScheduleRetry(i) = i
    BY <1>4 DEF RequestRestart, ScheduleRetry
  <2>2. i.req \/ i.att >= MaxIceRestarts
    BY <1>4 DEF CanRestart
  <2> QED  BY <1>1, <1>2, <2>1, <2>2
<1> QED  BY <1>3, <1>4

\* updatePeerConnectionUI: failed media is being restarted, or shown to be offline.
LEMMA ConnectionUIFacts ==
  ASSUME NEW i, Restartable(i), NEW m \in {"new", "connected", "disconnected", "failed"}
  PROVE  LET u == UpdateConnectionUI(m, i)
         IN /\ Restartable(u.ice)
            /\ u.shown \in {"connecting", "connected", "reconnecting", "offline"}
            /\ m \in {"failed", "disconnected"} => u.ice.req \/ u.ice.timer \/ u.shown = "offline"
<1>1. CASE m = "connected"
  BY <1>1, RestartFacts DEF UpdateConnectionUI
<1>2. CASE m = "failed"
  <2> DEFINE j == [i EXCEPT !.timer = FALSE]
  <2>1. Restartable(j) /\ j.att = i.att
    BY RestartFacts
  <2> HIDE DEF j
  <2>2. Restartable(RequestRestart(j)) /\ (RequestRestart(j).req \/ i.att >= MaxIceRestarts)
    BY <2>1, RestartFacts
  <2>3. UpdateConnectionUI(m, i) = [ice |-> RequestRestart(j),
                                   shown |-> IF i.att >= MaxIceRestarts THEN "offline" ELSE "reconnecting"]
    BY <1>2 DEF UpdateConnectionUI, j
  <2> QED  BY <2>2, <2>3
<1>3. CASE m = "disconnected"
  <2>1. Restartable(ScheduleRetry(i)) /\ ScheduleRetry(i).req = i.req
        /\ (ScheduleRetry(i).req \/ ScheduleRetry(i).timer \/ i.att >= MaxIceRestarts)
    BY RestartFacts
  <2>2. UpdateConnectionUI(m, i) = [ice |-> ScheduleRetry(i),
                                   shown |-> IF ~i.req /\ i.att >= MaxIceRestarts THEN "offline"
                                             ELSE "reconnecting"]
    BY <1>3 DEF UpdateConnectionUI
  <2> QED  BY <2>1, <2>2
<1>4. CASE m = "new"
  <2>1. UpdateConnectionUI(m, i) = [ice |-> i, shown |-> "connecting"]
    BY <1>4 DEF UpdateConnectionUI
  <2> QED  BY <1>4, <2>1
<1> QED  BY <1>1, <1>2, <1>3, <1>4

\* refreshICEConfig: the request is shared or the newest.
LEMMA RefreshFacts ==
  ASSUME Inv, NEW tok \in Nat, Refresh(tok)
  PROVE  /\ ver' \in Nat /\ flights' \subseteq Requests /\ pub' \in Nat /\ cred' \in Requests
         /\ servers' = servers /\ Numbered'
         /\ RequestOf(tok) \in Nat \ {0} /\ RequestOf(tok) <= ver' /\ ver' >= ver
         /\ \A f \in flights' : f \in flights \/ (f.tok = tok /\ f.v = ver' /\ ver' = ver + 1)
         /\ ver' = ver => cred' = cred
         /\ ver' # ver => ver' = ver + 1 /\ \A f \in flights : f.v # ver'
         /\ tok # 0 => /\ cred'.v = RequestOf(tok) /\ cred'.tok = tok
                       /\ ver' # ver => cred'.v = ver'
         /\ tok = 0 => cred' = cred
<1> USE DEF Inv, Types, ConfigTypes, Requested
<1>1. CASE Shared(tok)
  <2>1. ver' = ver /\ flights' = flights /\ pub' = pub /\ cred' = cred /\ servers' = servers
    BY <1>1 DEF Refresh
  <2>2. tok = 0 => pub # 0 /\ RequestOf(tok) = pub /\ [v |-> pub, tok |-> 0] \in flights
    BY <1>1 DEF RequestOf, Shared, Numbered
  <2>3. tok # 0 => cred.v # 0 /\ cred.tok = tok /\ RequestOf(tok) = cred.v /\ cred \in flights
    BY <1>1 DEF RequestOf, Shared, Numbered
  <2>4. \A f \in flights : f.v \in Nat \ {0} /\ f.v <= ver
    BY DEF Numbered, Requests
  <2>5. RequestOf(tok) \in Nat \ {0} /\ RequestOf(tok) <= ver
    BY <2>2, <2>3, <2>4
  <2>6. Numbered'
    BY <2>1 DEF Numbered
  <2> QED  BY <2>1, <2>3, <2>5, <2>6
<1>2. CASE ~Shared(tok)
  <2> DEFINE new == [v |-> ver + 1, tok |-> tok]
  <2>1. /\ ver' = ver + 1 /\ flights' = flights \union {new}
        /\ pub' = IF tok = 0 THEN ver + 1 ELSE pub
        /\ cred' = IF tok = 0 THEN cred ELSE new
        /\ servers' = servers /\ RequestOf(tok) = ver + 1
    BY <1>2 DEF Refresh, RequestOf
  <2>2. new \in Requests /\ new.v = ver + 1 /\ new.tok = tok
    BY DEF Requests
  <2>3. \A f \in flights : f.v \in Nat /\ f.v > 0 /\ f.v <= ver /\ f.v # ver + 1
    BY DEF Numbered, Requests
  <2>4. tok = 0 => new = [v |-> ver + 1, tok |-> 0]
    OBVIOUS
  <2> HIDE DEF new
  <2>5. Numbered'
    BY <2>1, <2>2, <2>3, <2>4 DEF Numbered
  <2>6. cred' \in Requests /\ pub' \in Nat /\ flights' \subseteq Requests
    BY <2>1, <2>2
  <2> QED  BY <2>1, <2>2, <2>3, <2>5, <2>6
<1> QED  BY <1>1, <1>2

\* A step of the restarts: only the state of the media, what is shown and the bounds change.
LEMMA IceStep ==
  ASSUME Inv, UNCHANGED Rest, media' \in {"new", "connected", "disconnected", "failed"},
         shown' \in {"connecting", "connected", "reconnecting", "offline"} \/ shown' = shown,
         sock = "closed" => shown' \in {shown, "offline"},
         Restartable(ice'), FailureIsHandled',
         acts' \in 0 .. MaxActs, acts' >= acts, failures' = failures,
         troubles' \in 0 .. MaxTroubles, troubles' >= troubles, retries' = retries, errors' \in Nat
  PROVE  Inv'
<1> USE DEF Inv, Rest, formVars, sockVars, lostVars, configVars, taskVars, railVars
<1>1. Types'
  <2>1. FormTypes' /\ SockTypes' /\ LostTypes' /\ ConfigTypes' /\ TaskTypes'
    BY DEF Types, FormTypes, SockTypes, LostTypes, ConfigTypes, TaskTypes
  <2>2. MediaTypes'
    BY DEF Types, MediaTypes
  <2>3. IceTypes' /\ BoundTypes'
    BY DEF Types, IceTypes, BoundTypes, Restartable
  <2> QED  BY <2>1, <2>2, <2>3 DEF Types
<1>2. Counted'
  <2>1. /\ acts' \in Nat /\ failures' \in Nat /\ troubles' \in Nat
        /\ acts' >= acts /\ failures' >= failures /\ troubles' >= troubles
    BY CallAssumptions DEF Types, BoundTypes
  <2> QED  BY <2>1, StillCounted
<1>3. Phases'
  BY DEF Phases, DownMeansScheduled
<1>4. Requested'
  BY DEF Requested, Numbered
<1>5. Started'
  BY DEF Started, Current, CredentialsSurvive
<1>6. Restarting'
  BY DEF Restarting, Restartable
<1>7. Owned'
  BY DEF Owned
<1> QED  BY <1>1, <1>2, <1>3, <1>4, <1>5, <1>6, <1>7

----------------------------------------------------------------------------
(* The steps: the restarts.                                                *)

\* The states of the peer connection: failed media is restarted.
LEMMA MediaChangesStep ==
  ASSUME Inv, MediaChanges
  PROVE  Inv'
<1>1. /\ UNCHANGED Rest /\ media' \in {"connected", "disconnected", "failed"}
      /\ acts' = acts /\ failures' = failures /\ retries' = retries /\ errors' = errors
      /\ troubles' = troubles \/ (troubles < MaxTroubles /\ troubles' = troubles + 1)
  BY DEF MediaChanges, Trouble, bounds
<1>2. IF ~Current(peer) THEN ice' = ice /\ shown' = shown
      ELSE ice' = UpdateConnectionUI(media', ice).ice /\ shown' = UpdateConnectionUI(media', ice).shown
  BY DEF MediaChanges
<1>3. Restartable(ice) /\ (Current(peer)' <=> Current(peer))
  BY <1>1 DEF Inv, Types, IceTypes, Restarting, Restartable, Current, Rest, sockVars
<1>4. CASE Current(peer)
  <2> DEFINE u == UpdateConnectionUI(media', ice)
  <2>1. /\ Restartable(u.ice) /\ u.shown \in {"connecting", "connected", "reconnecting", "offline"}
        /\ media' \in {"failed", "disconnected"} => u.ice.req \/ u.ice.timer \/ u.shown = "offline"
    BY <1>1, <1>3, ConnectionUIFacts
  <2>2. ice' = u.ice /\ shown' = u.shown /\ sock # "closed"
    BY <1>2, <1>4 DEF Current
  <2> HIDE DEF u
  <2>3. FailureIsHandled'
    BY <2>1, <2>2 DEF FailureIsHandled
  <2>4. acts' \in 0 .. MaxActs /\ acts' >= acts /\ failures' = failures
        /\ troubles' \in 0 .. MaxTroubles /\ troubles' >= troubles
        /\ errors' \in Nat
    BY <1>1, CallAssumptions DEF Inv, Types, BoundTypes
  <2> QED  BY <1>1, <2>1, <2>2, <2>3, <2>4, IceStep
<1>5. CASE ~Current(peer)
  <2>1. ice' = ice /\ shown' = shown
    BY <1>2, <1>5
  <2>2. FailureIsHandled'
    BY <1>3, <1>5 DEF FailureIsHandled
  <2>3. acts' \in 0 .. MaxActs /\ acts' >= acts /\ failures' = failures
        /\ troubles' \in 0 .. MaxTroubles /\ troubles' >= troubles
        /\ errors' \in Nat
    BY <1>1, CallAssumptions DEF Inv, Types, BoundTypes
  <2> QED  BY <1>1, <1>3, <2>1, <2>2, <2>3, IceStep
<1> QED  BY <1>4, <1>5

\* The timer of a restart: it is requested, or given up.
LEMMA RestartTimerFiresStep ==
  ASSUME Inv, RestartTimerFires
  PROVE  Inv'
<1> DEFINE i == [ice EXCEPT !.timer = FALSE]
<1>1. UNCHANGED <<Rest, media, bounds>>
  BY DEF RestartTimerFires
<1>2. IF ~Current(peer) \/ media = "connected" THEN ice' = i /\ shown' = shown
      ELSE ice' = RequestRestart(i) /\ shown' = IF ice' = i /\ i.att >= MaxIceRestarts THEN "offline" ELSE shown
  BY DEF RestartTimerFires
<1>3. Restartable(ice) /\ (Current(peer)' <=> Current(peer))
  BY <1>1 DEF Inv, Types, IceTypes, Restarting, Restartable, Current, Rest, sockVars
<1>4. Restartable(i)
  BY <1>3, RestartFacts
<1> HIDE DEF i
<1>5. /\ Restartable(RequestRestart(i)) /\ (RequestRestart(i).req \/ i.att >= MaxIceRestarts)
      /\ RequestRestart(i) # i => RequestRestart(i).req
  BY <1>4, RestartFacts
<1>6. Restartable(ice') /\ shown' \in {shown, "offline"}
  BY <1>2, <1>4, <1>5
<1>7. FailureIsHandled'
  <2>1. CASE ~Current(peer) \/ media = "connected"
    BY <1>1, <1>3, <2>1 DEF FailureIsHandled
  <2>2. CASE ~(~Current(peer) \/ media = "connected")
    BY <1>2, <1>5, <2>2 DEF FailureIsHandled
  <2> QED  BY <2>1, <2>2
<1>8. /\ media' \in {"new", "connected", "disconnected", "failed"} /\ errors' \in Nat /\ retries' = retries
      /\ acts' \in 0 .. MaxActs /\ acts' >= acts /\ failures' = failures
      /\ troubles' \in 0 .. MaxTroubles /\ troubles' >= troubles
  BY <1>1 DEF Inv, Types, BoundTypes, MediaTypes, bounds
<1> QED  BY <1>1, <1>6, <1>7, <1>8, IceStep

\* The restart is under way; what the connection says decides whether there is another.
LEMMA RestartOfferedStep ==
  ASSUME Inv, RestartOffered
  PROVE  Inv'
<1> DEFINE i == [ice EXCEPT !.req = FALSE]
           u == UpdateConnectionUI(media, i)
<1>1. /\ UNCHANGED <<Rest, media, bounds>> /\ sock = "open"
      /\ ice' = ScheduleRetry(u.ice) /\ shown' = u.shown
  BY DEF RestartOffered, Current
<1>2. Restartable(i) /\ media \in {"new", "connected", "disconnected", "failed"}
  BY RestartFacts DEF Inv, Types, IceTypes, MediaTypes, Restarting, Restartable
<1> HIDE DEF i
<1>3. /\ Restartable(u.ice) /\ u.shown \in {"connecting", "connected", "reconnecting", "offline"}
      /\ media \in {"failed", "disconnected"} => u.ice.req \/ u.ice.timer \/ u.shown = "offline"
  BY <1>2, ConnectionUIFacts
<1> HIDE DEF u
<1>4. Restartable(ice') /\ ice'.req = u.ice.req /\ (u.ice.timer => ice'.timer)
  BY <1>1, <1>3, RestartFacts
<1>5. FailureIsHandled'
  BY <1>1, <1>3, <1>4 DEF FailureIsHandled
<1>6. /\ errors' \in Nat /\ retries' = retries
      /\ acts' \in 0 .. MaxActs /\ acts' >= acts /\ failures' = failures
      /\ troubles' \in 0 .. MaxTroubles /\ troubles' >= troubles
  BY <1>1 DEF Inv, Types, BoundTypes, bounds
<1> QED  BY <1>1, <1>2, <1>3, <1>4, <1>5, <1>6, IceStep

\* A refused restart is an error, after which nothing is promised.
LEMMA RestartRefusedStep ==
  ASSUME Inv, RestartRefused
  PROVE  Inv'
<1> DEFINE i == [ice EXCEPT !.req = FALSE]
<1>1. /\ UNCHANGED <<Rest, media, shown, failures, acts, retries>> /\ ice' = ScheduleRetry(i)
      /\ troubles < MaxTroubles /\ troubles' = troubles + 1 /\ errors' = errors + 1
  BY DEF RestartRefused
<1>2. Restartable(i)
  BY RestartFacts DEF Inv, Types, IceTypes, Restarting, Restartable
<1>3. Restartable(ice')
  BY <1>1, <1>2, RestartFacts
<1>4. /\ errors' \in Nat /\ errors' # 0 /\ retries' = retries
      /\ acts' \in 0 .. MaxActs /\ acts' >= acts /\ failures' = failures
      /\ troubles' \in 0 .. MaxTroubles /\ troubles' >= troubles
      /\ media' \in {"new", "connected", "disconnected", "failed"}
  BY <1>1, CallAssumptions DEF Inv, Types, BoundTypes, MediaTypes
<1>5. FailureIsHandled'
  BY <1>4 DEF FailureIsHandled
<1> QED  BY <1>1, <1>3, <1>4, <1>5, IceStep

\* A retry on an open socket starts the restarts anew.
LEMMA RetryMediaStep ==
  ASSUME Inv, RetryMedia
  PROVE  Inv'
<1>1. /\ UNCHANGED <<Rest, media, shown>> /\ ice' = RequestRestart(NoIce)
      /\ acts < MaxActs /\ acts' = acts + 1
      /\ UNCHANGED <<failures, troubles, retries, errors>>
  BY DEF RetryMedia, Act
<1>2. Restartable(ice) /\ Restartable(NoIce)
  BY RestartFacts DEF Inv, Types, IceTypes, Restarting, Restartable
<1>3. Restartable(ice') /\ (ice'.req \/ 0 >= MaxIceRestarts)
  BY <1>1, <1>2, RestartFacts DEF NoIce
<1>4. /\ errors' \in Nat
      /\ acts' \in 0 .. MaxActs /\ acts' >= acts /\ failures' = failures
      /\ troubles' \in 0 .. MaxTroubles /\ troubles' >= troubles
      /\ media' \in {"new", "connected", "disconnected", "failed"}
  BY <1>1, CallAssumptions DEF Inv, Types, BoundTypes, MediaTypes
\* Without attempts nothing was under way, and the call is shown to be offline.
<1>5. FailureIsHandled'
  BY <1>1, <1>2, <1>3, CallAssumptions DEF Inv, Restarting, FailureIsHandled, Current, Rest,
    sockVars
<1> QED  BY <1>1, <1>3, <1>4, <1>5, IceStep

----------------------------------------------------------------------------
(* The steps: the socket and its timers.                                   *)

\* An open socket has no timer.
LEMMA SocketOpensStep ==
  ASSUME Inv, SocketOpens
  PROVE  Inv'
<1> USE DEF Inv, formVars, sockVars, lostVars, configVars, taskVars, mediaVars, railVars, bounds
<1>1. Types'
  <2>1. SockTypes'
    BY DEF Types, SockTypes, SocketOpens
  <2>2. LostTypes'
    BY CallAssumptions DEF Types, LostTypes, SocketOpens
  <2>3. FormTypes' /\ ConfigTypes' /\ TaskTypes' /\ MediaTypes' /\ IceTypes' /\ BoundTypes'
    BY DEF Types, FormTypes, ConfigTypes, TaskTypes, MediaTypes, IceTypes, BoundTypes, SocketOpens
  <2> QED  BY <2>1, <2>2, <2>3 DEF Types
<1>2. Counted'
  <2>1. /\ sock = "connecting" /\ sock' = "open" /\ timer' = "none" /\ joined = "no" /\ joined' = "no"
        /\ joining' = joining /\ strays' = strays /\ view' = view /\ gen' = gen
        /\ acts' = acts /\ failures' = failures /\ troubles' = troubles /\ retries' = retries
    BY DEF SocketOpens, Phases
  <2>2. /\ gen \in Nat /\ strays \in Nat /\ acts \in Nat /\ failures \in Nat
        /\ troubles \in Nat /\ retries \in Nat
    BY DEF Types, SockTypes, LostTypes, BoundTypes
  <2>3. Due' \in Nat /\ Due' <= Due
    BY <2>1, <2>2 DEF Due, One
  <2>4. gen' + Due' <= Budget'
    <3> HIDE DEF Due
    <3>1. 0 \in Nat /\ gen' + Due' <= gen + Due + 0 /\ Due \in Nat
      BY <2>1, <2>2, <2>3, Numbers
    <3>2. Budget + 0 <= Budget' /\ Budget' \in Nat
      BY <2>1, <2>2 DEF Budget
    <3> QED  BY <2>1, <2>2, <2>3, <3>1, <3>2, Paid
  <2>5. strays' + One(timer' # "none" /\ sock' = "connecting") <= retries'
    BY <2>1, <2>2 DEF Counted, One
  <2> QED  BY <2>4, <2>5 DEF Counted
<1>3. Phases'
  BY DEF Phases, DownMeansScheduled, SocketOpens
<1>4. Requested'
  BY DEF Requested, Numbered, SocketOpens
<1>5. Started'
  BY Numbers DEF Started, Phases, CredentialsSurvive, SocketOpens
<1>6. Restarting'
  BY Numbers DEF Restarting, Phases, Started, FailureIsHandled, Current, SocketOpens
<1>7. Owned'
  BY DEF Owned, SocketOpens
<1> QED  BY <1>1, <1>2, <1>3, <1>4, <1>5, <1>6, <1>7

\* A lost socket arms a timer, which trouble or the closing paid for.
LEMMA SocketClosesStep ==
  ASSUME Inv, SocketCloses
  PROVE  Inv'
<1> USE DEF Inv, formVars, sockVars, lostVars, configVars, taskVars, mediaVars, railVars, bounds
<1>1. Types'
  <2>1. FormTypes'
    BY DEF Types, FormTypes, SocketCloses, ReleaseForm
  <2>2. SockTypes'
    BY DEF Types, SockTypes, SocketCloses
  <2>3. LostTypes'
    BY DEF Types, LostTypes, SocketCloses, BackOff
  <2>4. MediaTypes'
    BY DEF Types, MediaTypes, SocketCloses, BackOff, KeepMedia, ResetMediaConnection
  <2>5. IceTypes'
    <3>1. ice' = ice \/ ice' = NoIce
      BY DEF SocketCloses, BackOff, KeepMedia, ResetMediaConnection
    <3>2. NoIce \in Restarts
      BY CallAssumptions DEF NoIce, Restarts
    <3> QED  BY <3>1, <3>2 DEF Types, IceTypes
  <2>6. BoundTypes'
    BY CallAssumptions DEF Types, BoundTypes, SocketCloses, Closes, Trouble, Failure
  <2>7. ConfigTypes' /\ TaskTypes'
    BY DEF Types, ConfigTypes, TaskTypes, SocketCloses
  <2> QED  BY <2>1, <2>2, <2>3, <2>4, <2>5, <2>6, <2>7 DEF Types
<1>2. Counted'
  <2>1. /\ sock # "closed" /\ sock' = "closed" /\ view' = view /\ joining' = joining /\ gen' = gen
        /\ joined' = joined /\ acts' = acts /\ retries' = retries
        /\ \/ /\ failures' = failures /\ troubles' = troubles
              /\ sock = "closing" \/ (sock = "open" /\ joined = "refused")
           \/ failures' = failures /\ troubles' = troubles + 1
           \/ failures' = failures + 1 /\ troubles' = troubles
    BY DEF SocketCloses, Closes, Trouble, Failure
  <2>2. \/ timer' = timer /\ strays' = strays
        \/ /\ view = "meeting" /\ timer' # "none"
           /\ strays' = strays \/ (timer # "none" /\ strays' = strays + 1)
    BY DEF SocketCloses, BackOff, Hidden
  <2>3. timer # "none" => sock = "connecting"
    BY <2>1 DEF Phases
  <2>4. /\ gen \in Nat /\ strays \in Nat /\ acts \in Nat /\ failures \in Nat
        /\ troubles \in Nat /\ retries \in Nat
        /\ strays + One(timer # "none" /\ sock = "connecting") <= retries
    BY DEF Types, SockTypes, LostTypes, BoundTypes, Counted
  <2>5. /\ Due' \in Nat /\ gen' + Due' <= gen + Due + 2
        /\ failures' = failures /\ troubles' = troubles => gen' + Due' <= gen + Due + 0
    BY <2>1, <2>2, <2>3, <2>4 DEF Due, One
  <2>6. gen' + Due' <= Budget'
    <3> HIDE DEF Due
    <3>1. /\ gen' \in Nat /\ Budget \in Nat /\ Budget' \in Nat
          /\ \/ failures' = failures /\ troubles' = troubles /\ Budget' = Budget
             \/ Budget' = Budget + 2
      BY <2>1, <2>4 DEF Budget
    <3>2. CASE failures' = failures /\ troubles' = troubles /\ Budget' = Budget
      <4>1. Budget + 0 <= Budget' /\ 0 \in Nat
        BY <3>1, <3>2
      <4> QED  BY <2>5, <3>1, <3>2, <4>1, Paid
    <3>3. CASE Budget' = Budget + 2
      <4>1. Budget + 2 <= Budget' /\ 2 \in Nat
        BY <3>1, <3>3
      <4> QED  BY <2>5, <3>1, <3>3, <4>1, Paid
    <3> QED  BY <3>1, <3>2, <3>3
  <2>7. strays' + One(timer' # "none" /\ sock' = "connecting") <= retries'
    BY <2>1, <2>2, <2>3, <2>4 DEF One
  <2> QED  BY <2>6, <2>7 DEF Counted
<1>3. Phases'
  BY DEF Phases, DownMeansScheduled, SocketCloses, BackOff, Hidden
<1>4. Requested'
  BY DEF Requested, Numbered, SocketCloses
<1>5. Started'
  BY DEF Started, Phases, Current, CredentialsSurvive, SocketCloses, BackOff, KeepMedia,
    ResetMediaConnection
<1>6. Restarting'
  BY DEF Restarting, FailureIsHandled, Current, NoIce, SocketCloses, BackOff, KeepMedia,
    ResetMediaConnection
<1>7. Owned'
  BY DEF Owned, SocketCloses, Closes, BackOff, KeepMedia, ResetMediaConnection, Trouble, Failure
<1> QED  BY <1>1, <1>2, <1>3, <1>4, <1>5, <1>6, <1>7

\* The timer makes a generation, and the media of the last one ends.
LEMMA BackoffFiresStep ==
  ASSUME Inv, BackoffFires
  PROVE  Inv'
<1> USE DEF Inv, formVars, sockVars, lostVars, configVars, taskVars, mediaVars, railVars, bounds
<1>1. Types'
  <2>1. SockTypes'
    BY DEF Types, SockTypes, BackoffFires, Connect
  <2>2. LostTypes'
    BY DEF Types, LostTypes, BackoffFires
  <2>3. MediaTypes'
    BY DEF Types, MediaTypes, BackoffFires, ResetMediaConnection
  <2>4. IceTypes'
    BY CallAssumptions DEF IceTypes, Restarts, NoIce, BackoffFires, ResetMediaConnection
  <2>5. FormTypes' /\ ConfigTypes' /\ TaskTypes' /\ BoundTypes'
    BY DEF Types, FormTypes, ConfigTypes, TaskTypes, BoundTypes, BackoffFires
  <2> QED  BY <2>1, <2>2, <2>3, <2>4, <2>5 DEF Types
<1>2. Counted'
  <2>1. /\ timer = "backoff" /\ timer' = "none" /\ view = "meeting" /\ sock \in {"closed", "connecting"}
        /\ sock' = "connecting" /\ joined' = "no" /\ gen' = gen + 1
        /\ joining' = joining /\ strays' = strays /\ view' = view
        /\ acts' = acts /\ failures' = failures /\ troubles' = troubles /\ retries' = retries
    BY DEF BackoffFires, Connect, Phases
  <2>2. /\ gen \in Nat /\ strays \in Nat /\ acts \in Nat /\ failures \in Nat
        /\ troubles \in Nat /\ retries \in Nat
        /\ strays + One(timer # "none" /\ sock = "connecting") <= retries
    BY DEF Types, SockTypes, LostTypes, BoundTypes, Counted
  <2>3. Due' \in Nat /\ gen' + Due' <= gen + Due + 0
    BY <2>1, <2>2 DEF Due, One
  <2>4. gen' + Due' <= Budget'
    <3> HIDE DEF Due
    <3>1. Budget + 0 <= Budget' /\ 0 \in Nat
      BY <2>1, <2>2 DEF Budget
    <3>2. gen' \in Nat /\ Budget' \in Nat
      BY <2>1, <2>2 DEF Budget
    <3> QED  BY <2>3, <3>1, <3>2, Paid
  <2>5. strays' + One(timer' # "none" /\ sock' = "connecting") <= retries'
    BY <2>1, <2>2 DEF One
  <2> QED  BY <2>4, <2>5 DEF Counted
<1>3. Phases'
  BY DEF Phases, Types, SockTypes, DownMeansScheduled, BackoffFires, Connect
<1>4. Requested'
  BY Numbers DEF Requested, Numbered, Types, ConfigTypes, Requests, BackoffFires, Connect
<1>5. Started'
  BY Numbers DEF Started, Current, CredentialsSurvive, BackoffFires, ResetMediaConnection, Connect
<1>6. Restarting'
  BY DEF Restarting, FailureIsHandled, NoIce, BackoffFires, ResetMediaConnection
<1>7. Owned'
  BY DEF Owned, Phases, BackoffFires, ResetMediaConnection
<1> QED  BY <1>1, <1>2, <1>3, <1>4, <1>5, <1>6, <1>7

\* A stray timer is one that a retry left, which paid for it.
LEMMA StrayFiresStep ==
  ASSUME Inv, StrayFires
  PROVE  Inv'
<1> USE DEF Inv, formVars, sockVars, lostVars, configVars, taskVars, mediaVars, railVars, bounds
<1>1. Types'
  <2>1. SockTypes'
    BY DEF Types, SockTypes, StrayFires, Connect
  <2>2. LostTypes'
    BY DEF Types, LostTypes, StrayFires
  <2>3. MediaTypes'
    BY DEF Types, MediaTypes, StrayFires, ResetMediaConnection
  <2>4. IceTypes'
    BY CallAssumptions DEF IceTypes, Restarts, NoIce, StrayFires, ResetMediaConnection
  <2>5. FormTypes' /\ ConfigTypes' /\ TaskTypes' /\ BoundTypes'
    BY DEF Types, FormTypes, ConfigTypes, TaskTypes, BoundTypes, StrayFires
  <2> QED  BY <2>1, <2>2, <2>3, <2>4, <2>5 DEF Types
<1>2. Counted'
  BY Numbers DEF Counted, Budget, Types, LostTypes, BoundTypes, Due, One, StrayFires,
    ResetMediaConnection, Connect
<1>3. Phases'
  BY DEF Phases, Types, SockTypes, DownMeansScheduled, StrayFires, Connect
<1>4. Requested'
  BY Numbers DEF Requested, Numbered, Types, ConfigTypes, Requests, StrayFires, Connect
<1>5. Started'
  BY Numbers DEF Started, Current, CredentialsSurvive, StrayFires, ResetMediaConnection, Connect
<1>6. Restarting'
  BY DEF Restarting, FailureIsHandled, NoIce, StrayFires, ResetMediaConnection
<1>7. Owned'
  BY DEF Owned, Types, LostTypes, Counted, One, StrayFires
<1> QED  BY <1>1, <1>2, <1>3, <1>4, <1>5, <1>6, <1>7

\* The switch of the connection method connects, unless it was ended for good.
LEMMA SwitchFiresStep ==
  ASSUME Inv, SwitchFires
  PROVE  Inv'
<1> USE DEF Inv, formVars, sockVars, lostVars, configVars, taskVars, mediaVars, railVars, bounds
<1>1. /\ timer = "switch" /\ view = "meeting" /\ switching /\ sock \in {"closed", "connecting"}
      /\ timer' = "none"
      /\ UNCHANGED <<formVars, token, intentional, strays, configVars, taskVars, shown, doubled, bounds>>
  BY DEF SwitchFires, Phases
<1>2. \/ /\ intentional
         /\ UNCHANGED <<switching, attempts, gen, sock, joined, mediaVars, rail>>
      \/ /\ switching' = FALSE /\ attempts' = 0 /\ ResetMediaConnection /\ Connect
  BY <1>1 DEF SwitchFires, Hidden, KeepMedia
<1>3. CASE intentional /\ UNCHANGED <<switching, attempts, gen, sock, joined, mediaVars, rail>>
  <2>1. Types'
    <3>1. FormTypes' /\ BoundTypes'
      BY <1>1 DEF Types, FormTypes, BoundTypes
    <3>2. SockTypes'
      BY <1>1, <1>3 DEF Types, SockTypes
    <3>3. LostTypes'
      BY <1>1, <1>3 DEF Types, LostTypes
    <3>4. ConfigTypes' /\ TaskTypes'
      BY <1>1 DEF Types, ConfigTypes, TaskTypes
    <3>5. MediaTypes'
      BY <1>1, <1>3, CallAssumptions DEF Types, MediaTypes
    <3>6. IceTypes'
      BY <1>1, <1>3, CallAssumptions DEF Types, IceTypes
    <3> QED  BY <3>1, <3>2, <3>3, <3>4, <3>5, <3>6 DEF Types
  <2>2. Counted'
    <3>1. /\ timer # "none" /\ timer' = "none" /\ view = "meeting" /\ sock \in {"closed", "connecting"}
          /\ sock' = sock /\ joined' = joined /\ gen' = gen
          /\ joining' = joining /\ strays' = strays /\ view' = view
          /\ acts' = acts /\ failures' = failures /\ troubles' = troubles /\ retries' = retries
      BY <1>1, <1>3
    <3>2. /\ gen \in Nat /\ strays \in Nat /\ acts \in Nat /\ failures \in Nat
          /\ troubles \in Nat /\ retries \in Nat
          /\ strays + One(timer # "none" /\ sock = "connecting") <= retries
      BY DEF Types, SockTypes, LostTypes, BoundTypes, Counted
    <3>3. Due' \in Nat /\ gen' + Due' <= gen + Due + 0
      BY <3>1, <3>2 DEF Due, One
    <3>4. gen' + Due' <= Budget'
      <4> HIDE DEF Due
      <4>1. Budget + 0 <= Budget' /\ 0 \in Nat
        BY <3>1, <3>2 DEF Budget
      <4>2. gen' \in Nat /\ Budget' \in Nat
        BY <3>1, <3>2 DEF Budget
      <4> QED  BY <3>3, <4>1, <4>2, Paid
    <3>5. strays' + One(timer' # "none" /\ sock' = "connecting") <= retries'
      BY <3>1, <3>2 DEF One
    <3> QED  BY <3>4, <3>5 DEF Counted
  <2>3. Phases'
    BY <1>1, <1>3 DEF Phases, DownMeansScheduled
  <2>4. Requested'
    BY <1>1, <1>3 DEF Requested, Numbered
  <2>5. Started'
    BY <1>1, <1>3 DEF Started, Current, CredentialsSurvive
  <2>6. Restarting'
    BY <1>1, <1>3 DEF Restarting, FailureIsHandled, Current
  <2>7. Owned'
    BY <1>1, <1>3 DEF Owned
  <2> QED  BY <2>1, <2>2, <2>3, <2>4, <2>5, <2>6, <2>7
<1>4. CASE switching' = FALSE /\ attempts' = 0 /\ ResetMediaConnection /\ Connect
  <2>1. Types'
    <3>1. FormTypes' /\ BoundTypes'
      BY <1>1 DEF Types, FormTypes, BoundTypes
    <3>2. SockTypes'
      BY <1>1, <1>4 DEF Types, SockTypes, Connect
    <3>3. LostTypes'
      BY <1>1, <1>4 DEF Types, LostTypes
    <3>4. ConfigTypes' /\ TaskTypes'
      BY <1>1 DEF Types, ConfigTypes, TaskTypes
    <3>5. MediaTypes'
      BY <1>1, <1>4, CallAssumptions DEF Types, MediaTypes, ResetMediaConnection
    <3>6. IceTypes'
      BY <1>1, <1>4, CallAssumptions DEF IceTypes, ResetMediaConnection, NoIce, Restarts
    <3> QED  BY <3>1, <3>2, <3>3, <3>4, <3>5, <3>6 DEF Types
  <2>2. Counted'
    <3>1. /\ timer # "none" /\ timer' = "none" /\ view = "meeting" /\ sock \in {"closed", "connecting"}
          /\ sock' = "connecting" /\ joined' = "no" /\ gen' = gen + 1
          /\ joining' = joining /\ strays' = strays /\ view' = view
          /\ acts' = acts /\ failures' = failures /\ troubles' = troubles /\ retries' = retries
      BY <1>1, <1>4 DEF Connect
    <3>2. /\ gen \in Nat /\ strays \in Nat /\ acts \in Nat /\ failures \in Nat
          /\ troubles \in Nat /\ retries \in Nat
          /\ strays + One(timer # "none" /\ sock = "connecting") <= retries
      BY DEF Types, SockTypes, LostTypes, BoundTypes, Counted
    <3>3. Due' \in Nat /\ gen' + Due' <= gen + Due + 0
      BY <3>1, <3>2 DEF Due, One
    <3>4. gen' + Due' <= Budget'
      <4> HIDE DEF Due
      <4>1. Budget + 0 <= Budget' /\ 0 \in Nat
        BY <3>1, <3>2 DEF Budget
      <4>2. gen' \in Nat /\ Budget' \in Nat
        BY <3>1, <3>2 DEF Budget
      <4> QED  BY <3>3, <4>1, <4>2, Paid
    <3>5. strays' + One(timer' # "none" /\ sock' = "connecting") <= retries'
      BY <3>1, <3>2 DEF One
    <3> QED  BY <3>4, <3>5 DEF Counted
  <2>3. Phases'
    BY <1>1, <1>4 DEF Phases, Types, SockTypes, DownMeansScheduled, Connect
  <2>4. Requested'
    BY <1>1, <1>4, Numbers DEF Requested, Numbered, Types, ConfigTypes, Requests, Connect
  <2>5. Started'
    BY <1>1, <1>4, Numbers DEF Started, Current, CredentialsSurvive, ResetMediaConnection, Connect
  <2>6. Restarting'
    BY <1>1, <1>4 DEF Restarting, FailureIsHandled, NoIce, ResetMediaConnection
  <2>7. Owned'
    BY <1>1, <1>4 DEF Owned, ResetMediaConnection
  <2> QED  BY <2>1, <2>2, <2>3, <2>4, <2>5, <2>6, <2>7
<1> QED  BY <1>2, <1>3, <1>4

\* The socket is being closed for another method, or a timer is armed.
LEMMA SelectMethodStep ==
  ASSUME Inv, SelectMethod
  PROVE  Inv'
<1> USE DEF Inv, formVars, sockVars, lostVars, configVars, taskVars, mediaVars, railVars, bounds
<1>1. Types'
  <2>1. SockTypes'
    BY DEF Types, SockTypes, SelectMethod, SwitchMethod
  <2>2. LostTypes'
    BY DEF Types, LostTypes, SelectMethod, SwitchMethod
  <2>3. BoundTypes'
    BY CallAssumptions DEF Types, BoundTypes, SelectMethod, Act
  <2>4. FormTypes' /\ ConfigTypes' /\ TaskTypes' /\ MediaTypes' /\ IceTypes'
    BY DEF Types, FormTypes, ConfigTypes, TaskTypes, MediaTypes, IceTypes, SelectMethod
  <2> QED  BY <2>1, <2>2, <2>3, <2>4 DEF Types
<1>2. Counted'
  BY Numbers DEF Counted, Budget, Types, LostTypes, BoundTypes, Due, One, SelectMethod, SwitchMethod,
    Act, Hidden
<1>3. Phases'
  BY DEF Phases, DownMeansScheduled, SelectMethod, SwitchMethod, Hidden
<1>4. Requested'
  BY DEF Requested, Numbered, SelectMethod
<1>5. Started'
  BY DEF Started, Current, CredentialsSurvive, SelectMethod, SwitchMethod
<1>6. Restarting'
  BY DEF Restarting, FailureIsHandled, Current, SelectMethod, SwitchMethod
<1>7. Owned'
  BY DEF Owned, SelectMethod, Act, Hidden
<1> QED  BY <1>1, <1>2, <1>3, <1>4, <1>5, <1>6, <1>7

----------------------------------------------------------------------------
(* The steps: the form, the hub's answers, leaving.                        *)

\* The submission awaits a public request, of nobody in a meeting.
LEMMA SubmitStep ==
  ASSUME Inv, Submit
  PROVE  Inv'
<1> USE DEF Inv, formVars, sockVars, lostVars, configVars, taskVars, mediaVars, railVars, bounds
<1>1. Types'
  <2>1. FormTypes'
    BY RefreshFacts DEF Types, FormTypes, Submit
  <2>2. ConfigTypes'
    BY DEF Types, ConfigTypes, Requests, Submit, Refresh
  <2>3. BoundTypes'
    BY CallAssumptions DEF Types, BoundTypes, Submit, Act
  <2>4. SockTypes' /\ LostTypes' /\ TaskTypes' /\ MediaTypes' /\ IceTypes'
    BY DEF Types, SockTypes, LostTypes, TaskTypes, MediaTypes, IceTypes, Submit
  <2> QED  BY <2>1, <2>2, <2>3, <2>4 DEF Types
<1>2. Counted'
  BY Numbers DEF Counted, Budget, Types, LostTypes, BoundTypes, Due, One, Submit, Act
<1>3. Phases'
  BY DEF Phases, DownMeansScheduled, Submit
<1>4. Requested'
  BY Numbers DEF Requested, Numbered, Types, ConfigTypes, Requests, Submit, Refresh, RequestOf
<1>5. Started'
  BY Numbers DEF Started, Phases, CredentialsSurvive, Submit
<1>6. Restarting'
  BY DEF Restarting, FailureIsHandled, Current, Submit, Act
<1>7. Owned'
  BY DEF Owned, Submit, Act
<1> QED  BY <1>1, <1>2, <1>3, <1>4, <1>5, <1>6, <1>7

\* In a meeting, a request that a start awaits is shared.
LEMMA BecomeVisibleStep ==
  ASSUME Inv, BecomeVisible
  PROVE  Inv'
<1> USE DEF Inv, formVars, sockVars, lostVars, configVars, taskVars, mediaVars, railVars, bounds
<1>1. Types'
  <2>1. ConfigTypes'
    BY DEF Types, ConfigTypes, Requests, SockTypes, BecomeVisible, Refresh, RequestOf
  <2>2. BoundTypes'
    BY CallAssumptions DEF Types, BoundTypes, BecomeVisible, Act
  <2>3. FormTypes' /\ SockTypes' /\ LostTypes' /\ TaskTypes' /\ MediaTypes' /\ IceTypes'
    BY DEF Types, FormTypes, SockTypes, LostTypes, TaskTypes, MediaTypes, IceTypes, BecomeVisible
  <2> QED  BY <2>1, <2>2, <2>3 DEF Types
<1>2. Counted'
  BY Numbers DEF Counted, Budget, Types, BoundTypes, Due, BecomeVisible, Act
<1>3. Phases'
  BY DEF Phases, DownMeansScheduled, BecomeVisible
<1>4. Requested'
  <2> DEFINE tok == IF Hidden THEN 0 ELSE token
  <2>1. tok \in Nat /\ Refresh(tok) /\ UNCHANGED <<formVars, sockVars>>
    BY DEF BecomeVisible, Types, SockTypes
  <2>2. view = "meeting" => tok = token /\ tok # 0
    BY DEF Phases, Hidden
  <2>3. view # "meeting" => tok = 0
    BY DEF Hidden
  <2>4. tok <= gen /\ (tok = gen => gen = 0 \/ joined = "yes")
    BY DEF Phases, Types, SockTypes
  <2> HIDE DEF tok
  <2> QED  BY <2>1, <2>2, <2>3, <2>4, RefreshFacts DEF Requested, Types, FormTypes, ConfigTypes
<1>5. Started'
  <2> DEFINE tok == IF Hidden THEN 0 ELSE token
  <2>1. tok \in Nat /\ Refresh(tok) /\ UNCHANGED <<formVars, sockVars, lostVars, taskVars, mediaVars, shown, railVars>>
    BY DEF BecomeVisible, Types, SockTypes
  <2>2. view = "meeting" => tok = token
    BY DEF Hidden
  <2> HIDE DEF tok
\* The start of the current socket awaits the request for the token, which is shared.
  <2>3. ASSUME Current(gen), gen # 0, task[gen] = "creds"
        PROVE  ver' = ver /\ cred' = cred
    <3>1. awaits[gen] = ver /\ cred = [v |-> ver, tok |-> token] /\ gen \in Gens
      BY <2>3, Numbers DEF Started
    <3>2. joined = "yes"
      BY <2>3, <3>1 DEF Started, Types, SockTypes
    <3>3. view = "meeting" /\ token # 0
      BY <3>2 DEF Phases
    <3>4. cred.v = ver /\ cred.tok = token /\ cred.v # 0
      BY <2>3, <3>1 DEF Started, Types, ConfigTypes
    <3>5. Shared(tok)
      BY <2>2, <3>3, <3>4 DEF Shared
    <3> QED  BY <2>1, <3>5 DEF Refresh
  <2>4. servers' = servers
    BY <2>1, RefreshFacts
  <2> QED  BY <2>1, <2>3, <2>4 DEF Started, Current, CredentialsSurvive
<1>6. Restarting'
  BY DEF Restarting, FailureIsHandled, Current, BecomeVisible, Act
<1>7. Owned'
  BY DEF Owned, BecomeVisible, Act
<1> QED  BY <1>1, <1>2, <1>3, <1>4, <1>5, <1>6, <1>7

\* The start awaits the latest request, which is one for the token that is held now.
LEMMA JoinedStep ==
  ASSUME Inv, Joined
  PROVE  Inv'
<1> USE DEF Inv, formVars, sockVars, lostVars, configVars, taskVars, mediaVars, railVars, bounds
<1>1. Types'
  <2>1. FormTypes'
    BY DEF Types, FormTypes, Joined
  <2>2. SockTypes'
    BY DEF Types, SockTypes, Joined
  <2>3. ConfigTypes'
    BY DEF Types, ConfigTypes, Requests, SockTypes, Joined, Refresh
  <2>4. TaskTypes'
    <3>1. token' \in Nat /\ Refresh(token') /\ task' = [task EXCEPT ![gen] = "creds"]
          /\ awaits' = [awaits EXCEPT ![gen] = RequestOf(token')]
      BY DEF Joined, Types, SockTypes
    <3>2. RequestOf(token') \in Nat
      BY <3>1, RefreshFacts
    <3> QED  BY <3>1, <3>2 DEF Types, TaskTypes
  <2>5. MediaTypes'
    BY DEF Types, MediaTypes, Joined
  <2>6. LostTypes' /\ IceTypes' /\ BoundTypes'
    BY DEF Types, LostTypes, IceTypes, BoundTypes, Joined
  <2> QED  BY <2>1, <2>2, <2>3, <2>4, <2>5, <2>6 DEF Types
<1>2. Counted'
  BY DEF Counted, Budget, Due, Joined
<1>3. Phases'
  BY Numbers DEF Phases, DownMeansScheduled, Joined
<1>4. Requested'
  BY DEF Requested, Numbered, Types, FormTypes, SockTypes, ConfigTypes, Phases, NoRequest,
    Requests, Joined, Refresh, Shared, RequestOf
<1>5. Started'
  <2>1. /\ sock = "open" /\ joined = "no" /\ joined' = "yes" /\ view' = "meeting"
        /\ token' \in IF token = 0 THEN {gen} ELSE {token, gen}
        /\ Refresh(token') /\ task' = [task EXCEPT ![gen] = "creds"]
        /\ awaits' = [awaits EXCEPT ![gen] = RequestOf(token')]
        /\ UNCHANGED <<gen, sock, mediaVars>>
    BY DEF Joined
  <2>2. gen > 0 /\ gen \in Gens /\ token' \in Nat /\ token' # 0
    BY <2>1, Numbers DEF Phases, Types, SockTypes
  <2>3. /\ RequestOf(token') \in Nat \ {0} /\ servers' = servers /\ cred'.v = RequestOf(token')
        /\ cred'.tok = token' /\ cred' \in Requests /\ ver' \in Nat
        /\ ver' = ver => cred' = cred
        /\ ver' # ver => cred'.v = ver'
    BY <2>1, <2>2, RefreshFacts
\* Shared is only a request for the token of the meeting, which is the latest.
  <2>4. cred'.v = ver'
    <3>1. CASE ver' = ver
      <4>1. cred' = cred /\ cred.v # 0 /\ cred \in flights
        BY <2>3, <3>1 DEF Requested, Numbered
      <4>2. cred.tok # gen
        BY <2>1, <2>2, <4>1 DEF Requested
      <4>3. cred.tok = token /\ token # 0
        BY <2>1, <2>2, <2>3, <4>1, <4>2
      <4> QED  BY <3>1, <4>1, <4>3 DEF Requested, Phases
    <3>2. CASE ver' # ver
      BY <2>3, <3>2
    <3> QED  BY <3>1, <3>2
  <2>5. cred' = [v |-> ver', tok |-> token'] /\ awaits'[gen] = ver' /\ ver' > 0
    BY <2>1, <2>2, <2>3, <2>4 DEF Requests, Types, TaskTypes
  <2>6. task[gen] = "none"
    BY <2>1, <2>2 DEF Started
  <2>7. peer # gen /\ gen \notin openPeers
    BY <2>2, <2>6 DEF Started
  <2>8. \A g \in Gens : g # gen => task'[g] = task[g]
    BY <2>1 DEF Types, TaskTypes
  <2>9. peer # 0 => peer \in Gens /\ peer # gen
    BY <2>7 DEF Types, MediaTypes
  <2>10. (\A g \in openPeers' : task'[g] \in {"mic", "setup", "done"})
         /\ (peer' # 0 => task'[peer'] \in {"mic", "setup", "done"})
    BY <2>1, <2>7, <2>8, <2>9 DEF Started, Types, MediaTypes
  <2>11. \A g \in Gens : g > gen' \/ (g = gen' /\ joined' # "yes") => task'[g] = "none"
    BY <2>1, <2>2, <2>8 DEF Started, Types, SockTypes
  <2>12. CredentialsSurvive'
    BY <2>1, <2>7 DEF CredentialsSurvive
  <2> QED  BY <2>1, <2>5, <2>10, <2>11, <2>12 DEF Started
<1>6. Restarting'
  BY DEF Restarting, FailureIsHandled, Current, Joined
<1>7. Owned'
  BY Numbers DEF Owned, Started, Joined
<1> QED  BY <1>1, <1>2, <1>3, <1>4, <1>5, <1>6, <1>7

\* A refused join is trouble, which pays for the timer.
LEMMA RefusedStep ==
  ASSUME Inv, Refused
  PROVE  Inv'
<1> USE DEF Inv, formVars, sockVars, lostVars, configVars, taskVars, mediaVars, railVars, bounds
<1>1. Types'
  <2>1. FormTypes'
    BY DEF Types, FormTypes, Refused, ReleaseForm
  <2>2. SockTypes'
    BY DEF Types, SockTypes, Refused
  <2>3. BoundTypes'
    BY CallAssumptions DEF Types, BoundTypes, Refused, Trouble
  <2>4. LostTypes' /\ ConfigTypes' /\ TaskTypes' /\ MediaTypes' /\ IceTypes'
    BY DEF Types, LostTypes, ConfigTypes, TaskTypes, MediaTypes, IceTypes, Refused
  <2> QED  BY <2>1, <2>2, <2>3, <2>4 DEF Types
<1>2. Counted'
  BY Numbers DEF Counted, Budget, Types, LostTypes, BoundTypes, Due, One, Refused, Trouble
<1>3. Phases'
  BY DEF Phases, DownMeansScheduled, Refused
<1>4. Requested'
  BY DEF Requested, Numbered, Refused
<1>5. Started'
  BY Numbers DEF Started, CredentialsSurvive, Refused
<1>6. Restarting'
  BY DEF Restarting, FailureIsHandled, Current, Refused, Trouble
<1>7. Owned'
  BY DEF Owned, Refused, Trouble
<1> QED  BY <1>1, <1>2, <1>3, <1>4, <1>5, <1>6, <1>7

\* A message is only shown.
LEMMA ChatArrivesStep ==
  ASSUME Inv, ChatArrives
  PROVE  Inv'
<1> USE DEF Inv, formVars, sockVars, lostVars, configVars, taskVars, mediaVars, railVars, bounds
<1>1. Types'
  <2>1. MediaTypes'
    BY DEF Types, MediaTypes, ChatArrives
  <2>2. FormTypes' /\ SockTypes' /\ LostTypes' /\ ConfigTypes' /\ TaskTypes' /\ IceTypes' /\ BoundTypes'
    BY CallAssumptions DEF Types, FormTypes, SockTypes, LostTypes, ConfigTypes, TaskTypes, IceTypes,
      BoundTypes, ChatArrives, Act
  <2> QED  BY <2>1, <2>2 DEF Types
<1>2. Counted'
  BY Numbers DEF Counted, Budget, Types, BoundTypes, Due, ChatArrives, Act
<1>3. Phases'
  BY DEF Phases, DownMeansScheduled, ChatArrives
<1>4. Requested'
  BY DEF Requested, Numbered, ChatArrives
<1>5. Started'
  BY DEF Started, Current, CredentialsSurvive, ChatArrives
<1>6. Restarting'
  BY DEF Restarting, FailureIsHandled, Current, ChatArrives, Act
<1>7. Owned'
  BY DEF Owned, ChatArrives, Act
<1> QED  BY <1>1, <1>2, <1>3, <1>4, <1>5, <1>6, <1>7

\* Leaving uses up the generation that was due, and ends the media.
LEMMA LeaveStep ==
  ASSUME Inv, Leave
  PROVE  Inv'
<1> USE DEF Inv, formVars, sockVars, lostVars, configVars, taskVars, mediaVars, railVars, bounds
<1>1. Types'
  <2>1. FormTypes'
    BY DEF Types, FormTypes, Leave
  <2>2. SockTypes'
    BY DEF Types, SockTypes, Leave
  <2>3. LostTypes'
    BY DEF Types, LostTypes, Leave
  <2>4. MediaTypes'
    BY DEF Types, MediaTypes, Leave, ResetMediaConnection
  <2>5. IceTypes'
    BY CallAssumptions DEF IceTypes, Restarts, NoIce, Leave, ResetMediaConnection
  <2>6. ConfigTypes' /\ TaskTypes' /\ BoundTypes'
    BY DEF Types, ConfigTypes, TaskTypes, BoundTypes, Leave
  <2> QED  BY <2>1, <2>2, <2>3, <2>4, <2>5, <2>6 DEF Types
<1>2. Counted'
  BY Numbers DEF Counted, Budget, Types, LostTypes, BoundTypes, Due, One, Leave
<1>3. Phases'
  BY Numbers DEF Phases, DownMeansScheduled, Leave
<1>4. Requested'
  BY Numbers DEF Requested, Numbered, Types, ConfigTypes, Requests, Leave
<1>5. Started'
  BY Numbers DEF Started, Current, CredentialsSurvive, Leave, ResetMediaConnection
<1>6. Restarting'
  BY DEF Restarting, FailureIsHandled, NoIce, Leave, ResetMediaConnection
<1>7. Owned'
  BY DEF Owned, Leave, ResetMediaConnection
<1> QED  BY <1>1, <1>2, <1>3, <1>4, <1>5, <1>6, <1>7

\* The form says nothing of what goes on elsewhere.
LEMMA RejoinStep ==
  ASSUME Inv, Rejoin
  PROVE  Inv'
<1> USE DEF Inv, formVars, sockVars, lostVars, configVars, taskVars, mediaVars, railVars, bounds
<1>1. Types'
  <2>1. FormTypes'
    BY DEF Types, FormTypes, Rejoin
  <2>2. SockTypes' /\ LostTypes' /\ ConfigTypes' /\ TaskTypes' /\ MediaTypes' /\ IceTypes' /\ BoundTypes'
    BY DEF Types, SockTypes, LostTypes, ConfigTypes, TaskTypes, MediaTypes, IceTypes,
      BoundTypes, Rejoin
  <2> QED  BY <2>1, <2>2 DEF Types
<1>2. Counted'
  BY DEF Counted, Budget, Due, Rejoin
<1>3. Phases'
  BY DEF Phases, DownMeansScheduled, Rejoin
<1>4. Requested'
  BY DEF Requested, Numbered, Rejoin
<1>5. Started'
  BY DEF Started, Current, CredentialsSurvive, Rejoin
<1>6. Restarting'
  BY DEF Restarting, FailureIsHandled, Current, Rejoin
<1>7. Owned'
  BY DEF Owned, Rejoin
<1> QED  BY <1>1, <1>2, <1>3, <1>4, <1>5, <1>6, <1>7

----------------------------------------------------------------------------
(* The steps: starting the media.                                          *)

\* Only the current start takes the microphone; another one closes its connection.
LEMMA MicrophoneAnswersStep ==
  ASSUME Inv, NEW g \in Gens, MicrophoneAnswers(g)
  PROVE  Inv'
<1> USE DEF Inv, formVars, sockVars, lostVars, configVars, taskVars, mediaVars, railVars, bounds
<1>1. Types'
  <2>1. TaskTypes'
    BY DEF Types, TaskTypes, MicrophoneAnswers
  <2>2. MediaTypes'
    BY DEF Types, MediaTypes, MicrophoneAnswers
  <2>3. FormTypes' /\ SockTypes' /\ LostTypes' /\ ConfigTypes' /\ IceTypes' /\ BoundTypes'
    BY DEF Types, FormTypes, SockTypes, LostTypes, ConfigTypes, IceTypes, BoundTypes,
      MicrophoneAnswers
  <2> QED  BY <2>1, <2>2, <2>3 DEF Types
<1>2. Counted'
  BY DEF Counted, Budget, Due, MicrophoneAnswers
<1>3. Phases'
  BY DEF Phases, DownMeansScheduled, MicrophoneAnswers
<1>4. Requested'
  BY DEF Requested, Numbered, MicrophoneAnswers
<1>5. Started'
  BY Numbers DEF Started, Types, ConfigTypes, TaskTypes, MediaTypes, Current,
    CredentialsSurvive, MicrophoneAnswers
<1>6. Restarting'
  BY DEF Restarting, FailureIsHandled, Current, MicrophoneAnswers
<1>7. Owned'
  BY Numbers DEF Owned, Types, SockTypes, LostTypes, TaskTypes, MediaTypes, BoundTypes, Phases,
    Started, MicrophoneAnswers
<1> QED  BY <1>1, <1>2, <1>3, <1>4, <1>5, <1>6, <1>7

\* Only the current start has statistics.
LEMMA SetupEndsStep ==
  ASSUME Inv, NEW g \in Gens, SetupEnds(g)
  PROVE  Inv'
<1> USE DEF Inv, formVars, sockVars, lostVars, configVars, taskVars, mediaVars, railVars, bounds
<1>1. Types'
  <2>1. TaskTypes'
    BY DEF Types, TaskTypes, SetupEnds
  <2>2. MediaTypes'
    BY DEF Types, MediaTypes, SetupEnds
  <2>3. FormTypes' /\ SockTypes' /\ LostTypes' /\ ConfigTypes' /\ IceTypes' /\ BoundTypes'
    BY DEF Types, FormTypes, SockTypes, LostTypes, ConfigTypes, IceTypes, BoundTypes, SetupEnds
  <2> QED  BY <2>1, <2>2, <2>3 DEF Types
<1>2. Counted'
  BY DEF Counted, Budget, Due, SetupEnds
<1>3. Phases'
  BY DEF Phases, DownMeansScheduled, SetupEnds
<1>4. Requested'
  BY DEF Requested, Numbered, SetupEnds
<1>5. Started'
  BY DEF Started, Current, CredentialsSurvive, SetupEnds
<1>6. Restarting'
  BY DEF Restarting, FailureIsHandled, Current, SetupEnds
<1>7. Owned'
  BY Numbers DEF Owned, Types, MediaTypes, SetupEnds
<1> QED  BY <1>1, <1>2, <1>3, <1>4, <1>5, <1>6, <1>7

\* A retry pays for the generation it makes and for the timer it loses.
LEMMA RetrySocketStep ==
  ASSUME Inv, RetrySocket
  PROVE  Inv'
<1> USE DEF Inv, formVars, sockVars, lostVars, configVars, taskVars, mediaVars, railVars, bounds
<1>1. Types'
  <2>1. SockTypes'
    BY DEF Types, SockTypes, RetrySocket, Connect
  <2>2. LostTypes'
    BY DEF Types, LostTypes, RetrySocket
  <2>3. BoundTypes'
    BY CallAssumptions DEF Types, BoundTypes, RetrySocket
  <2>4. FormTypes' /\ ConfigTypes' /\ TaskTypes' /\ MediaTypes' /\ IceTypes'
    BY DEF Types, FormTypes, ConfigTypes, TaskTypes, MediaTypes, IceTypes, RetrySocket
  <2> QED  BY <2>1, <2>2, <2>3, <2>4 DEF Types
<1>2. Counted'
  BY Numbers DEF Counted, Budget, Types, LostTypes, BoundTypes, Due, One, RetrySocket, Connect, Hidden
<1>3. Phases'
  BY DEF Phases, Types, SockTypes, DownMeansScheduled, RetrySocket, Connect
<1>4. Requested'
  BY Numbers DEF Requested, Numbered, Types, ConfigTypes, Requests, RetrySocket, Connect, Hidden
<1>5. Started'
  BY Numbers DEF Started, Types, MediaTypes, Current, CredentialsSurvive, RetrySocket, Connect
<1>6. Restarting'
  BY DEF Restarting, FailureIsHandled, Current, RetrySocket, Connect
<1>7. Owned'
  BY DEF Owned, Types, BoundTypes, RetrySocket
<1> QED  BY <1>1, <1>2, <1>3, <1>4, <1>5, <1>6, <1>7

\* The response of a request: the others stay under way, and shared.
LEMMA SettleFacts ==
  ASSUME Inv, NEW f \in flights, NEW ok \in BOOLEAN, Settle(f, ok)
  PROVE  /\ f \in Requests /\ f.v > 0 /\ f.v <= ver
         /\ ver' = ver /\ flights' \subseteq flights /\ pub' \in Nat /\ cred' \in Requests
         /\ servers' \in {"none", "public", "session"} /\ Numbered'
         /\ cred' = cred \/ (cred' = NoRequest /\ f = cred)
         /\ f.tok = 0 => cred' = cred
         /\ servers' = servers \/ (Outcome(f, ok) /\ servers' = IF f.tok = 0 THEN "public" ELSE "session")
         /\ Outcome(f, ok) /\ f.tok # 0 => servers' = "session"
         /\ cred.v # f.v => cred' = cred
<1> USE DEF Inv, Types, ConfigTypes, Requested
<1>1. f \in Requests /\ f.v > 0 /\ f.v <= ver
  BY DEF Numbered
<1>2. /\ flights' = flights \ {f} /\ ver' = ver
      /\ pub' = IF pub = f.v THEN 0 ELSE pub
      /\ cred' = IF cred.v = f.v THEN NoRequest ELSE cred
      /\ servers' = IF ~Outcome(f, ok) THEN servers ELSE IF f.tok = 0 THEN "public" ELSE "session"
  BY DEF Settle
<1>3. NoRequest \in Requests /\ NoRequest.v = 0
  BY DEF NoRequest, Requests
<1>4. cred.v = f.v => f = cred /\ cred.tok # 0
  BY <1>1 DEF Numbered
<1>5. pub' # 0 => [v |-> pub', tok |-> 0] \in flights'
  <2>1. pub' # 0 => pub' = pub /\ pub # f.v /\ [v |-> pub, tok |-> 0] \in flights
    BY <1>2 DEF Numbered
  <2>2. pub # f.v => [v |-> pub, tok |-> 0] # f
    OBVIOUS
  <2> QED  BY <1>2, <2>1, <2>2
<1>6. cred'.v # 0 => cred' \in flights' /\ cred'.tok # 0
  BY <1>2, <1>3 DEF Numbered
<1>7. Numbered'
  BY <1>2, <1>5, <1>6 DEF Numbered
<1> QED  BY <1>1, <1>2, <1>3, <1>4, <1>7

\* A public answer connects from the form, and is outdated in a meeting.
LEMMA PublicConfigStep ==
  ASSUME Inv, PublicConfig
  PROVE  Inv'
<1> USE DEF Inv, formVars, sockVars, lostVars, configVars, taskVars, mediaVars, railVars, bounds
<1>1. PICK f \in flights, ok \in BOOLEAN :
        /\ f.tok = 0
        /\ IF ok THEN UNCHANGED bounds ELSE Trouble
        /\ Settle(f, ok)
        /\ watching' = IF watching = f.v THEN 0 ELSE watching
        /\ IF joining # f.v
           THEN UNCHANGED <<joining, joinDisabled, intentional, gen, sock, joined>>
           ELSE /\ joining' = 0
                /\ \/ /\ Outcome(f, ok)
                      /\ intentional' = FALSE /\ Connect /\ UNCHANGED joinDisabled
                   \/ joinDisabled' = FALSE /\ UNCHANGED <<intentional, gen, sock, joined>>
  BY DEF PublicConfig
<1>2. UNCHANGED <<view, token, switching, attempts, timer, strays, taskVars, mediaVars, shown, railVars>>
  BY DEF PublicConfig
<1>3. /\ f \in Requests /\ f.v > 0 /\ ver' = ver /\ flights' \subseteq flights /\ pub' \in Nat
      /\ cred' = cred /\ cred' \in Requests
      /\ servers' \in {"none", "public", "session"} /\ Numbered'
      /\ servers' = servers \/ f.v = ver
  BY <1>1, SettleFacts DEF Outcome
<1>4. /\ acts' = acts /\ failures' = failures /\ retries' = retries /\ errors' = errors
      /\ troubles' = troubles \/ troubles' = troubles + 1
      /\ troubles' \in 0 .. MaxTroubles /\ troubles' >= troubles
  BY <1>1, CallAssumptions DEF Trouble, Types, BoundTypes
<1>5. BoundTypes' /\ ConfigTypes' /\ TaskTypes' /\ MediaTypes' /\ IceTypes'
  <2>1. BoundTypes'
    BY <1>4 DEF Types, BoundTypes
  <2>2. ConfigTypes'
    BY <1>1, <1>3 DEF Types, ConfigTypes, Requests
  <2>3. TaskTypes' /\ MediaTypes' /\ IceTypes'
    BY <1>2 DEF Types, TaskTypes, MediaTypes, IceTypes
  <2> QED  BY <2>1, <2>2, <2>3
\* The public request is not the latest one in a meeting.
<1>6. view = "meeting" => servers' = servers
  BY <1>1, <1>3 DEF Requested
<1>7. CASE UNCHANGED <<intentional, gen, sock, joined>> /\ (joining' = joining \/ joining' = 0) /\ joinDisabled' \in BOOLEAN
  <2>1. Types'
    BY <1>2, <1>5, <1>7 DEF Types, FormTypes, SockTypes, LostTypes
  <2>2. Counted'
    <3>1. CASE joining' = joining
      <4>1. /\ acts' \in Nat /\ failures' \in Nat /\ troubles' \in Nat
            /\ acts' >= acts /\ failures' >= failures
        BY <1>4, CallAssumptions DEF Types, BoundTypes
      <4> QED  BY <1>2, <1>4, <1>7, <3>1, <4>1, StillCounted
    <3>2. CASE joining' = 0
      <4>1. /\ gen \in Nat /\ strays \in Nat /\ acts \in Nat /\ failures \in Nat
            /\ troubles \in Nat /\ retries \in Nat
        BY DEF Types, SockTypes, LostTypes, BoundTypes
      <4>2. Due' \in Nat /\ gen' + Due' <= gen + Due + 0
        BY <1>2, <1>7, <3>2, <4>1 DEF Due, One
      <4>3. gen' + Due' <= Budget'
        <5> HIDE DEF Due
        <5>1. gen' \in Nat /\ 0 \in Nat
          BY <1>7, <4>1
        <5>2. Budget' \in Nat /\ Budget + 0 <= Budget'
          <6>1. CASE troubles' = troubles
            BY <1>4, <4>1, <6>1 DEF Budget
          <6>2. CASE troubles' = troubles + 1
            BY <1>4, <4>1, <6>2 DEF Budget
          <6> QED  BY <1>4, <6>1, <6>2
        <5> QED  BY <4>2, <5>1, <5>2, Paid
      <4> QED  BY <1>2, <1>4, <1>7, <4>3 DEF Counted, One
    <3> QED  BY <1>7, <3>1, <3>2
  <2>3. Phases'
    BY <1>2, <1>7 DEF Phases, DownMeansScheduled
  <2>4. Requested'
    BY <1>2, <1>3, <1>7 DEF Requested, Types, ConfigTypes
  <2>5. Started'
    BY <1>2, <1>3, <1>6, <1>7 DEF Started, Current, CredentialsSurvive
  <2>6. Restarting'
    BY <1>2, <1>4, <1>7 DEF Restarting, FailureIsHandled, Current
  <2>7. Owned'
    BY <1>2, <1>4, <1>7 DEF Owned
  <2> QED  BY <2>1, <2>2, <2>3, <2>4, <2>5, <2>6, <2>7
<1>8. CASE joining = f.v /\ f.v = ver /\ ok /\ joining' = 0 /\ intentional' = FALSE /\ Connect /\ UNCHANGED joinDisabled
  <2>1. view = "welcome" /\ timer = "none" /\ token = 0
    <3>1. view = "welcome"
      BY <1>3, <1>8 DEF Requested
    <3> QED  BY <3>1 DEF Phases
  <2>2. /\ gen' = gen + 1 /\ sock' = "connecting" /\ joined' = "no" /\ gen \in Nat
        /\ UNCHANGED bounds
    BY <1>1, <1>8 DEF Connect, Types, SockTypes
  <2>3. Types'
    <3>1. FormTypes'
      BY <1>2, <1>8 DEF Types, FormTypes
    <3>2. SockTypes'
      BY <1>2, <2>2 DEF Types, SockTypes
    <3>3. LostTypes'
      BY <1>2, <1>8 DEF Types, LostTypes
    <3> QED  BY <1>5, <3>1, <3>2, <3>3 DEF Types
  <2>4. Counted'
    <3>1. /\ strays \in Nat /\ acts \in Nat /\ failures \in Nat
          /\ troubles \in Nat /\ retries \in Nat /\ joining # 0
      BY CallAssumptions, <1>3, <1>8 DEF Types, LostTypes, BoundTypes
    <3>2. Due' \in Nat /\ gen' + Due' <= gen + Due + 0
      BY <1>2, <1>8, <2>1, <2>2, <3>1 DEF Due, One
    <3>3. gen' + Due' <= Budget'
      <4> HIDE DEF Due
      <4>1. UNCHANGED <<acts, failures, troubles, retries>> /\ gen' \in Nat /\ 0 \in Nat
        BY <2>2
      <4>2. Budget + 0 <= Budget' /\ Budget' \in Nat
        BY <3>1, <4>1 DEF Budget
      <4> QED  BY <3>2, <4>1, <4>2, Paid
    <3> QED  BY <1>2, <2>1, <2>2, <3>3 DEF Counted, One
  <2>5. Phases'
    BY <1>2, <2>1, <2>2 DEF Phases, DownMeansScheduled
  <2>6. Requested'
    BY <1>2, <1>3, <1>8, <2>1, <2>2, <2>3 DEF Requested, Types, ConfigTypes, Requests
  <2>7. Started'
    BY <1>2, <2>1, <2>2, Numbers DEF Started, Current, CredentialsSurvive
  <2>8. Restarting'
    BY <1>2, <2>2 DEF Restarting, FailureIsHandled, Current
  <2>9. Owned'
    BY <1>2, <2>1, <2>2 DEF Owned
  <2> QED  BY <2>3, <2>4, <2>5, <2>6, <2>7, <2>8, <2>9
<1> QED  BY <1>1, <1>7, <1>8 DEF Outcome, Types, FormTypes

\* The start that goes on is the current one, and the answer is the latest; the others end.
LEMMA SessionConfigStep ==
  ASSUME Inv, SessionConfig
  PROVE  Inv'
<1> USE DEF Inv, formVars, sockVars, lostVars, configVars, taskVars, mediaVars, railVars, bounds
<1>1. PICK f \in flights, ok \in BOOLEAN :
        /\ f.tok # 0 /\ Settle(f, ok) /\ Proceed(f, ok)
        /\ watching' = IF watching = f.v THEN 0 ELSE watching
  BY DEF SessionConfig
<1>2. UNCHANGED <<formVars, gen, joined, token, switching, attempts, timer, strays, awaits,
                  mics, stream, stats, railVars>>
  BY DEF SessionConfig
<1>3. /\ f \in Requests /\ f.v > 0 /\ ver' = ver /\ flights' \subseteq flights /\ pub' \in Nat
      /\ cred' = cred \/ cred' = NoRequest
      /\ cred' \in Requests /\ servers' \in {"none", "public", "session"} /\ Numbered'
      /\ servers' = servers \/ servers' = "session"
      /\ ok /\ f.v = ver => servers' = "session"
      /\ cred.v # f.v => cred' = cred
  BY <1>1, SettleFacts DEF Outcome
<1>4. ConfigTypes' /\ FormTypes'
  BY <1>1, <1>2, <1>3 DEF Types, ConfigTypes, FormTypes
<1>5. Requested'
  BY <1>2, <1>3 DEF Requested, NoRequest
\* Only starts that await credentials go on.
<1>6. \A g \in Waiting(f.v) : g \in Gens /\ task[g] = "creds" /\ awaits[g] = f.v
  BY DEF Waiting
<1> DEFINE Ended == [g \in Gens |-> IF g \in Waiting(f.v) THEN "done" ELSE task[g]]
<1>7. CASE /\ gen \notin Waiting(f.v) \/ sock # "open"
           /\ task' = Ended /\ UNCHANGED <<sock, intentional, shown, peer, openPeers, media, ice, bounds>>
  <2>1. Types'
    <3>1. TaskTypes'
      BY <1>2, <1>7 DEF Types, TaskTypes
    <3> QED
      BY <1>2, <1>4, <1>7, <3>1 DEF Types, SockTypes, LostTypes, MediaTypes, IceTypes,
        BoundTypes
  <2>2. Counted'
    BY <1>2, <1>7 DEF Counted, Budget, Due
  <2>3. Phases'
    BY <1>2, <1>7 DEF Phases, DownMeansScheduled
  <2>4. \A g \in Gens : g \notin Waiting(f.v) => task'[g] = task[g]
    BY <1>7
  <2>5. \A g \in Gens : task[g] # "creds" => task'[g] = task[g]
    BY <1>6, <2>4
  <2>6. Started'
    <3>1. \A g \in Gens : g > gen' \/ (g = gen' /\ joined' # "yes") => task'[g] = "none"
      BY <1>2, <2>5 DEF Started
    <3>2. (\A g \in openPeers' : task'[g] \in {"mic", "setup", "done"})
          /\ (peer' # 0 => task'[peer'] \in {"mic", "setup", "done"})
      BY <1>7, <2>5 DEF Started, Types, MediaTypes
    <3>3. ASSUME Current(gen), gen # 0, task'[gen] = "creds"
          PROVE  ver > 0 /\ awaits[gen] = ver /\ cred' = [v |-> ver, tok |-> token]
      <4>1. gen \in Gens /\ sock = "open" /\ gen \notin Waiting(f.v)
        BY <1>7, <3>3, Numbers DEF Current
      <4>2. task[gen] = "creds"
        BY <2>4, <3>3, <4>1
      <4>3. ver > 0 /\ awaits[gen] = ver /\ cred = [v |-> ver, tok |-> token]
        BY <3>3, <4>2 DEF Started
      <4>4. awaits[gen] # f.v
        BY <4>1, <4>2 DEF Waiting
      <4> QED  BY <1>3, <4>3, <4>4
    <3>4. CredentialsSurvive'
      BY <1>2, <1>3, <1>7 DEF Started, CredentialsSurvive
    <3> QED  BY <1>2, <1>3, <1>7, <3>1, <3>2, <3>3, <3>4 DEF Started, Current
  <2>7. Restarting'
    BY <1>2, <1>7 DEF Restarting, FailureIsHandled, Current
  <2>8. Owned'
    BY <1>2, <1>7, <2>5 DEF Owned, Types, MediaTypes
  <2> QED  BY <1>5, <2>1, <2>2, <2>3, <2>6, <2>7, <2>8
<1>8. CASE gen \in Waiting(f.v) /\ sock = "open"
\* The start that goes on is the current one, and awaits the latest request.
  <2>1. gen \in Gens /\ gen # 0 /\ task[gen] = "creds" /\ awaits[gen] = f.v
    BY <1>6, <1>8, Numbers DEF Phases
  <2>2. f.v = ver
    BY <1>8, <2>1 DEF Started, Current
  <2>3. joined = "yes" /\ view = "meeting" /\ timer = "none"
    <3>1. joined = "yes"
      BY <2>1 DEF Started, Types, SockTypes
    <3> QED  BY <1>8, <3>1 DEF Phases
  <2>4. gen \notin openPeers /\ peer # gen
    BY <2>1 DEF Started
  <2>5. CASE /\ Trouble /\ task' = Ended /\ sock' = "closing"
             /\ UNCHANGED <<peer, openPeers, media, ice>>
             /\ \/ UNCHANGED <<intentional, shown>>
                \/ intentional' = TRUE /\ shown' = "unavailable"
    <3>1. /\ troubles' = troubles + 1 /\ UNCHANGED <<acts, failures, retries, errors>>
          /\ acts \in Nat /\ failures \in Nat
          /\ troubles \in Nat /\ retries \in Nat /\ gen \in Nat /\ strays \in Nat
      BY <2>5 DEF Trouble, Types, BoundTypes, SockTypes, LostTypes
    <3>2. \A g \in Gens : task[g] # "creds" => task'[g] = task[g]
      BY <1>6, <2>5
    <3>3. Types'
      <4>1. TaskTypes' /\ BoundTypes'
        BY <1>2, <2>5, CallAssumptions DEF Types, TaskTypes, Trouble, BoundTypes
      <4>2. SockTypes' /\ LostTypes'
        BY <1>2, <2>5 DEF Types, SockTypes, LostTypes
      <4>3. MediaTypes' /\ IceTypes'
        BY <1>2, <2>5 DEF Types, MediaTypes, IceTypes
      <4> QED  BY <1>4, <4>1, <4>2, <4>3 DEF Types
    <3>4. Counted'
      <4>1. Due' \in Nat /\ gen' + Due' <= gen + Due + 2
        BY <1>2, <1>8, <2>3, <2>5, <3>1 DEF Due, One
      <4>2. gen' + Due' <= Budget'
        <5> HIDE DEF Due
        <5>1. Budget + 2 <= Budget' /\ 2 \in Nat
          BY <3>1 DEF Budget
        <5>2. gen' \in Nat /\ Budget' \in Nat
          BY <1>2, <3>1 DEF Budget
        <5> QED  BY <4>1, <5>1, <5>2, Paid
      <4>3. strays' + One(timer' # "none" /\ sock' = "connecting") <= retries'
        BY <1>2, <2>3, <3>1 DEF Counted, One
      <4> QED  BY <4>2, <4>3 DEF Counted
    <3>5. Phases'
      BY <1>2, <1>8, <2>3, <2>5 DEF Phases, DownMeansScheduled
    <3>6. Started'
      <4>1. \A g \in Gens : g > gen' \/ (g = gen' /\ joined' # "yes") => task'[g] = "none"
        BY <1>2, <3>2 DEF Started
      <4>2. (\A g \in openPeers' : task'[g] \in {"mic", "setup", "done"})
            /\ (peer' # 0 => task'[peer'] \in {"mic", "setup", "done"})
        BY <2>5, <3>2 DEF Started, Types, MediaTypes
      <4>3. CredentialsSurvive' /\ ~Current(gen)'
        BY <1>2, <1>3, <2>5 DEF Started, CredentialsSurvive, Current
      <4> QED  BY <4>1, <4>2, <4>3 DEF Started
    <3>7. Restarting'
      BY <1>2, <2>5 DEF Restarting, FailureIsHandled, Current
    <3>8. Owned'
      BY <1>2, <2>3, <2>5, <3>1, <3>2 DEF Owned, Types, MediaTypes
    <3> QED  BY <1>5, <3>3, <3>4, <3>5, <3>6, <3>7, <3>8
  <2>6. CASE /\ ok /\ f.v = ver
             /\ task' = [g \in Gens |-> IF g = gen THEN "mic" ELSE Ended[g]]
             /\ peer' = gen /\ openPeers' = openPeers \union {gen} /\ media' = "new" /\ ice' = NoIce
             /\ UNCHANGED <<sock, intentional, shown, bounds>>
    <3>1. \A g \in Gens : g # gen /\ task[g] # "creds" => task'[g] = task[g]
      BY <1>6, <2>6
    <3>2. task'[gen] = "mic"
      BY <2>1, <2>6
    <3>3. Types'
      <4>1. TaskTypes'
        BY <1>2, <2>6 DEF Types, TaskTypes
      <4>2. MediaTypes'
        BY <1>2, <2>1, <2>6 DEF Types, MediaTypes
      <4>3. IceTypes'
        BY <2>6, CallAssumptions DEF IceTypes, NoIce, Restarts
      <4> QED  BY <1>2, <1>4, <2>6, <4>1, <4>2, <4>3 DEF Types, SockTypes, LostTypes, BoundTypes
    <3>4. Counted'
      BY <1>2, <2>6 DEF Counted, Budget, Due
    <3>5. Phases'
      BY <1>2, <2>6 DEF Phases, DownMeansScheduled
    <3>6. Started'
      <4>1. \A g \in Gens : g > gen' \/ (g = gen' /\ joined' # "yes") => task'[g] = "none"
        BY <1>2, <2>3, <3>1 DEF Started, Types, SockTypes
      <4>2. (\A g \in openPeers' : task'[g] \in {"mic", "setup", "done"})
            /\ (peer' # 0 => task'[peer'] \in {"mic", "setup", "done"})
        BY <2>6, <3>1, <3>2 DEF Started, Types, MediaTypes
      <4>3. CredentialsSurvive'
        BY <1>3, <2>6 DEF CredentialsSurvive
      <4> QED  BY <1>2, <3>2, <4>1, <4>2, <4>3 DEF Started
    <3>7. Restarting'
      BY <2>6, <3>3 DEF Restarting, FailureIsHandled, NoIce
\* A peer connection that were left would be of this generation.
    <3>8. Owned'
      <4> SUFFICES ASSUME retries = 0 PROVE Owned'
        BY <2>6 DEF Owned
      <4>1. peer = 0 /\ stream = 0 /\ mics = {}
        BY <2>4 DEF Owned, Types, MediaTypes, Gens
      <4>2. \A g \in openPeers : g # gen /\ task[g] = "mic"
        BY <2>4, <4>1 DEF Owned, Types, MediaTypes, Gens
      <4> QED  BY <1>2, <2>1, <2>3, <2>6, <3>1, <3>2, <4>1, <4>2 DEF Owned, Types, MediaTypes
    <3> QED  BY <1>5, <3>3, <3>4, <3>5, <3>6, <3>7, <3>8
  <2>7. \/ /\ ~Outcome(f, ok)
           /\ IF ok THEN UNCHANGED bounds ELSE Trouble
           /\ task' = Ended /\ sock' = "closing"
           /\ UNCHANGED <<intentional, shown, peer, openPeers, media, ice>>
        \/ /\ Outcome(f, ok) /\ Trouble /\ task' = Ended
           /\ sock' = "closing" /\ intentional' = TRUE /\ shown' = "unavailable"
           /\ UNCHANGED <<peer, openPeers, media, ice>>
        \/ /\ Outcome(f, ok)
           /\ task' = [g \in Gens |-> IF g = gen THEN "mic"
                                      ELSE IF g \in Waiting(f.v) THEN "done" ELSE task[g]]
           /\ peer' = gen /\ openPeers' = openPeers \union {gen}
           /\ media' = "new" /\ ice' = NoIce
           /\ UNCHANGED <<sock, intentional, shown, bounds>>
    BY <1>1, <1>8 DEF Proceed
  <2> QED  BY <2>2, <2>5, <2>6, <2>7 DEF Outcome
<1> QED  BY <1>1, <1>7, <1>8 DEF Proceed


----------------------------------------------------------------------------
(* The theorems.                                                           *)

\* Nothing is under way when the page is loaded.
LEMMA Initially == Init => Inv
<1> SUFFICES ASSUME Init PROVE Inv
  OBVIOUS
<1>1. Types
  <2>1. FormTypes /\ SockTypes /\ LostTypes
    BY DEF Init, FormTypes, SockTypes, LostTypes
  <2>2. ConfigTypes /\ TaskTypes
    BY DEF Init, ConfigTypes, TaskTypes, Requests, NoRequest
  <2>3. MediaTypes
    BY DEF Init, MediaTypes
  <2>4. IceTypes /\ BoundTypes
    BY CallAssumptions DEF Init, IceTypes, BoundTypes, Restarts, NoIce
  <2> QED  BY <2>1, <2>2, <2>3, <2>4 DEF Types
<1>2. Counted
  <2>1. Due = 0
    BY DEF Init, Due, One
  <2> QED  BY <2>1 DEF Init, Counted, Budget, One
<1>3. Phases
  BY DEF Init, Phases, DownMeansScheduled
<1>4. Requested
  BY DEF Init, Requested, Numbered, NoRequest
<1>5. Started
  BY <1>1 DEF Init, Started, CredentialsSurvive
<1>6. Restarting /\ Owned
  BY DEF Init, Restarting, FailureIsHandled, NoIce, Owned
<1> QED  BY <1>1, <1>2, <1>3, <1>4, <1>5, <1>6 DEF Inv

\* Every task of the event loop keeps the invariant.
LEMMA Steps == Inv /\ [Next]_vars => Inv'
<1> SUFFICES ASSUME Inv, [Next]_vars PROVE Inv'
  OBVIOUS
<1>1. CASE UNCHANGED vars
  <2> USE <1>1 DEF Inv, vars, formVars, sockVars, lostVars, configVars, taskVars, mediaVars, railVars, bounds
  <2>1. Types' /\ Counted' /\ Phases'
    BY DEF Types, FormTypes, SockTypes, LostTypes, ConfigTypes, TaskTypes, MediaTypes, IceTypes,
      BoundTypes, Counted, Budget, Due, Phases, DownMeansScheduled
  <2>2. Requested' /\ Started' /\ Restarting' /\ Owned'
    BY DEF Requested, Numbered, Started, Current, CredentialsSurvive, Restarting,
      FailureIsHandled, Owned
  <2> QED  BY <2>1, <2>2
<1>2. CASE SocketOpens \/ SocketCloses \/ Timers \/ SelectMethod
  BY <1>2, SocketOpensStep, SocketClosesStep, BackoffFiresStep, StrayFiresStep, SwitchFiresStep,
    SelectMethodStep DEF Timers
<1>3. CASE Submit \/ BecomeVisible \/ Hub \/ ChatArrives \/ Leave \/ Rejoin
  BY <1>3, SubmitStep, BecomeVisibleStep, JoinedStep, RefusedStep, ChatArrivesStep, LeaveStep,
    RejoinStep DEF Hub
<1>4. CASE Answers \/ Startup
  BY <1>4, PublicConfigStep, SessionConfigStep, MicrophoneAnswersStep, SetupEndsStep
    DEF Answers, Startup
<1>5. CASE MediaChanges \/ RestartTimerFires \/ RestartOffered \/ RestartRefused
           \/ RetryMedia \/ RetrySocket
  BY <1>5, MediaChangesStep, RestartTimerFiresStep, RestartOfferedStep, RestartRefusedStep,
    RetryMediaStep, RetrySocketStep
<1>6. CASE Idle
  BY <1>1, <1>6 DEF Idle
<1> QED  BY <1>1, <1>2, <1>3, <1>4, <1>5, <1>6 DEF Next

\* Whatever the user clicks and the network does to the socket, the timers, the requests and
\* the start of the media (app.js), their invariant holds.
THEOREM CallIsKeptUp == Spec => []Inv
<1> QED  BY Initially, Steps, PTL DEF Spec

\* The state of a call is one that somebody will move on: a lost socket has a timer
\* (socket.onclose), failed media has a restart (requestIceRestart), a start awaits the
\* request that counts (startWebRTC), and whoever left is left alone (leaveMeeting).
THEOREM CallInvHolds == Spec => []CallInv
<1>1. Inv => CallInv
  <2> SUFFICES ASSUME Inv PROVE CallInv
    OBVIOUS
  <2>1. strays \in 0 .. MaxRetries
    <3>1. strays \in Nat /\ retries \in Nat /\ retries <= MaxRetries /\ strays <= retries
      BY DEF Inv, Types, LostTypes, BoundTypes, Counted, One
    <3> QED  BY <3>1, CallAssumptions
  <2>2. TypeOK
    <3>1. {joinDisabled, intentional, switching, stats, rail, doubled} \subseteq BOOLEAN
      BY DEF Inv, Types, FormTypes, LostTypes, MediaTypes
    <3>2. ice.att \in 0 .. MaxIceRestarts
      BY DEF Inv, Types, IceTypes, Restarts
    <3>3. view \in {"welcome", "meeting", "ended"} /\ gen \in {0} \union Gens
      BY Numbers DEF Inv, Types, FormTypes
    <3> QED
      BY <2>1, <3>1, <3>2, <3>3 DEF TypeOK, Inv, Types, SockTypes, LostTypes, ConfigTypes,
        TaskTypes, MediaTypes, Requested, Numbered
  <2>3. LeavingIsFinal
    <3> SUFFICES ASSUME view = "ended", retries = 0
                 PROVE  /\ timer = "none" /\ strays = 0 /\ sock = "closed" /\ ~stats
                        /\ mics = {} /\ \A g \in openPeers : task[g] = "mic"
      BY DEF LeavingIsFinal
    <3>1. strays = 0
      BY DEF Inv, Types, LostTypes, Counted, One
    <3>2. timer = "none"
      BY DEF Inv, Phases
    <3>3. peer = 0 /\ stream = 0 /\ sock = "closed" /\ ~stats
      BY DEF Inv, Owned
    <3>4. mics = {} /\ \A g \in openPeers : task[g] = "mic"
      BY <3>3 DEF Inv, Owned, Types, MediaTypes, Gens
    <3> QED  BY <3>1, <3>2, <3>3, <3>4
  <2>4. StartAwaitsTheLatest
    BY DEF Inv, Phases, Started, StartAwaitsTheLatest, Current
  <2> QED  BY <2>2, <2>3, <2>4 DEF CallInv, Inv, Phases, Started, Restarting
<1> QED  BY <1>1, CallIsKeptUp, PTL

\* The peer connections and microphones that are open are the call's own, or those of a start
\* that abortIfStale will end (resetMediaConnection, startWebRTC): none outlives a reconnect.
THEOREM NothingEverLeaks == Spec => []NothingLeaks
<1>1. Inv => NothingLeaks
  BY DEF Inv, Owned, NothingLeaks
<1> QED  BY <1>1, CallIsKeptUp, PTL
=============================================================================
