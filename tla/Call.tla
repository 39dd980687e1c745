-------------------------------- MODULE Call --------------------------------
(***************************************************************************)
(* A call as the browser lives through it (web/js/app.js): the join form,  *)
(* the signaling socket with its generations, the reconnect timers, the    *)
(* requests for the ICE configuration, the start of the media, which       *)
(* awaits several times and may find itself outdated after each, the ICE   *)
(* restarts, and leaving.                                                  *)
(*                                                                         *)
(* A generation stands for the socket, the peer connection and the         *)
(* microphone stream that were made under it.  Every action is one task of *)
(* the browser's event loop; everything between two awaits is atomic.      *)
(***************************************************************************)
EXTENDS Integers, FiniteSets

CONSTANTS MaxReconnects,  \* maxReconnectAttempts
          MaxIceRestarts, \* maxIceRestartAttempts
          MaxFailures,    \* bound on how many attempts to connect fail
          MaxTroubles,    \* bound on what else the network and the devices do wrong
          MaxActs,        \* bound on joins, method changes, retries, messages and the like
          MaxRetries      \* how many of these may be retries without a connection

ASSUME CallAssumptions ==
  {MaxReconnects, MaxIceRestarts, MaxFailures, MaxTroubles, MaxActs, MaxRetries} \subseteq Nat

VARIABLES
  view,         \* which of the welcome form, the meeting and its end is shown
  joinDisabled, \* joinButton.disabled
  joining,      \* the request the form's submission awaits, or 0
  gen,          \* socketGeneration
  sock,         \* socket.readyState
  joined,       \* has the hub answered the join of this socket, and how?
  token,        \* reconnectToken, named by the generation it was issued in
  intentional, switching, attempts,  \* intentionalClose, ...
  timer,        \* what reconnectTimer will do
  strays,       \* reconnect timers that are armed and no longer referred to
  \* refreshICEConfig
  ver, flights, \* iceConfigRequestVersion; the requests under way
  pub, cred,    \* iceConfigRequest, iceCredentialRequest
  watching,     \* the request a visibility change awaits
  servers,      \* where iceServers come from
  \* startWebRTC, once per generation
  task, awaits,
  peer, openPeers, mics, stream, stats,
  media,        \* state of the peer connection
  ice,          \* iceDisconnectRestartTimer, restartRequested, iceRestartAttempts
  shown,        \* setConnection
  rail, doubled,\* live messages in the chat rail; some are shown twice
  failures, troubles, acts, retries, errors

formVars == <<view, joinDisabled, joining>>
sockVars == <<gen, sock, joined, token>>
lostVars == <<intentional, switching, attempts, timer, strays>>
configVars == <<ver, flights, pub, cred, watching, servers>>
taskVars == <<task, awaits>>
mediaVars == <<peer, openPeers, mics, stream, stats, media, ice>>
railVars == <<rail, doubled>>
bounds == <<failures, troubles, acts, retries, errors>>
vars == <<formVars, sockVars, lostVars, configVars, taskVars, mediaVars, shown,
          railVars, bounds>>

Gens == 1 .. 2 * MaxActs + 2 * MaxFailures + 2 * MaxTroubles + MaxRetries
NoIce == [timer |-> FALSE, req |-> FALSE, att |-> 0]
NoRequest == [v |-> 0, tok |-> 0]

Init ==
  /\ view = "welcome" /\ joinDisabled = FALSE /\ joining = 0
  /\ gen = 0 /\ sock = "closed" /\ joined = "no" /\ token = 0
  /\ intentional = FALSE /\ switching = FALSE /\ attempts = 0 /\ timer = "none" /\ strays = 0
  /\ ver = 0 /\ flights = {} /\ pub = 0 /\ cred = NoRequest /\ watching = 0 /\ servers = "none"
  /\ task = [g \in Gens |-> "none"] /\ awaits = [g \in Gens |-> 0]
  /\ peer = 0 /\ openPeers = {} /\ mics = {} /\ stream = 0 /\ stats = FALSE
  /\ media = "new" /\ ice = NoIce /\ shown = "connecting"
  /\ rail = FALSE /\ doubled = FALSE
  /\ failures = 0 /\ troubles = 0 /\ acts = 0 /\ retries = 0 /\ errors = 0

\* meeting.hidden and isCurrentWebRTC.
Hidden == view # "meeting"
Current(g) == g = gen /\ sock = "open"

\* The bounds.
Failure == failures < MaxFailures /\ failures' = failures + 1 /\ UNCHANGED <<troubles, acts, retries, errors>>
Trouble == troubles < MaxTroubles /\ troubles' = troubles + 1 /\ UNCHANGED <<failures, acts, retries, errors>>
Act == acts < MaxActs /\ acts' = acts + 1 /\ UNCHANGED <<failures, troubles, retries, errors>>

----------------------------------------------------------------------------
(* ICE configuration.  A request is known by the version it was given.     *)

\* refreshICEConfig(tok): the request under way is shared, or a new one starts.
Shared(tok) == IF tok = 0 THEN pub # 0 ELSE cred.v # 0 /\ cred.tok = tok

RequestOf(tok) == IF ~Shared(tok) THEN ver + 1 ELSE IF tok = 0 THEN pub ELSE cred.v
Refresh(tok) ==
  /\ IF Shared(tok) THEN UNCHANGED <<ver, flights, pub, cred>>
     ELSE /\ ver' = ver + 1
          /\ flights' = flights \union {[v |-> ver + 1, tok |-> tok]}
          /\ pub' = IF tok = 0 THEN ver + 1 ELSE pub
          /\ cred' = IF tok = 0 THEN cred ELSE [v |-> ver + 1, tok |-> tok]
  /\ UNCHANGED servers

\* What the request answers its callers.
Outcome(f, ok) == ok /\ f.v = ver

\* The response of request f is handled.
Settle(f, ok) ==
  /\ flights' = flights \ {f}
  /\ pub' = IF pub = f.v THEN 0 ELSE pub
  /\ cred' = IF cred.v = f.v THEN NoRequest ELSE cred
  /\ servers' = IF ~Outcome(f, ok) THEN servers ELSE IF f.tok = 0 THEN "public" ELSE "session"
  /\ UNCHANGED ver

----------------------------------------------------------------------------
(* The socket.                                                             *)

\* connectSocket
Connect == gen' = gen + 1 /\ sock' = "connecting" /\ joined' = "no"

\* Mutant of ResetMediaConnection: the streams are dropped without stopping them.
ResetWithoutStop ==
  /\ peer' = 0 /\ openPeers' = openPeers \ {peer}
  /\ stream' = 0 /\ UNCHANGED mics
  /\ stats' = FALSE /\ media' = "new" /\ ice' = NoIce
  /\ rail' = FALSE

ResetMediaConnection ==
  /\ peer' = 0 /\ openPeers' = openPeers \ {peer}
  /\ stream' = 0 /\ mics' = mics \ {stream}
  /\ stats' = FALSE /\ media' = "new" /\ ice' = NoIce
  /\ rail' = FALSE

KeepMedia == UNCHANGED <<mediaVars, rail>>

SocketOpens ==
  /\ sock = "connecting"
  /\ sock' = "open" /\ timer' = "none" /\ attempts' = 0
  /\ UNCHANGED <<formVars, gen, joined, token, intentional, switching, strays, configVars,
                 taskVars, mediaVars, shown, railVars, bounds>>

\* The close event.  An open or connecting socket closes because of the network;
\* a closing one in any case, and so does one the hub refused, at its admission
\* deadline.
Closes == \/ sock = "closing" /\ UNCHANGED bounds
          \/ sock = "open" /\ joined = "refused" /\ UNCHANGED bounds
          \/ sock = "open" /\ joined # "refused" /\ Trouble
          \/ sock = "connecting" /\ Failure

\* Mutant of BackOff: no timer is armed.
BackOffUnarmed ==
  /\ attempts' = attempts + 1
  /\ shown' = "reconnecting"
  /\ UNCHANGED <<timer, strays>>
  /\ KeepMedia

\* Try again after a while, or give up.
BackOff ==
  /\ attempts' = attempts + 1
  /\ IF attempts + 1 > MaxReconnects
     THEN shown' = "offline" /\ ResetMediaConnection /\ UNCHANGED <<timer, strays>>
     ELSE /\ shown' = "reconnecting" /\ timer' = "backoff"
          /\ strays' = IF timer = "none" THEN strays ELSE strays + 1
          /\ KeepMedia

ReleaseForm == joinDisabled' = (joinDisabled /\ ~Hidden)

SocketCloses ==
  /\ Closes
  /\ sock' = "closed"
  /\ IF intentional \/ Hidden
     THEN /\ ReleaseForm
          /\ UNCHANGED <<attempts, timer, strays, shown>> /\ KeepMedia
     ELSE /\ UNCHANGED joinDisabled
          /\ IF switching THEN /\ timer' = "switch"
                               /\ UNCHANGED <<attempts, strays, shown>> /\ KeepMedia
             ELSE BackOff
  /\ UNCHANGED <<view, joining, gen, joined, token, intentional, switching, configVars,
                 taskVars, doubled>>

BackoffFires ==
  /\ timer = "backoff"
  /\ timer' = "none"
  /\ ResetMediaConnection /\ Connect
  /\ UNCHANGED <<formVars, token, intentional, switching, attempts, strays, configVars,
                 taskVars, shown, doubled, bounds>>

\* A timer that a later one replaced without clearing it.
StrayFires ==
  /\ strays > 0
  /\ strays' = strays - 1
  /\ ResetMediaConnection /\ Connect
  /\ UNCHANGED <<formVars, token, intentional, switching, attempts, timer, configVars,
                 taskVars, shown, doubled, bounds>>

\* scheduleConnectionMethodReconnect
SwitchFires ==
  /\ timer = "switch"
  /\ timer' = "none"
  /\ IF ~switching \/ intentional \/ Hidden
     THEN /\ UNCHANGED <<switching, attempts, gen, sock, joined>> /\ KeepMedia
     ELSE /\ switching' = FALSE /\ attempts' = 0
          /\ ResetMediaConnection /\ Connect
  /\ UNCHANGED <<formVars, token, intentional, strays, configVars, taskVars, shown,
                 doubled, bounds>>

\* selectConnectionMethod in a meeting, for another method that is enabled.
SwitchMethod ==
  /\ switching' = TRUE
  /\ timer' = IF sock = "closed" THEN "switch" ELSE "none"
  /\ sock' = IF sock \in {"open", "connecting"} THEN "closing" ELSE sock
  /\ intentional' = (intentional /\ sock # "closed")

SelectMethod ==
  /\ ~Hidden /\ Act
  /\ SwitchMethod
  /\ UNCHANGED <<formVars, gen, joined, token, attempts, strays, configVars, taskVars,
                 mediaVars, shown, railVars>>

----------------------------------------------------------------------------
(* The form, and what the hub answers.                                     *)

Submit ==
  /\ view = "welcome" /\ ~joinDisabled /\ Act
  /\ joinDisabled' = TRUE
  /\ Refresh(0) /\ joining' = RequestOf(0)
  /\ UNCHANGED <<view, sockVars, lostVars, watching, taskVars, mediaVars, shown, railVars>>

\* A visibility change refreshes the configuration.
BecomeVisible ==
  /\ watching = 0 /\ Act
  /\ LET tok == IF Hidden THEN 0 ELSE token
     IN Refresh(tok) /\ watching' = RequestOf(tok)
  /\ UNCHANGED <<formVars, sockVars, lostVars, taskVars, mediaVars, shown, railVars>>

\* The participant message: the meeting is shown and startWebRTC starts.
Joined ==
  /\ sock = "open" /\ joined = "no"
  /\ joined' = "yes"
  /\ token' \in IF token = 0 THEN {gen} ELSE {token, gen}
  /\ view' = "meeting"
  /\ doubled' = (doubled \/ rail)
  /\ Refresh(token')
  /\ task' = [task EXCEPT ![gen] = "creds"]
  /\ awaits' = [awaits EXCEPT ![gen] = RequestOf(token')]
  /\ UNCHANGED <<joinDisabled, joining, gen, sock, lostVars, watching, mediaVars, shown,
                 rail, bounds>>

\* An error message before that, as from a full meeting.
Refused ==
  /\ sock = "open" /\ joined = "no" /\ Trouble
  /\ joined' = "refused"
  /\ ReleaseForm
  /\ UNCHANGED <<view, joining, gen, sock, token, lostVars, configVars, taskVars, mediaVars,
                 shown, railVars>>

\* Somebody writes a message.
ChatArrives ==
  /\ sock = "open" /\ joined = "yes" /\ ~rail /\ Act
  /\ rail' = TRUE
  /\ UNCHANGED <<formVars, sockVars, lostVars, configVars, taskVars, mediaVars, shown,
                 doubled>>

\* The leave button.  The socket is closed; its events are outdated from now on.
Leave ==
  /\ view = "meeting"
  /\ view' = "ended" /\ joinDisabled' = FALSE
  /\ intentional' = TRUE /\ gen' = gen + 1 /\ sock' = "closed" /\ joined' = "no"
  /\ timer' = "none" /\ token' = 0
  /\ ResetMediaConnection /\ shown' = "connecting"
  /\ UNCHANGED <<joining, switching, attempts, strays, configVars, taskVars,
                 doubled, bounds>>

Rejoin ==
  /\ view = "ended"
  /\ view' = "welcome" /\ joinDisabled' = FALSE
  /\ UNCHANGED <<joining, sockVars, lostVars, configVars, taskVars, mediaVars, shown,
                 railVars, bounds>>

----------------------------------------------------------------------------
(* Starting the media.                                                     *)

\* The response of a public request: the submission connects, unless the response
\* is of no use or the method that was asked for is not enabled, or the handler of
\* the visibility change goes on.  (That one may choose another method for a
\* meeting, as the user may: SelectMethod.)
PublicConfig ==
  /\ \E f \in flights, ok \in BOOLEAN :
       /\ f.tok = 0
       /\ IF ok THEN UNCHANGED bounds ELSE Trouble
       /\ Settle(f, ok)
       /\ watching' = IF watching = f.v THEN 0 ELSE watching
       /\ IF joining # f.v
          THEN UNCHANGED <<joining, joinDisabled, intentional, gen, sock, joined>>
          ELSE /\ joining' = 0
               /\ \/ /\ Outcome(f, ok)
                     /\ intentional' = FALSE /\ Connect /\ UNCHANGED joinDisabled
                  \/ joinDisabled' = FALSE /\ UNCHANGED <<intentional, gen, sock, joined>>
  /\ UNCHANGED <<view, token, switching, attempts, timer, strays, taskVars, mediaVars,
                 shown, railVars>>

\* The generations whose startWebRTC awaits request v.
Waiting(v) == {g \in Gens : task[g] = "creds" /\ awaits[g] = v}

\* startWebRTC goes on with the configuration: it ends if it is outdated, closes
\* the socket if there is none, closes it for good if the chosen method has no
\* server, or makes the peer connection and asks for the microphone.
Proceed(f, ok) ==
  IF gen \notin Waiting(f.v) \/ sock # "open"
  THEN /\ task' = [g \in Gens |-> IF g \in Waiting(f.v) THEN "done" ELSE task[g]]
       /\ UNCHANGED <<sock, intentional, shown, peer, openPeers, media, ice, bounds>>
  ELSE \/ /\ ~Outcome(f, ok)
          /\ IF ok THEN UNCHANGED bounds ELSE Trouble
          /\ task' = [g \in Gens |-> IF g \in Waiting(f.v) THEN "done" ELSE task[g]]
          /\ sock' = "closing"
          /\ UNCHANGED <<intentional, shown, peer, openPeers, media, ice>>
       \/ /\ Outcome(f, ok) /\ Trouble
          /\ task' = [g \in Gens |-> IF g \in Waiting(f.v) THEN "done" ELSE task[g]]
          /\ sock' = "closing" /\ intentional' = TRUE /\ shown' = "unavailable"
          /\ UNCHANGED <<peer, openPeers, media, ice>>
       \/ /\ Outcome(f, ok)
          /\ task' = [g \in Gens |-> IF g = gen THEN "mic"
                                     ELSE IF g \in Waiting(f.v) THEN "done" ELSE task[g]]
          /\ peer' = gen /\ openPeers' = openPeers \union {gen}
          /\ media' = "new" /\ ice' = NoIce
          /\ UNCHANGED <<sock, intentional, shown, bounds>>

SessionConfig ==
  /\ \E f \in flights, ok \in BOOLEAN :
       /\ f.tok # 0
       /\ Settle(f, ok)
       /\ watching' = IF watching = f.v THEN 0 ELSE watching
       /\ Proceed(f, ok)
  /\ UNCHANGED <<formVars, gen, joined, token, switching, attempts, timer, strays, awaits,
                 mics, stream, stats, railVars>>

\* Mutant of MicrophoneAnswers: the stream is taken over without another look.
MicrophoneAnswersBlindly(g) ==
  /\ task[g] = "mic"
  /\ mics' = mics \union {g}
  /\ stream' = g /\ task' = [task EXCEPT ![g] = "setup"]
  /\ UNCHANGED <<formVars, sockVars, lostVars, configVars, awaits, peer, openPeers, stats, media,
                 ice, shown, railVars, bounds>>

\* getUserMedia answers with a stream, or not; abortIfStale.
MicrophoneAnswers(g) ==
  /\ task[g] = "mic"
  /\ \E got \in BOOLEAN :
       IF Current(g) /\ peer = g
       THEN /\ mics' = IF got THEN mics \union {g} ELSE mics
            /\ stream' = IF got THEN g ELSE 0
            /\ task' = [task EXCEPT ![g] = "setup"]
            /\ UNCHANGED openPeers
       ELSE /\ openPeers' = openPeers \ {g}
            /\ task' = [task EXCEPT ![g] = "done"]
            /\ UNCHANGED <<mics, stream>>
  /\ UNCHANGED <<formVars, sockVars, lostVars, configVars, awaits, peer, stats, media, ice,
                 shown, railVars, bounds>>

\* The rest of the setup; the statistics timer is started last.
SetupEnds(g) ==
  /\ task[g] = "setup"
  /\ task' = [task EXCEPT ![g] = "done"]
  /\ stats' = (stats \/ (Current(g) /\ peer = g))
  /\ UNCHANGED <<formVars, sockVars, lostVars, configVars, awaits, peer, openPeers, mics, stream,
                 media, ice, shown, railVars, bounds>>

----------------------------------------------------------------------------
(* ICE restarts.  i is the restart state and s what is shown.              *)

CanRestart(i) == ~i.req /\ i.att < MaxIceRestarts

\* requestIceRestart and scheduleIceRestartRetry
RequestRestart(i) == IF CanRestart(i) THEN [i EXCEPT !.req = TRUE, !.att = i.att + 1] ELSE i
ScheduleRetry(i) == IF CanRestart(i) THEN [i EXCEPT !.timer = TRUE] ELSE i

\* updatePeerConnectionUI
UpdateConnectionUI(m, i) ==
  CASE m = "connected" -> [ice |-> NoIce, shown |-> "connected"]
    [] m = "failed" -> [ice |-> RequestRestart([i EXCEPT !.timer = FALSE]),
                        shown |-> IF i.att >= MaxIceRestarts THEN "offline" ELSE "reconnecting"]
    [] m = "disconnected" -> [ice |-> ScheduleRetry(i),
                              shown |-> IF ~i.req /\ i.att >= MaxIceRestarts THEN "offline"
                                        ELSE "reconnecting"]
    [] m = "new" -> [ice |-> i, shown |-> "connecting"]

Rest == <<formVars, sockVars, lostVars, configVars, taskVars, peer, openPeers, mics, stream,
          stats, railVars>>

\* oniceconnectionstatechange, onconnectionstatechange
MediaChanges ==
  /\ peer # 0 /\ peer \in openPeers
  /\ \/ media # "connected" /\ media' = "connected" /\ UNCHANGED bounds
     \/ media = "connected" /\ media' = "disconnected" /\ Trouble
     \/ media \in {"new", "disconnected"} /\ media' = "failed" /\ Trouble
  /\ IF ~Current(peer) THEN UNCHANGED <<ice, shown>>
     ELSE LET new == UpdateConnectionUI(media', ice)
          IN ice' = new.ice /\ shown' = new.shown
  /\ UNCHANGED Rest

RestartTimerFires ==
  /\ ice.timer
  /\ LET i == [ice EXCEPT !.timer = FALSE]
     IN IF ~Current(peer) \/ media = "connected"
        THEN ice' = i /\ UNCHANGED shown
        ELSE /\ ice' = RequestRestart(i)
             /\ shown' = IF ice' = i /\ i.att >= MaxIceRestarts THEN "offline" ELSE shown
  /\ UNCHANGED <<Rest, media, bounds>>

\* The hub's restart offer was answered, or could not be.
RestartOffered ==
  /\ ice.req /\ Current(peer)
  /\ LET new == UpdateConnectionUI(media, [ice EXCEPT !.req = FALSE])
     IN ice' = ScheduleRetry(new.ice) /\ shown' = new.shown
  /\ UNCHANGED <<Rest, media, bounds>>

\* An error message while a restart is under way.
RestartRefused ==
  /\ ice.req /\ sock = "open" /\ peer # 0 /\ troubles < MaxTroubles
  /\ troubles' = troubles + 1 /\ errors' = errors + 1
  /\ ice' = ScheduleRetry([ice EXCEPT !.req = FALSE])
  /\ UNCHANGED <<Rest, media, shown, failures, acts, retries>>

\* The retry button of the connection popover, with the socket open.
RetryMedia ==
  /\ sock = "open" /\ peer # 0 /\ ~Hidden /\ Act
  /\ ice' = RequestRestart(NoIce)
  /\ UNCHANGED <<Rest, media, shown>>

\* And without it: the media connection and the timers stay as they are.
RetrySocket ==
  /\ ~Hidden /\ ~(sock = "open" /\ peer # 0) /\ retries < MaxRetries /\ acts < MaxActs
  /\ retries' = retries + 1 /\ acts' = acts + 1
  /\ intentional' = FALSE /\ Connect
  /\ UNCHANGED <<formVars, token, switching, attempts, timer, strays, configVars, taskVars,
                 mediaVars, shown, railVars, failures, troubles, errors>>

----------------------------------------------------------------------------

Timers == BackoffFires \/ StrayFires \/ SwitchFires
Answers == PublicConfig \/ SessionConfig
Startup == \E g \in Gens : MicrophoneAnswers(g) \/ SetupEnds(g)
Hub == Joined \/ Refused

\* Nothing is under way.
Idle == /\ sock = "closed" \/ (sock = "open" /\ joined = "yes")
        /\ flights = {} /\ timer = "none" /\ strays = 0
        /\ \A g \in Gens : task[g] \in {"none", "done"}
        /\ UNCHANGED vars

Next == \/ SocketOpens \/ SocketCloses \/ Timers \/ SelectMethod
        \/ Submit \/ BecomeVisible \/ Hub \/ ChatArrives \/ Leave \/ Rejoin
        \/ Answers \/ Startup
        \/ MediaChanges \/ RestartTimerFires \/ RestartOffered \/ RestartRefused
        \/ RetryMedia \/ RetrySocket
        \/ Idle

Spec == Init /\ [][Next]_vars

\* Timers fire, requests are answered, sockets open or close, and the hub
\* answers a join before its admission deadline.
Fairness == /\ WF_vars(Timers) /\ WF_vars(Answers) /\ WF_vars(Startup) /\ WF_vars(Hub)
            /\ WF_vars(SocketOpens \/ SocketCloses)
FairSpec == Spec /\ Fairness

----------------------------------------------------------------------------
(* Properties.                                                             *)

\* Type invariant; the peer in use is open unless the connection is lost, and the
\* latest shared requests are under way.
TypeOK ==
  /\ view \in {"welcome", "meeting", "ended"}
  /\ gen \in {0} \union Gens /\ peer \in {0} \union Gens /\ stream \in {0} \union mics
  /\ sock \in {"connecting", "open", "closing", "closed"}
  /\ joined \in {"no", "yes", "refused"}
  /\ timer \in {"none", "backoff", "switch"} /\ strays \in 0 .. MaxRetries
  /\ {joinDisabled, intentional, switching, stats, rail, doubled} \subseteq BOOLEAN
  /\ attempts \in Nat
  /\ pub # 0 => [v |-> pub, tok |-> 0] \in flights
  /\ cred.v # 0 => cred \in flights
  /\ servers \in {"none", "public", "session"}
  /\ \A g \in Gens : task[g] \in {"none", "creds", "mic", "setup", "done"}
  /\ media \in {"new", "connected", "disconnected", "failed"}
  /\ ice.att \in 0 .. MaxIceRestarts

\* A call whose socket is gone is being reconnected or says that it is offline,
\* whatever was clicked, unless its method had no server.
DownMeansScheduled ==
  view = "meeting" /\ sock = "closed" /\ ~intentional => timer # "none" \/ shown = "offline"

\* The peer connections and microphones that are open are the call's own, or
\* those of a start that has yet to notice that it is outdated.
NothingLeaks ==
  retries = 0 =>
    /\ \A g \in openPeers : g = peer \/ task[g] = "mic"
    /\ \A g \in mics : g = stream

\* Whoever left is not called back: no timer connects, and no media goes on,
\* except in a start that is about to notice.  (After a retry one may: the timer that
\* the retry left armed calls the hub again, app.js:1603.)
LeavingIsFinal ==
  view = "ended" /\ retries = 0 =>
    /\ timer = "none" /\ strays = 0 /\ sock = "closed" /\ ~stats
    /\ mics = {} /\ \A g \in openPeers : task[g] = "mic"

\* A delayed public response does not overwrite the credentials of a call.
CredentialsSurvive == peer = gen /\ view = "meeting" => servers = "session"

\* The response that a start awaits is not outdated when it arrives, however the
\* requests overlap: otherwise the start would close a healthy socket.
StartAwaitsTheLatest == Current(gen) /\ task[gen] = "creds" => awaits[gen] = ver

\* Media that failed in a call is being restarted, or the call says that it is
\* offline, as long as no restart was refused.
FailureIsHandled ==
  Current(peer) /\ media \in {"failed", "disconnected"} /\ errors = 0
    => ice.req \/ ice.timer \/ shown = "offline"

\* The chat rail is empty when a reconnect replays the history.  It is not: a retry
\* from the connection popover keeps the old lines (app.js:1603).
NeverDuplicated == ~doubled

\* A call that lost its socket comes back, ends, or is seen to be offline.  (Not the
\* call that a stray timer placed for somebody who had left: when it is lost nobody
\* is told, because intentionalClose is still set, app.js:3608.)
CallSettles ==
  (view = "meeting" /\ sock # "open" /\ ~intentional)
    ~> (view # "meeting" \/ (sock = "open" /\ joined = "yes") \/ shown \in {"offline", "unavailable"})

\* The join button does not stay disabled on the form.
FormComesBack == (view = "welcome" /\ joinDisabled) ~> (view # "welcome" \/ ~joinDisabled)

\* The state of the call is one that somebody will move on: a lost socket or failed
\* media has a timer, a start awaits the request that counts, and whoever left
\* is left alone.
CallInv ==
  /\ TypeOK /\ DownMeansScheduled /\ LeavingIsFinal /\ CredentialsSurvive
  /\ StartAwaitsTheLatest /\ FailureIsHandled

\* Neither the call nor the form is stuck.
NobodyIsStuck == CallSettles /\ FormComesBack
=============================================================================
