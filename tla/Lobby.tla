-------------------------------- MODULE Lobby --------------------------------
(***************************************************************************)
(* The page before the meeting (web/js/app.js): the preview of who is in   *)
(* the room, polled with the password that is typed, and the test of the   *)
(* devices.  Both are chains of awaited calls that typing, hiding the tab, *)
(* stopping the test or joining may overtake, and that check afterwards    *)
(* whether they are still wanted: a request by its version, a test by the  *)
(* stream it started with.                                                 *)
(*                                                                         *)
(* The room's members are one value that changes; the rows, the texts and  *)
(* the results of the test are left out, and so is what refreshICEConfig   *)
(* fetches (its requests supersede each other).                            *)
(***************************************************************************)
EXTENDS Naturals, FiniteSets

CONSTANTS MaxEvents,   \* bound on changes of the room and of the password, on tests
                       \* of the devices, and on requests that fail, together
          TestsLate    \* may a test be started while the page is joining?

ASSUME LobbyAssumptions == MaxEvents \in Nat /\ TestsLate \in BOOLEAN

VARIABLES
  screen,    \* "welcome", "joining" (the form is submitted), "meeting" or "ended"
  away,      \* document.hidden
  typed,     \* is the password that is typed the right one?
  rows,      \* the list of participants: "none", or "old" or "new" by the room
  requests,  \* roster requests under way, with their version
  canPoll,   \* roomRosterCanRefresh
  polling,   \* roomRosterRefreshTimer
  debounce,  \* roomRosterDebounceTimer
  config,    \* who waits for refreshICEConfig: the tab that was shown, the form
  capture,   \* the tracks of mediaTestStream, or "none" without a test
  tests,     \* runDeviceTest calls under way
  lapsed,    \* history variable: a tab was shown and its configuration failed
  events

rosterVars == <<rows, requests, canPoll, polling, debounce, lapsed>>
testVars == <<capture, tests>>
lobbyVars == <<screen, away, typed, config, rosterVars, testVars, events>>

Welcome == screen \in {"welcome", "joining"}

\* A request that is sent, whether it is the current version, and its answer.
Request == [password |-> typed, current |-> TRUE, reply |-> "none"]
Superseded(rs) == {[r EXCEPT !.current = FALSE] : r \in rs}

\* The page starts with refreshRoomRoster.
LobbyInit ==
  /\ screen = "welcome" /\ away = FALSE /\ typed = FALSE
  /\ rows = "none"
  /\ requests = {[password |-> FALSE, current |-> TRUE, reply |-> "none"]}
  /\ canPoll = FALSE /\ polling = FALSE /\ debounce = FALSE
  /\ config = {} /\ lapsed = FALSE
  /\ capture = {} /\ tests = {}
  /\ events = 0

----------------------------------------------------------------------------
(* The preview of the room.                                                *)

\* refreshRoomRoster: the request that is under way is aborted.
Refresh ==
  IF away \/ ~Welcome THEN UNCHANGED <<requests, polling, lapsed>>
  ELSE /\ polling' = FALSE
       /\ requests' = Superseded(requests) \cup {Request}
       /\ lapsed' = FALSE

\* stopRoomRoster.
StopRoster ==
  /\ canPoll' = FALSE /\ polling' = FALSE /\ debounce' = FALSE
  /\ requests' = Superseded(requests)
  /\ UNCHANGED <<rows, lapsed>>

\* queueRoomRosterRefresh.
Queue ==
  /\ canPoll' = FALSE /\ polling' = FALSE /\ debounce' = TRUE
  /\ requests' = Superseded(requests)
  /\ UNCHANGED <<rows, lapsed>>

TypePassword ==
  /\ Welcome /\ events < MaxEvents /\ events' = events + 1
  /\ typed' = ~typed
  /\ Queue
  /\ UNCHANGED <<screen, away, config, testVars>>

DebounceTimer ==
  /\ debounce /\ debounce' = FALSE
  /\ Refresh
  /\ UNCHANGED <<screen, away, typed, config, rows, canPoll, testVars, events>>

PollTimer ==
  /\ polling
  /\ IF away \/ ~Welcome THEN polling' = FALSE /\ UNCHANGED <<requests, lapsed>> ELSE Refresh
  /\ UNCHANGED <<screen, away, typed, config, rows, canPoll, debounce, testVars, events>>

\* The server answers with the members it has now, or refuses.
Serve ==
  \E r \in requests :
    /\ r.reply = "none"
    /\ requests' = (requests \ {r})
         \cup {[r EXCEPT !.reply = IF r.password THEN "new" ELSE "refused"]}
    /\ UNCHANGED <<screen, away, typed, config, rows, canPoll, polling, debounce, lapsed,
                   testVars, events>>

RoomChanges ==
  /\ events < MaxEvents /\ events' = events + 1
  /\ rows' = IF rows = "none" THEN "none" ELSE "old"
  /\ requests' = {[r EXCEPT !.reply = IF @ = "new" THEN "old" ELSE @] : r \in requests}
  /\ UNCHANGED <<screen, away, typed, config, canPoll, polling, debounce, lapsed, testVars>>

\* Mutant of Answer: the version is not looked at.
AnswerAny(r, reply) ==
  /\ rows' = IF reply = "refused" THEN "none" ELSE IF reply = "failed" THEN rows ELSE reply
  /\ canPoll' = IF r.current THEN reply # "refused" ELSE canPoll
  /\ polling' = IF r.current THEN reply # "refused" /\ ~away /\ Welcome ELSE polling

\* Mutant of Answer: nothing is scheduled after a failure.
AnswerUnlessFailed(r, reply) ==
  IF ~r.current \/ reply = "failed" THEN UNCHANGED <<rows, canPoll, polling>>
  ELSE /\ rows' = IF reply = "refused" THEN "none" ELSE reply
       /\ canPoll' = (reply # "refused")
       /\ polling' = (reply # "refused" /\ ~away /\ Welcome)

\* An answer of another version is dropped.  The list stays when a request fails
\* and goes when the password is refused; polling goes on unless it is refused.
Answer(r, reply) ==
  IF ~r.current THEN UNCHANGED <<rows, canPoll, polling>>
  ELSE /\ rows' = IF reply = "refused" THEN "none" ELSE IF reply = "failed" THEN rows ELSE reply
       /\ canPoll' = (reply # "refused")
       /\ polling' = (reply # "refused" /\ ~away /\ Welcome)

Arrive ==
  \E r \in requests :
    /\ r.reply # "none"
    /\ requests' = requests \ {r}
    /\ Answer(r, r.reply)
    /\ UNCHANGED <<screen, away, typed, config, debounce, lapsed, testVars, events>>

\* An aborted request goes without a trace, any other may fail.
Fail ==
  \E r \in requests :
    /\ requests' = requests \ {r}
    /\ IF r.current
         THEN /\ events < MaxEvents /\ events' = events + 1
              /\ Answer(r, "failed")
         ELSE UNCHANGED <<rows, canPoll, polling, events>>
    /\ UNCHANGED <<screen, away, typed, config, debounce, lapsed, testVars>>

----------------------------------------------------------------------------
(* The test of the devices.                                                *)

\* stopDeviceTest.
StopTest ==
  /\ capture' = {}
  /\ tests' = {[t EXCEPT !.current = FALSE] : t \in tests}

\* runDeviceTest up to the request for the camera; its button is off while there
\* is a test.
StartTest ==
  /\ screen = "welcome" \/ (TestsLate /\ screen = "joining")
  /\ events < MaxEvents /\ events' = events + 1
  /\ capture = {} /\ ~\E t \in tests : t.current
  /\ capture' = {}
  /\ tests' = tests \cup {[step |-> "camera", current |-> TRUE]}
  /\ UNCHANGED <<screen, away, typed, config, rosterVars>>

PressStop ==
  /\ Welcome
  /\ capture # {} \/ \E t \in tests : t.current
  /\ StopTest
  /\ UNCHANGED <<screen, away, typed, config, rosterVars, events>>

After(step) == IF step = "camera" THEN "microphone" ELSE "devices"

\* A device is granted: a test that is over stops it at once, and itself.
Granted(t) ==
  IF t.current
    THEN /\ capture' = capture \cup {t.step}
         /\ tests' = (tests \ {t}) \cup {[t EXCEPT !.step = After(t.step)]}
    ELSE /\ tests' = tests \ {t}
         /\ UNCHANGED capture

\* getUserMedia of a test; after a refusal it goes on, whether wanted or not.
GetDevice ==
  \E t \in tests :
    /\ t.step \in {"camera", "microphone"}
    /\ \/ Granted(t)
       \/ /\ tests' = (tests \ {t}) \cup {[t EXCEPT !.step = After(t.step)]}
          /\ UNCHANGED capture
    /\ UNCHANGED <<screen, away, typed, config, rosterVars, events>>

\* The preview and the selectors.
EndTest ==
  \E t \in tests :
    /\ t.step = "devices"
    /\ tests' = tests \ {t}
    /\ UNCHANGED <<screen, away, typed, config, rosterVars, capture, events>>

----------------------------------------------------------------------------
(* The page.                                                               *)

HideTab ==
  /\ ~away /\ away' = TRUE
  /\ polling' = FALSE
  /\ UNCHANGED <<screen, typed, config, rows, requests, canPoll, debounce, lapsed, testVars, events>>

\* The configuration is fetched before the list; one request serves all who wait.
\* What a tab shown in the meeting asks for does not concern this page.
ShowTab ==
  /\ away /\ away' = FALSE
  /\ config' = IF Welcome THEN config \cup {"visible"} ELSE config
  /\ UNCHANGED <<screen, typed, rosterVars, testVars, events>>

SubmitForm ==
  /\ screen = "welcome" /\ "submit" \notin config /\ ~away
  /\ config' = config \cup {"submit"}
  /\ UNCHANGED <<screen, away, typed, rosterVars, testVars, events>>

\* The form goes on to join, which ends the test; a tab asks for the list.
ConfigArrives ==
  /\ config # {}
  /\ config' = {}
  /\ IF "submit" \in config THEN screen' = "joining" /\ StopTest
                             ELSE UNCHANGED <<screen, testVars>>
  /\ IF "visible" \in config THEN Refresh ELSE UNCHANGED <<requests, polling, lapsed>>
  /\ UNCHANGED <<away, typed, rows, canPoll, debounce, events>>

\* The form stays, and so does the list, unasked for.
ConfigFails ==
  /\ config # {} /\ events < MaxEvents /\ events' = events + 1
  /\ config' = {}
  /\ lapsed' = (lapsed \/ "visible" \in config)
  /\ UNCHANGED <<screen, away, typed, rows, requests, canPoll, polling, debounce, testVars>>

\* The participant state: the meeting begins.
Admitted ==
  /\ screen = "joining" /\ screen' = "meeting"
  /\ StopRoster
  /\ UNCHANGED <<away, typed, config, testVars, events>>

\* The join is refused, and the form is there again.
Refused ==
  /\ screen = "joining" /\ screen' = "welcome"
  /\ UNCHANGED <<away, typed, config, rosterVars, testVars, events>>

Leave ==
  /\ screen = "meeting" /\ screen' = "ended"
  /\ UNCHANGED <<away, typed, config, rosterVars, testVars, events>>

Rejoin ==
  /\ screen = "ended" /\ screen' = "welcome"
  /\ Queue
  /\ UNCHANGED <<away, typed, config, testVars, events>>

LobbyNext ==
  \/ TypePassword \/ DebounceTimer \/ PollTimer \/ Serve \/ RoomChanges \/ Arrive \/ Fail
  \/ StartTest \/ PressStop \/ GetDevice \/ EndTest
  \/ HideTab \/ ShowTab \/ SubmitForm \/ ConfigArrives \/ ConfigFails
  \/ Admitted \/ Refused \/ Leave \/ Rejoin

\* Timers fire, and requests are answered or fail.
LobbyFairness ==
  /\ WF_lobbyVars(DebounceTimer) /\ WF_lobbyVars(PollTimer)
  /\ WF_lobbyVars(Serve) /\ WF_lobbyVars(Arrive)
  /\ WF_lobbyVars(ConfigArrives)

LobbySpec == LobbyInit /\ [][LobbyNext]_lobbyVars /\ LobbyFairness

----------------------------------------------------------------------------
(* Properties.                                                             *)

Asking == debounce \/ polling \/ \E r \in requests : r.current

\* Type invariant; there is one version, one test, and one timer at most.
LobbyTypeOK ==
  /\ screen \in {"welcome", "joining", "meeting", "ended"}
  /\ {away, typed, canPoll, polling, debounce, lapsed} \subseteq BOOLEAN
  /\ rows \in {"none", "old", "new"}
  /\ \A r \in requests : r.reply \in {"none", "old", "new", "refused"}
  /\ Cardinality({r \in requests : r.current}) <= 1
  /\ ~(polling /\ \E r \in requests : r.current)
  /\ config \subseteq {"visible", "submit"}
  /\ capture \subseteq {"camera", "microphone"}
  /\ Cardinality({t \in tests : t.current}) <= 1

\* The list is there only for a password that shows it, or while the page is
\* about to ask again: no late answer brings it back.  (A tab that is shown asks
\* when its configuration has arrived, and not if that fails, app.js:3337.)
RosterIsAllowed ==
  Welcome /\ rows # "none" /\ ~typed
    => Asking \/ away \/ "visible" \in config \/ lapsed

\* In the meeting nothing asks for the list, and no device is held by a
\* test: "The test will stop when you join" (app.js:2383).
QuietInMeeting ==
  /\ screen = "meeting" => ~Asking
  /\ screen = "meeting" /\ ~TestsLate => capture = {}

\* With the right password the page shows who is in the room, in the end.
RosterCatchesUp ==
  <>[](Welcome /\ ~away /\ typed /\ ~lapsed) => []<>(rows = "new")

\* No test goes on in the meeting.  With TestsLate one does: a capture that is granted
\* after the join is stopped by the next look at the clock only (app.js:2383).
TestEndsOnJoin == screen = "meeting" => capture = {}
=============================================================================
