----------------------------- MODULE AdminPage ------------------------------
(***************************************************************************)
(* The operator's page (web/js/admin.js, admin-utils.js) with the handler  *)
(* of /admin/config that it talks to (internal/httpserver/server.go,       *)
(* internal/config/store.go).  The page has four kinds of requests under   *)
(* way at once: the public policy, the settings, a save, and the refresh   *)
(* of the service's status every ten seconds; their answers come in any    *)
(* order.  The server's handler stores the settings and then publishes     *)
(* them to the meeting, in two steps.                                      *)
(*                                                                         *)
(* The settings have two parts: the connection methods, which only the     *)
(* operator is told of, and all that the public policy tells, which is one *)
(* value.  Its fields, the metrics and how they are formatted, the recent  *)
(* events, the diagnostics and the navigation are left out.                *)
(***************************************************************************)
EXTENDS Integers, FiniteSets

CONSTANTS Values,     \* what the fields of one part may hold
          Unknown,    \* the part is missing in an answer
          Valid,      \* what validateSettings lets pass
          First,      \* the settings the server starts with
          Html,       \* what the fields hold before anything is loaded (admin.html)
          Secrets,    \* passwords that may be typed
          MaxActs     \* bound on edits, lost answers, saves that cannot be written to
                      \* the disk and others' saves, together

Parts == {"public", "methods"}
Settings == [Parts -> Values]

ASSUME AdminAssumptions ==
  /\ Valid \subseteq Settings /\ First \in Valid /\ Html \in Settings /\ Unknown \notin Values
  /\ "right" \in Secrets /\ "none" \notin Secrets
  /\ MaxActs \in Nat

VARIABLES
  store,     \* the store's configuration
  live,      \* what the meeting and its members were told last
  handling,  \* the POST handlers that have stored settings, with their snapshot
  form,      \* the fields of the form
  known,     \* settingsValues
  secret,    \* the password field
  policy,    \* publicPolicyRequest: see Calls
  load,      \* settingsRequest
  saving,    \* the save under way
  refresh,   \* refreshInFlight: what is known of health and metrics so far
  available, \* serviceAvailability
  label,     \* the service label
  timer,     \* refreshTimer
  hidden,    \* document.hidden
  acts,
  doubt      \* history variable: why the form may differ from the store

serverVars == <<store, live, handling>>
formVars == <<form, known, secret, doubt>>
requestVars == <<policy, load, saving>>
statusVars == <<refresh, available, label, timer, hidden>>
adminVars == <<serverVars, formVars, requestVars, statusVars, acts>>

\* Settings of which nothing is known, and those of which p is all that is known.
NoSettings == [p \in Parts |-> Unknown]
Only(p, v) == [NoSettings EXCEPT ![p] = v[p]]

\* {...old, ...new}
Merged(old, new) == [p \in Parts |-> IF new[p] = Unknown THEN old[p] ELSE new[p]]

None == [step |-> "none"]
NoRefresh == [health |-> "none", metrics |-> "none"]

\* A request on its way, and its answer.
Sent(v, s) == [step |-> "sent", value |-> v, with |-> s]
Answered(v, kind) == [step |-> "answered", value |-> v, kind |-> kind]

\* The page starts with loadPublicPolicy and refreshStatus.
AdminInit ==
  /\ store = First /\ live = First /\ handling = {}
  /\ form = Html /\ known = NoSettings /\ secret = "none"
  /\ policy = Sent(NoSettings, "none") /\ load = None /\ saving = None
  /\ refresh = [health |-> "sent", metrics |-> "sent"]
  /\ available = "checking" /\ label = "checking"
  /\ timer = FALSE /\ hidden = FALSE
  /\ acts = 0
  /\ doubt = {}

\* A request of the settings, or to save them, starts alone or while another
\* one is under way.
Alone == {policy, load, saving} = {None}
Starting == IF Alone THEN doubt \ {"crossed"} ELSE doubt \cup {"crossed"}

----------------------------------------------------------------------------
(* The server.                                                             *)

Accepted(s) == s = "right"

\* /config, which does not tell the connection methods, and GET /admin/config.
ServePolicy ==
  /\ policy.step = "sent"
  /\ policy' = Answered(Only("public", store), "ok")
  /\ UNCHANGED <<serverVars, formVars, load, saving, statusVars, acts>>

ServeLoad ==
  /\ load.step = "sent"
  /\ load' = IF Accepted(load.with) THEN Answered(store, "ok") ELSE Answered(NoSettings, "refused")
  /\ UNCHANGED <<serverVars, formVars, policy, saving, statusVars, acts>>

\* POST /admin/config: Store.Update, which stores what it could write to the disk.
Update ==
  /\ saving.step = "sent"
  /\ \/ /\ Accepted(saving.with) /\ saving.value \in Valid
        /\ store' = saving.value
        /\ handling' = handling \cup {[by |-> "page", value |-> NoSettings]}
        /\ saving' = [saving EXCEPT !.step = "stored"]
        /\ UNCHANGED <<live, acts>>
     \/ /\ Accepted(saving.with)
        /\ IF saving.value \in Valid THEN acts < MaxActs /\ acts' = acts + 1 ELSE UNCHANGED acts
        /\ saving' = Answered(NoSettings, "rejected")
        /\ UNCHANGED serverVars
     \/ /\ ~Accepted(saving.with)
        /\ saving' = Answered(NoSettings, "refused")
        /\ UNCHANGED <<serverVars, acts>>
  /\ doubt' = IF store' # store /\ handling # {} THEN doubt \cup {"overtaken"} ELSE doubt
  /\ UNCHANGED <<form, known, secret, policy, load, statusVars>>

\* Then Store.Snapshot.
Snapshot ==
  \E h \in handling :
    /\ h.value = NoSettings
    /\ handling' = (handling \ {h}) \cup {[h EXCEPT !.value = store]}
    /\ UNCHANGED <<store, live, formVars, requestVars, statusVars, acts>>

\* Then SetMaxParticipants, BroadcastConfig and the answer, with that snapshot.
Publish ==
  \E h \in handling :
    /\ h.value # NoSettings
    /\ live' = h.value
    /\ handling' = handling \ {h}
    /\ saving' = IF h.by = "page" /\ saving.step = "stored" THEN Answered(h.value, "ok") ELSE saving
    /\ UNCHANGED <<store, formVars, policy, load, statusVars, acts>>

\* Another operator's save.
OtherUpdate(v) ==
  /\ v # store
  /\ acts < MaxActs /\ acts' = acts + 1
  /\ store' = v
  /\ handling' = handling \cup {[by |-> "other", value |-> NoSettings]}
  /\ doubt' = doubt \cup {"unsure"}
                    \cup (IF Alone THEN {} ELSE {"crossed"})
                    \cup (IF handling # {} THEN {"overtaken"} ELSE {})
  /\ UNCHANGED <<live, form, known, secret, requestVars, statusVars>>

----------------------------------------------------------------------------
(* The form.                                                               *)

\* A field is edited.
Edit(p, v) ==
  /\ v # form[p]
  /\ acts < MaxActs /\ acts' = acts + 1
  /\ form' = [form EXCEPT ![p] = v]
  /\ doubt' = doubt \cup {"unsure"}
  /\ UNCHANGED <<serverVars, known, secret, requestVars, statusVars>>

TypeSecret(s) ==
  /\ secret # s
  /\ secret' = s
  /\ UNCHANGED <<serverVars, form, known, doubt, requestVars, statusVars, acts>>

\* loadSettings, when the password field is left: one request at a time.
Load ==
  /\ secret # "none" /\ load = None
  /\ load' = Sent(NoSettings, secret)
  /\ doubt' = Starting
  /\ UNCHANGED <<serverVars, form, known, secret, policy, saving, statusVars, acts>>

\* Mutant of Applied: the fields keep what they had.
AppliedToSummary(v) == known' = Merged(known, v) /\ UNCHANGED form

\* settingsValues and applySettingsToForm, which leaves the fields of a missing part.
Applied(v) == known' = Merged(known, v) /\ form' = Merged(form, v)

\* An answer that nothing has crossed settles the form.
Settled == IF "crossed" \in doubt THEN doubt \cup {"unsure"} ELSE doubt \cap {"overtaken"}

\* What was loaded before has precedence over the public policy.
PolicyArrives ==
  /\ policy.step = "answered"
  /\ policy' = None
  /\ Applied(Merged(policy.value, known))
  /\ doubt' = IF known = NoSettings THEN Settled ELSE doubt
  /\ UNCHANGED <<serverVars, secret, load, saving, statusVars, acts>>

LoadArrives ==
  /\ load.step = "answered"
  /\ load' = None
  /\ IF load.kind = "ok"
       THEN /\ Applied(load.value)
            /\ doubt' = Settled
            /\ UNCHANGED secret
       ELSE /\ secret' = "none"
            /\ UNCHANGED <<form, known, doubt>>
  /\ UNCHANGED <<serverVars, policy, saving, statusVars, acts>>

\* A request of settings fails; its answer is lost.
LoadFails ==
  /\ acts < MaxActs /\ acts' = acts + 1
  /\ \/ policy.step # "none" /\ policy' = None /\ UNCHANGED load
     \/ load.step # "none" /\ load' = None /\ UNCHANGED policy
  /\ UNCHANGED <<serverVars, form, known, secret, doubt, saving, statusVars>>

\* The form is submitted; what validateSettings finds wrong is not sent.
SubmitSettings ==
  /\ saving = None
  /\ form \in Valid
  /\ saving' = Sent(form, secret)
  /\ doubt' = Starting
  /\ UNCHANGED <<serverVars, form, known, secret, policy, load, statusVars, acts>>

\* refreshStatus, unless one is under way.
Refreshing ==
  IF refresh # NoRefresh THEN UNCHANGED <<refresh, available, label>>
  ELSE /\ refresh' = [health |-> "sent", metrics |-> "sent"]
       /\ available' = "checking" /\ label' = "checking"

\* The save is answered; the button comes back after the refresh that follows.
SaveArrives ==
  /\ saving.step = "answered"
  /\ CASE saving.kind = "ok" ->
            /\ Applied(saving.value)
            /\ doubt' = Settled
            /\ saving' = [step |-> "refreshing"]
            /\ Refreshing
            /\ UNCHANGED secret
       [] saving.kind = "refused" ->
            /\ secret' = "none" /\ saving' = None
            /\ UNCHANGED <<form, known, doubt, refresh, available, label>>
       [] OTHER ->
            /\ saving' = None
            /\ UNCHANGED <<form, known, secret, doubt, refresh, available, label>>
  /\ UNCHANGED <<serverVars, policy, load, timer, hidden, acts>>

\* The request or its answer is lost: the save may have been stored or not.
SaveFails ==
  /\ acts < MaxActs /\ acts' = acts + 1
  /\ saving.step \in {"sent", "stored", "answered"}
  /\ saving' = None
  /\ doubt' = doubt \cup {"unsure"}
  /\ UNCHANGED <<serverVars, form, known, secret, policy, load, statusVars>>

----------------------------------------------------------------------------
(* The status of the service.                                              *)

\* refreshHealth, with /health and /ready, renders both of them.
HealthArrives(ok) ==
  /\ refresh.health = "sent"
  /\ refresh' = [refresh EXCEPT !.health = "done"]
  /\ available' = IF ok THEN "available" ELSE "unavailable"
  /\ label' = IF ok THEN "ready" ELSE "unavailable"
  /\ UNCHANGED <<serverVars, formVars, requestVars, timer, hidden, acts>>

\* refreshMetrics, or its failure: the network's state is shown only of a service that is known
\* to be available.
MetricsArrive(watch) ==
  /\ refresh.metrics = "sent"
  /\ refresh' = [refresh EXCEPT !.metrics = "done"]
  /\ label' = IF watch /\ available = "available" THEN "watch" ELSE label
  /\ UNCHANGED <<serverVars, formVars, requestVars, available, timer, hidden, acts>>

\* Mutant of Refreshed: nothing is scheduled.
RefreshedOnce ==
  /\ refresh.health = "done" /\ refresh.metrics = "done"
  /\ refresh' = NoRefresh
  /\ saving' = IF saving.step = "refreshing" THEN None ELSE saving
  /\ UNCHANGED <<serverVars, formVars, policy, load, available, label, timer, hidden, acts>>

\* Both have settled: the next refresh is scheduled, and a save goes on.
Refreshed ==
  /\ refresh.health = "done" /\ refresh.metrics = "done"
  /\ refresh' = NoRefresh
  /\ timer' = ~hidden
  /\ saving' = IF saving.step = "refreshing" THEN None ELSE saving
  /\ UNCHANGED <<serverVars, formVars, policy, load, available, label, hidden, acts>>

\* The refresh timer, or the refresh button.
RefreshTimer ==
  /\ timer /\ timer' = FALSE
  /\ Refreshing
  /\ UNCHANGED <<serverVars, formVars, requestVars, hidden, acts>>

RefreshNow ==
  /\ refresh = NoRefresh
  /\ Refreshing
  /\ UNCHANGED <<serverVars, formVars, requestVars, timer, hidden, acts>>

HidePage ==
  /\ ~hidden /\ hidden' = TRUE /\ timer' = FALSE
  /\ UNCHANGED <<serverVars, formVars, requestVars, refresh, available, label, acts>>

ShowPage ==
  /\ hidden /\ hidden' = FALSE
  /\ Refreshing
  /\ UNCHANGED <<serverVars, formVars, requestVars, timer, acts>>

AdminNext ==
  \/ ServePolicy \/ ServeLoad \/ Update \/ Snapshot \/ Publish \/ (\E v \in Valid : OtherUpdate(v))
  \/ (\E p \in Parts, v \in Values : Edit(p, v)) \/ (\E s \in Secrets : TypeSecret(s))
  \/ Load \/ PolicyArrives \/ LoadArrives \/ LoadFails
  \/ SubmitSettings \/ SaveArrives \/ SaveFails
  \/ (\E ok \in BOOLEAN : HealthArrives(ok)) \/ (\E watch \in BOOLEAN : MetricsArrive(watch))
  \/ Refreshed \/ RefreshTimer \/ RefreshNow \/ HidePage \/ ShowPage

\* Requests are answered or fail, handlers run, timers fire.
AdminFairness ==
  /\ WF_adminVars((ServePolicy \/ PolicyArrives)) /\ WF_adminVars((ServeLoad \/ LoadArrives))
  /\ WF_adminVars((Update \/ SaveArrives)) /\ WF_adminVars(Snapshot) /\ WF_adminVars(Publish)
  /\ WF_adminVars((\E ok \in BOOLEAN : HealthArrives(ok)))
  /\ WF_adminVars((\E watch \in BOOLEAN : MetricsArrive(watch)))
  /\ WF_adminVars(Refreshed) /\ WF_adminVars(RefreshTimer)

AdminSpec == AdminInit /\ [][AdminNext]_adminVars /\ AdminFairness

----------------------------------------------------------------------------
(* Properties.                                                             *)

\* Type invariant.
AdminTypeOK ==
  /\ store \in Valid /\ live \in Valid
  /\ \A h \in handling : h.by \in {"page", "other"} /\ h.value \in Valid \cup {NoSettings}
  /\ form \in Settings /\ known \in [Parts -> Values \cup {Unknown}]
  /\ secret \in Secrets \cup {"none"}
  /\ policy.step \in {"none", "sent", "answered"} /\ load.step \in {"none", "sent", "answered"}
  /\ saving.step \in {"none", "sent", "stored", "answered", "refreshing"}
  /\ {refresh.health, refresh.metrics} \subseteq {"none", "sent", "done"}
  /\ available \in {"checking", "available", "unavailable"}
  /\ label \in {"checking", "ready", "watch", "unavailable"}
  /\ {timer, hidden} \subseteq BOOLEAN

\* Unless the operator edits, another one saves, an answer is lost or a save
\* crosses a load, each part of the form that was ever filled in shows what the
\* server has, and would save just that.  The connection methods are filled in by
\* the first answer to the password only.
FormIsServed ==
  doubt = {} /\ saving.step \in {"none", "refreshing"}
    => \A p \in Parts : known[p] # Unknown => form[p] = store[p] /\ known[p] = store[p]

\* A save leaves the connection methods alone if nobody edited them.  It does not: until
\* they are loaded, with the password, their boxes are checked as in admin.html, and
\* a save enables all of them again (admin.js:210, server.go:91-102).
SaveKeepsMethods ==
  saving.step = "sent" /\ doubt \subseteq {"crossed"} => saving.value["methods"] = store["methods"]

\* When no handler is at work, the meeting follows the settings that are stored,
\* unless another handler overtook it between its two steps.
MeetingFollowsStore == handling = {} /\ "overtaken" \notin doubt => live = store

\* A page that is visible has a refresh under way or one scheduled, so the status
\* it shows is never older than that; it tells of no state that health denies.
StatusIsKept ==
  /\ ~hidden => timer \/ refresh # NoRefresh
  /\ available = "unavailable" => label = "unavailable"
  /\ refresh = NoRefresh => label # "checking" /\ available # "checking"

\* The save button comes back.
SaveSettles == (saving # None) ~> (saving = None)
=============================================================================
